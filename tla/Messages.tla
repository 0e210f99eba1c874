------------------------------ MODULE Messages ------------------------------
(***************************************************************************)
(* The message files of kernel/message.c and the rings of waiting          *)
(* processes of kernel/fifo_process.c, composed with the process manager.  *)
(*                                                                         *)
(* A process that has to wait in psend or preceive is put in a ring, set   *)
(* to ENDORMI and abandons the processor in ordonnance; `pending' is the   *)
(* place in its code where it will go on.  It goes on when ordonnance      *)
(* gives it the processor again, before any interrupt can come in.         *)
(*                                                                         *)
(* A ring is known by a pointer to its tail, whose `next' is its head, and *)
(* has one heap node per waiting process: the node is named by the         *)
(* process, and its next is NULL when the node is not allocated.           *)
(***************************************************************************)
EXTENDS Processes

CONSTANTS
  NBQUEUE,      \* number of message files (10 in message.h)
  Msgs,         \* the messages processes send
  Counts,       \* the sizes passed to pcreate
  BootSize,     \* the size kernel_start passes to its pcreate (2 in start.c)
  Fids,         \* the files passed to the calls
  Senders,      \* the processes that call psend
  Receivers,    \* the processes that call preceive
  Creators,     \* the processes that call pcreate and pdelete
  Resetters,    \* the processes that call preset
  Counters,     \* the processes that call pcount
  NoMsg,        \* what an array cell holds before the first message
  CELLS,        \* 2^32 / sizeof(int), what pcreate's product can tell apart
  MaxElements   \* bound: nobody sends past it, or receives below its opposite

ASSUME MessagesAssumption ==
  /\ NBQUEUE \in Nat \ {0}
  /\ NoMsg \notin Msgs
  /\ Counts \subseteq Nat
  /\ BootSize \in Nat \ {0}
  /\ CELLS \in Nat \ {0}
  /\ MaxElements \in Nat
  /\ Senders \subseteq Slots \ {0} /\ Receivers \subseteq Slots \ {0}
  /\ Creators \subseteq Slots /\ Resetters \subseteq Slots
  /\ Counters \subseteq Slots

VARIABLES
  fifo_tab,   \* the message files
  next,       \* the nodes of the rings: who follows whom
  pending,    \* where a process waits: in psend, in preceive, or nowhere
  inbox       \* the last message each process received (its *message)

mvars == <<kernel, fifo_tab, next, pending, inbox>>

Files == 0 .. NBQUEUE - 1

NotPending == [op |-> "none", fid |-> NULL, msg |-> NoMsg]

EmptyFile == [used |-> FALSE, size |-> 0, nbElement |-> 0, down |-> 0,
              consum |-> NULL, prod |-> NULL, tab_messages |-> <<>>]

\* pcreate on an unused file; the array is indexed from 0.  Its size in
\* bytes, sizeof(int) * count, is computed on 32 bits.
FreshFile(count) ==
  [used |-> TRUE, size |-> count, nbElement |-> 0, down |-> 0,
   consum |-> NULL, prod |-> NULL,
   tab_messages |-> [i \in 0 .. (count % CELLS) - 1 |-> NoMsg]]

-----------------------------------------------------------------------------
(* fifo_process.c; nx is the function next, ring a pointer to a tail.      *)

\* Mutant: the tail is not linked to the new node.
AddNodeUnlinked(nx, ring, p) ==
  IF ring = NULL THEN [nx EXCEPT ![p] = p] ELSE [nx EXCEPT ![p] = nx[ring]]

AddNode(nx, ring, p) ==
  IF ring = NULL THEN [nx EXCEPT ![p] = p]
  ELSE [[nx EXCEPT ![p] = nx[ring]] EXCEPT ![ring] = p]

\* The process extract_process takes out: the head of the ring.
RingHead(nx, ring) == nx[ring]

\* Mutant: the ring keeps its last node, which has been freed.
RingRestKeepsLast(nx, ring) == ring

\* The tail extract_process returns.
RingRest(nx, ring) == IF nx[ring] = ring THEN NULL ELSE ring

\* The nodes after extract_process: the head is freed.
DropNode(nx, ring) ==
  IF nx[ring] = ring THEN [nx EXCEPT ![ring] = NULL]
  ELSE [[nx EXCEPT ![ring] = nx[nx[ring]]] EXCEPT ![RingHead(nx, ring)] = NULL]

\* The walk of a call over a ring touches a node that has been freed.
Dangling(nx, ring) ==
  ring # NULL /\ (nx[ring] = NULL \/ nx[nx[ring]] = NULL)

InRing(nx, ring, p) ==
  ring # NULL /\ OnChain([q \in Slots |-> IF q = ring THEN NULL ELSE nx[q]],
                         nx[ring], p)

-----------------------------------------------------------------------------
(* The calls.                                                              *)

\* The current process executes its program, and is not about to resume a
\* psend or preceive it waited in.
Free == Executing /\ pending[kernel.actif] = NotPending

Valid(fid) == fid \in Files /\ fifo_tab[fid].used

\* The first file that is not used.
Pcreate(count) ==
  /\ Free /\ kernel.actif \in Creators
  /\ count >= 1
  /\ \E fid \in Files :
       /\ ~ fifo_tab[fid].used
       /\ \A i \in 0 .. fid - 1 : fifo_tab[i].used
       /\ fifo_tab' = [fifo_tab EXCEPT ![fid] = FreshFile(count)]
  /\ UNCHANGED <<kernel, next, pending, inbox>>

\* An ordinary step of the current process that blocks on file fid.
Block(op, fid, msg, file, ring) ==
  /\ next' = AddNode(next, ring, kernel.actif)
  /\ fifo_tab' = [fifo_tab EXCEPT ![fid] = file]
  /\ pending' = [pending EXCEPT
                   ![kernel.actif] = [op |-> op, fid |-> fid, msg |-> msg]]
  /\ kernel' = ordonnance([kernel EXCEPT !.state[kernel.actif] = "ENDORMI"])
  /\ UNCHANGED inbox

\* A freed node is followed: anything may happen, the kernel is lost.
Wild == kernel' = Crash(kernel, "fault")
        /\ UNCHANGED <<fifo_tab, next, pending, inbox>>

\* Mutant: the head of the ring is freed and not woken.
WakeFromFrees(file, field) ==
  IF file[field] = NULL
  THEN [file |-> file, next |-> next, kernel |-> kernel]
  ELSE [file   |-> [file EXCEPT ![field] = RingRest(next, @)],
        next   |-> DropNode(next, file[field]),
        kernel |-> kernel]

\* After the message is stored or removed, the head of ring field is woken.
WakeFrom(file, field) ==
  IF file[field] = NULL
  THEN [file |-> file, next |-> next, kernel |-> kernel]
  ELSE [file   |-> [file EXCEPT ![field] = RingRest(next, @)],
        next   |-> DropNode(next, file[field]),
        kernel |-> insert_activable(kernel, RingHead(next, file[field]))]

\* The remainder of a division in C has the sign of the dividend.
CRemainder(a, b) == IF a >= 0 THEN a % b ELSE -((-a) % b)

\* Mutant: the array is used from its first cell, wherever the oldest is.
DepositFromZero(fid, msg) ==
  LET f == fifo_tab[fid]
      w == WakeFrom([f EXCEPT !.tab_messages[f.nbElement % f.size] = msg,
                              !.nbElement = @ + 1], "prod")
  IN  /\ pending' = [pending EXCEPT ![kernel.actif] = NotPending]
      /\ fifo_tab' = [fifo_tab EXCEPT ![fid] = w.file]
      /\ next' = w.next /\ kernel' = w.kernel
      /\ UNCHANGED inbox

\* message.c:107-118.
Deposit(fid, msg) ==
  LET f  == fifo_tab[fid]
      at == CRemainder(f.down + f.nbElement, f.size)
      w  == WakeFrom([f EXCEPT !.tab_messages[at] = msg, !.nbElement = @ + 1],
                     "prod")
  IN  /\ pending' = [pending EXCEPT ![kernel.actif] = NotPending]
      /\ IF at \notin DOMAIN f.tab_messages \/ Dangling(next, f.prod)
         THEN kernel' = Crash(kernel, "fault") /\ UNCHANGED <<fifo_tab, next>>
         ELSE /\ fifo_tab' = [fifo_tab EXCEPT ![fid] = w.file]
              /\ next' = w.next
              /\ kernel' = w.kernel
      /\ UNCHANGED inbox

\* Mutant: down is not taken back to the first cell.
WithdrawWithoutWrap(fid) ==
  LET f == fifo_tab[fid]
      w == WakeFrom([f EXCEPT !.nbElement = @ - 1, !.down = @ + 1], "consum")
  IN  /\ pending' = [pending EXCEPT ![kernel.actif] = NotPending]
      /\ inbox' = [inbox EXCEPT ![kernel.actif] = f.tab_messages[f.down]]
      /\ fifo_tab' = [fifo_tab EXCEPT ![fid] = w.file]
      /\ next' = w.next /\ kernel' = w.kernel

\* message.c:148-165.
Withdraw(fid) ==
  LET f == fifo_tab[fid]
      w == WakeFrom([f EXCEPT !.nbElement = @ - 1,
                              !.down = IF @ + 1 = f.size THEN 0 ELSE @ + 1],
                    "consum")
  IN  /\ pending' = [pending EXCEPT ![kernel.actif] = NotPending]
      /\ IF f.down \notin DOMAIN f.tab_messages \/ Dangling(next, f.consum)
         THEN kernel' = Crash(kernel, "fault") /\ UNCHANGED <<fifo_tab, next, inbox>>
         ELSE /\ inbox' = [inbox EXCEPT ![kernel.actif] = f.tab_messages[f.down]]
              /\ fifo_tab' = [fifo_tab EXCEPT ![fid] = w.file]
              /\ next' = w.next
              /\ kernel' = w.kernel

\* psend finds room.
PsendNow(fid, msg) ==
  /\ Free /\ kernel.actif \in Senders /\ Valid(fid)
  /\ fifo_tab[fid].nbElement # fifo_tab[fid].size
  /\ fifo_tab[fid].nbElement < MaxElements
  /\ Deposit(fid, msg)

\* psend finds the file full: the process joins consum.
PsendWaits(fid, msg) ==
  LET f == fifo_tab[fid]
  IN  /\ Free /\ kernel.actif \in Senders /\ Valid(fid)
      /\ f.nbElement = f.size
      /\ IF f.consum # NULL /\ next[f.consum] = NULL THEN Wild
         ELSE Block("send", fid, msg, [f EXCEPT !.consum = kernel.actif], f.consum)

\* preceive finds a message.
PreceiveNow(fid) ==
  /\ Free /\ kernel.actif \in Receivers /\ Valid(fid)
  /\ fifo_tab[fid].nbElement # 0
  /\ fifo_tab[fid].nbElement > -MaxElements
  /\ Withdraw(fid)

\* preceive finds the file empty: prod becomes the ring consum with the
\* process added to it (message.c:138); what prod was is forgotten.
PreceiveWaits(fid) ==
  LET f == fifo_tab[fid]
  IN  /\ Free /\ kernel.actif \in Receivers /\ Valid(fid)
      /\ f.nbElement = 0
      /\ IF f.consum # NULL /\ next[f.consum] = NULL THEN Wild
         ELSE Block("receive", fid, NoMsg, [f EXCEPT !.prod = kernel.actif], f.consum)

\* Back from ordonnance: nothing is looked at again.  The array of a file
\* that was deleted meanwhile has been freed.
Resumes(op) ==
  /\ kernel.fate = "run"
  /\ pending[kernel.actif].op = op

ResumeSend ==
  LET p == pending[kernel.actif]
  IN  Resumes("send") /\ (Deposit(p.fid, p.msg) \/ (~ Valid(p.fid) /\ Wild))

ResumeReceive ==
  LET p == pending[kernel.actif]
  IN  Resumes("receive") /\ (Withdraw(p.fid) \/ (~ Valid(p.fid) /\ Wild))

\* The processes of a list are made ready one after the other.
Woken(k, list) ==
  LET woken[n \in 0 .. PROCESS_TABLE_SIZE] ==
        IF n = 0 THEN k
        ELSE IF n \in DOMAIN list THEN insert_activable(woken[n-1], list[n])
        ELSE woken[n-1]
  IN  woken[PROCESS_TABLE_SIZE]

(***************************************************************************)
(* pdelete and preset wake the ring consum.  The loop over prod assigns    *)
(* what is left of it to consum, and so reads the freed head of prod again *)
(* at the next turn: the process is linked twice, or the link is garbage.  *)
(* The list shouldReceiveNegativeOne stays empty, because what add_process *)
(* returns is not kept.                                                    *)
(***************************************************************************)
WakeAll(fid, file) ==
  LET f       == fifo_tab[fid]
      members == [q \in Slots |-> IF q = f.consum THEN NULL ELSE next[q]]
      list    == IF f.consum = NULL THEN <<>> ELSE Chain(members, next[f.consum])
  IN  IF f.prod # NULL \/ Dangling(next, f.consum)
      THEN /\ \E fate \in {"panic", "fault"} : kernel' = Crash(kernel, fate)
           /\ UNCHANGED <<fifo_tab, next, pending, inbox>>
      ELSE /\ kernel' = Woken(kernel, list)
           /\ next' = [p \in Slots |->
                         IF \E n \in DOMAIN list : list[n] = p THEN NULL ELSE next[p]]
           /\ fifo_tab' = [fifo_tab EXCEPT ![fid] = [file EXCEPT !.consum = NULL]]
           /\ UNCHANGED <<pending, inbox>>

Pdelete(fid) ==
  /\ Free /\ kernel.actif \in Creators /\ Valid(fid)
  /\ WakeAll(fid, [fifo_tab[fid] EXCEPT !.used = FALSE])

Preset(fid) ==
  /\ Free /\ kernel.actif \in Resetters /\ Valid(fid)
  /\ WakeAll(fid, [fifo_tab[fid] EXCEPT !.down = 0, !.nbElement = 0])

\* What pcount leaves in *count, which held old, when no process waits.
PcountStores(fid, old) ==
  IF fifo_tab[fid].nbElement # 0 THEN fifo_tab[fid].nbElement ELSE old

\* getSize looks for the NULL that ends the ring, and a ring has none.
Pcount(fid) ==
  /\ Free /\ kernel.actif \in Counters /\ fid \in Files
  /\ fifo_tab[fid].consum # NULL \/ fifo_tab[fid].prod # NULL
  /\ kernel' = Crash(kernel, "hang")
  /\ UNCHANGED <<fifo_tab, next, pending, inbox>>

-----------------------------------------------------------------------------
\* The steps of the process manager leave the files alone; start gives the
\* slot a new stack, which forgets where its process waited.
ProcessStep ==
  /\ pending[kernel.actif] = NotPending
  /\ \/ /\ \/ \E pid \in KillPids : Kill(pid)
           \/ \E v \in RetVals : Exit(v)
           \/ ReturnFromMain
           \/ \E pid \in Pids : WaitpidEnter(pid, TRUE)
           \/ PollReaps
           \/ PollMovesOn
           \/ \E pid \in Pids, newprio \in NewPrios : Chprio(pid, newprio)
           \/ \E clock \in Clocks : DisciplinedSleep(clock)
           \/ Tick
        /\ UNCHANGED pending
     \/ /\ \E prio \in StartPrios : DisciplinedStart(prio)
        /\ pending' = IF StartReturns(kernel) \in Slots
                      THEN [pending EXCEPT ![StartReturns(kernel)] = NotPending]
                      ELSE pending
  /\ UNCHANGED <<fifo_tab, next, inbox>>

\* start.c: initialisation_fifo_tab, then pcreate(2).
MInit ==
  /\ Init
  /\ fifo_tab = [fid \in Files |-> IF fid = 0 THEN FreshFile(BootSize) ELSE EmptyFile]
  /\ next = [p \in Slots |-> NULL]
  /\ pending = [p \in Slots |-> NotPending]
  /\ inbox = [p \in Slots |-> NoMsg]

MNext ==
  \/ ProcessStep
  \/ \E count \in Counts : Pcreate(count)
  \/ \E fid \in Fids, msg \in Msgs : PsendNow(fid, msg) \/ PsendWaits(fid, msg)
  \/ \E fid \in Fids : PreceiveNow(fid) \/ PreceiveWaits(fid)
  \/ \E fid \in Fids : Pdelete(fid) \/ Preset(fid) \/ Pcount(fid)
  \/ ResumeSend
  \/ ResumeReceive

MSpec == MInit /\ [][MNext]_mvars

-----------------------------------------------------------------------------
(* Every field keeps its type.                                             *)
MTypeOK ==
  /\ kernel \in Kernels
  /\ \A fid \in Files :
       LET f == fifo_tab[fid]
       IN  /\ f.used \in BOOLEAN /\ f.size \in Nat /\ f.nbElement \in Int
           /\ f.used => f.down \in 0 .. f.size - 1
           /\ f.consum \in Pointers /\ f.prod \in Pointers
           /\ f.tab_messages \in [0 .. (f.size % CELLS) - 1 -> Msgs \cup {NoMsg}]
  /\ next \in [Slots -> Pointers]
  /\ \A p \in Slots : pending[p].op \in {"none", "send", "receive"}
  /\ inbox \in [Slots -> Msgs \cup {NoMsg}]

(* A process that sleeps in psend or preceive is in the ring of its file   *)
(* that a later preceive or psend wakes: it can always be found again.     *)
BlockedIsQueued ==
  kernel.fate = "run" =>
    \A p \in Slots :
      pending[p] # NotPending /\ kernel.state[p] = "ENDORMI" =>
        LET f == fifo_tab[pending[p].fid]
        IN  IF pending[p].op = "send" THEN InRing(next, f.consum, p)
            ELSE InRing(next, f.prod, p)

\* The processes that sleep in psend, or in preceive, on a file.
Waiting(fid, op) ==
  {p \in Slots : /\ pending[p].op = op /\ pending[p].fid = fid
                 /\ kernel.state[p] = "ENDORMI"}

\* The ring is NULL when nobody waits, else its tail and those met on a walk
\* from its head to it are those who wait.
RingHolds(ring, waiting) ==
  /\ ring \in waiting \cup {NULL}
  /\ \A p \in Slots : InRing(next, ring, p) <=> p \in waiting

\* The machine runs, consum has the senders that wait and prod the receivers,
\* and nobody else has a node.
RingsSound ==
  /\ kernel.fate = "run"
  /\ \A fid \in Files :
       /\ RingHolds(fifo_tab[fid].consum, Waiting(fid, "send"))
       /\ RingHolds(fifo_tab[fid].prod, Waiting(fid, "receive"))
  /\ \A p \in Slots :
       next[p] # NULL => \E fid \in Files : p \in Waiting(fid, "send")
                                                \cup Waiting(fid, "receive")

\* preceive on an empty file where somebody waits already (message.c:138).
JoinsTheSenders ==
  \E fid \in Fids : /\ PreceiveWaits(fid) /\ kernel'.fate = "run"
                    /\ Waiting(fid, "send") \cup Waiting(fid, "receive") # {}

\* pdelete or preset of a file where a receiver waits (message.c:72, 190).
ReadsAFreedReceiver ==
  \E fid \in Fids : /\ Pdelete(fid) \/ Preset(fid)
                    /\ Waiting(fid, "receive") # {}
                    /\ kernel'.fate \in {"panic", "fault"}

\* pcount of a file where somebody waits (fifo_process.c:85).
CountsARing ==
  \E fid \in Fids : /\ Pcount(fid) /\ kernel'.fate = "hang"
                    /\ Waiting(fid, "send") \cup Waiting(fid, "receive") # {}

\* psend or preceive goes on with a file that was deleted while it waited.
GoesOnWithADeletedFile ==
  /\ ResumeSend \/ ResumeReceive
  /\ ~ Valid(pending[kernel.actif].fid) /\ kernel'.fate = "fault"

\* psend stores before the array of a file from which a receiver that came
\* back too late has taken more than there was (message.c:107).
StoresBeforeTheArray ==
  \E fid \in Files : /\ fifo_tab[fid].down + fifo_tab[fid].nbElement < 0
                     /\ \/ ResumeSend /\ pending[kernel.actif].fid = fid
                        \/ \E msg \in Msgs : PsendNow(fid, msg)
                     /\ kernel'.fate = "fault"

(* While the rings are sound, every process that sleeps in psend or        *)
(* preceive is in the ring that will wake it, once, and nothing freed is   *)
(* linked.  Whatever is sent, received, killed, ended, waited for, reset   *)
(* or deleted, and in whatever order those that were woken go on, sound    *)
(* rings stay sound and the machine runs on, but for five steps; each does *)
(* the harm named there and no other.  So a forgotten process, a dangling  *)
(* ring, a hang of pcount or a stray pointer always has one of them behind *)
(* it (message.c:72, 107, 138, 190, fifo_process.c:85).                    *)
RingsBreakForACause ==
  [][RingsSound =>
       \/ RingsSound'
       \/ JoinsTheSenders \/ ReadsAFreedReceiver \/ CountsARing
       \/ GoesOnWithADeletedFile \/ StoresBeforeTheArray]_mvars

\* The messages of file 0, oldest first, as its users see them.
Contents ==
  LET f == fifo_tab[0]
  IN  [i \in 1 .. f.nbElement |-> f.tab_messages[(f.down + i - 1) % f.size]]

Channel == INSTANCE BoundedChannel WITH
  Size <- BootSize, Readers <- Slots, channel <- Contents

(* File 0 is a FIFO of BootSize messages: none is lost, duplicated,        *)
(* invented or overtaken (psend and preceive of message.c).                *)
IsAChannel == Channel!ChannelSpec

\* As in Processes; a process that is given the processor goes on at once.
MFairness ==
  WF_mvars(ProcessStep /\ Tick) /\ WF_mvars(ResumeSend) /\ WF_mvars(ResumeReceive)

MFairSpec == MSpec /\ MFairness

\* A process of higher priority is there, which may keep the processor.
Outranked(p) ==
  \E q \in Slots : kernel.prio[q] > kernel.prio[p] /\ kernel.state[q] # "MORT"

(* A receiver that waits goes on once a message is there, and a sender     *)
(* once there is room, unless it has too low a priority ever to run: the   *)
(* wake-up is not lost (message.c:111, :158).                              *)
WaitersGoOn ==
  /\ \A p \in Slots : (pending[p].op = "receive" /\ fifo_tab[0].nbElement > 0)
                        ~> (pending[p].op # "receive" \/ Outranked(p))
  /\ \A p \in Slots : (pending[p].op = "send" /\ fifo_tab[0].nbElement < BootSize)
                        ~> (pending[p].op # "send" \/ Outranked(p))
=============================================================================
