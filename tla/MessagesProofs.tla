--------------------------- MODULE MessagesProofs ---------------------------
(***************************************************************************)
(* Theorems about the message files, for every number of files, senders    *)
(* and receivers and every size: the files, the rings and the messages     *)
(* keep their types, the process manager below them stays sound whatever   *)
(* is sent, received, reset, deleted or killed, and the file that          *)
(* kernel_start makes implements a bounded FIFO while it is neither        *)
(* filled beyond its size nor reset.                                       *)
(***************************************************************************)
EXTENDS Messages, ProcessesProofs

-----------------------------------------------------------------------------
(***************************************************************************)
(* The inductive invariant.  MTypeOK is not inductive: a process that      *)
(* resumes uses the file and the message it kept in pending, the down of   *)
(* a file that was deleted goes on from any cell, and the process manager  *)
(* needs its own invariant.                                                *)
(***************************************************************************)
Arrays == UNION {[0 .. n - 1 -> Msgs \cup {NoMsg}] : n \in Nat}

FileRecords ==
  [used : BOOLEAN, size : Nat, nbElement : Int, down : Nat,
   consum : Pointers, prod : Pointers, tab_messages : Arrays]

FileSound(f) ==
  /\ f \in FileRecords
  /\ f.tab_messages \in [0 .. (f.size % CELLS) - 1 -> Msgs \cup {NoMsg}]
  /\ f.used => f.down < f.size

Waits ==
  {NotPending} \cup [op : {"send"}, fid : Files, msg : Msgs]
               \cup [op : {"receive"}, fid : Files, msg : {NoMsg}]

MInv ==
  /\ Sound(kernel)
  /\ fifo_tab = [fid \in Files |-> fifo_tab[fid]]
  /\ \A fid \in Files : FileSound(fifo_tab[fid])
  /\ next \in [Slots -> Pointers]
  /\ pending \in [Slots -> Waits]
  /\ inbox \in [Slots -> Msgs \cup {NoMsg}]

(* The inductive invariant gives the types.                                *)
LEMMA MInvTypes == MInv => MTypeOK
<1> SUFFICES ASSUME MInv PROVE MTypeOK
  OBVIOUS
<1>1. ASSUME NEW fid \in Files
      PROVE  LET f == fifo_tab[fid] IN
             /\ f.used \in BOOLEAN /\ f.size \in Nat /\ f.nbElement \in Int
             /\ f.used => f.down \in 0 .. f.size - 1
             /\ f.consum \in Pointers /\ f.prod \in Pointers
             /\ f.tab_messages \in [0 .. (f.size % CELLS) - 1 -> Msgs \cup {NoMsg}]
  <2>1. FileSound(fifo_tab[fid])
    BY DEF MInv
  <2> QED  BY <2>1 DEF FileSound, FileRecords
<1>2. \A p \in Slots : pending[p].op \in {"none", "send", "receive"}
  <2> SUFFICES ASSUME NEW p \in Slots
               PROVE  pending[p].op \in {"none", "send", "receive"}
    OBVIOUS
  <2>1. pending[p] \in Waits
    BY DEF MInv
  <2> QED  BY <2>1 DEF Waits, NotPending
<1> QED  BY <1>1, <1>2 DEF MInv, MTypeOK, Sound

-----------------------------------------------------------------------------
(* The files.                                                              *)

(* A size modulo the cells that the product can tell apart.                *)
LEMMA CellsLeft ==
  ASSUME NEW n \in Nat
  PROVE  n % CELLS \in Nat /\ n % CELLS <= n
BY MessagesAssumption

(* An array of messages is one of the arrays, whatever its length.         *)
LEMMA ArrayOf ==
  ASSUME NEW n \in Nat, NEW a \in [0 .. n - 1 -> Msgs \cup {NoMsg}]
  PROVE  a \in Arrays
BY DEF Arrays

(* pcreate makes a sound file.                                             *)
LEMMA FreshFileSound ==
  ASSUME NEW count \in Nat, count >= 1
  PROVE  FileSound(FreshFile(count))
<1> DEFINE f == FreshFile(count)
           a == [i \in 0 .. (count % CELLS) - 1 |-> NoMsg]
<1>1. a \in [0 .. (count % CELLS) - 1 -> Msgs \cup {NoMsg}] /\ a \in Arrays
  <2>1. a \in [0 .. (count % CELLS) - 1 -> Msgs \cup {NoMsg}]
    OBVIOUS
  <2> HIDE DEF a
  <2> QED  BY <2>1, ArrayOf, CellsLeft
<1> HIDE DEF a
<1>2. f = [used |-> TRUE, size |-> count, nbElement |-> 0, down |-> 0,
           consum |-> NULL, prod |-> NULL, tab_messages |-> a]
  BY DEF FreshFile, a
<1> HIDE DEF f
<1>3. f \in FileRecords
  BY <1>1, <1>2 DEF FileRecords, Pointers
<1>4. f.tab_messages = a /\ f.size = count /\ f.down = 0
  BY <1>2
<1> QED  BY <1>1, <1>3, <1>4 DEF FileSound, f

(* The files of initialisation_fifo_tab are sound.                         *)
LEMMA EmptyFileSound == FileSound(EmptyFile)
<1>1. 0 % CELLS = 0
  BY MessagesAssumption
<1>2. <<>> \in [0 .. 0 - 1 -> Msgs \cup {NoMsg}]
  OBVIOUS
<1>3. <<>> \in Arrays
  BY <1>2, ArrayOf
<1>4. EmptyFile \in FileRecords
  BY <1>3 DEF EmptyFile, FileRecords, Pointers
<1>5. EmptyFile.tab_messages = <<>> /\ EmptyFile.size = 0 /\ EmptyFile.used = FALSE
  BY DEF EmptyFile
<1> QED  BY <1>1, <1>2, <1>4, <1>5 DEF FileSound

(* The boot leaves sound files.                                            *)
LEMMA MInitSound == MInit => MInv
<1> SUFFICES ASSUME MInit PROVE MInv
  OBVIOUS
<1>1. Sound(kernel)
  BY InitSound DEF MInit, IInv
<1>2. ASSUME NEW fid \in Files PROVE FileSound(fifo_tab[fid])
  <2>1. BootSize \in Nat /\ BootSize >= 1
    BY MessagesAssumption
  <2>2. fifo_tab[fid] = IF fid = 0 THEN FreshFile(BootSize) ELSE EmptyFile
    BY DEF MInit
  <2> QED  BY <2>1, <2>2, FreshFileSound, EmptyFileSound
<1>3. fifo_tab = [fid \in Files |-> fifo_tab[fid]]
  BY DEF MInit
<1>4. next \in [Slots -> Pointers]
  BY DEF MInit, Pointers
<1>5. pending \in [Slots -> Waits]
  BY DEF MInit, Waits
<1>6. inbox \in [Slots -> Msgs \cup {NoMsg}]
  BY DEF MInit
<1> QED  BY <1>1, <1>2, <1>3, <1>4, <1>5, <1>6 DEF MInv

-----------------------------------------------------------------------------
(* The rings.                                                              *)

(* A new node leaves the links typed: the tail it comes after has a head.  *)
LEMMA AddNodeType ==
  ASSUME NEW nx \in [Slots -> Pointers], NEW ring \in Pointers, NEW p \in Slots
  PROVE  AddNode(nx, ring, p) \in [Slots -> Pointers]
<1>1. CASE ring = NULL
  BY <1>1 DEF AddNode, Pointers
<1>2. CASE ring # NULL
  <2>1. ring \in Slots /\ nx[ring] \in Pointers /\ p \in Pointers
    BY <1>2 DEF Pointers
  <2> QED  BY <1>2, <2>1 DEF AddNode
<1> QED  BY <1>1, <1>2

(* A pointer to a ring may change: the rest of the file is not looked at.  *)
LEMMA RingFieldSound ==
  ASSUME NEW f, FileSound(f), NEW ring \in Pointers
  PROVE  /\ FileSound([f EXCEPT !.consum = ring])
         /\ FileSound([f EXCEPT !.prod = ring])
<1>1. f \in FileRecords
  BY DEF FileSound
<1> DEFINE c == [f EXCEPT !.consum = ring]
           p == [f EXCEPT !.prod = ring]
<1>2. /\ c \in FileRecords /\ c.tab_messages = f.tab_messages
      /\ c.size = f.size /\ c.down = f.down /\ c.used = f.used
  BY <1>1 DEF FileRecords
<1>3. /\ p \in FileRecords /\ p.tab_messages = f.tab_messages
      /\ p.size = f.size /\ p.down = f.down /\ p.used = f.used
  BY <1>1 DEF FileRecords
<1> HIDE DEF c, p
<1>4. FileSound(c) /\ FileSound(p)
  BY <1>2, <1>3 DEF FileSound
<1> QED  BY <1>4 DEF c, p

(* The head of a ring that is woken has not been freed.                    *)
LEMMA WakeFromSound ==
  ASSUME MInv, NEW f, FileSound(f), NEW field \in {"prod", "consum"},
         ~ Dangling(next, f[field])
  PROVE  LET w == WakeFrom(f, field) IN
         /\ FileSound(w.file)
         /\ w.next \in [Slots -> Pointers]
         /\ Sound(w.kernel)
<1>1. next \in [Slots -> Pointers] /\ Sound(kernel) /\ f[field] \in Pointers
  BY DEF MInv, FileSound, FileRecords
<1>2. CASE f[field] = NULL
  BY <1>1, <1>2 DEF WakeFrom
<1>3. CASE f[field] # NULL
  <2> DEFINE ring == f[field]
             file == [f EXCEPT ![field] = RingRest(next, @)]
             rest == RingRest(next, ring)
             woken == insert_activable(kernel, RingHead(next, ring))
  <2>1. ring \in Slots /\ next[ring] \in Slots /\ next[next[ring]] \in Slots
    BY <1>1, <1>3 DEF Dangling, Pointers
  <2>2. WakeFrom(f, field) = [file |-> file, next |-> DropNode(next, ring), kernel |-> woken]
    BY <1>3 DEF WakeFrom
  <2>3. rest \in Pointers
    BY <2>1 DEF RingRest, Pointers
  <2>4. file = [f EXCEPT !.prod = rest] \/ file = [f EXCEPT !.consum = rest]
    OBVIOUS
  <2>5. FileSound(file)
    <3> HIDE DEF file, rest
    <3> QED  BY <2>3, <2>4, RingFieldSound
  <2>6. DropNode(next, ring) \in [Slots -> Pointers]
    <3> HIDE DEF ring
    <3> QED  BY <1>1, <2>1 DEF DropNode, RingHead, Pointers
  <2>7. Sound(woken)
    <3> HIDE DEF ring
    <3> QED  BY <1>1, <2>1, InsertActivableSound DEF RingHead
  <2> HIDE DEF file, ring, woken
  <2> QED  BY <2>2, <2>5, <2>6, <2>7
<1> QED  BY <1>2, <1>3

(* The processes of a list are made ready one after the other: the         *)
(* recursive function of Woken exists, and each of its kernels is sound.   *)
LEMMA WokenSound ==
  ASSUME NEW k, Sound(k), NEW list, \A n \in DOMAIN list : list[n] \in Slots
  PROVE  Sound(Woken(k, list))
<1> DEFINE D == 0 .. PROCESS_TABLE_SIZE
           Roused(j, n) == IF n \in DOMAIN list THEN insert_activable(j, list[n]) ELSE j
           Step(w) == [n \in D |-> IF n = 0 THEN k ELSE
                         IF n \in DOMAIN list THEN insert_activable(w[n-1], list[n])
                         ELSE w[n-1]]
           g == CHOOSE w : w = Step(w)
           Wakes(w, n) == \A m \in 0 .. n :
             /\ Sound(w[m])
             /\ w[m] = IF m = 0 THEN k ELSE Roused(w[m-1], m)
           Bad == {n \in D : ~ \E w \in [D -> Kernels] : Wakes(w, n)}
<1>0. PROCESS_TABLE_SIZE \in Nat /\ D \subseteq Nat /\ k \in Kernels
      /\ 0 \in D /\ PROCESS_TABLE_SIZE \in D
  BY TableAssumption DEF Sound
<1>a. ASSUME NEW j, Sound(j), NEW n PROVE Sound(Roused(j, n)) /\ Roused(j, n) \in Kernels
  <2>1. Sound(Roused(j, n))
    BY <1>a, InsertActivableSound
  <2> HIDE DEF Roused
  <2> QED  BY <2>1 DEF Sound
<1>b. \A w : Step(w) = [n \in D |-> IF n = 0 THEN k ELSE Roused(w[n-1], n)]
  OBVIOUS
<1> HIDE DEF Roused
<1>1. Bad = {}
  <2> SUFFICES ASSUME Bad # {} PROVE FALSE
    OBVIOUS
  <2> DEFINE b == Min(Bad)
  <2>1. b \in Bad /\ \A y \in Bad : b <= y
    <3>1. Bad \subseteq Nat
      BY <1>0
    <3> HIDE DEF Bad
    <3> QED  BY <3>1, MinExists
  <2> HIDE DEF b
  <2>2. b \in D
    BY <2>1
  <2>3. CASE b = 0
    <3> DEFINE w == [m \in D |-> k]
    <3>1. w \in [D -> Kernels] /\ Wakes(w, 0)
      BY <1>0
    <3> HIDE DEF Wakes, w
    <3> QED  BY <2>1, <2>3, <3>1
  <2>4. CASE b # 0
    <3>1. b - 1 \in D /\ ~ (b <= b - 1) /\ b \in Nat
      BY <1>0, <2>2, <2>4
    <3>2. b - 1 \notin Bad
      BY <2>1, <3>1
    <3>3. PICK w \in [D -> Kernels] : Wakes(w, b - 1)
      <4> HIDE DEF Wakes
      <4> QED  BY <3>1, <3>2
    <3> DEFINE x == Roused(w[b-1], b)
               z == [w EXCEPT ![b] = x]
    <3>4. x \in Kernels /\ Sound(x)
      <4>1. Sound(w[b-1])
        BY <3>1, <3>3
      <4> QED  BY <4>1, <1>a
    <3> HIDE DEF x
    <3>5. z \in [D -> Kernels]
      BY <3>4
    <3>6. ASSUME NEW m \in 0 .. b
          PROVE  Sound(z[m]) /\ z[m] = IF m = 0 THEN k ELSE Roused(z[m-1], m)
      <4>1. m \in D /\ (m # 0 => m - 1 \in D /\ m - 1 # b)
        BY <1>0, <2>2, <3>1
      <4>2. CASE m = b
        <5>1. z[m] = x /\ z[m-1] = w[b-1] /\ m # 0
          BY <2>4, <3>3, <4>1, <4>2
        <5> QED  BY <3>4, <4>2, <5>1 DEF x
      <4>3. CASE m # b
        <5>1. m \in 0 .. b - 1
          BY <3>1, <4>3
        <5>2. Sound(w[m]) /\ w[m] = IF m = 0 THEN k ELSE Roused(w[m-1], m)
          BY <3>3, <5>1
        <5>3. z[m] = w[m] /\ (m # 0 => z[m-1] = w[m-1])
          BY <3>3, <4>1, <4>3
        <5> QED  BY <5>2, <5>3
      <4> QED  BY <4>2, <4>3
    <3> HIDE DEF z
    <3>7. Wakes(z, b)
      BY <3>6
    <3> HIDE DEF Wakes
    <3> QED  BY <2>1, <3>5, <3>7
  <2> QED  BY <2>3, <2>4
<1>2. PICK w \in [D -> Kernels] : Wakes(w, PROCESS_TABLE_SIZE)
  <2> HIDE DEF Wakes, D
  <2> QED  BY <1>0, <1>1
<1>3. w = Step(w)
  <2>1. \A m \in D : w[m] = Step(w)[m]
    BY <1>2, <1>b
  <2>2. w = [m \in D |-> w[m]] /\ Step(w) = [m \in D |-> Step(w)[m]]
    BY <1>2
  <2> HIDE DEF Step
  <2> QED  BY <2>1, <2>2
<1>4. g = Step(g)
  <2> HIDE DEF Step
  <2> QED  BY <1>3
<1>5. Woken(k, list) = g[PROCESS_TABLE_SIZE]
  BY DEF Woken
<1> HIDE DEF g
<1>6. \A m \in D : g[m] = w[m]
  <2> DEFINE Off == {m \in D : g[m] # w[m]}
  <2> SUFFICES ASSUME Off # {} PROVE FALSE
    OBVIOUS
  <2> DEFINE m == Min(Off)
  <2>1. m \in Off /\ \A y \in Off : m <= y
    <3>1. Off \subseteq Nat
      BY <1>0
    <3> HIDE DEF Off
    <3> QED  BY <3>1, MinExists
  <2> HIDE DEF m
  <2>2. m \in D /\ g[m] # w[m]
    BY <2>1
  <2>3. g[m] = IF m = 0 THEN k ELSE Roused(g[m-1], m)
    BY <1>4, <1>b, <2>2, ZenonT(40)
  <2>4. w[m] = IF m = 0 THEN k ELSE Roused(w[m-1], m)
    BY <1>2, <2>2
  <2>5. m # 0
    BY <2>2, <2>3, <2>4
  <2>6. m - 1 \in D /\ ~ (m <= m - 1)
    BY <1>0, <2>2, <2>5
  <2>7. g[m-1] = w[m-1]
    BY <2>1, <2>6
  <2> QED  BY <2>2, <2>3, <2>4, <2>7
<1>7. Sound(w[PROCESS_TABLE_SIZE])
  BY <1>0, <1>2
<1> QED  BY <1>0, <1>5, <1>6, <1>7

-----------------------------------------------------------------------------
(* The calls.                                                              *)

(* A file is replaced by a sound one.                                      *)
LEMMA FileReplaced ==
  ASSUME MInv, NEW fid \in Files, NEW f, FileSound(f),
         fifo_tab' = [fifo_tab EXCEPT ![fid] = f]
  PROVE  /\ fifo_tab' = [x \in Files |-> fifo_tab'[x]]
         /\ \A x \in Files : FileSound(fifo_tab'[x])
<1>1. fifo_tab = [x \in Files |-> fifo_tab[x]] /\ \A x \in Files : FileSound(fifo_tab[x])
  BY DEF MInv
<1>2. fifo_tab' = [x \in Files |-> IF x = fid THEN f ELSE fifo_tab[x]]
  BY <1>1
<1> QED  BY <1>1, <1>2

(* A halted machine keeps its files.                                       *)
LEMMA HaltedSound ==
  ASSUME MInv, NEW f \in {"panic", "hang", "fault"}, kernel' = Crash(kernel, f),
         UNCHANGED <<fifo_tab, next, pending, inbox>>
  PROVE  MInv'
<1>1. Sound(kernel')
  BY CrashSound DEF MInv
<1> QED  BY <1>1 DEF MInv

(* pcreate.                                                                *)
LEMMA PcreateSound ==
  ASSUME MInv, NEW count \in Counts, Pcreate(count)
  PROVE  MInv'
<1>1. count \in Nat /\ count >= 1
  BY MessagesAssumption DEF Pcreate
<1>2. PICK fid \in Files : fifo_tab' = [fifo_tab EXCEPT ![fid] = FreshFile(count)]
  BY DEF Pcreate
<1>3. FileSound(FreshFile(count))
  BY <1>1, FreshFileSound
<1>4. /\ fifo_tab' = [x \in Files |-> fifo_tab'[x]]
      /\ \A x \in Files : FileSound(fifo_tab'[x])
  BY <1>2, <1>3, FileReplaced
<1> QED  BY <1>4 DEF MInv, Pcreate

(* A process that falls asleep outside the sleeping list keeps the memory  *)
(* of the process manager sound, unless it is idle.                        *)
LEMMA AsleepSound ==
  ASSUME NEW k, Sound(k), k.actif # 0
  PROVE  Sound([k EXCEPT !.state[k.actif] = "ENDORMI"])
<1> DEFINE j == [k EXCEPT !.state[k.actif] = "ENDORMI"]
<1>1. /\ k \in Kernels /\ k.actif \in Slots /\ k.state \in [Slots -> ProcessStates]
      /\ 0 \in Slots
  BY TableAssumption DEF Sound, Kernels, Slots
<1>2. /\ j \in Kernels /\ SameFamily(j, k) /\ j.actif = k.actif /\ j.fate = k.fate
      /\ j.head_queue = k.head_queue
      /\ j.state = [k.state EXCEPT ![k.actif] = "ENDORMI"]
  BY <1>1 DEF Kernels, ProcessStates, SameFamily
<1> HIDE DEF j
<1>3. IdleHeld(j)
  BY <1>1, <1>2 DEF IdleHeld, InQueue, Sound
<1>4. Sound(j)
  BY <1>2, <1>3, FamilyKeepsWaiters DEF Sound
<1> QED  BY <1>4 DEF j

(* psend and preceive that have to wait.                                   *)
LEMMA BlockSound ==
  ASSUME MInv, NEW fid \in Files, NEW op, NEW msg,
         [op |-> op, fid |-> fid, msg |-> msg] \in Waits,
         NEW f, FileSound(f), NEW ring \in Pointers,
         kernel.actif # 0, Block(op, fid, msg, f, ring)
  PROVE  MInv'
<1>1. kernel.actif \in Slots /\ Sound(kernel)
  BY DEF MInv, Sound, Kernels
<1>2. next' \in [Slots -> Pointers]
  BY <1>1, AddNodeType DEF Block, MInv
<1>3. /\ fifo_tab' = [x \in Files |-> fifo_tab'[x]]
      /\ \A x \in Files : FileSound(fifo_tab'[x])
  <2>1. fifo_tab' = [fifo_tab EXCEPT ![fid] = f]
    BY DEF Block
  <2> QED  BY <2>1, FileReplaced
<1>4. Sound(kernel')
  BY <1>1, AsleepSound, OrdonnanceSound DEF Block
<1>5. pending' \in [Slots -> Waits]
  BY <1>1 DEF Block, MInv
<1>6. inbox' \in [Slots -> Msgs \cup {NoMsg}]
  BY DEF Block, MInv
<1> QED  BY <1>2, <1>3, <1>4, <1>5, <1>6 DEF MInv

(* A message is stored: the cell is one of the array.                      *)
LEMMA StoredSound ==
  ASSUME NEW f, FileSound(f), NEW msg \in Msgs, NEW at \in DOMAIN f.tab_messages
  PROVE  FileSound([f EXCEPT !.tab_messages[at] = msg, !.nbElement = @ + 1])
<1> DEFINE j == [f EXCEPT !.tab_messages[at] = msg, !.nbElement = @ + 1]
           a == [f.tab_messages EXCEPT ![at] = msg]
<1>1. f \in FileRecords /\ f.size \in Nat /\ f.nbElement + 1 \in Int
  BY DEF FileSound, FileRecords
<1>2. f.tab_messages \in [0 .. (f.size % CELLS) - 1 -> Msgs \cup {NoMsg}]
  BY DEF FileSound
<1>3. a \in [0 .. (f.size % CELLS) - 1 -> Msgs \cup {NoMsg}]
  BY <1>2
<1>4. j = [f EXCEPT !.tab_messages = a, !.nbElement = @ + 1]
  BY <1>1 DEF FileRecords
<1> HIDE DEF a, j
<1>5. a \in Arrays
  BY <1>1, <1>3, ArrayOf, CellsLeft
<1>6. /\ j \in FileRecords /\ j.tab_messages = a /\ j.size = f.size
      /\ j.down = f.down /\ j.used = f.used
  BY <1>1, <1>4, <1>5 DEF FileRecords
<1>7. FileSound(j)
  BY <1>3, <1>6 DEF FileSound
<1> QED  BY <1>7 DEF j

(* A message is removed: down goes on to a cell, or back to the first.     *)
LEMMA RemovedSound ==
  ASSUME NEW f, FileSound(f), f.down \in DOMAIN f.tab_messages
  PROVE  FileSound([f EXCEPT !.nbElement = @ - 1,
                             !.down = IF @ + 1 = f.size THEN 0 ELSE @ + 1])
<1> DEFINE d == IF f.down + 1 = f.size THEN 0 ELSE f.down + 1
           j == [f EXCEPT !.nbElement = @ - 1, !.down = d]
<1>1. f \in FileRecords /\ f.size \in Nat /\ f.nbElement - 1 \in Int /\ f.down \in Nat
  BY DEF FileSound, FileRecords
<1>2. f.down \in 0 .. (f.size % CELLS) - 1
  BY DEF FileSound
<1>3. f.down < f.size
  BY <1>1, <1>2, CellsLeft
<1>4. d \in Nat /\ d < f.size
  BY <1>1, <1>3
<1> HIDE DEF d
<1>5. /\ j \in FileRecords /\ j.tab_messages = f.tab_messages /\ j.size = f.size
      /\ j.down = d /\ j.used = f.used
  BY <1>1, <1>4 DEF FileRecords
<1> HIDE DEF j
<1>6. FileSound(j)
  BY <1>4, <1>5 DEF FileSound
<1>7. j = [f EXCEPT !.nbElement = @ - 1,
                    !.down = IF @ + 1 = f.size THEN 0 ELSE @ + 1]
  BY <1>1 DEF j, d, FileRecords
<1> QED  BY <1>6, <1>7

(* What is done once there is room.                                        *)
LEMMA DepositSound ==
  ASSUME MInv, NEW fid \in Files, NEW msg \in Msgs, Deposit(fid, msg)
  PROVE  MInv'
<1> DEFINE f  == fifo_tab[fid]
           at == CRemainder(f.down + f.nbElement, f.size)
           s  == [f EXCEPT !.tab_messages[at] = msg, !.nbElement = @ + 1]
           w  == WakeFrom(s, "prod")
           Lost == at \notin DOMAIN f.tab_messages \/ Dangling(next, f.prod)
<1>1. FileSound(f) /\ f \in FileRecords /\ Sound(kernel) /\ kernel.actif \in Slots
  BY DEF MInv, FileSound, Sound, Kernels
<1>2. pending' \in [Slots -> Waits] /\ inbox' \in [Slots -> Msgs \cup {NoMsg}]
  BY <1>1 DEF Deposit, MInv, Waits
<1>3. /\ Lost => kernel' = Crash(kernel, "fault") /\ UNCHANGED <<fifo_tab, next>>
      /\ ~ Lost => /\ fifo_tab' = [fifo_tab EXCEPT ![fid] = w.file]
                   /\ next' = w.next /\ kernel' = w.kernel
  BY DEF Deposit
<1>4. s.prod = f.prod
  BY <1>1 DEF FileRecords
<1> HIDE DEF at
<1>5. CASE Lost
  <2>1. Sound(kernel')
    BY <1>1, <1>3, <1>5, CrashSound
  <2> QED  BY <1>2, <1>3, <1>5, <2>1 DEF MInv
<1>6. CASE ~ Lost
  <2>1. FileSound(s)
    BY <1>1, <1>6, StoredSound
  <2>2. ~ Dangling(next, s["prod"])
    BY <1>4, <1>6
  <2> HIDE DEF s, f
  <2>3. /\ FileSound(w.file)
        /\ w.next \in [Slots -> Pointers]
        /\ Sound(w.kernel)
    BY <2>1, <2>2, WakeFromSound
  <2> HIDE DEF w, Lost
  <2>4. /\ fifo_tab' = [x \in Files |-> fifo_tab'[x]]
        /\ \A x \in Files : FileSound(fifo_tab'[x])
    BY <1>3, <1>6, <2>3, FileReplaced
  <2> QED  BY <1>2, <1>3, <1>6, <2>3, <2>4 DEF MInv
<1> QED  BY <1>5, <1>6

(* What is done once there is a message.                                   *)
LEMMA WithdrawSound ==
  ASSUME MInv, NEW fid \in Files, Withdraw(fid)
  PROVE  MInv'
<1> DEFINE f  == fifo_tab[fid]
           s  == [f EXCEPT !.nbElement = @ - 1,
                           !.down = IF @ + 1 = f.size THEN 0 ELSE @ + 1]
           w  == WakeFrom(s, "consum")
           Lost == f.down \notin DOMAIN f.tab_messages \/ Dangling(next, f.consum)
<1>1. FileSound(f) /\ f \in FileRecords /\ Sound(kernel) /\ kernel.actif \in Slots
  BY DEF MInv, FileSound, Sound, Kernels
<1>2. pending' \in [Slots -> Waits]
  BY <1>1 DEF Withdraw, MInv, Waits
<1>3. /\ Lost => /\ kernel' = Crash(kernel, "fault")
                 /\ UNCHANGED <<fifo_tab, next, inbox>>
      /\ ~ Lost => /\ fifo_tab' = [fifo_tab EXCEPT ![fid] = w.file]
                   /\ next' = w.next /\ kernel' = w.kernel
                   /\ inbox' = [inbox EXCEPT ![kernel.actif] = f.tab_messages[f.down]]
  BY DEF Withdraw
<1>4. s.consum = f.consum
  BY <1>1 DEF FileRecords
<1>5. CASE Lost
  <2>1. Sound(kernel')
    BY <1>1, <1>3, <1>5, CrashSound
  <2> QED  BY <1>2, <1>3, <1>5, <2>1 DEF MInv
<1>6. CASE ~ Lost
  <2>1. FileSound(s)
    BY <1>1, <1>6, RemovedSound
  <2>2. ~ Dangling(next, s["consum"])
    BY <1>4, <1>6
  <2>5. f.tab_messages[f.down] \in Msgs \cup {NoMsg}
    <3>1. f.tab_messages \in [0 .. (f.size % CELLS) - 1 -> Msgs \cup {NoMsg}]
      BY <1>1 DEF FileSound
    <3> HIDE DEF f
    <3> QED  BY <1>6, <3>1
  <2>6. inbox' \in [Slots -> Msgs \cup {NoMsg}]
    BY <1>1, <1>3, <1>6, <2>5 DEF MInv
  <2> HIDE DEF s, f
  <2>3. /\ FileSound(w.file)
        /\ w.next \in [Slots -> Pointers]
        /\ Sound(w.kernel)
    BY <2>1, <2>2, WakeFromSound
  <2> HIDE DEF w, Lost
  <2>4. /\ fifo_tab' = [x \in Files |-> fifo_tab'[x]]
        /\ \A x \in Files : FileSound(fifo_tab'[x])
    BY <1>3, <1>6, <2>3, FileReplaced
  <2> QED  BY <1>2, <1>3, <1>6, <2>3, <2>4, <2>6 DEF MInv
<1> QED  BY <1>5, <1>6

(* psend and preceive that find the file full or empty.                    *)
LEMMA PsendWaitsSound ==
  ASSUME MInv, NEW fid, NEW msg \in Msgs, PsendWaits(fid, msg)
  PROVE  MInv'
<1> DEFINE f == fifo_tab[fid]
           s == [f EXCEPT !.consum = kernel.actif]
<1>1. /\ fid \in Files /\ kernel.actif # 0 /\ kernel.actif \in Pointers
      /\ \/ Wild
         \/ Block("send", fid, msg, s, f.consum)
  BY MessagesAssumption DEF PsendWaits, Valid, MInv, Sound, Kernels, Pointers
<1>2. FileSound(f) /\ f.consum \in Pointers
  BY <1>1 DEF MInv, FileSound, FileRecords
<1>3. FileSound(s)
  BY <1>1, <1>2, RingFieldSound
<1>4. [op |-> "send", fid |-> fid, msg |-> msg] \in Waits
  BY <1>1 DEF Waits
<1> HIDE DEF f, s
<1>5. CASE Wild
  BY <1>5, HaltedSound DEF Wild
<1> QED  BY <1>1, <1>2, <1>3, <1>4, <1>5, BlockSound

(* preceive puts the process in the ring of the senders.                   *)
LEMMA PreceiveWaitsSound ==
  ASSUME MInv, NEW fid, PreceiveWaits(fid)
  PROVE  MInv'
<1> DEFINE f == fifo_tab[fid]
           s == [f EXCEPT !.prod = kernel.actif]
<1>1. /\ fid \in Files /\ kernel.actif # 0 /\ kernel.actif \in Pointers
      /\ \/ Wild
         \/ Block("receive", fid, NoMsg, s, f.consum)
  BY MessagesAssumption DEF PreceiveWaits, Valid, MInv, Sound, Kernels, Pointers
<1>2. FileSound(f) /\ f.consum \in Pointers
  BY <1>1 DEF MInv, FileSound, FileRecords
<1>3. FileSound(s)
  BY <1>1, <1>2, RingFieldSound
<1>4. [op |-> "receive", fid |-> fid, msg |-> NoMsg] \in Waits
  BY <1>1 DEF Waits
<1> HIDE DEF f, s
<1>5. CASE Wild
  BY <1>5, HaltedSound DEF Wild
<1> QED  BY <1>1, <1>2, <1>3, <1>4, <1>5, BlockSound

(* A process that comes back uses the file it waited for.                  *)
LEMMA ResumeSound ==
  ASSUME MInv, ResumeSend \/ ResumeReceive
  PROVE  MInv'
<1> DEFINE p == pending[kernel.actif]
<1>1. p \in Waits
  BY DEF MInv, Sound, Kernels
<1>2. CASE ResumeSend
  <2>1. p.op = "send" /\ (Deposit(p.fid, p.msg) \/ Wild)
    BY <1>2 DEF ResumeSend, Resumes
  <2>2. p.fid \in Files /\ p.msg \in Msgs
    BY <1>1, <2>1 DEF Waits, NotPending
  <2> HIDE DEF p
  <2>3. CASE Wild
    BY <2>3, HaltedSound DEF Wild
  <2> QED  BY <2>1, <2>2, <2>3, DepositSound
<1>3. CASE ResumeReceive
  <2>1. p.op = "receive" /\ (Withdraw(p.fid) \/ Wild)
    BY <1>3 DEF ResumeReceive, Resumes
  <2>2. p.fid \in Files
    BY <1>1, <2>1 DEF Waits, NotPending
  <2> HIDE DEF p
  <2>3. CASE Wild
    BY <2>3, HaltedSound DEF Wild
  <2> QED  BY <2>1, <2>2, <2>3, WithdrawSound
<1> QED  BY <1>2, <1>3

(* pdelete and preset wake the processes of a ring, or stop over it.       *)
LEMMA WakeAllSound ==
  ASSUME MInv, NEW fid \in Files, NEW file, FileSound(file), WakeAll(fid, file)
  PROVE  MInv'
<1> DEFINE f       == fifo_tab[fid]
           members == [q \in Slots |-> IF q = f.consum THEN NULL ELSE next[q]]
           list    == IF f.consum = NULL THEN <<>> ELSE Chain(members, next[f.consum])
           woken   == Woken(kernel, list)
           idle    == [file EXCEPT !.consum = NULL]
           Lost    == f.prod # NULL \/ Dangling(next, f.consum)
<1>1. /\ Lost => /\ \E fate \in {"panic", "fault"} : kernel' = Crash(kernel, fate)
                 /\ UNCHANGED <<fifo_tab, next, pending, inbox>>
      /\ ~ Lost =>
           /\ kernel' = woken
           /\ next' = [p \in Slots |->
                         IF \E n \in DOMAIN list : list[n] = p THEN NULL ELSE next[p]]
           /\ fifo_tab' = [fifo_tab EXCEPT ![fid] = idle]
           /\ UNCHANGED <<pending, inbox>>
  BY DEF WakeAll
<1>2. \A n \in DOMAIN list : list[n] \in Slots
  <2> HIDE DEF members, f
  <2>1. CASE f.consum = NULL
    BY <2>1
  <2>2. CASE f.consum # NULL
    BY <2>2, ChainElements
  <2> QED  BY <2>1, <2>2
<1> HIDE DEF list, Lost
<1>3. CASE Lost
  BY <1>1, <1>3, HaltedSound
<1>4. CASE ~ Lost
  <2>1. Sound(woken)
    BY <1>2, WokenSound DEF MInv
  <2>2. next' \in [Slots -> Pointers]
    <3>1. \A p \in Slots : next[p] \in Pointers /\ NULL \in Pointers
      BY DEF MInv, Pointers
    <3> QED  BY <1>1, <1>4, <3>1
  <2>3. FileSound(idle)
    BY RingFieldSound DEF Pointers
  <2> HIDE DEF idle, woken
  <2>4. /\ fifo_tab' = [x \in Files |-> fifo_tab'[x]]
        /\ \A x \in Files : FileSound(fifo_tab'[x])
    BY <1>1, <1>4, <2>3, FileReplaced
  <2> QED  BY <1>1, <1>4, <2>1, <2>2, <2>4 DEF MInv
<1> QED  BY <1>3, <1>4

(* pdelete.                                                                *)
LEMMA PdeleteSound ==
  ASSUME MInv, NEW fid, Pdelete(fid)
  PROVE  MInv'
<1> DEFINE f == fifo_tab[fid]
           j == [f EXCEPT !.used = FALSE]
<1>1. fid \in Files /\ FileSound(f) /\ f \in FileRecords
  BY DEF Pdelete, Valid, MInv, FileSound
<1>2. WakeAll(fid, j)
  BY DEF Pdelete
<1> HIDE DEF f
<1>3. /\ j \in FileRecords /\ j.tab_messages = f.tab_messages
      /\ j.size = f.size /\ j.used = FALSE
  BY <1>1 DEF FileRecords
<1> HIDE DEF j
<1>4. FileSound(j)
  BY <1>1, <1>3 DEF FileSound
<1> QED  BY <1>1, <1>2, <1>4, WakeAllSound

(* preset.                                                                 *)
LEMMA PresetSound ==
  ASSUME MInv, NEW fid, Preset(fid)
  PROVE  MInv'
<1> DEFINE f == fifo_tab[fid]
           j == [f EXCEPT !.down = 0, !.nbElement = 0]
<1>1. fid \in Files /\ FileSound(f) /\ f \in FileRecords
  BY DEF Preset, Valid, MInv, FileSound
<1>2. WakeAll(fid, j)
  BY DEF Preset
<1>3. 0 < f.size
  <2>1. f.used
    BY DEF Preset, Valid
  <2> QED  BY <1>1, <2>1 DEF FileSound, FileRecords
<1> HIDE DEF f
<1>4. /\ j \in FileRecords /\ j.tab_messages = f.tab_messages
      /\ j.size = f.size /\ j.down = 0
  <2> DEFINE i == [f EXCEPT !.down = 0]
  <2>1. /\ i \in FileRecords /\ i.tab_messages = f.tab_messages
        /\ i.size = f.size /\ i.down = 0 /\ j = [i EXCEPT !.nbElement = 0]
    BY <1>1 DEF FileRecords
  <2> HIDE DEF i, j
  <2>2. j \in FileRecords
    BY <2>1 DEF FileRecords
  <2>3. j.tab_messages = i.tab_messages /\ j.size = i.size /\ j.down = i.down
    BY <2>1 DEF FileRecords
  <2> QED  BY <2>1, <2>2, <2>3
<1> HIDE DEF j
<1>5. FileSound(j)
  BY <1>1, <1>3, <1>4 DEF FileSound
<1> QED  BY <1>1, <1>2, <1>5, WakeAllSound

(* A step of the process manager; start forgets where a slot waited.       *)
LEMMA ProcessStepSound ==
  ASSUME MInv, ProcessStep
  PROVE  MInv'
<1>1. Next
  <2>1. ASSUME NEW prio \in StartPrios, DisciplinedStart(prio) PROVE Start(prio)
    BY <2>1 DEF DisciplinedStart
  <2>2. ASSUME NEW clock \in Clocks, DisciplinedSleep(clock) PROVE WaitClock(clock)
    BY <2>2 DEF DisciplinedSleep
  <2>3. ASSUME NEW pid \in Pids, WaitpidEnter(pid, TRUE) PROVE Waitpid(pid)
    BY <2>3 DEF Waitpid
  <2> QED  BY <2>1, <2>2, <2>3, Zenon DEF ProcessStep, Next
<1>2. Sound(kernel')
  BY <1>1, NextSound DEF MInv, IInv
<1>3. pending' \in [Slots -> Waits]
  <2>1. CASE UNCHANGED pending
    BY <2>1 DEF MInv
  <2>2. CASE pending' = IF StartReturns(kernel) \in Slots
                        THEN [pending EXCEPT ![StartReturns(kernel)] = NotPending]
                        ELSE pending
    BY <2>2 DEF MInv, Waits
  <2> QED  BY <2>1, <2>2 DEF ProcessStep
<1>4. UNCHANGED <<fifo_tab, next, inbox>>
  BY DEF ProcessStep
<1> QED  BY <1>2, <1>3, <1>4 DEF MInv

(* Every step keeps the inductive invariant.                               *)
LEMMA MNextSound == MInv /\ [MNext]_mvars => MInv'
<1> SUFFICES ASSUME MInv, [MNext]_mvars PROVE MInv'
  OBVIOUS
<1>1. CASE ProcessStep
  BY <1>1, ProcessStepSound
<1>2. ASSUME NEW count \in Counts, Pcreate(count) PROVE MInv'
  BY <1>2, PcreateSound
<1>3. ASSUME NEW fid \in Fids, NEW msg \in Msgs, PsendNow(fid, msg) PROVE MInv'
  BY <1>3, DepositSound DEF PsendNow, Valid
<1>4. ASSUME NEW fid \in Fids, NEW msg \in Msgs, PsendWaits(fid, msg) PROVE MInv'
  BY <1>4, PsendWaitsSound
<1>5. ASSUME NEW fid \in Fids, PreceiveNow(fid) PROVE MInv'
  BY <1>5, WithdrawSound DEF PreceiveNow, Valid
<1>6. ASSUME NEW fid \in Fids, PreceiveWaits(fid) PROVE MInv'
  BY <1>6, PreceiveWaitsSound
<1>7. ASSUME NEW fid \in Fids, Pdelete(fid) \/ Preset(fid) PROVE MInv'
  BY <1>7, PdeleteSound, PresetSound
<1>8. ASSUME NEW fid \in Fids, Pcount(fid) PROVE MInv'
  BY <1>8, HaltedSound DEF Pcount
<1>9. CASE ResumeSend \/ ResumeReceive
  BY <1>9, ResumeSound
<1>10. CASE UNCHANGED mvars
  BY <1>10 DEF mvars, MInv
<1> QED
  BY <1>1, <1>2, <1>3, <1>4, <1>5, <1>6, <1>7, <1>8, <1>9, <1>10, Zenon DEF MNext

(* Whatever is sent, received, reset, deleted, killed or counted, and      *)
(* however small the array that a wrapped size has got, every field of a   *)
(* file keeps its type: a message is never stored or read outside the      *)
(* array, and the cell it is read from next is one of the file             *)
(* (message.c:107-118, 148-165).                                           *)
THEOREM MessageTypes == MSpec => []MTypeOK
<1>1. MInit => MInv
  BY MInitSound
<1>2. MInv /\ [MNext]_mvars => MInv'
  BY MNextSound
<1>3. MInv => MTypeOK
  BY MInvTypes
<1> QED  BY <1>1, <1>2, <1>3, PTL DEF MSpec

(* The processes that use files leave idle the processor or a place in the *)
(* ready queue, although they fall asleep outside the sleeping list.       *)
THEOREM IdleIsKeptByFiles == MSpec => []IdleKept
<1>1. MInit => MInv
  BY MInitSound
<1>2. MInv /\ [MNext]_mvars => MInv'
  BY MNextSound
<1>3. MInv => IdleKept
  BY SoundImplies DEF MInv, IInv
<1> QED  BY <1>1, <1>2, <1>3, PTL DEF MSpec

-----------------------------------------------------------------------------
(***************************************************************************)
(* File 0 as its users see it.  The indexes go round the array: a message  *)
(* is where it was put as long as there are no more messages than cells.   *)
(***************************************************************************)

(* A number that is less than two turns round the array.                   *)
LEMMA AtMostOneTurn ==
  ASSUME NEW n \in Nat, NEW x \in Nat, n # 0, x < 2 * n
  PROVE  x % n = IF x < n THEN x ELSE x - n
<1>1. /\ x \div n \in Nat /\ x % n \in Nat /\ x % n < n
      /\ x = n * (x \div n) + (x % n)
  BY SMT
<1> DEFINE q == x \div n
           r == x % n
<1>2. q \in Nat /\ r \in Nat /\ r < n /\ x = n * q + r
  BY <1>1
<1> HIDE DEF q, r
<1>3. CASE q = 0
  <2>1. x = r
    BY <1>2, <1>3
  <2> QED  BY <1>2, <2>1 DEF r
<1>4. CASE q = 1
  <2>1. x = n + r
    BY <1>2, <1>4
  <2>2. ~ (x < n) /\ x - n = r
    BY <1>2, <2>1
  <2> QED  BY <2>2 DEF r
<1>5. CASE q > 1
  <2>1. n * 2 <= n * q
    BY <1>2, <1>5, SMT
  <2>2. n * q \in Nat
    BY <1>2, SMT
  <2> QED  BY <1>2, <2>1, <2>2
<1> QED  BY <1>2, <1>3, <1>4, <1>5

\* The i-th cell from the cell d on, in an array of n.
Cell(n, d, i) == (d + i - 1) % n

\* The m messages of an array a of n cells, from the cell d on.
Round(a, n, d, m) == [i \in 1 .. m |-> a[Cell(n, d, i)]]

(* The cells that hold messages are cells of the array, each holding one.  *)
LEMMA RoundCells ==
  ASSUME NEW n \in Nat \ {0}, NEW d \in 0 .. n - 1, NEW i \in 1 .. n
  PROVE  /\ Cell(n, d, i) = IF d + i - 1 < n THEN d + i - 1 ELSE d + i - 1 - n
         /\ Cell(n, d, i) \in 0 .. n - 1
<1> DEFINE x == d + i - 1
<1>1. x \in Nat /\ x < 2 * n /\ n \in Nat /\ n # 0
  OBVIOUS
<1>2. (IF x < n THEN x ELSE x - n) \in 0 .. n - 1
  BY <1>1
<1>3. Cell(n, d, i) = x % n
  BY DEF Cell
<1> HIDE DEF x
<1>4. x % n = IF x < n THEN x ELSE x - n
  BY <1>1, AtMostOneTurn
<1> QED  BY <1>2, <1>3, <1>4 DEF x

\* A round of m messages in an array of n, from the cell d on.
IsRound(n, d, m, S, a) ==
  n \in Nat \ {0} /\ d \in 0 .. n - 1 /\ m \in 0 .. n /\ a \in [0 .. n - 1 -> S]

\* Storing msg behind the round appends it.
StoresLast(n, d, m, S, a, msg) ==
  /\ Round(a, n, d, m) \in Seq(S) /\ Len(Round(a, n, d, m)) = m
  /\ Round([a EXCEPT ![Cell(n, d, m + 1)] = msg], n, d, m + 1)
       = Append(Round(a, n, d, m), msg)

\* Moving the round's start to the next cell takes its first message.
TakesFirst(n, d, m, S, a) ==
  LET s == Round(a, n, d, m) IN
  /\ s \in Seq(S) /\ s # <<>> /\ Head(s) = a[d]
  /\ Round(a, n, IF d + 1 = n THEN 0 ELSE d + 1, m - 1) = Tail(s)

(* A message stored after the last one is the last one.                    *)
LEMMA RoundAppend ==
  ASSUME NEW n, NEW d, NEW m, NEW S, NEW a, NEW msg \in S,
         IsRound(n, d, m, S, a), m # n
  PROVE  StoresLast(n, d, m, S, a, msg)
<1>0. /\ n \in Nat \ {0} /\ d \in 0 .. n - 1 /\ m \in 0 .. n - 1
      /\ a \in [0 .. n - 1 -> S]
  BY DEF IsRound
<1> DEFINE at == Cell(n, d, m + 1)
           b  == [a EXCEPT ![at] = msg]
           s  == Round(a, n, d, m)
           t  == Round(b, n, d, m + 1)
<1>1. \A i \in 1 .. m + 1 :
        /\ Cell(n, d, i) = IF d + i - 1 < n THEN d + i - 1 ELSE d + i - 1 - n
        /\ Cell(n, d, i) \in 0 .. n - 1
  BY <1>0, RoundCells
<1>2. at = (IF d + m < n THEN d + m ELSE d + m - n) /\ at \in 0 .. n - 1
  <2>1. m + 1 \in 1 .. m + 1 /\ d + (m + 1) - 1 = d + m
    BY <1>0
  <2> QED  BY <1>0, <1>1, <2>1
<1>3. \A i \in 1 .. m : Cell(n, d, i) \in 0 .. n - 1 /\ Cell(n, d, i) # at
  <2> SUFFICES ASSUME NEW i \in 1 .. m
               PROVE  Cell(n, d, i) \in 0 .. n - 1 /\ Cell(n, d, i) # at
    BY <1>0
  <2>1. /\ Cell(n, d, i) = IF d + i - 1 < n THEN d + i - 1 ELSE d + i - 1 - n
        /\ Cell(n, d, i) \in 0 .. n - 1
    BY <1>0, <1>1
  <2> HIDE DEF at
  <2> QED  BY <1>0, <1>2, <2>1
<1>4. Cell(n, d, m + 1) = at
  BY <1>0
<1>5. /\ s = [i \in 1 .. m |-> a[Cell(n, d, i)]]
      /\ t = [i \in 1 .. m + 1 |-> b[Cell(n, d, i)]]
      /\ b = [a EXCEPT ![at] = msg]
  BY DEF Round
<1> HIDE DEF at, s, t, b
<1>6. s \in Seq(S) /\ Len(s) = m
  <2>1. \A i \in 1 .. m : a[Cell(n, d, i)] \in S
    BY <1>0, <1>3
  <2> QED  BY <1>0, <1>5, <2>1
<1>7. t = [i \in 1 .. m + 1 |-> IF i = m + 1 THEN msg ELSE a[Cell(n, d, i)]]
  <2>1. ASSUME NEW i \in 1 .. m + 1
        PROVE  b[Cell(n, d, i)] = IF i = m + 1 THEN msg ELSE a[Cell(n, d, i)]
    <3>1. CASE i = m + 1
      BY <1>0, <1>2, <1>4, <1>5, <3>1
    <3>2. CASE i # m + 1
      <4>1. i \in 1 .. m
        BY <1>0, <3>2
      <4> QED  BY <1>0, <1>3, <1>5, <3>2, <4>1
    <3> QED  BY <1>0, <3>1, <3>2
  <2> QED  BY <1>0, <1>5, <2>1
<1>8. Append(s, msg) = [i \in 1 .. m + 1 |-> IF i = m + 1 THEN msg ELSE s[i]]
  BY <1>0, <1>6
<1>9. t = Append(s, msg)
  BY <1>0, <1>5, <1>7, <1>8
<1> QED  BY <1>0, <1>6, <1>9 DEF s, t, b, at, StoresLast

(* The message that is taken is the first one.                             *)
LEMMA RoundTail ==
  ASSUME NEW n, NEW d, NEW m, NEW S, NEW a, IsRound(n, d, m, S, a), m # 0
  PROVE  TakesFirst(n, d, m, S, a)
<1>0. /\ n \in Nat \ {0} /\ d \in 0 .. n - 1 /\ m \in 1 .. n
      /\ a \in [0 .. n - 1 -> S]
  BY DEF IsRound
<1> DEFINE e == IF d + 1 = n THEN 0 ELSE d + 1
           s == Round(a, n, d, m)
           t == Round(a, n, e, m - 1)
<1>1. \A i \in 1 .. m :
        /\ Cell(n, d, i) \in 0 .. n - 1
        /\ Cell(n, d, i) = IF d + i - 1 < n THEN d + i - 1 ELSE d + i - 1 - n
  <2>1. \A i \in 1 .. m : i \in 1 .. n
    BY <1>0
  <2> QED  BY <1>0, <2>1, RoundCells
<1>2. e \in 0 .. n - 1
  BY <1>0
<1>3. \A i \in 1 .. m - 1 :
        Cell(n, e, i) = IF e + i - 1 < n THEN e + i - 1 ELSE e + i - 1 - n
  <2>1. \A i \in 1 .. m - 1 : i \in 1 .. n
    BY <1>0
  <2> HIDE DEF e
  <2> QED  BY <1>0, <1>2, <2>1, RoundCells
<1>4. s = [i \in 1 .. m |-> a[Cell(n, d, i)]] /\ t = [i \in 1 .. m - 1 |-> a[Cell(n, e, i)]]
  BY DEF Round
<1>5. e = IF d + 1 = n THEN 0 ELSE d + 1
  BY <1>0
<1> HIDE DEF e, s, t
<1>6. \A i \in 1 .. m - 1 : Cell(n, e, i) = Cell(n, d, i + 1)
  <2> SUFFICES ASSUME NEW i \in 1 .. m - 1 PROVE Cell(n, e, i) = Cell(n, d, i + 1)
    BY <1>0
  <2>1. Cell(n, d, i + 1) = IF d + (i + 1) - 1 < n THEN d + (i + 1) - 1 ELSE d + (i + 1) - 1 - n
    <3>1. i + 1 \in 1 .. m
      BY <1>0
    <3> QED  BY <1>0, <1>1, <3>1
  <2>2. Cell(n, e, i) = IF e + i - 1 < n THEN e + i - 1 ELSE e + i - 1 - n
    BY <1>0, <1>3
  <2> QED  BY <1>0, <1>5, <2>1, <2>2
<1>7. s \in Seq(S) /\ Len(s) = m /\ s # <<>>
  <2>1. \A i \in 1 .. m : a[Cell(n, d, i)] \in S
    BY <1>0, <1>1
  <2> QED  BY <1>0, <1>4, <2>1
<1>8. Head(s) = a[d]
  <2>1. 1 \in 1 .. m /\ Cell(n, d, 1) = d
    <3>1. 1 \in 1 .. m
      BY <1>0
    <3>2. Cell(n, d, 1) = IF d + 1 - 1 < n THEN d + 1 - 1 ELSE d + 1 - 1 - n
      BY <1>0, <1>1, <3>1
    <3> QED  BY <1>0, <3>1, <3>2
  <2> QED  BY <1>0, <1>4, <1>7, <2>1
<1>9. Tail(s) = [i \in 1 .. m - 1 |-> s[i + 1]]
  BY <1>0, <1>7, SMTT(30)
<1>10. \A i \in 1 .. m - 1 : s[i + 1] = a[Cell(n, e, i)]
  BY <1>0, <1>4, <1>6
<1>11. t = Tail(s)
  BY <1>0, <1>4, <1>9, <1>10
<1> QED  BY <1>0, <1>7, <1>8, <1>11 DEF s, t, e, TakesFirst

-----------------------------------------------------------------------------
(***************************************************************************)
(* The file that kernel_start makes is a FIFO of BootSize messages as long *)
(* as it is neither filled beyond its size nor emptied beyond nothing by a *)
(* process that comes back too late, and is not reset or deleted: no other *)
(* interleaving of senders and receivers loses, invents or overtakes a     *)
(* message.                                                                *)
(***************************************************************************)
WithinSize == fifo_tab[0].nbElement \in 0 .. BootSize

\* inbox is one for all the files: the mapping follows what file 0 gives.
Undisturbed ==
  /\ ~ (Pdelete(0) \/ Preset(0))
  /\ \A fid \in Files \ {0} : ~ Withdraw(fid)

BootFile == fifo_tab[0].used /\ fifo_tab[0].size = BootSize

FileInv == MInv /\ BootFile

(* Waking the head of a ring changes nothing else of the file.             *)
LEMMA WakeFromKeeps ==
  ASSUME NEW f \in FileRecords, NEW field \in {"prod", "consum"}
  PROVE  LET g == WakeFrom(f, field).file IN
         /\ g.used = f.used /\ g.size = f.size /\ g.nbElement = f.nbElement
         /\ g.down = f.down /\ g.tab_messages = f.tab_messages
<1>1. CASE f[field] = NULL
  BY <1>1 DEF WakeFrom
<1>2. CASE f[field] # NULL
  <2> DEFINE r == RingRest(next, f[field])
  <2>1. WakeFrom(f, field).file = [f EXCEPT ![field] = r]
    BY <1>2 DEF WakeFrom
  <2> HIDE DEF r
  <2> QED  BY <2>1 DEF FileRecords
<1> QED  BY <1>1, <1>2

(* The messages of file 0.                                                 *)
LEMMA ContentsRound ==
  Contents = Round(fifo_tab[0].tab_messages, fifo_tab[0].size,
                   fifo_tab[0].down, fifo_tab[0].nbElement)
BY DEF Contents, Round, Cell

(* What a file that nobody touches looks like to its users.                *)
LEMMA SameFile ==
  ASSUME fifo_tab'[0] = fifo_tab[0], inbox' = inbox
  PROVE  UNCHANGED Channel!cvars
<1>1. Contents' = Contents
  BY DEF Contents
<1> QED  BY <1>1 DEF Channel!cvars

(* The array that kernel_start asks for is the one it gets.                *)
LEMMA BootSizeFits ==
  ASSUME BootSize < CELLS
  PROVE  BootSize % CELLS = BootSize
<1>1. BootSize \in Nat /\ CELLS \in Nat /\ BootSize < 2 * CELLS /\ CELLS # 0
  BY MessagesAssumption
<1> QED  BY <1>1, AtMostOneTurn

(* A file within its size sends as the channel does.                       *)
LEMMA DepositSends ==
  ASSUME BootSize < CELLS, FileInv, NEW fid \in Files, NEW msg \in Msgs,
         Deposit(fid, msg), WithinSize, WithinSize'
  PROVE  [Channel!ChannelNext]_(Channel!cvars) /\ BootFile'
<1> DEFINE f  == fifo_tab[fid]
           at == CRemainder(f.down + f.nbElement, f.size)
           s  == [f EXCEPT !.tab_messages[at] = msg, !.nbElement = @ + 1]
           w  == WakeFrom(s, "prod")
           g  == w.file
<1>1. /\ inbox' = inbox
      /\ \/ fifo_tab' = fifo_tab
         \/ fifo_tab' = [fifo_tab EXCEPT ![fid] = g] /\ at \in DOMAIN f.tab_messages
  BY DEF Deposit
<1>2. fifo_tab = [x \in Files |-> fifo_tab[x]] /\ 0 \in Files
  BY MessagesAssumption DEF FileInv, MInv, Files
<1>3. CASE fifo_tab' = fifo_tab
  BY <1>1, <1>3, SameFile DEF FileInv, BootFile
<1>4. CASE fid # 0 /\ fifo_tab' = [fifo_tab EXCEPT ![fid] = g]
  <2> HIDE DEF g
  <2>1. fifo_tab'[0] = fifo_tab[0]
    BY <1>2, <1>4
  <2> QED  BY <1>1, <2>1, SameFile DEF FileInv, BootFile
<1>5. CASE /\ fid = 0 /\ fifo_tab' = [fifo_tab EXCEPT ![fid] = g]
           /\ at \in DOMAIN f.tab_messages
  <2> DEFINE n == BootSize
             d == f.down
             m == f.nbElement
             a == f.tab_messages
             S == Msgs \cup {NoMsg}
  <2>1. FileSound(f) /\ f \in FileRecords /\ f.used /\ f.size = n
    BY <1>5 DEF FileInv, MInv, BootFile, FileSound
  <2>2. n \in Nat \ {0}
    BY MessagesAssumption
  <2>3. d \in 0 .. n - 1 /\ a \in [0 .. n - 1 -> S] /\ m \in 0 .. n
    <3>1. n % CELLS = n
      BY BootSizeFits
    <3> QED  BY <1>5, <2>1, <2>2, <3>1 DEF FileSound, FileRecords, WithinSize
  <2>4. at = Cell(n, d, m + 1)
    <3>1. d + m >= 0 /\ d + (m + 1) - 1 = d + m
      BY <2>2, <2>3
    <3> QED  BY <2>1, <3>1 DEF CRemainder, Cell
  <2>5. /\ s \in FileRecords /\ s.tab_messages = [a EXCEPT ![at] = msg]
        /\ s.nbElement = m + 1 /\ s.down = d /\ s.size = n /\ s.used
    <3> HIDE DEF at
    <3>1. FileSound(s)
      BY <1>5, <2>1, StoredSound
    <3>2. s \in FileRecords
      BY <3>1 DEF FileSound
    <3>3. /\ s.tab_messages = [a EXCEPT ![at] = msg]
          /\ s.nbElement = m + 1 /\ s.down = d /\ s.size = f.size /\ s.used = f.used
      BY <2>1 DEF FileRecords
    <3> QED  BY <2>1, <3>2, <3>3
  <2> HIDE DEF s, at
  <2>6. /\ g.used /\ g.size = n /\ g.nbElement = m + 1
        /\ g.down = d /\ g.tab_messages = [a EXCEPT ![at] = msg]
    BY <2>5, WakeFromKeeps
  <2> HIDE DEF g
  <2>7. fifo_tab'[0] = g
    BY <1>2, <1>5
  <2>8. m + 1 <= n
    BY <2>6, <2>7 DEF WithinSize
  <2>9. Contents = Round(a, n, d, m) /\ Contents' = Round([a EXCEPT ![at] = msg], n, d, m + 1)
    <3>1. Contents = Round(a, n, d, m)
      BY <1>5, <2>1, ContentsRound
    <3>2. Contents' = Round(g.tab_messages, g.size, g.down, g.nbElement)
      BY <2>7 DEF Contents, Round, Cell
    <3> QED  BY <2>6, <3>1, <3>2
  <2>10. Len(Contents) = m /\ Contents' = Append(Contents, msg)
    <3>1. m \in 0 .. n - 1 /\ msg \in S
      BY <2>2, <2>3, <2>8
    <3> HIDE DEF n, d, m, a, S
    <3>2. IsRound(n, d, m, S, a) /\ m # n
      BY <2>2, <2>3, <3>1 DEF IsRound
    <3>3. StoresLast(n, d, m, S, a, msg)
      BY <3>1, <3>2, RoundAppend
    <3> QED  BY <2>4, <2>9, <3>3 DEF StoresLast
  <2>11. m < n
    BY <2>2, <2>3, <2>8
  <2>12. Channel!Send(msg)
    BY <1>1, <2>10, <2>11 DEF Channel!Send
  <2>13. BootFile'
    BY <2>6, <2>7 DEF BootFile
  <2> QED  BY <2>12, <2>13 DEF Channel!ChannelNext
<1> QED  BY <1>1, <1>3, <1>4, <1>5

(* And a file within its size receives as the channel does.                *)
LEMMA WithdrawReceives ==
  ASSUME BootSize < CELLS, FileInv, NEW fid, fid = 0,
         Withdraw(fid), WithinSize, WithinSize'
  PROVE  [Channel!ChannelNext]_(Channel!cvars) /\ BootFile'
<1> DEFINE f  == fifo_tab[fid]
           s  == [f EXCEPT !.nbElement = @ - 1,
                           !.down = IF @ + 1 = f.size THEN 0 ELSE @ + 1]
           w  == WakeFrom(s, "consum")
           g  == w.file
           r  == kernel.actif
           e  == IF f.down + 1 = f.size THEN 0 ELSE f.down + 1
<1>1. \/ fifo_tab' = fifo_tab /\ inbox' = inbox
      \/ /\ fifo_tab' = [fifo_tab EXCEPT ![fid] = g] /\ f.down \in DOMAIN f.tab_messages
         /\ inbox' = [inbox EXCEPT ![r] = f.tab_messages[f.down]]
  BY DEF Withdraw
<1>2. fifo_tab = [x \in Files |-> fifo_tab[x]] /\ 0 \in Files /\ r \in Slots
  BY MessagesAssumption DEF FileInv, MInv, Files, Sound, Kernels
<1>3. CASE fifo_tab' = fifo_tab /\ inbox' = inbox
  BY <1>3, SameFile DEF FileInv, BootFile
<1>4. CASE /\ fifo_tab' = [fifo_tab EXCEPT ![fid] = g]
           /\ f.down \in DOMAIN f.tab_messages
           /\ inbox' = [inbox EXCEPT ![r] = f.tab_messages[f.down]]
  <2> DEFINE n == BootSize
             d == f.down
             m == f.nbElement
             a == f.tab_messages
             S == Msgs \cup {NoMsg}
  <2>1. FileSound(f) /\ f \in FileRecords /\ f.used /\ f.size = n
    BY <1>2 DEF FileInv, MInv, BootFile, FileSound
  <2>2. n \in Nat \ {0}
    BY MessagesAssumption
  <2>3. d \in 0 .. n - 1 /\ a \in [0 .. n - 1 -> S] /\ m \in 0 .. n
    <3>1. n % CELLS = n
      BY BootSizeFits
    <3> QED  BY <1>4, <2>1, <2>2, <3>1 DEF FileSound, FileRecords, WithinSize
  <2>5. /\ s \in FileRecords /\ s.tab_messages = a
        /\ s.nbElement = m - 1 /\ s.down = e /\ s.size = n /\ s.used
    <3>1. FileSound(s)
      BY <1>4, <2>1, RemovedSound
    <3>2. s \in FileRecords
      BY <3>1 DEF FileSound
    <3>3. /\ s.tab_messages = a
          /\ s.nbElement = m - 1 /\ s.down = e /\ s.size = f.size /\ s.used = f.used
      BY <2>1 DEF FileRecords
    <3> QED  BY <2>1, <3>2, <3>3
  <2> HIDE DEF s
  <2>6. /\ g.used /\ g.size = n /\ g.nbElement = m - 1
        /\ g.down = e /\ g.tab_messages = a
    BY <2>5, WakeFromKeeps
  <2> HIDE DEF g
  <2>7. fifo_tab'[0] = g
    BY <1>2, <1>4
  <2>8. m - 1 >= 0
    BY <2>6, <2>7 DEF WithinSize
  <2>9. Contents = Round(a, n, d, m) /\ Contents' = Round(a, n, e, m - 1)
    <3>1. Contents = Round(a, n, d, m)
      BY <1>4, <2>1, ContentsRound
    <3>2. Contents' = Round(g.tab_messages, g.size, g.down, g.nbElement)
      BY <2>7 DEF Contents, Round, Cell
    <3> QED  BY <2>6, <3>1, <3>2
  <2>10. Contents # <<>> /\ Head(Contents) = a[d] /\ Contents' = Tail(Contents)
    <3>1. m \in 1 .. n /\ e = IF d + 1 = n THEN 0 ELSE d + 1
      BY <2>1, <2>2, <2>3, <2>8
    <3> HIDE DEF n, d, m, a, S, e
    <3>2. IsRound(n, d, m, S, a) /\ m # 0
      BY <2>2, <2>3, <3>1 DEF IsRound
    <3>3. TakesFirst(n, d, m, S, a)
      BY <3>2, RoundTail
    <3> QED  BY <2>9, <3>1, <3>3 DEF TakesFirst
  <2>12. Channel!Receive(r)
    BY <1>4, <2>10 DEF Channel!Receive
  <2>13. BootFile'
    BY <2>6, <2>7 DEF BootFile
  <2> QED  BY <1>2, <2>12, <2>13 DEF Channel!ChannelNext
<1> QED  BY <1>1, <1>3, <1>4

(* A step that leaves the messages of file 0 and the readers alone is none *)
(* of the channel's: the rings of a file are not seen through it.          *)
LEMMA SameMessages ==
  ASSUME BootFile, inbox' = inbox,
         fifo_tab'[0].used = fifo_tab[0].used,
         fifo_tab'[0].size = fifo_tab[0].size,
         fifo_tab'[0].nbElement = fifo_tab[0].nbElement,
         fifo_tab'[0].down = fifo_tab[0].down,
         fifo_tab'[0].tab_messages = fifo_tab[0].tab_messages
  PROVE  [Channel!ChannelNext]_(Channel!cvars) /\ BootFile'
<1>1. Contents' = Contents
  BY DEF Contents
<1> QED  BY <1>1 DEF Channel!cvars, BootFile

(* A step that changes another file, or none, leaves file 0 as it is.      *)
LEMMA OtherFile ==
  ASSUME FileInv, inbox' = inbox, NEW fid, fid # 0, NEW g,
         fifo_tab' = [fifo_tab EXCEPT ![fid] = g] \/ fifo_tab' = fifo_tab
  PROVE  [Channel!ChannelNext]_(Channel!cvars) /\ BootFile'
<1>1. fifo_tab = [x \in Files |-> fifo_tab[x]] /\ 0 \in Files
  BY MessagesAssumption DEF FileInv, MInv, Files
<1>2. fifo_tab'[0] = fifo_tab[0]
  BY <1>1
<1> QED  BY <1>2, SameMessages DEF FileInv

(* A process that blocks on file 0 only enters a ring.                     *)
LEMMA WaitsUnseen ==
  ASSUME FileInv, NEW fid \in Fids, NEW msg, PsendWaits(fid, msg) \/ PreceiveWaits(fid)
  PROVE  [Channel!ChannelNext]_(Channel!cvars) /\ BootFile'
<1> DEFINE f == fifo_tab[fid]
           g == [f EXCEPT !.consum = kernel.actif]
           h == [f EXCEPT !.prod = kernel.actif]
<1>1. /\ inbox' = inbox
      /\ \/ fifo_tab' = fifo_tab
         \/ fifo_tab' = [fifo_tab EXCEPT ![fid] = g]
         \/ fifo_tab' = [fifo_tab EXCEPT ![fid] = h]
  BY DEF PsendWaits, PreceiveWaits, Wild, Block
<1>2. fifo_tab = [x \in Files |-> fifo_tab[x]] /\ 0 \in Files /\ fifo_tab[0] \in FileRecords
  BY MessagesAssumption DEF FileInv, MInv, Files, FileSound
<1>3. CASE fid # 0
  <2> HIDE DEF g, h
  <2> QED  BY <1>1, <1>3, OtherFile
<1>4. CASE fid = 0
  <2>1. /\ g.used = f.used /\ g.size = f.size /\ g.nbElement = f.nbElement
        /\ g.down = f.down /\ g.tab_messages = f.tab_messages
    BY <1>2, <1>4 DEF FileRecords
  <2>2. /\ h.used = f.used /\ h.size = f.size /\ h.nbElement = f.nbElement
        /\ h.down = f.down /\ h.tab_messages = f.tab_messages
    BY <1>2, <1>4 DEF FileRecords
  <2> HIDE DEF g, h
  <2>3. fifo_tab'[0] \in {f, g, h}
    BY <1>1, <1>2, <1>4
  <2> QED  BY <1>1, <1>4, <2>1, <2>2, <2>3, SameMessages DEF FileInv
<1> QED  BY <1>3, <1>4

(* pcreate takes another file: file 0 is used.                             *)
LEMMA PcreateUnseen ==
  ASSUME FileInv, NEW count \in Counts, Pcreate(count)
  PROVE  [Channel!ChannelNext]_(Channel!cvars) /\ BootFile'
<1>1. PICK fid \in Files :
        /\ ~ fifo_tab[fid].used
        /\ fifo_tab' = [fifo_tab EXCEPT ![fid] = FreshFile(count)]
  BY DEF Pcreate
<1>2. fid # 0 /\ inbox' = inbox
  BY <1>1 DEF Pcreate, FileInv, BootFile
<1> QED  BY <1>1, <1>2, OtherFile

(* Another file is deleted or reset.                                       *)
LEMMA WakeAllUnseen ==
  ASSUME FileInv, NEW fid \in Fids, fid # 0, Pdelete(fid) \/ Preset(fid)
  PROVE  [Channel!ChannelNext]_(Channel!cvars) /\ BootFile'
<1>1. PICK file : WakeAll(fid, file)
  BY DEF Pdelete, Preset
<1> DEFINE g == [file EXCEPT !.consum = NULL]
<1>2. inbox' = inbox /\ (fifo_tab' = [fifo_tab EXCEPT ![fid] = g] \/ fifo_tab' = fifo_tab)
  BY <1>1 DEF WakeAll
<1> HIDE DEF g
<1> QED  BY <1>2, OtherFile

(* One step of the files, seen through the messages of file 0.             *)
LEMMA ChannelStep ==
  ASSUME BootSize < CELLS, FileInv, WithinSize, WithinSize',
         [MNext]_mvars, [Undisturbed]_mvars
  PROVE  [Channel!ChannelNext]_(Channel!cvars) /\ FileInv'
<1>1. MInv'
  BY MNextSound DEF FileInv
<1> SUFFICES [Channel!ChannelNext]_(Channel!cvars) /\ BootFile'
  BY <1>1 DEF FileInv
<1>2. ASSUME fifo_tab' = fifo_tab, inbox' = inbox
      PROVE  [Channel!ChannelNext]_(Channel!cvars) /\ BootFile'
  BY <1>2, SameMessages DEF FileInv
<1>3. ASSUME Undisturbed, NEW fid \in Files, Withdraw(fid)
      PROVE  [Channel!ChannelNext]_(Channel!cvars) /\ BootFile'
  <2>1. fid = 0
    BY <1>3 DEF Undisturbed
  <2> QED  BY <1>3, <2>1, WithdrawReceives
<1> DEFINE p == pending[kernel.actif]
<1>4. p \in Waits
  BY DEF FileInv, MInv, Sound, Kernels
<1>5. CASE UNCHANGED mvars
  BY <1>2, <1>5 DEF mvars
<1>6. CASE MNext /\ Undisturbed
  <2>1. CASE ProcessStep
    BY <1>2, <2>1 DEF ProcessStep
  <2>2. CASE \E count \in Counts : Pcreate(count)
    BY <2>2, PcreateUnseen
  <2>3. ASSUME NEW fid \in Fids, NEW msg \in Msgs, PsendNow(fid, msg)
        PROVE  [Channel!ChannelNext]_(Channel!cvars) /\ BootFile'
    <3>1. fid \in Files /\ Deposit(fid, msg)
      BY <2>3 DEF PsendNow, Valid
    <3> QED  BY <3>1, DepositSends
  <2>4. ASSUME NEW fid \in Fids, PreceiveNow(fid)
        PROVE  [Channel!ChannelNext]_(Channel!cvars) /\ BootFile'
    <3>1. fid \in Files /\ Withdraw(fid)
      BY <2>4 DEF PreceiveNow, Valid
    <3> QED  BY <1>3, <1>6, <3>1
  <2>5. ASSUME NEW fid \in Fids, NEW msg, PsendWaits(fid, msg) \/ PreceiveWaits(fid)
        PROVE  [Channel!ChannelNext]_(Channel!cvars) /\ BootFile'
    BY <2>5, WaitsUnseen
  <2>6. ASSUME NEW fid \in Fids, Pdelete(fid) \/ Preset(fid)
        PROVE  [Channel!ChannelNext]_(Channel!cvars) /\ BootFile'
    <3>1. fid # 0
      BY <1>6, <2>6 DEF Undisturbed
    <3> QED  BY <2>6, <3>1, WakeAllUnseen
  <2>7. ASSUME NEW fid \in Fids, Pcount(fid)
        PROVE  [Channel!ChannelNext]_(Channel!cvars) /\ BootFile'
    BY <1>2, <2>7 DEF Pcount
  <2>8. CASE ResumeSend
    <3>1. p.op = "send" /\ (Deposit(p.fid, p.msg) \/ Wild)
      BY <2>8 DEF ResumeSend, Resumes
    <3>2. p.fid \in Files /\ p.msg \in Msgs
      BY <1>4, <3>1 DEF Waits, NotPending
    <3> HIDE DEF p
    <3>3. CASE Wild
      BY <1>2, <3>3 DEF Wild
    <3> QED  BY <3>1, <3>2, <3>3, DepositSends
  <2>9. CASE ResumeReceive
    <3>1. p.op = "receive" /\ (Withdraw(p.fid) \/ Wild)
      BY <2>9 DEF ResumeReceive, Resumes
    <3>2. p.fid \in Files
      BY <1>4, <3>1 DEF Waits, NotPending
    <3> HIDE DEF p
    <3>3. CASE Wild
      BY <1>2, <3>3 DEF Wild
    <3> QED  BY <1>3, <1>6, <3>1, <3>2, <3>3
  <2> QED  BY <1>6, <2>1, <2>2, <2>3, <2>4, <2>5, <2>6, <2>7, <2>8, <2>9
           DEF MNext
<1> QED  BY <1>5, <1>6

(* File 0 begins as an empty channel.                                      *)
LEMMA ChannelStart == MInit => FileInv /\ Channel!ChannelInit
<1> SUFFICES ASSUME MInit PROVE FileInv /\ Channel!ChannelInit
  OBVIOUS
<1>1. fifo_tab[0] = FreshFile(BootSize)
  BY MessagesAssumption DEF MInit, Files
<1>2. BootFile
  BY <1>1 DEF BootFile, FreshFile
<1>3. Contents = <<>>
  <2>1. fifo_tab[0].nbElement = 0
    BY <1>1 DEF FreshFile
  <2>2. Contents = [i \in 1 .. 0 |-> fifo_tab[0].tab_messages[
                      (fifo_tab[0].down + i - 1) % fifo_tab[0].size]]
    BY <2>1 DEF Contents
  <2>3. Contents \in Seq({}) /\ Len(Contents) = 0
    BY <2>2
  <2> QED  BY <2>3
<1>4. MInv
  BY MInitSound
<1>5. inbox = [r \in Slots |-> NoMsg]
  BY DEF MInit
<1> QED  BY <1>2, <1>3, <1>4, <1>5 DEF FileInv, Channel!ChannelInit

(* psend and preceive on the file of kernel_start implement a FIFO of      *)
(* BootSize messages, whoever sends and receives and whoever is killed,    *)
(* restarted or overtaken in between, up to a psend or preceive that comes *)
(* back to a file it would fill beyond its size or empty beyond nothing    *)
(* (message.c:107-118, 148-165), or a preset or pdelete of it.             *)
THEOREM FileIsAChannel ==
  ASSUME BootSize < CELLS
  PROVE  MSpec /\ []WithinSize /\ [][Undisturbed]_mvars => IsAChannel
<1>1. MInit => FileInv /\ Channel!ChannelInit
  BY ChannelStart
<1>2. FileInv /\ WithinSize /\ WithinSize' /\ [MNext]_mvars /\ [Undisturbed]_mvars
        => [Channel!ChannelNext]_(Channel!cvars) /\ FileInv'
  BY ChannelStep
<1> QED  BY <1>1, <1>2, PTL DEF MSpec, IsAChannel, Channel!ChannelSpec
=============================================================================
