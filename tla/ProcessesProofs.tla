-------------------------- MODULE ProcessesProofs --------------------------
(***************************************************************************)
(* Theorems about the process manager, for every size of the table, every  *)
(* set of arguments and every bound of the clock: the memory keeps its     *)
(* types, the idle thread keeps the processor or a place in the ready      *)
(* queue, and the reuse of slots links no brothers in a cycle but those    *)
(* that follow themselves, whatever the processes call.                    *)
(***************************************************************************)
EXTENDS Processes, ProcessTableProofs

-----------------------------------------------------------------------------
(***************************************************************************)
(* The inductive invariant.  TypeOK alone is not inductive: the loop of    *)
(* waitpid goes back to premier_fils, which must not be NULL.  IdleKept    *)
(* alone is not either: ordonnance puts idle back in the queue because it  *)
(* is not asleep.                                                          *)
(***************************************************************************)
WaitersHaveChildren(k) ==
  \A p \in Slots : k.polling[p] # NotPolling => k.premier_fils[p] # NULL

Sound(k) == k \in Kernels /\ WaitersHaveChildren(k) /\ IdleHeld(k)

IInv == Sound(kernel)

(* The inductive invariant gives the two that matter.                      *)
LEMMA SoundImplies == IInv => TypeOK /\ IdleKept
BY DEF IInv, Sound, TypeOK, IdleKept, IdleHeld

(* init_process leaves a sound memory.                                     *)
LEMMA InitSound == Init => IInv
<1>1. WaitersHaveChildren(InitialKernel)
  BY DEF WaitersHaveChildren, InitialKernel
<1>2. IdleHeld(InitialKernel)
  BY TableAssumption DEF IdleHeld, InitialKernel, Slots
<1> QED  BY <1>1, <1>2, InitialKernelType DEF Init, IInv, Sound

(* A step that touches neither polling nor premier_fils keeps the children *)
(* of the processes in waitpid.                                            *)
LEMMA FamilyKeepsWaiters ==
  ASSUME NEW k, NEW j, SameFamily(j, k), WaitersHaveChildren(k)
  PROVE  WaitersHaveChildren(j)
BY DEF SameFamily, WaitersHaveChildren

(* A failed assertion, an endless loop or a bad pointer changes only fate. *)
LEMMA CrashSound ==
  ASSUME NEW k, Sound(k), NEW f \in {"panic", "hang", "fault"}
  PROVE  Sound(Crash(k, f))
<1>1. Crash(k, f) \in Kernels
  BY CrashType DEF Sound, Fates
<1>2. SameFamily(Crash(k, f), k)
  BY DEF Crash, SameFamily, Kernels, Sound
<1>3. IdleHeld(Crash(k, f))
  BY DEF Crash, IdleHeld, Kernels, Sound
<1> QED  BY <1>1, <1>2, <1>3, FamilyKeepsWaiters DEF Sound

(* A wake-up and a preemption keep the invariant.                          *)
LEMMA OrdonnanceSound ==
  ASSUME NEW k, Sound(k)
  PROVE  Sound(ordonnance(k))
BY OrdonnanceType, OrdonnanceFamily, OrdonnanceIdle, FamilyKeepsWaiters DEF Sound

(* The burial of a process keeps the invariant.                            *)
LEMMA InsertMortSound ==
  ASSUME NEW k, Sound(k), NEW e \in Slots
  PROVE  Sound(insert_mort(k, e))
BY InsertMortType, InsertMortFamily, InsertMortIdle, FamilyKeepsWaiters DEF Sound

(* kill of a sleeping process keeps the invariant.                         *)
LEMMA SleepDelSound ==
  ASSUME NEW k, Sound(k), NEW pid \in Slots
  PROVE  Sound(sleep_del(k, pid))
BY SleepDelType, SleepDelFamily, SleepDelIdle, FamilyKeepsWaiters DEF Sound

(* A process made ready keeps the invariant.                               *)
LEMMA InsertActivableSound ==
  ASSUME NEW k, Sound(k), NEW e \in Slots
  PROVE  Sound(insert_activable(k, e))
BY InsertActivableType, InsertActivableFamily, InsertActivableIdle,
   FamilyKeepsWaiters DEF Sound

-----------------------------------------------------------------------------
(* start: the new process is linked to its father before it is made ready. *)

(* The head of the dead list leaves it for start.                          *)
LEMMA ExtractMortSound ==
  ASSUME NEW k, Sound(k), k.dead_list # NULL
  PROVE  Sound(extract_mort(k))
<1>1. extract_mort(k) \in Kernels
  BY ExtractMortType DEF Sound
<1>2. SameFamily(extract_mort(k), k) /\ IdleHeld(extract_mort(k))
  BY DEF extract_mort, SameFamily, IdleHeld, InQueue, Kernels, Sound
<1> QED  BY <1>1, <1>2, FamilyKeepsWaiters DEF Sound

(* The new process of a slot has no child and is not in waitpid.           *)
LEMMA ResetSlotSound ==
  ASSUME NEW k, Sound(k), NEW i \in Slots, NEW prio \in Nat
  PROVE  Sound(ResetSlot(k, i, prio))
<1> DEFINE j == ResetSlot(k, i, prio)
<1>1. j \in Kernels
  <2>1. NULL \in Int /\ NULL \in Pointers /\ NotPolling \in Polls
    BY DEF NULL, Pointers, Polls
  <2>2. k \in Kernels /\ k.actif \in Pointers
    BY DEF Sound, Kernels, Pointers
  <2> QED  BY <2>1, <2>2, ZenonT(40) DEF ResetSlot, Kernels
<1>2. /\ j.polling = [k.polling EXCEPT ![i] = NotPolling]
      /\ j.premier_fils = [k.premier_fils EXCEPT ![i] = NULL]
      /\ j.head_queue = k.head_queue /\ j.actif = k.actif
      /\ j.fate = k.fate /\ j.state = k.state
  BY DEF Sound, ResetSlot, Kernels
<1> HIDE DEF j
<1>3. WaitersHaveChildren(j)
  <2> SUFFICES ASSUME NEW p \in Slots, j.polling[p] # NotPolling
               PROVE  j.premier_fils[p] # NULL
    BY DEF WaitersHaveChildren
  <2>1. /\ k.polling \in [Slots -> Polls] /\ k.premier_fils \in [Slots -> Pointers]
        /\ k.polling[p] # NotPolling => k.premier_fils[p] # NULL
    BY DEF Sound, Kernels, WaitersHaveChildren
  <2>2. p # i
    BY <1>2, <2>1
  <2> QED  BY <1>2, <2>1, <2>2
<1>4. IdleHeld(j)
  BY <1>2 DEF Sound, IdleHeld, InQueue
<1> QED  BY <1>1, <1>3, <1>4 DEF Sound, j

(* The first child of a process becomes its premier_fils, which is never   *)
(* reset to NULL.                                                          *)
LEMMA AppendChildSound ==
  ASSUME NEW k, Sound(k), NEW i \in Slots
  PROVE  Sound(AppendChild(k, i))
<1> DEFINE j == AppendChild(k, i)
<1>1. j \in Kernels
  BY DEF Sound, AppendChild, Kernels, Pointers
<1>2. /\ j.polling = k.polling
      /\ j.premier_fils \in {k.premier_fils, [k.premier_fils EXCEPT ![k.actif] = i]}
      /\ j.head_queue = k.head_queue /\ j.actif = k.actif
      /\ j.fate = k.fate /\ j.state = k.state
  BY DEF Sound, AppendChild, Kernels
<1> HIDE DEF j
<1>3. WaitersHaveChildren(j)
  <2>1. i # NULL /\ k.premier_fils \in [Slots -> Pointers]
    BY DEF Slots, NULL, Sound, Kernels
  <2> QED  BY <1>2, <2>1 DEF WaitersHaveChildren, Sound
<1>4. IdleHeld(j)
  BY <1>2 DEF Sound, IdleHeld, InQueue
<1> QED  BY <1>1, <1>3, <1>4 DEF Sound, j

(* The whole of start keeps the invariant, even when it takes a slot       *)
(* outside the table.                                                      *)
LEMMA StartSound ==
  ASSUME NEW k, Sound(k), NEW prio \in Nat
  PROVE  Sound(start(k, prio))
<1> DEFINE i      == StartIndex(k)
           taken  == IF k.dead_list = NULL THEN k ELSE extract_mort(k)
           linked == AppendChild(ResetSlot(taken, i, prio), i)
           ready  == IF i > 0 THEN insert_activable(linked, i) ELSE linked
           j      == [ready EXCEPT !.process_alive = @ + 1]
<1>1. CASE i \notin Slots
  BY <1>1, CrashSound DEF start
<1>2. CASE i \in Slots
  <2>1. Sound(taken)
    BY ExtractMortSound
  <2> HIDE DEF taken, i
  <2>2. Sound(linked)
    BY <1>2, <2>1, ResetSlotSound, AppendChildSound
  <2> HIDE DEF linked
  <2>3. Sound(ready)
    BY <1>2, <2>2, InsertActivableSound
  <2> HIDE DEF ready
  <2>4. Sound(j)
    <3>1. j \in Kernels
      <4>1. ready \in Kernels
        BY <2>3 DEF Sound
      <4>2. ready.process_alive \in Int
        BY <4>1 DEF Kernels
      <4>3. ready.process_alive + 1 \in Int
        BY <4>2
      <4> QED  BY <4>1, <4>3 DEF Kernels
    <3>2. SameFamily(j, ready) /\ IdleHeld(j)
      BY <2>3 DEF Sound, Kernels, SameFamily, IdleHeld, InQueue
    <3> QED  BY <2>3, <3>1, <3>2, FamilyKeepsWaiters DEF Sound
  <2>5. start(k, prio) = j
    BY <1>2 DEF start, ready, linked, taken, i
  <2> QED  BY <2>4, <2>5
<1> QED  BY <1>1, <1>2

-----------------------------------------------------------------------------
(* fin_processus: the children are released, then idle or a process of     *)
(* higher priority gets the processor.                                     *)

(* The children of the process that ends are orphans, the zombies among    *)
(* them dead: idle stays where it is.                                      *)
LEMMA ReleaseChildrenSound ==
  ASSUME NEW k, Sound(k)
  PROVE  /\ Sound(ReleaseChildren(k))
         /\ ReleaseChildren(k).actif = k.actif
<1> DEFINE list == Chain(k.frere_droit, k.premier_fils[k.actif])
           zs   == {n \in DOMAIN list : k.state[list[n]] = "ZOMBIE"}
           dead == {list[n] : n \in zs}
           At(p) == CHOOSE n \in zs : list[n] = p
           NextDead(p) == LET after == {n \in zs : n > At(p)}
                          IN  IF after = {} THEN NULL ELSE list[Min(after)]
           orphan == [k EXCEPT
             !.pere = [p \in Slots |->
                         IF \E n \in DOMAIN list : list[n] = p THEN NULL ELSE @[p]]]
           last == CHOOSE n \in zs : \A m \in zs : m <= n
           newstate == [p \in Slots |-> IF p \in dead THEN "MORT" ELSE k.state[p]]
           newsuiv == [p \in Slots |->
                     IF p \in dead THEN NextDead(p)
                     ELSE IF p = k.dead_tail /\ k.dead_list # NULL
                     THEN list[Min(zs)] ELSE k.suiv[p]]
           newhead == IF k.dead_list = NULL THEN list[Min(zs)] ELSE k.dead_list
           buried == [orphan EXCEPT !.state = newstate, !.suiv = newsuiv,
                                    !.dead_list = newhead, !.dead_tail = list[last]]
<1>0. k \in Kernels
  BY DEF Sound
<1>1. \A n \in DOMAIN list : n \in 1 .. PROCESS_TABLE_SIZE /\ list[n] \in Slots
  BY ChainElements
<1>2. orphan \in Kernels /\ orphan.actif = k.actif /\ SameFamily(orphan, k) /\ IdleHeld(orphan)
  <2>1. [p \in Slots |-> IF \E n \in DOMAIN list : list[n] = p THEN NULL ELSE k.pere[p]]
          \in [Slots -> Pointers]
    BY <1>0 DEF Pointers, Kernels
  <2> HIDE DEF list
  <2> QED  BY <1>0, <2>1 DEF Kernels, SameFamily, IdleHeld, InQueue, Sound
<1>3. CASE Endless(k.frere_droit, k.premier_fils[k.actif])
  <2>1. ReleaseChildren(k) = Crash(k, "hang")
    BY <1>3, Zenon DEF ReleaseChildren
  <2>2. Sound(Crash(k, "hang"))
    BY CrashSound
  <2>3. Crash(k, "hang").actif = k.actif
    BY <1>0 DEF Crash, Kernels
  <2> QED  BY <2>1, <2>2, <2>3, Zenon
<1>4. CASE ~ Endless(k.frere_droit, k.premier_fils[k.actif]) /\ zs = {}
  <2>1. ReleaseChildren(k) = orphan
    BY <1>4 DEF ReleaseChildren
  <2> QED  BY <1>2, <2>1, FamilyKeepsWaiters DEF Sound
<1>5. CASE ~ Endless(k.frere_droit, k.premier_fils[k.actif]) /\ zs # {}
  <2>1. ReleaseChildren(k) = buried
    BY <1>0, <1>5, Zenon DEF ReleaseChildren, Kernels
  <2>2. zs \subseteq Nat /\ \A n \in zs : n <= PROCESS_TABLE_SIZE
    BY <1>1, TableAssumption
  <2>3. \A n \in zs : list[n] \in Slots
    BY <1>1
  <2> HIDE DEF zs, list
  <2>4. list[Min(zs)] \in Slots
    BY <1>5, <2>2, <2>3, MinExists
  <2>5. list[last] \in Slots
    <3>1. \E n \in zs : \A m \in zs : m <= n
      BY <1>5, <2>2, TableAssumption, GreatestExists
    <3>2. last \in zs
      BY <3>1
    <3> QED  BY <2>3, <3>2
  <2>6. \A p \in Slots : NextDead(p) \in Pointers
    <3> SUFFICES ASSUME NEW p \in Slots PROVE NextDead(p) \in Pointers
      OBVIOUS
    <3> DEFINE after == {n \in zs : n > At(p)}
    <3>1. CASE after = {}
      BY <3>1 DEF Pointers
    <3>2. CASE after # {}
      <4>1. after \subseteq zs /\ after \subseteq Nat
        BY <2>2
      <4> HIDE DEF after
      <4>2. Min(after) \in zs
        BY <3>2, <4>1, MinExists
      <4> QED  BY <2>3, <3>2, <4>2 DEF Pointers, after
    <3> QED  BY <3>1, <3>2
  <2> HIDE DEF NextDead, last, orphan, dead
  <2>7. newstate \in [Slots -> ProcessStates]
    BY <1>0 DEF Kernels, ProcessStates
  <2>8. newsuiv \in [Slots -> Pointers]
    BY <1>0, <2>4, <2>6 DEF Kernels, Pointers
  <2>9. newhead \in Pointers
    BY <1>0, <2>4 DEF Kernels, Pointers
  <2>10. newstate[0] # "ENDORMI"
    <3>1. 0 \in Slots /\ k.state[0] # "ENDORMI"
      BY TableAssumption DEF Slots, Sound, IdleHeld
    <3> QED  BY <3>1
  <2> HIDE DEF newstate, newsuiv, newhead
  <2>11. buried \in Kernels
    BY <1>2, <2>5, <2>7, <2>8, <2>9 DEF Kernels, Pointers
  <2>12. /\ buried.actif = orphan.actif /\ SameFamily(buried, orphan)
         /\ buried.head_queue = orphan.head_queue /\ buried.fate = orphan.fate
         /\ buried.state = newstate
    BY <1>2 DEF Kernels, SameFamily
  <2> HIDE DEF buried
  <2>13. IdleHeld(buried)
    BY <1>2, <2>10, <2>12, IdleHeldUnaffected
  <2>14. WaitersHaveChildren(buried)
    BY <1>2, <2>12, FamilyKeepsWaiters DEF SameFamily, Sound
  <2> QED  BY <1>2, <2>1, <2>11, <2>12, <2>13, <2>14 DEF Sound
<1> QED  BY <1>3, <1>4, <1>5

(* A process other than idle never finds the queue empty when it ends.     *)
LEMMA SwitchAwaySound ==
  ASSUME NEW k, Sound(k), k.actif # 0, k.fate = "run"
  PROVE  Sound(SwitchAway(k))
<1> DEFINE new == queue_top(k)
           out == extract_activable(k)
           j == [out EXCEPT !.process_alive = @ - 1, !.actif = new]
<1>1. k \in Kernels /\ k.head_queue # <<>>
  <2>1. InQueue(k, 0)
    BY DEF Sound, IdleHeld
  <2> QED  BY <2>1 DEF Sound, InQueue
<1>2. SwitchAway(k) = j
  BY <1>1 DEF SwitchAway
<1>3. PICK q \in Seq(Slots) :
        /\ out = [k EXCEPT !.head_queue = q, !.suiv[new] = NULL]
        /\ \A x : x # new => (Occurs(q, x) <=> Occurs(k.head_queue, x))
  BY <1>1, QueueOutEffect, Zenon
<1>4. out \in Kernels /\ new \in Slots
  BY <1>1, QueueOutEffect, ExtractActivableType, Zenon
<1>5. /\ out.state = k.state /\ out.fate = k.fate /\ SameFamily(out, k)
      /\ \A x : x # new => (InQueue(out, x) <=> InQueue(k, x))
  BY <1>1, <1>3 DEF Kernels, SameFamily, InQueue, Occurs
<1> HIDE DEF out, new
<1>6. j \in Kernels /\ SameFamily(j, k)
  <2>1. out.process_alive - 1 \in Int
    BY <1>4 DEF Kernels
  <2> QED  BY <1>4, <1>5, <2>1 DEF Kernels, SameFamily
<1>7. j.state = k.state /\ j.fate = "run" /\ j.actif = new /\ j.head_queue = out.head_queue
  BY <1>4, <1>5 DEF Kernels
<1>8. IdleHeld(j)
  BY <1>5, <1>7, ZenonT(40) DEF IdleHeld, InQueue, Sound
<1> QED  BY <1>2, <1>6, <1>8, FamilyKeepsWaiters DEF Sound

(* The end of a process keeps the invariant: idle is in the queue, because *)
(* it is not the process that ends.                                        *)
LEMMA FinProcessusSound ==
  ASSUME NEW k, Sound(k), k.actif # 0, NEW stray \in BOOLEAN
  PROVE  Sound(fin_processus(k, stray))
<1> DEFINE me   == k.actif
           over == IF k.pere[me] = NULL THEN insert_mort(k, me)
                   ELSE [k EXCEPT !.state[me] = "ZOMBIE"]
           left == ReleaseChildren(over)
<1>1. k \in Kernels /\ me \in Slots
  BY DEF Sound, Kernels
<1>2. Sound(over) /\ over.actif = me
  <2>1. CASE k.pere[me] = NULL
    <3>1. insert_mort(k, me).actif = me
      BY <1>1 DEF insert_mort, Kernels
    <3> QED  BY <1>1, <2>1, <3>1, InsertMortSound
  <2>2. CASE k.pere[me] # NULL
    <3> DEFINE z == [k EXCEPT !.state[me] = "ZOMBIE"]
    <3>1. z \in Kernels /\ SameFamily(z, k) /\ z.actif = me
      BY <1>1 DEF Kernels, ProcessStates, SameFamily
    <3>2. IdleHeld(z)
      BY <1>1 DEF IdleHeld, InQueue, Kernels, Sound
    <3> QED  BY <2>2, <3>1, <3>2, FamilyKeepsWaiters DEF Sound
  <2> QED  BY <2>1, <2>2
<1> HIDE DEF over
<1>3. Sound(left) /\ left.actif = me
  BY <1>2, ReleaseChildrenSound
<1>4. \/ fin_processus(k, stray) \in {left, Crash(left, "fault")}
      \/ /\ left.fate = "run"
         /\ fin_processus(k, stray) = SwitchAway(left)
  BY DEF fin_processus, over
<1> HIDE DEF left
<1> QED  BY <1>3, <1>4, CrashSound, SwitchAwaySound

-----------------------------------------------------------------------------
(* chprio: a process of the queue is unlinked and linked again.            *)

(* A priority is not part of the invariant.                                *)
LEMMA SetPrioSound ==
  ASSUME NEW k, Sound(k), NEW pid \in Slots, NEW newprio \in Nat
  PROVE  Sound([k EXCEPT !.prio[pid] = newprio])
<1> DEFINE j == [k EXCEPT !.prio[pid] = newprio]
<1>1. j \in Kernels /\ SameFamily(j, k) /\ IdleHeld(j)
  BY DEF Sound, Kernels, SameFamily, IdleHeld, InQueue
<1> QED  BY <1>1, FamilyKeepsWaiters DEF Sound

(* Unlinking a process and linking it again keeps every process of the     *)
(* queue in it.                                                            *)
LEMMA RequeueSound ==
  ASSUME NEW k, Sound(k), NEW pid \in Slots, NEW newprio \in Nat, InQueue(k, pid)
  PROVE  Sound(queue_add([queue_del(k, pid) EXCEPT !.prio[pid] = newprio], pid))
<1>1. k \in Kernels
  BY DEF Sound
<1>2. PICK q \in Seq(Slots) :
        /\ queue_del(k, pid) = [k EXCEPT !.head_queue = q]
        /\ \A x : x # pid => (Occurs(q, x) <=> Occurs(k.head_queue, x))
  BY <1>1, QueueDelEffect
<1> DEFINE r == [queue_del(k, pid) EXCEPT !.prio[pid] = newprio]
           j == queue_add(r, pid)
<1>3. /\ r \in Kernels /\ SameFamily(r, k)
      /\ r.head_queue = q /\ r.actif = k.actif /\ r.fate = k.fate /\ r.state = k.state
  BY <1>1, <1>2 DEF Kernels, SameFamily
<1> HIDE DEF r
<1>6. \/ j = Crash(r, "panic")
      \/ \E s \in Seq(Slots) :
           /\ j = [r EXCEPT !.head_queue = s]
           /\ \A x : Occurs(s, x) <=> x = pid \/ Occurs(r.head_queue, x)
  BY <1>3, QueueAddEffect
<1> SUFFICES Sound(j)
  BY DEF r
<1> HIDE DEF j
<1>4. CASE j = Crash(r, "panic")
  <2>1. Crash(r, "panic") \in Kernels
    BY <1>3, CrashType DEF Fates
  <2>2. SameFamily(Crash(r, "panic"), r)
    BY <1>3 DEF Crash, SameFamily, Kernels
  <2>3. j.state = k.state /\ j.fate = "panic"
    BY <1>3, <1>4 DEF Crash, Kernels
  <2>4. IdleHeld(j)
    BY <2>3 DEF IdleHeld, Sound
  <2>5. WaitersHaveChildren(j)
    BY <1>3, <1>4, <2>2, FamilyKeepsWaiters DEF SameFamily, Sound
  <2> QED  BY <1>4, <2>1, <2>4, <2>5 DEF Sound
<1>5. CASE \E s \in Seq(Slots) :
             /\ j = [r EXCEPT !.head_queue = s]
             /\ \A x : Occurs(s, x) <=> x = pid \/ Occurs(r.head_queue, x)
  <2>1. PICK s \in Seq(Slots) :
             /\ j = [r EXCEPT !.head_queue = s]
             /\ \A x : Occurs(s, x) <=> x = pid \/ Occurs(r.head_queue, x)
    BY <1>5
  <2>2. /\ j \in Kernels /\ SameFamily(j, r)
        /\ j.state = r.state /\ j.fate = r.fate /\ j.actif = r.actif
        /\ j.head_queue = s
    BY <1>3, <2>1 DEF Kernels, SameFamily
  <2>3. Occurs(k.head_queue, 0) => Occurs(j.head_queue, 0)
    BY <1>2, <1>3, <2>1, <2>2
  <2>4. IdleHeld(j)
    BY <1>3, <2>2, <2>3 DEF IdleHeld, Sound, InQueue, Occurs
  <2>5. WaitersHaveChildren(j)
    BY <1>3, <2>2, FamilyKeepsWaiters DEF SameFamily, Sound
  <2> QED  BY <2>2, <2>4, <2>5 DEF Sound
<1> QED  BY <1>4, <1>5, <1>6

(* chprio keeps the invariant wherever pid is found.                       *)
LEMMA ChprioSound ==
  ASSUME NEW k, Sound(k), NEW pid \in Int, NEW newprio \in Int
  PROVE  Sound(chprio(k, pid, newprio))
<1> DEFINE set    == [k EXCEPT !.prio[pid] = newprio]
           queued == IF k.actif # pid /\ InQueue(k, pid)
                     THEN queue_add([queue_del(k, pid) EXCEPT !.prio[pid] = newprio],
                                    pid)
                     ELSE IF k.actif = pid \/ Asleep(k, pid) THEN set ELSE k
<1>1. CASE ~ ValidChprio(pid, newprio)
  BY <1>1 DEF chprio
<1>2. CASE ValidChprio(pid, newprio)
  <2>1. pid \in Slots /\ newprio \in Nat
    BY <1>2, TableAssumption DEF ValidChprio
  <2>2. Sound(queued)
    BY <2>1, SetPrioSound, RequeueSound
  <2>3. chprio(k, pid, newprio) \in {Crash(k, "hang"), ordonnance(queued)}
    BY <1>2 DEF chprio
  <2> HIDE DEF queued
  <2> QED  BY <2>2, <2>3, CrashSound, OrdonnanceSound
<1> QED  BY <1>1, <1>2

(* getprio gives -1 or a priority.                                         *)
LEMMA GetprioType ==
  ASSUME NEW k \in Kernels, NEW pid
  PROVE  getprio(k, pid) \in Int
BY DEF getprio, Kernels

-----------------------------------------------------------------------------
(* waitpid: from NotPolling to a child of the caller, from child to child, *)
(* and back.                                                               *)

(* A process may look at a child when it has one.                          *)
LEMMA SetPollingSound ==
  ASSUME NEW k, Sound(k), NEW me \in Slots, NEW poll \in Polls,
         poll = NotPolling \/ k.premier_fils[me] # NULL
  PROVE  Sound([k EXCEPT !.polling[me] = poll])
<1> DEFINE j == [k EXCEPT !.polling[me] = poll]
<1>1. j \in Kernels /\ IdleHeld(j)
  BY DEF Sound, Kernels, IdleHeld, InQueue
<1>2. /\ j.polling = [k.polling EXCEPT ![me] = poll]
      /\ j.premier_fils = k.premier_fils
      /\ k.polling \in [Slots -> Polls]
  BY DEF Sound, Kernels
<1> HIDE DEF j
<1>3. WaitersHaveChildren(j)
  BY <1>2 DEF WaitersHaveChildren, Sound
<1>4. Sound(j)
  BY <1>1, <1>3 DEF Sound
<1> QED  BY <1>4 DEF j

(* waitpid starts its search only when the caller has a child.             *)
LEMMA WaitpidEnterSound ==
  ASSUME IInv, NEW pid \in Int, NEW dest \in BOOLEAN, WaitpidEnter(pid, dest)
  PROVE  IInv'
<1> DEFINE me == kernel.actif
           list == Chain(kernel.frere_droit, kernel.premier_fils[me])
           poll == [param |-> IF pid < 0 THEN -1 ELSE pid,
                    fils  |-> kernel.premier_fils[me],
                    dest  |-> dest]
<1>1. Sound(kernel) /\ me \in Slots
  BY DEF IInv, Sound, Kernels
<1>2. kernel' = [kernel EXCEPT !.polling[me] = poll]
  BY DEF WaitpidEnter
<1>3. IsWaitable(kernel, pid)
  BY DEF WaitpidEnter
<1>4. /\ kernel.premier_fils[me] # NULL
      /\ ~ (pid < 0) => pid \in Slots
  <2>1. CASE pid < 0 /\ kernel.premier_fils[me] # NULL
    BY <2>1
  <2>2. CASE ~ (pid < 0 /\ kernel.premier_fils[me] # NULL)
    <3>1. \E n \in Searched(kernel, pid) : list[n] = pid
      BY <1>3, <2>2 DEF IsWaitable
    <3>2. PICK n \in DOMAIN list : list[n] = pid
      BY <3>1 DEF Searched
    <3> QED  BY <3>2, ChainElements
  <2> QED  BY <2>1, <2>2
<1>5. poll \in Polls
  <2>1. kernel.premier_fils[me] \in Slots
    BY <1>1, <1>4 DEF Sound, Kernels, Pointers
  <2>2. (IF pid < 0 THEN -1 ELSE pid) \in Pointers
    BY <1>4 DEF Pointers, NULL
  <2> QED  BY <2>1, <2>2 DEF Polls
<1> HIDE DEF poll
<1> QED  BY <1>1, <1>2, <1>4, <1>5, SetPollingSound DEF IInv

(* The zombie that waitpid finds is buried.                                *)
LEMMA PollReapsSound ==
  ASSUME IInv, PollReaps
  PROVE  IInv'
<1> DEFINE me == kernel.actif
           fils == kernel.polling[me].fils
           back == [kernel EXCEPT !.polling[me] = NotPolling]
           buried == insert_mort(back, fils)
<1>1. Sound(kernel) /\ me \in Slots /\ kernel.polling[me] \in Polls
  BY DEF IInv, Sound, Kernels
<1>2. kernel.polling[me] # NotPolling
  BY DEF PollReaps, Polling
<1>3. fils \in Slots
  BY <1>1, <1>2 DEF Polls
<1>4. Sound(back)
  BY <1>1, SetPollingSound DEF Polls
<1>5. kernel' \in {buried, Crash(buried, "fault")}
  BY DEF PollReaps
<1> HIDE DEF back
<1>6. Sound(buried)
  BY <1>3, <1>4, InsertMortSound
<1> HIDE DEF buried
<1> QED  BY <1>5, <1>6, CrashSound DEF IInv

(* waitpid goes on to a brother or back to the first child, which is not   *)
(* NULL.                                                                   *)
LEMMA MovedSound ==
  ASSUME IInv, PollMovesOn
  PROVE  LET me    == kernel.actif
             fils  == kernel.polling[me].fils
             next  == IF kernel.frere_droit[fils] = NULL
                      THEN kernel.premier_fils[me] ELSE kernel.frere_droit[fils]
         IN  /\ Sound([kernel EXCEPT !.polling[me].fils = next])
             /\ kernel.polling[me].param \in Int
             /\ next \in Slots
<1> DEFINE me    == kernel.actif
           poll  == kernel.polling[me]
           fils  == poll.fils
           param == poll.param
           next  == IF kernel.frere_droit[fils] = NULL
                    THEN kernel.premier_fils[me] ELSE kernel.frere_droit[fils]
           moved == [kernel EXCEPT !.polling[me].fils = next]
           further == [poll EXCEPT !.fils = next]
<1>1. Sound(kernel) /\ kernel \in Kernels /\ me \in Slots /\ poll \in Polls
  BY DEF IInv, Sound, Kernels
<1>2. poll # NotPolling
  BY DEF PollMovesOn, Polling
<1>3. fils \in Slots /\ param \in Pointers /\ poll.dest \in BOOLEAN
      /\ poll = [param |-> param, fils |-> fils, dest |-> poll.dest]
  BY <1>1, <1>2 DEF Polls
<1>4. kernel.premier_fils[me] # NULL
  BY <1>1, <1>2 DEF Sound, WaitersHaveChildren
<1>5. next \in Slots
  BY <1>1, <1>3, <1>4 DEF Kernels, Pointers
<1>6. moved = [kernel EXCEPT !.polling[me] = further]
  BY <1>1 DEF Kernels
<1>7. further \in Polls
  <2> HIDE DEF next
  <2> QED  BY <1>3, <1>5 DEF Polls
<1>8. Sound(moved)
  <2> HIDE DEF further, moved
  <2> QED  BY <1>1, <1>4, <1>6, <1>7, SetPollingSound
<1>9. param \in Int
  BY <1>3 DEF Pointers, Slots, NULL
<1> QED  BY <1>5, <1>8, <1>9

(* A step of waitpid keeps the invariant, with or without a boost.         *)
LEMMA PollMovesOnSound ==
  ASSUME IInv, PollMovesOn
  PROVE  IInv'
<1> DEFINE me    == kernel.actif
           fils  == kernel.polling[me].fils
           param == kernel.polling[me].param
           next  == IF kernel.frere_droit[fils] = NULL
                    THEN kernel.premier_fils[me] ELSE kernel.frere_droit[fils]
           moved == [kernel EXCEPT !.polling[me].fils = next]
<1>1. Sound(moved) /\ param \in Int
  BY MovedSound
<1>2. kernel' \in {moved, chprio(moved, param, getprio(moved, param) + 1)}
  BY DEF PollMovesOn
<1> HIDE DEF moved
<1>3. getprio(moved, param) + 1 \in Int
  BY <1>1, GetprioType DEF Sound
<1> QED  BY <1>1, <1>2, <1>3, ChprioSound DEF IInv

-----------------------------------------------------------------------------
(* The other calls and the clock.                                          *)

(* exit, and the return from the main function of a process, keep the      *)
(* invariant.                                                              *)
LEMMA EndSound ==
  ASSUME IInv, kernel.actif # 0, NEW v \in Int, NEW stray \in BOOLEAN
  PROVE  /\ Sound(fin_processus(kernel, stray))
         /\ Sound(fin_processus([kernel EXCEPT !.retval[kernel.actif] = v], stray))
<1> DEFINE r == [kernel EXCEPT !.retval[kernel.actif] = v]
<1>1. r \in Kernels /\ SameFamily(r, kernel) /\ IdleHeld(r) /\ r.actif = kernel.actif
  BY DEF IInv, Sound, Kernels, SameFamily, IdleHeld, InQueue
<1> HIDE DEF r
<1>2. Sound(r)
  BY <1>1, FamilyKeepsWaiters DEF IInv, Sound
<1>3. Sound(fin_processus(r, stray))
  BY <1>1, <1>2, FinProcessusSound
<1> QED  BY <1>3, FinProcessusSound DEF IInv, r

(* kill of the caller, of a ready and of a sleeping process keep the       *)
(* invariant.                                                              *)
LEMMA KillSound ==
  ASSUME IInv, NEW pid, Kill(pid)
  PROVE  IInv'
<1>1. CASE KillSelf(pid)
  <2>1. NULL \in Int
    BY DEF NULL
  <2> QED  BY <1>1, <2>1, EndSound DEF KillSelf, IInv
<1>2. CASE KillReady(pid)
  <2> DEFINE z == [kernel EXCEPT !.state[pid] = "ZOMBIE"]
             j == queue_del(z, pid)
  <2>1. pid \in Slots \ {0} /\ InQueue(kernel, pid) /\ kernel' = j
    BY <1>2 DEF KillReady
  <2>2. /\ z \in Kernels /\ SameFamily(z, kernel) /\ InQueue(z, pid)
        /\ z.head_queue = kernel.head_queue /\ z.actif = kernel.actif
        /\ z.fate = kernel.fate /\ z.state[0] = kernel.state[0]
    <3>1. kernel \in Kernels
      BY DEF IInv, Sound
    <3>2. z \in Kernels /\ SameFamily(z, kernel)
      BY <2>1, <3>1 DEF Kernels, ProcessStates, SameFamily
    <3>3. /\ z.head_queue = kernel.head_queue /\ z.actif = kernel.actif
          /\ z.fate = kernel.fate
      BY <3>1 DEF Kernels
    <3>4. z.state[0] = kernel.state[0]
      BY <2>1, <3>1, TableAssumption DEF Kernels
    <3> QED  BY <2>1, <3>2, <3>3, <3>4 DEF InQueue
  <2> HIDE DEF z
  <2>3. PICK q \in Seq(Slots) :
          /\ j = [z EXCEPT !.head_queue = q]
          /\ \A x : x # pid => (Occurs(q, x) <=> Occurs(z.head_queue, x))
    BY <2>2, QueueDelEffect
  <2>4. /\ j \in Kernels /\ SameFamily(j, z) /\ j.actif = z.actif
        /\ j.fate = z.fate /\ j.state = z.state /\ j.head_queue = q
    BY <2>2, <2>3, ZenonT(40) DEF Kernels, SameFamily
  <2> HIDE DEF j
  <2>5. InQueue(kernel, 0) => InQueue(j, 0)
    BY <2>1, <2>2, <2>3, <2>4 DEF InQueue, Occurs
  <2>6. IdleHeld(j)
    BY <2>2, <2>4, <2>5 DEF IdleHeld, IInv, Sound
  <2>7. WaitersHaveChildren(j)
    BY <2>2, <2>4, FamilyKeepsWaiters DEF SameFamily, IInv, Sound
  <2> QED  BY <2>1, <2>4, <2>6, <2>7 DEF IInv, Sound
<1>3. CASE KillNotReady(pid)
  BY <1>3, SleepDelSound DEF KillNotReady, IInv
<1> QED  BY <1>1, <1>2, <1>3 DEF Kill

(* wait_clock, which process 0 never calls, keeps the invariant.           *)
LEMMA WaitClockSound ==
  ASSUME IInv, NEW clock \in Nat, WaitClock(clock)
  PROVE  IInv'
<1> DEFINE time == clock \div CLOCKFREQ
           j == insert_endormi(kernel, kernel.actif, time)
<1>1. time \in Nat
  BY ProcessesAssumption
<1>2. kernel \in Kernels /\ kernel.actif \in Slots \ {0}
  BY DEF IInv, Sound, Kernels, WaitClock
<1>3. kernel' = ordonnance(j)
  BY DEF WaitClock
<1> HIDE DEF time
<1>4. Sound(j)
  BY <1>1, <1>2, InsertEndormiType, InsertEndormiFamily, InsertEndormiIdle,
     FamilyKeepsWaiters DEF IInv, Sound
<1> HIDE DEF j
<1> QED  BY <1>3, <1>4, OrdonnanceSound DEF IInv

(* The clock interrupt keeps the invariant.                                *)
LEMMA TickSound ==
  ASSUME IInv, Tick
  PROVE  IInv'
<1> DEFINE j == [kernel EXCEPT !.nb_tick = IF @ < MaxTick THEN @ + 1 ELSE @]
<1>1. j \in Kernels /\ SameFamily(j, kernel) /\ IdleHeld(j)
  <2>1. kernel \in Kernels /\ IdleHeld(kernel)
    BY DEF IInv, Sound
  <2>2. (IF kernel.nb_tick < MaxTick THEN kernel.nb_tick + 1 ELSE kernel.nb_tick) \in Nat
    BY <2>1 DEF Kernels
  <2>3. j \in Kernels /\ SameFamily(j, kernel)
    BY <2>1, <2>2 DEF Kernels, SameFamily
  <2>4. IdleHeld(j)
    BY <2>1 DEF IdleHeld, InQueue, Kernels
  <2> QED  BY <2>3, <2>4
<1>2. kernel' = ordonnance(j)
  BY DEF Tick
<1> HIDE DEF j
<1>3. Sound(j)
  BY <1>1, FamilyKeepsWaiters DEF IInv, Sound
<1> QED  BY <1>2, <1>3, OrdonnanceSound DEF IInv

-----------------------------------------------------------------------------
(* The boost of an awaited child.                                          *)

(* chprio changes one priority at most, and only to a valid value.         *)
LEMMA ChprioPrio ==
  ASSUME NEW k, Sound(k), NEW pid \in Int, NEW newprio \in Int
  PROVE  \/ chprio(k, pid, newprio).prio = k.prio
         \/ /\ ValidChprio(pid, newprio)
            /\ chprio(k, pid, newprio).prio = [k.prio EXCEPT ![pid] = newprio]
<1> DEFINE set    == [k EXCEPT !.prio[pid] = newprio]
           requeued == queue_add([queue_del(k, pid) EXCEPT !.prio[pid] = newprio],
                                 pid)
           queued == IF k.actif # pid /\ InQueue(k, pid) THEN requeued
                     ELSE IF k.actif = pid \/ Asleep(k, pid) THEN set ELSE k
<1>1. CASE ~ ValidChprio(pid, newprio)
  BY <1>1 DEF chprio
<1>2. CASE ValidChprio(pid, newprio)
  <2>1. pid \in Slots /\ newprio \in Nat /\ k \in Kernels
    BY <1>2, TableAssumption DEF ValidChprio, Sound
  <2>2. Sound(queued)
    BY <2>1, SetPrioSound, RequeueSound
  <2>3. set.prio = [k.prio EXCEPT ![pid] = newprio]
    BY <2>1 DEF Kernels
  <2>4. InQueue(k, pid) => requeued.prio = [k.prio EXCEPT ![pid] = newprio]
    <3> SUFFICES ASSUME InQueue(k, pid)
                 PROVE  requeued.prio = [k.prio EXCEPT ![pid] = newprio]
      OBVIOUS
    <3> DEFINE d == queue_del(k, pid)
               r == [d EXCEPT !.prio[pid] = newprio]
    <3>1. d \in Kernels /\ d.prio = k.prio
      <4>1. d.prio = k.prio
        BY <2>1 DEF queue_del, Kernels
      <4> QED  BY <2>1, <4>1, QueueDelType
    <3> HIDE DEF d
    <3>2. r \in Kernels /\ r.prio = [k.prio EXCEPT ![pid] = newprio]
      BY <2>1, <3>1 DEF Kernels
    <3>3. requeued = queue_add(r, pid)
      BY DEF d
    <3> HIDE DEF r
    <3> QED  BY <2>1, <3>2, <3>3, QueueAddPrio
  <2>5. queued.prio \in {k.prio, [k.prio EXCEPT ![pid] = newprio]}
    BY <2>3, <2>4
  <2>6. chprio(k, pid, newprio) \in {Crash(k, "hang"), ordonnance(queued)}
    BY <1>2 DEF chprio
  <2>7. Crash(k, "hang").prio = k.prio
    BY <2>1 DEF Crash, Kernels
  <2> HIDE DEF queued
  <2>8. ordonnance(queued).prio = queued.prio
    BY <2>2, OrdonnancePrio DEF Sound
  <2> QED  BY <1>2, <2>5, <2>6, <2>7, <2>8
<1> QED  BY <1>1, <1>2

(* What a step of waitpid does to a priority.                              *)
LEMMA BoostIsBounded ==
  ASSUME IInv, PollMovesOn, NEW p \in Slots, kernel'.prio[p] # kernel.prio[p]
  PROVE  /\ kernel'.prio[p] = kernel.prio[p] + 1
         /\ kernel'.prio[p] <= kernel.prio[kernel.actif]
         /\ p = kernel.polling[kernel.actif].param
<1> DEFINE me    == kernel.actif
           poll  == kernel.polling[me]
           fils  == poll.fils
           param == poll.param
           next  == IF kernel.frere_droit[fils] = NULL
                    THEN kernel.premier_fils[me] ELSE kernel.frere_droit[fils]
           moved == [kernel EXCEPT !.polling[me].fils = next]
           g     == getprio(moved, param)
<1>1. Sound(moved) /\ param \in Int /\ next \in Slots
  BY MovedSound
<1>2. moved.prio = kernel.prio /\ kernel.prio \in [Slots -> Nat]
  BY DEF IInv, Sound, Kernels
<1>3. /\ param = next /\ kernel.prio[next] < kernel.prio[me]
      /\ kernel' = chprio(moved, param, g + 1)
  <2>1. kernel' # moved
    BY <1>2
  <2> QED  BY <2>1, Zenon DEF PollMovesOn
<1> HIDE DEF next, moved
<1>4. g \in Int /\ g \in {kernel.prio[param], -1}
  BY <1>1, <1>2, GetprioType DEF getprio, Sound
<1> HIDE DEF g
<1>5. /\ ValidChprio(param, g + 1)
      /\ kernel'.prio = [kernel.prio EXCEPT ![param] = g + 1]
  <2>1. g + 1 \in Int /\ kernel'.prio # kernel.prio
    BY <1>4
  <2> QED  BY <1>1, <1>2, <1>3, <2>1, ChprioPrio
<1>6. g = kernel.prio[param]
  BY <1>4, <1>5 DEF ValidChprio
<1>7. p = param
  BY <1>2, <1>5
<1>8. kernel'.prio[p] = kernel.prio[p] + 1
  BY <1>1, <1>2, <1>3, <1>5, <1>6, <1>7
<1>9. me \in Slots
  BY DEF IInv, Sound, Kernels
<1> QED
  BY <1>1, <1>2, <1>3, <1>7, <1>8, <1>9

-----------------------------------------------------------------------------
(* The theorems.                                                           *)

(* Every call and every interrupt keeps the inductive invariant.           *)
LEMMA NextSound == IInv /\ [Next]_vars => IInv'
<1> SUFFICES ASSUME IInv, [Next]_vars PROVE IInv'
  OBVIOUS
<1>1. ASSUME NEW prio \in StartPrios, Start(prio) PROVE IInv'
  <2>1. prio \in Nat
    BY ProcessesAssumption
  <2> QED  BY <1>1, <2>1, StartSound DEF Start, IInv
<1>2. ASSUME NEW v \in RetVals, Exit(v) PROVE IInv'
  <2>1. v \in Int
    BY ProcessesAssumption
  <2> QED  BY <1>2, <2>1, EndSound DEF Exit, IInv
<1>3. CASE ReturnFromMain
  <2>1. 0 \in Int
    OBVIOUS
  <2> QED  BY <1>3, <2>1, EndSound DEF ReturnFromMain, IInv
<1>4. ASSUME NEW pid \in KillPids, Kill(pid) PROVE IInv'
  BY <1>4, KillSound
<1>5. ASSUME NEW pid \in Pids, Waitpid(pid) PROVE IInv'
  <2>1. pid \in Int
    BY ProcessesAssumption
  <2> QED  BY <1>5, <2>1, WaitpidEnterSound DEF Waitpid
<1>6. ASSUME NEW pid \in Pids, NEW newprio \in NewPrios, Chprio(pid, newprio)
      PROVE  IInv'
  <2>1. pid \in Int /\ newprio \in Int
    BY ProcessesAssumption
  <2> QED  BY <1>6, <2>1, ChprioSound DEF Chprio, IInv
<1>7. ASSUME NEW clock \in Clocks, WaitClock(clock) PROVE IInv'
  <2>1. clock \in Nat
    BY ProcessesAssumption
  <2> QED  BY <1>7, <2>1, WaitClockSound
<1>8. CASE PollReaps
  BY <1>8, PollReapsSound
<1>9. CASE PollMovesOn
  BY <1>9, PollMovesOnSound
<1>10. CASE Tick
  BY <1>10, TickSound
<1>11. CASE UNCHANGED vars
  BY <1>11 DEF vars, IInv
<1> QED
  BY <1>1, <1>2, <1>3, <1>4, <1>5, <1>6, <1>7, <1>8, <1>9, <1>10, <1>11 DEF Next

(* Whatever the processes call and however many slots there are, every     *)
(* column of the table keeps its type; waitpid in particular never looks   *)
(* at a child that is NULL (proc.c:688).                                   *)
THEOREM TypeSafety == Spec => []TypeOK
<1>1. Init => IInv
  BY InitSound
<1>2. IInv /\ [Next]_vars => IInv'
  BY NextSound
<1>3. IInv => TypeOK
  BY SoundImplies
<1> QED  BY <1>1, <1>2, <1>3, PTL DEF Spec

(* Whatever the processes call, idle has the processor or a place in the   *)
(* ready queue, so that a process that ends always finds a successor       *)
(* (proc.c:872-877).                                                       *)
THEOREM IdleIsKept == Spec => []IdleKept
<1>1. Init => IInv
  BY InitSound
<1>2. IInv /\ [Next]_vars => IInv'
  BY NextSound
<1>3. IInv => IdleKept
  BY SoundImplies
<1> QED  BY <1>1, <1>2, <1>3, PTL DEF Spec

(* The boost that waitpid gives an awaited child never lifts it above the  *)
(* process that waits for it (proc.c:713), whatever the processes call.    *)
THEOREM BoostBelowWaiter == Spec => BoostStaysBelowWaiter
<1>1. Init => IInv
  BY InitSound
<1>2. IInv /\ [Next]_vars => IInv'
  BY NextSound
<1>3. IInv /\ [Next]_vars =>
        [\A p \in Slots : PollMovesOn /\ kernel'.prio[p] # kernel.prio[p] =>
           /\ kernel'.prio[p] = kernel.prio[p] + 1
           /\ kernel'.prio[p] <= kernel.prio[kernel.actif]
           /\ p = kernel.polling[kernel.actif].param]_vars
  BY BoostIsBounded
<1> QED  BY <1>1, <1>2, <1>3, PTL DEF Spec, BoostStaysBelowWaiter

(* The disciplined programs of the tests make only calls that any program  *)
(* may make: what holds of every behaviour of the manager holds of theirs. *)
THEOREM DisciplinedRefines == DisciplinedSpec => Spec
<1>1. DisciplinedNext => Next
  <2>1. ASSUME NEW prio \in StartPrios, DisciplinedStart(prio)
        PROVE  Start(prio)
    BY <2>1 DEF DisciplinedStart
  <2>2. ASSUME NEW clock \in Clocks, DisciplinedSleep(clock)
        PROVE  WaitClock(clock)
    BY <2>2 DEF DisciplinedSleep
  <2>3. ASSUME NEW pid \in Pids, WaitpidEnter(pid, TRUE)
        PROVE  Waitpid(pid)
    BY <2>3 DEF Waitpid
  <2> QED
    BY <2>1, <2>2, <2>3, Zenon DEF DisciplinedNext, Next
<1>2. [DisciplinedNext]_vars => [Next]_vars
  BY <1>1
<1> QED  BY <1>2, PTL DEF DisciplinedSpec, Spec

-----------------------------------------------------------------------------
(***************************************************************************)
(* The right brothers.  Only start links them, and it links a process that *)
(* has just lost its own right brother: ranking the processes by how       *)
(* recently they were started makes every link lead to a lower rank, those *)
(* that lead from a slot to itself apart.                                  *)
(***************************************************************************)
Ranked(link, rank) ==
  \A x \in Slots : link[x] \notin {NULL, x} => rank[link[x]] < rank[x]

BrothersRanked(k) == \E rank \in [Slots -> Nat] : Ranked(k.frere_droit, rank)

\* i is cut off from its right brother, then becomes that of d.
Relinked(after, link, d, i) ==
  \A x \in Slots : after[x] = IF x = d THEN i ELSE IF x = i THEN NULL ELSE link[x]

(* The new process goes below the others.                                  *)
LEMMA LinkRanked ==
  ASSUME NEW link \in [Slots -> Pointers], NEW rank \in [Slots -> Nat], Ranked(link, rank),
         NEW i \in Slots, NEW d \in Pointers, NEW after \in [Slots -> Pointers],
         Relinked(after, link, d, i)
  PROVE  \E below \in [Slots -> Nat] : Ranked(after, below)
<1> DEFINE below == [x \in Slots |-> IF x = i THEN 0 ELSE rank[x] + 1]
<1>1. below \in [Slots -> Nat]
  OBVIOUS
<1>2. ASSUME NEW x \in Slots, after[x] # NULL, after[x] # x
      PROVE  below[after[x]] < below[x]
  <2>1. CASE x = d
    <3>1. after[x] = i /\ x # i
      BY <1>2, <2>1 DEF Relinked
    <3> QED  BY <3>1
  <2>2. CASE x # d
    <3>1. x # i /\ after[x] = link[x] /\ after[x] \in Slots
      BY <1>2, <2>2 DEF Relinked, Pointers
    <3>2. rank[link[x]] < rank[x] /\ rank[link[x]] \in Nat /\ rank[x] \in Nat
      BY <1>2, <3>1 DEF Ranked
    <3> QED  BY <3>1, <3>2
  <2> QED  BY <2>1, <2>2
<1> HIDE DEF below
<1> QED  BY <1>1, <1>2 DEF Ranked

(* start keeps a rank, whichever slot it takes.                            *)
LEMMA StartRanked ==
  ASSUME NEW k, Sound(k), BrothersRanked(k), NEW prio \in Nat
  PROVE  BrothersRanked(start(k, prio))
<1> DEFINE i      == StartIndex(k)
           taken  == IF k.dead_list = NULL THEN k ELSE extract_mort(k)
           reset  == ResetSlot(taken, i, prio)
           linked == AppendChild(reset, i)
           ready  == IF i > 0 THEN insert_activable(linked, i) ELSE linked
           j      == [ready EXCEPT !.process_alive = @ + 1]
<1>1. PICK rank \in [Slots -> Nat] : Ranked(k.frere_droit, rank)
  BY DEF BrothersRanked
<1>2. CASE i \notin Slots
  <2>1. start(k, prio) = Crash(k, "fault")
    BY <1>2 DEF start
  <2>2. Crash(k, "fault").frere_droit = k.frere_droit
    BY DEF Sound, Crash, Kernels
  <2> QED  BY <1>1, <2>1, <2>2 DEF BrothersRanked
<1>3. CASE i \in Slots
  <2>1. Sound(taken) /\ taken.frere_droit = k.frere_droit
    <3>1. CASE k.dead_list = NULL
      BY <3>1
    <3>2. CASE k.dead_list # NULL
      <4>1. extract_mort(k).frere_droit = k.frere_droit
        BY DEF extract_mort, Sound, Kernels
      <4> QED  BY <3>2, <4>1, ExtractMortSound
    <3> QED  BY <3>1, <3>2
  <2>2. start(k, prio) = j
    BY <1>3 DEF start
  <2> HIDE DEF taken, i
  <2>3. Sound(reset) /\ reset.frere_droit = [k.frere_droit EXCEPT ![i] = NULL]
    <3>1. Sound(reset)
      BY <1>3, <2>1, ResetSlotSound
    <3>2. reset.frere_droit = [taken.frere_droit EXCEPT ![i] = NULL]
      BY <2>1 DEF ResetSlot, Sound, Kernels
    <3> QED  BY <2>1, <3>1, <3>2
  <2> HIDE DEF reset
  <2>4. /\ Sound(linked)
        /\ \/ linked.frere_droit = reset.frere_droit
           \/ linked.frere_droit =
                [reset.frere_droit EXCEPT ![reset.dernier_fils[reset.actif]] = i]
    <3>1. Sound(linked)
      BY <1>3, <2>3, AppendChildSound
    <3> QED  BY <2>3, <3>1 DEF AppendChild, Sound, Kernels
  <2> HIDE DEF linked
  <2>5. j.frere_droit = linked.frere_droit
    <3>1. insert_activable(linked, i).frere_droit = linked.frere_droit
      BY <1>3, <2>4, InsertActivableFamily DEF Sound, SameFamily
    <3>2. ready \in Kernels /\ ready.frere_droit = linked.frere_droit
      BY <1>3, <2>4, <3>1, InsertActivableType DEF Sound
    <3> HIDE DEF ready
    <3> QED  BY <3>2 DEF Kernels
  <2>6. /\ k.frere_droit \in [Slots -> Pointers] /\ linked.frere_droit \in [Slots -> Pointers]
        /\ reset.dernier_fils[reset.actif] \in Pointers
    BY <2>3, <2>4 DEF Sound, Kernels
  <2> DEFINE d == reset.dernier_fils[reset.actif]
  <2> HIDE DEF j
  <2>7. \E e \in Pointers : \A x \in Slots :
          linked.frere_droit[x] = IF x = e THEN i ELSE IF x = i THEN NULL ELSE k.frere_droit[x]
    <3>1. CASE linked.frere_droit = reset.frere_droit
      <4>1. NULL \in Pointers /\ \A x \in Slots : x # NULL
        BY TableAssumption DEF Pointers, Slots, NULL
      <4>2. \A x \in Slots : linked.frere_droit[x]
              = IF x = NULL THEN i ELSE IF x = i THEN NULL ELSE k.frere_droit[x]
        BY <2>3, <2>6, <3>1, <4>1
      <4> QED  BY <4>1, <4>2
    <3>2. CASE linked.frere_droit = [reset.frere_droit EXCEPT ![d] = i]
      <4>1. \A x \in Slots : linked.frere_droit[x]
              = IF x = d THEN i ELSE IF x = i THEN NULL ELSE k.frere_droit[x]
        BY <2>3, <2>6, <3>2
      <4> QED  BY <2>6, <4>1
    <3> QED  BY <2>4, <3>1, <3>2
  <2>8. PICK e \in Pointers : \A x \in Slots :
          linked.frere_droit[x] = IF x = e THEN i ELSE IF x = i THEN NULL ELSE k.frere_droit[x]
    BY <2>7
  <2>9. \E below \in [Slots -> Nat] : Ranked(linked.frere_droit, below)
    <3> DEFINE before == k.frere_droit
               after  == linked.frere_droit
    <3>1. /\ before \in [Slots -> Pointers] /\ after \in [Slots -> Pointers]
          /\ Ranked(before, rank) /\ i \in Slots
          /\ Relinked(after, before, e, i)
      BY <1>1, <1>3, <2>6, <2>8 DEF Relinked
    <3> HIDE DEF before, after
    <3>2. \E below \in [Slots -> Nat] : Ranked(after, below)
      BY <3>1, LinkRanked
    <3> QED  BY <3>2 DEF after
  <2> QED  BY <2>2, <2>5, <2>9 DEF BrothersRanked
<1> QED  BY <1>2, <1>3

(* fin_processus releases the children without unlinking them.             *)
LEMMA FinProcessusBrothers ==
  ASSUME NEW k, Sound(k), k.actif # 0, NEW stray \in BOOLEAN
  PROVE  fin_processus(k, stray).frere_droit = k.frere_droit
<1> DEFINE me   == k.actif
           over == IF k.pere[me] = NULL THEN insert_mort(k, me)
                   ELSE [k EXCEPT !.state[me] = "ZOMBIE"]
           left == ReleaseChildren(over)
<1>1. k \in Kernels /\ me \in Slots
  BY DEF Sound, Kernels
<1>2. Sound(over) /\ over.actif = me /\ over.frere_droit = k.frere_droit
  <2>1. CASE k.pere[me] = NULL
    <3>1. insert_mort(k, me).actif = me
      BY <1>1 DEF insert_mort, Kernels
    <3>2. insert_mort(k, me).frere_droit = k.frere_droit
      BY <1>1, InsertMortFamily DEF SameFamily
    <3> QED  BY <1>1, <2>1, <3>1, <3>2, InsertMortSound
  <2>2. CASE k.pere[me] # NULL
    <3> DEFINE z == [k EXCEPT !.state[me] = "ZOMBIE"]
    <3>1. z \in Kernels /\ SameFamily(z, k) /\ z.actif = me
      BY <1>1 DEF Kernels, ProcessStates, SameFamily
    <3>2. IdleHeld(z)
      BY <1>1 DEF IdleHeld, InQueue, Kernels, Sound
    <3>3. Sound(z)
      BY <3>1, <3>2, FamilyKeepsWaiters DEF Sound
    <3> QED  BY <2>2, <3>1, <3>3 DEF SameFamily
  <2> QED  BY <2>1, <2>2
<1> HIDE DEF over
<1>3. left \in Kernels /\ left.frere_droit = over.frere_droit
  <2>1. left \in Kernels
    BY <1>2, ReleaseChildrenSound DEF Sound
  <2>2. left.frere_droit = over.frere_droit
    BY <1>2, Zenon DEF ReleaseChildren, Crash, Sound, Kernels
  <2> QED  BY <2>1, <2>2
<1>4. \/ fin_processus(k, stray) \in {left, Crash(left, "fault")}
      \/ /\ left.fate = "run"
         /\ fin_processus(k, stray) = SwitchAway(left)
  BY DEF fin_processus, over
<1> HIDE DEF left
<1>5. Crash(left, "fault").frere_droit = left.frere_droit
  BY <1>3 DEF Crash, Kernels
<1>6. SwitchAway(left).frere_droit = left.frere_droit
  BY <1>3 DEF SwitchAway, extract_activable, queue_out, Kernels
<1> QED  BY <1>2, <1>3, <1>4, <1>5, <1>6

(* chprio moves a process in the queue, not among its brothers.            *)
LEMMA ChprioBrothers ==
  ASSUME NEW k, Sound(k), NEW pid \in Int, NEW newprio \in Int
  PROVE  chprio(k, pid, newprio).frere_droit = k.frere_droit
<1> DEFINE set    == [k EXCEPT !.prio[pid] = newprio]
           requeued == queue_add([queue_del(k, pid) EXCEPT !.prio[pid] = newprio],
                                 pid)
           queued == IF k.actif # pid /\ InQueue(k, pid) THEN requeued
                     ELSE IF k.actif = pid \/ Asleep(k, pid) THEN set ELSE k
<1>1. CASE ~ ValidChprio(pid, newprio)
  BY <1>1 DEF chprio
<1>2. CASE ValidChprio(pid, newprio)
  <2>1. pid \in Slots /\ newprio \in Nat /\ k \in Kernels
    BY <1>2, TableAssumption DEF ValidChprio, Sound
  <2>2. Sound(queued)
    BY <2>1, SetPrioSound, RequeueSound
  <2>3. set.frere_droit = k.frere_droit /\ requeued.frere_droit = k.frere_droit
    BY <2>1 DEF queue_add, queue_del, Crash, Kernels
  <2>4. queued.frere_droit = k.frere_droit
    BY <2>3
  <2>5. chprio(k, pid, newprio) \in {Crash(k, "hang"), ordonnance(queued)}
    BY <1>2 DEF chprio
  <2>6. Crash(k, "hang").frere_droit = k.frere_droit
    BY <2>1 DEF Crash, Kernels
  <2> HIDE DEF queued
  <2>7. ordonnance(queued).frere_droit = queued.frere_droit
    BY <2>2, OrdonnanceFamily DEF Sound, SameFamily
  <2> QED  BY <2>4, <2>5, <2>6, <2>7
<1> QED  BY <1>1, <1>2

(* Only start changes the links between brothers.                          *)
LEMMA OthersKeepBrothers ==
  ASSUME IInv, [Next]_vars, ~ \E prio \in StartPrios : Start(prio)
  PROVE  kernel'.frere_droit = kernel.frere_droit
<1>0. Sound(kernel) /\ kernel \in Kernels /\ kernel.actif \in Slots
  BY DEF IInv, Sound, Kernels
<1>1. ASSUME NEW w \in Int, NEW stray \in BOOLEAN, kernel.actif # 0
      PROVE  LET r == [kernel EXCEPT !.retval[kernel.actif] = w]
             IN  fin_processus(r, stray).frere_droit = kernel.frere_droit
  <2> DEFINE r == [kernel EXCEPT !.retval[kernel.actif] = w]
  <2>1. /\ r \in Kernels /\ SameFamily(r, kernel) /\ IdleHeld(r)
        /\ r.actif = kernel.actif
    BY <1>0 DEF Sound, Kernels, SameFamily, IdleHeld, InQueue
  <2> HIDE DEF r
  <2>2. Sound(r)
    BY <1>0, <2>1, FamilyKeepsWaiters DEF Sound
  <2>3. fin_processus(r, stray).frere_droit = r.frere_droit
    BY <1>1, <2>1, <2>2, FinProcessusBrothers
  <2> QED  BY <2>1, <2>3 DEF SameFamily, r
<1>2. ASSUME NEW v \in RetVals, Exit(v) PROVE kernel'.frere_droit = kernel.frere_droit
  <2>1. v \in Int
    BY ProcessesAssumption
  <2> QED  BY <1>1, <1>2, <2>1 DEF Exit
<1>3. CASE ReturnFromMain
  <2>1. PICK stray \in BOOLEAN : kernel' = fin_processus(kernel, stray)
    BY <1>3 DEF ReturnFromMain
  <2>2. kernel.actif # 0
    BY <1>3 DEF ReturnFromMain
  <2> QED  BY <1>0, <2>1, <2>2, FinProcessusBrothers
<1>4. ASSUME NEW pid, Kill(pid) PROVE kernel'.frere_droit = kernel.frere_droit
  <2>1. CASE KillSelf(pid)
    <3>1. NULL \in Int
      BY DEF NULL
    <3> QED  BY <1>1, <2>1, <3>1 DEF KillSelf
  <2>2. CASE KillReady(pid)
    <3> DEFINE z == [kernel EXCEPT !.state[pid] = "ZOMBIE"]
    <3>1. DOMAIN z = DOMAIN kernel /\ z.frere_droit = kernel.frere_droit
      BY <1>0 DEF Kernels
    <3>2. kernel' = queue_del(z, pid)
      BY <2>2 DEF KillReady
    <3> HIDE DEF z
    <3> QED  BY <1>0, <3>1, <3>2 DEF queue_del, Kernels
  <2>3. CASE KillNotReady(pid)
    <3>1. pid \in Slots /\ kernel' = sleep_del(kernel, pid)
      BY <2>3 DEF KillNotReady
    <3> QED  BY <1>0, <3>1, SleepDelFamily DEF SameFamily
  <2> QED  BY <1>4, <2>1, <2>2, <2>3 DEF Kill
<1>5. ASSUME NEW pid, Waitpid(pid) PROVE kernel'.frere_droit = kernel.frere_droit
  BY <1>0, <1>5 DEF Waitpid, WaitpidEnter, Kernels
<1>6. ASSUME NEW pid \in Pids, NEW newprio \in NewPrios, Chprio(pid, newprio)
      PROVE  kernel'.frere_droit = kernel.frere_droit
  <2>1. pid \in Int /\ newprio \in Int
    BY ProcessesAssumption
  <2> QED  BY <1>0, <1>6, <2>1, ChprioBrothers DEF Chprio
<1>7. ASSUME NEW clock \in Clocks, WaitClock(clock)
      PROVE  kernel'.frere_droit = kernel.frere_droit
  <2> DEFINE time == clock \div CLOCKFREQ
             j    == insert_endormi(kernel, kernel.actif, time)
  <2>1. time \in Nat
    BY ProcessesAssumption
  <2>2. kernel' = ordonnance(j)
    BY <1>7 DEF WaitClock
  <2> HIDE DEF time
  <2>3. j \in Kernels /\ j.frere_droit = kernel.frere_droit
    BY <1>0, <2>1, InsertEndormiType, InsertEndormiFamily DEF SameFamily
  <2> HIDE DEF j
  <2> QED  BY <2>2, <2>3, OrdonnanceFamily DEF SameFamily
<1>8. CASE PollReaps
  <2> DEFINE me   == kernel.actif
             fils == kernel.polling[me].fils
             back == [kernel EXCEPT !.polling[me] = NotPolling]
             buried == insert_mort(back, fils)
  <2>1. kernel.polling[me] \in Polls /\ kernel.polling[me] # NotPolling
    BY <1>0, <1>8 DEF PollReaps, Polling, Kernels
  <2>2. fils \in Slots
    BY <2>1 DEF Polls
  <2>3. back \in Kernels /\ back.frere_droit = kernel.frere_droit
    BY <1>0 DEF Kernels, Polls
  <2>4. kernel' \in {buried, Crash(buried, "fault")}
    BY <1>8 DEF PollReaps
  <2> HIDE DEF back, fils
  <2>5. buried \in Kernels /\ buried.frere_droit = back.frere_droit
    BY <2>2, <2>3, InsertMortFamily, InsertMortType DEF SameFamily
  <2> HIDE DEF buried
  <2>6. Crash(buried, "fault").frere_droit = buried.frere_droit
    BY <2>5 DEF Crash, Kernels
  <2> QED  BY <2>3, <2>4, <2>5, <2>6
<1>9. CASE PollMovesOn
  <2> DEFINE me    == kernel.actif
             fils  == kernel.polling[me].fils
             param == kernel.polling[me].param
             next  == IF kernel.frere_droit[fils] = NULL
                      THEN kernel.premier_fils[me] ELSE kernel.frere_droit[fils]
             moved == [kernel EXCEPT !.polling[me].fils = next]
  <2>1. Sound(moved) /\ param \in Int
    BY <1>9, MovedSound
  <2>2. moved.frere_droit = kernel.frere_droit
    BY <1>0 DEF Kernels
  <2>3. kernel' \in {moved, chprio(moved, param, getprio(moved, param) + 1)}
    BY <1>9 DEF PollMovesOn
  <2> HIDE DEF moved
  <2>4. getprio(moved, param) + 1 \in Int
    BY <2>1, GetprioType DEF Sound
  <2>5. chprio(moved, param, getprio(moved, param) + 1).frere_droit = moved.frere_droit
    BY <2>1, <2>4, ChprioBrothers
  <2> QED  BY <2>2, <2>3, <2>5
<1>10. CASE Tick
  <2> DEFINE tick == IF kernel.nb_tick < MaxTick THEN kernel.nb_tick + 1
                     ELSE kernel.nb_tick
             j == [kernel EXCEPT !.nb_tick = tick]
  <2>1. tick \in Nat
    BY <1>0 DEF Kernels
  <2>2. kernel' = ordonnance(j)
    BY <1>10 DEF Tick
  <2> HIDE DEF tick
  <2>3. j \in Kernels /\ j.frere_droit = kernel.frere_droit
    BY <1>0, <2>1 DEF Kernels
  <2> HIDE DEF j
  <2> QED  BY <2>2, <2>3, OrdonnanceFamily DEF SameFamily
<1>11. CASE UNCHANGED vars
  BY <1>11 DEF vars
<1> QED
  BY <1>2, <1>3, <1>4, <1>5, <1>6, <1>7, <1>8, <1>9, <1>10, <1>11 DEF Next

(* Every step keeps a rank.                                                *)
LEMMA NextRanked ==
  IInv /\ BrothersRanked(kernel) /\ [Next]_vars => BrothersRanked(kernel)'
<1> SUFFICES ASSUME IInv, BrothersRanked(kernel), [Next]_vars
             PROVE  BrothersRanked(kernel')
  OBVIOUS
<1>1. ASSUME NEW prio \in StartPrios, Start(prio) PROVE BrothersRanked(kernel')
  <2>1. prio \in Nat
    BY ProcessesAssumption
  <2>2. kernel' = kernel \/ kernel' = start(kernel, prio)
    BY <1>1 DEF Start
  <2> QED  BY <2>1, <2>2, StartRanked DEF IInv
<1>2. CASE ~ \E prio \in StartPrios : Start(prio)
  <2>1. kernel'.frere_droit = kernel.frere_droit
    BY <1>2, OthersKeepBrothers
  <2> QED  BY <2>1 DEF BrothersRanked
<1> QED  BY <1>1, <1>2

(* However slots are reused, and whatever the processes call, the only     *)
(* loops among the brothers are processes that are their own right         *)
(* brothers, the one case that the walks of waitpid look for (proc.c:637). *)
THEOREM OnlySelfLoops == Spec => []BrotherCyclesAreSelfLoops
<1>1. Init => IInv /\ BrothersRanked(kernel)
  <2> SUFFICES ASSUME Init PROVE BrothersRanked(kernel)
    BY InitSound
  <2> DEFINE rank == [x \in Slots |-> 0]
  <2>1. rank \in [Slots -> Nat]
    OBVIOUS
  <2>2. \A x \in Slots : kernel.frere_droit[x] = NULL
    BY DEF Init, InitialKernel
  <2> HIDE DEF rank
  <2>3. Ranked(kernel.frere_droit, rank)
    BY <2>2 DEF Ranked
  <2> QED  BY <2>1, <2>3 DEF BrothersRanked
<1>2. IInv /\ BrothersRanked(kernel) /\ [Next]_vars => IInv' /\ BrothersRanked(kernel)'
  BY NextSound, NextRanked
<1>3. IInv /\ BrothersRanked(kernel) => BrotherCyclesAreSelfLoops
  <2> SUFFICES ASSUME IInv, BrothersRanked(kernel), NEW p \in Slots,
                      Endless(kernel.frere_droit, p)
               PROVE  \E q \in Slots : /\ OnChain(kernel.frere_droit, p, q)
                                       /\ kernel.frere_droit[q] = q
    BY DEF BrotherCyclesAreSelfLoops
  <2> DEFINE link == kernel.frere_droit
  <2>1. link \in [Slots -> Pointers]
    BY DEF IInv, Sound, Kernels
  <2>2. PICK rank \in [Slots -> Nat] : Ranked(link, rank)
    BY DEF BrothersRanked
  <2>3. \A x \in Slots : link[x] \notin {NULL, x} => rank[link[x]] < rank[x]
    BY <2>2 DEF Ranked
  <2>4. Endless(link, p)
    OBVIOUS
  <2> HIDE DEF link
  <2>5. \E q \in Slots : OnChain(link, p, q) /\ link[q] = q
    BY <2>1, <2>3, <2>4, RankedWalkEnds
  <2> QED  BY <2>5 DEF link
<1> QED  BY <1>1, <1>2, <1>3, PTL DEF Spec

-----------------------------------------------------------------------------
(* Sequences in which nothing occurs twice, as the ready queue of programs *)
(* that keep to the discipline.                                            *)
Once(q) == \A i, j \in DOMAIN q : q[i] = q[j] => i = j

-----------------------------------------------------------------------------
(* The queue as a sequence.                                                *)

(* An element that is not in the queue can be linked at any place.         *)
LEMMA InsertAfterOnce ==
  ASSUME NEW q \in Seq(Slots), NEW n \in 0 .. Len(q), NEW elem \in Slots,
         Once(q), ~ Occurs(q, elem)
  PROVE  Once(InsertAfter(q, n, elem))
<1> DEFINE r == InsertAfter(q, n, elem)
           Old(i) == IF i <= n THEN i ELSE i - 1
<1>1. /\ r \in Seq(Slots) /\ DOMAIN r = 1 .. Len(q) + 1
      /\ \A i \in 1 .. Len(q) + 1 : r[i] =
           IF i <= n THEN q[i] ELSE IF i = n + 1 THEN elem ELSE q[i-1]
  <2>1. /\ r \in Seq(Slots) /\ Len(r) = Len(q) + 1
        /\ \A i \in 1 .. Len(q) + 1 : r[i] =
             IF i <= n THEN q[i] ELSE IF i = n + 1 THEN elem ELSE q[i-1]
    BY InsertAfterElements, ZenonT(40)
  <2> HIDE DEF r
  <2> QED  BY <2>1
<1> HIDE DEF r
<1>2. \A i \in DOMAIN r : i # n + 1 => Old(i) \in DOMAIN q /\ r[i] = q[Old(i)]
  BY <1>1
<1>3. r[n+1] = elem
  BY <1>1
<1>4. \A i \in DOMAIN r : i # n + 1 => r[i] # elem
  BY <1>2 DEF Occurs
<1> SUFFICES ASSUME NEW i \in DOMAIN r, NEW j \in DOMAIN r, r[i] = r[j]
             PROVE  i = j
  BY DEF Once, r
<1>5. CASE i = n + 1 \/ j = n + 1
  BY <1>3, <1>4, <1>5
<1>6. CASE i # n + 1 /\ j # n + 1
  <2>1. Old(i) = Old(j)
    BY <1>2, <1>6 DEF Once
  <2> QED  BY <1>1, <1>6, <2>1
<1> QED  BY <1>5, <1>6

(* What is left of the queue when an element is unlinked.                  *)
LEMMA RemoveAtOnce ==
  ASSUME NEW q \in Seq(Slots), NEW i \in DOMAIN q, Once(q)
  PROVE  Once(RemoveAt(q, i))
<1> DEFINE a == SubSeq(q, 1, i-1)
           b == SubSeq(q, i+1, Len(q))
           r == RemoveAt(q, i)
           Old(j) == IF j <= i - 1 THEN j ELSE j + 1
<1>1. /\ a \in Seq(Slots) /\ Len(a) = i - 1
      /\ \A j \in 1 .. i - 1 : a[j] = q[j]
  <2>1. \A j \in 1 .. i - 1 : q[j] \in Slots
    OBVIOUS
  <2> QED  BY <2>1, SubSeqProperties
<1>2. /\ b \in Seq(Slots) /\ Len(b) = Len(q) - i
      /\ \A j \in 1 .. Len(q) - i : b[j] = q[i+j]
  <2>1. \A j \in i+1 .. Len(q) : q[j] \in Slots
    OBVIOUS
  <2>2. i + 1 \in Int /\ Len(q) \in Int
    OBVIOUS
  <2>3. /\ b \in Seq(Slots)
        /\ Len(b) = IF i+1 <= Len(q) THEN Len(q)-(i+1)+1 ELSE 0
        /\ \A j \in 1 .. Len(q)-(i+1)+1 : b[j] = q[(i+1)+j-1]
    BY <2>1, <2>2, SubSeqProperties
  <2> QED  BY <2>3
<1>3. r = a \o b
  BY DEF RemoveAt
<1> HIDE DEF a, b, r
<1>4. /\ r \in Seq(Slots) /\ Len(r) = Len(a) + Len(b)
      /\ \A j \in 1 .. Len(a) + Len(b) : r[j] =
           IF j <= Len(a) THEN a[j] ELSE b[j - Len(a)]
  BY <1>1, <1>2, <1>3, ConcatProperties
<1>5. DOMAIN r = 1 .. Len(q) - 1
  BY <1>1, <1>2, <1>4
<1>6. ASSUME NEW j \in DOMAIN r PROVE Old(j) \in DOMAIN q /\ r[j] = q[Old(j)]
  <2>1. j \in 1 .. Len(q) - 1 /\ j \in 1 .. Len(a) + Len(b)
    BY <1>1, <1>2, <1>5
  <2>2. r[j] = IF j <= i - 1 THEN a[j] ELSE b[j - (i - 1)]
    BY <1>1, <1>4, <2>1
  <2>3. CASE j <= i - 1
    <3>1. j \in 1 .. i - 1
      BY <2>1, <2>3
    <3> QED  BY <1>1, <2>1, <2>2, <2>3, <3>1
  <2>4. CASE ~ (j <= i - 1)
    <3> DEFINE m == j - (i - 1)
    <3>1. m \in 1 .. Len(q) - i /\ i + m = j + 1
      BY <2>1, <2>4
    <3>2. r[j] = b[m]
      BY <2>2, <2>4
    <3>3. b[m] = q[i+m]
      BY <1>2, <3>1
    <3> HIDE DEF m
    <3> QED  BY <2>1, <2>4, <3>1, <3>2, <3>3
  <2> QED  BY <2>3, <2>4
<1> SUFFICES ASSUME NEW j \in DOMAIN r, NEW m \in DOMAIN r, r[j] = r[m]
             PROVE  j = m
  BY DEF Once, r
<1>7. Old(j) = Old(m)
  BY <1>6 DEF Once
<1> QED  BY <1>5, <1>7

=============================================================================
