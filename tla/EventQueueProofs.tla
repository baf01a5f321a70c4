-------------------------- MODULE EventQueueProofs --------------------------
(***************************************************************************)
(* The invariants of the event queue, and that it is the FIFO queue it     *)
(* promises, for any number of threads and nodes.                          *)
(***************************************************************************)
EXTENDS EventQueue, SequenceTheorems, TLAPS

-----------------------------------------------------------------------------
(* The list.                                                               *)

\* What linking a new node does to the list.
LEMMA LinkFacts ==
  ASSUME NEW s \in Seq(Items), NEW i \in Items
  PROVE  /\ <<i>> \o s \in Seq(Items)
         /\ Len(<<i>> \o s) = Len(s) + 1
         /\ (<<i>> \o s)[1] = i
         /\ \A k \in 2..(Len(s) + 1) : (<<i>> \o s)[k] = s[k - 1]
OBVIOUS

\* With a correct count, cutting the last node off leaves the others.
LEMMA CutFacts ==
  ASSUME items \in Seq(Items), items # <<>>, numitems = Len(items)
  PROVE  /\ CutLast = SubSeq(items, 1, Len(items) - 1)
         /\ CutLast \in Seq(Items)
         /\ Len(CutLast) = Len(items) - 1
         /\ \A k \in 1..(Len(items) - 1) : CutLast[k] = items[k]
         /\ Len(items) \in 1..Len(items)
         /\ Last(items) = items[Len(items)]
         /\ Last(items) \in Items
<1>1. Len(items) \in Nat /\ Len(items) # 0
  BY EmptySeq, LenProperties
<1>2. /\ SubSeq(items, 1, Len(items) - 1) \in Seq(Items)
      /\ Len(SubSeq(items, 1, Len(items) - 1)) = Len(items) - 1
      /\ \A k \in 1..(Len(items) - 1) :
           SubSeq(items, 1, Len(items) - 1)[k] = items[k]
  BY <1>1
<1>3. Len(items) = 1 => SubSeq(items, 1, Len(items) - 1) = <<>>
  BY <1>2, EmptySeq
<1>4. CutLast = SubSeq(items, 1, Len(items) - 1)
  BY <1>1, <1>3 DEF CutLast, Front
<1>5. Last(items) \in Items
  BY <1>1, ElementOfSeq DEF Last
<1> QED
  BY <1>1, <1>2, <1>4, <1>5 DEF Last

-----------------------------------------------------------------------------
(* The critical section.                                                   *)

\* One thread at most is between the lock and the unlock of modify_mutex.
LEMMA Exclusion ==
  ASSUME HolderInv, NEW t \in Threads, pc[t] \in Section
  PROVE  /\ modify_mutex = t
         /\ \A u \in Threads : pc[u] \in Section => u = t
BY DEF HolderInv

\* A thread about to change the list, and every other one, sees it counted.
LEMMA CountedAtChange ==
  ASSUME HolderInv, CountInv, NEW t \in Threads,
         pc[t] \in {"add_link", "get_unlink", "size_read"}
  PROVE  numitems = Len(items)
BY DEF HolderInv, CountInv, Section

\* So does a thread that finds the mutex free.
LEMMA CountedWhenFree ==
  ASSUME HolderInv, CountInv, QueueAssumption, modify_mutex = NULL
  PROVE  numitems = Len(items)
BY DEF HolderInv, CountInv, Section, QueueAssumption

-----------------------------------------------------------------------------
(* Type correctness.                                                       *)

LEMMA TypeStep ==
  ASSUME TypeOK, CountInv, HolderInv, SingleOwner, [Next]_vars
  PROVE  TypeOK'
<1> USE QueueAssumption DEF TypeOK, AddPcs, GetPcs, SizePcs, Step, Lock, Unlock
<1>1. CASE queue_init
  BY <1>1, EmptySeq DEF queue_init
<1>2. CASE queue_deinit
  BY <1>2, EmptySeq DEF queue_deinit
<1>3. ASSUME NEW t \in Threads, AddRefused(t) PROVE TypeOK'
  BY <1>3 DEF AddRefused
<1>4. ASSUME NEW t \in Threads, AddAlloc(t) PROVE TypeOK'
  BY <1>4 DEF AddAlloc
<1>5. ASSUME NEW t \in Threads, AddLock(t) PROVE TypeOK'
  BY <1>5 DEF AddLock
<1>6. ASSUME NEW t \in Threads, AddLink(t) PROVE TypeOK'
  <2>1. qi[t] \in Items
    BY <1>6 DEF AddLink, SingleOwner, Owns
  <2> QED
    BY <1>6, <2>1, LinkFacts DEF AddLink
<1>7. ASSUME NEW t \in Threads, AddCount(t) PROVE TypeOK'
  BY <1>7 DEF AddCount
<1>8. ASSUME NEW t \in Threads, AddUnlock(t) PROVE TypeOK'
  BY <1>8 DEF AddUnlock
<1>9. ASSUME NEW t \in Threads, AddWake(t) PROVE TypeOK'
  BY <1>9 DEF AddWake
<1>10. ASSUME NEW t \in Threads, GetCall(t) PROVE TypeOK'
  BY <1>10 DEF GetCall
<1>11. ASSUME NEW t \in Threads, GetRefused(t) PROVE TypeOK'
  BY <1>11 DEF GetRefused
<1>12. ASSUME NEW t \in Threads, GetLockRead(t) PROVE TypeOK'
  BY <1>12 DEF GetLockRead
<1>13. ASSUME NEW t \in Threads, GetLock(t) PROVE TypeOK'
  BY <1>13 DEF GetLock
<1>14. ASSUME NEW t \in Threads, GetEmpty(t) PROVE TypeOK'
  BY <1>14 DEF GetEmpty
<1>15. ASSUME NEW t \in Threads, GetUnlink(t) PROVE TypeOK'
  <2>1. CutLast \in Seq(Items) /\ Last(items) \in Items
    BY <1>15, CountedAtChange, CutFacts DEF GetUnlink
  <2> QED
    BY <1>15, <2>1 DEF GetUnlink
<1>16. ASSUME NEW t \in Threads, GetCount(t) PROVE TypeOK'
  <2>1. numitems - 1 \in Nat
    BY <1>16, LenProperties DEF GetCount, CountInv
  <2> QED
    BY <1>16, <2>1 DEF GetCount
<1>17. ASSUME NEW t \in Threads, GetWake(t) PROVE TypeOK'
  BY <1>17 DEF GetWake
<1>18. ASSUME NEW t \in Threads, GetUnlock(t) PROVE TypeOK'
  BY <1>18 DEF GetUnlock
<1>19. ASSUME NEW t \in Threads, queue_del_item(t) PROVE TypeOK'
  BY <1>19 DEF queue_del_item
<1>20. ASSUME NEW t \in Threads, SizeCall(t) PROVE TypeOK'
  BY <1>20 DEF SizeCall
<1>21. ASSUME NEW t \in Threads, SizeUndefined(t) PROVE TypeOK'
  BY <1>21 DEF SizeUndefined
<1>22. ASSUME NEW t \in Threads, SizeLock(t) PROVE TypeOK'
  BY <1>22 DEF SizeLock
<1>23. ASSUME NEW t \in Threads, SizeRead(t) PROVE TypeOK'
  BY <1>23 DEF SizeRead
<1>24. ASSUME NEW t \in Threads, SizeUnlock(t) PROVE TypeOK'
  BY <1>24 DEF SizeUnlock
<1>25. CASE UNCHANGED vars
  BY <1>25 DEF vars
<1> QED
  BY <1>1, <1>2, <1>3, <1>4, <1>5, <1>6, <1>7, <1>8, <1>9, <1>10, <1>11, <1>12,
     <1>13, <1>14, <1>15, <1>16, <1>17, <1>18, <1>19, <1>20, <1>21, <1>22,
     <1>23, <1>24, <1>25
     DEF Next, Inside, AddCalls, GetCalls, SizeCalls, Threads
-----------------------------------------------------------------------------
(* The mutex, the count and the closed queue.                              *)

LEMMA HolderStep ==
  ASSUME TypeOK, HolderInv, ClosedInv, [Next]_vars
  PROVE  HolderInv'
<1> USE QueueAssumption
        DEF TypeOK, HolderInv, Section, Step, Lock, Unlock, Quiescent
<1>1. CASE queue_init
  BY <1>1 DEF queue_init
<1>2. CASE queue_deinit
  BY <1>2 DEF queue_deinit
<1>3. ASSUME NEW t \in Threads, AddLock(t) \/ GetLock(t) \/ SizeLock(t)
      PROVE  HolderInv'
  BY <1>3 DEF AddLock, GetLock, SizeLock
<1>4. ASSUME NEW t \in Threads, AddUnlock(t) \/ GetUnlock(t) \/ SizeUnlock(t)
      PROVE  HolderInv'
  BY <1>4 DEF AddUnlock, GetUnlock, SizeUnlock
<1>5. ASSUME NEW t \in Threads,
             \/ AddLink(t) \/ AddCount(t) \/ GetEmpty(t) \/ GetUnlink(t)
             \/ GetCount(t) \/ GetWake(t) \/ SizeRead(t)
      PROVE  HolderInv'
  BY <1>5 DEF AddLink, AddCount, GetEmpty, GetUnlink, GetCount, GetWake, SizeRead
<1>6. ASSUME NEW t \in Threads,
             \/ AddCalls(t) \/ AddWake(t) \/ GetCalls(t) \/ GetLockRead(t)
             \/ queue_del_item(t) \/ SizeCalls(t)
      PROVE  HolderInv'
  BY <1>6 DEF AddCalls, AddRefused, AddAlloc, AddWake, GetCalls, GetCall,
              GetRefused, GetLockRead, queue_del_item, SizeCalls, SizeCall,
              SizeUndefined
<1>7. CASE UNCHANGED vars
  BY <1>7 DEF vars
<1> QED
  BY <1>1, <1>2, <1>3, <1>4, <1>5, <1>6, <1>7 DEF Next, Inside, Threads

LEMMA CountStep ==
  ASSUME TypeOK, HolderInv, CountInv, [Next]_vars
  PROVE  CountInv'
<1> USE DEF TypeOK, CountInv, Step
<1>1. CASE queue_init
  BY <1>1, EmptySeq DEF queue_init, Quiescent
<1>2. CASE queue_deinit
  BY <1>2, EmptySeq DEF queue_deinit, Quiescent
<1>3. ASSUME NEW t \in Threads, AddLink(t) PROVE CountInv'
  <2>1. \A u \in Threads : pc[u] \in {"add_count", "get_count"} => u = t
    BY <1>3, Exclusion DEF AddLink, Section
  <2>2. numitems = Len(items)
    BY <1>3, CountedAtChange DEF AddLink
  <2>3. \A i : Len(<<i>> \o items) = Len(items) + 1
    BY LenProperties
  <2> QED
    BY <1>3, <2>1, <2>2, <2>3, LenProperties DEF AddLink
<1>4. ASSUME NEW t \in Threads, AddCount(t) PROVE CountInv'
  <2>1. \A u \in Threads : pc[u] \in {"add_count", "get_count"} => u = t
    BY <1>4, Exclusion DEF AddCount, Section
  <2> QED
    BY <1>4, <2>1, LenProperties DEF AddCount
<1>5. ASSUME NEW t \in Threads, GetUnlink(t) PROVE CountInv'
  <2>1. \A u \in Threads : pc[u] \in {"add_count", "get_count"} => u = t
    BY <1>5, Exclusion DEF GetUnlink, Section
  <2>2. numitems = Len(items) /\ items' = CutLast /\ Len(CutLast) = Len(items) - 1
    BY <1>5, CountedAtChange, CutFacts DEF GetUnlink
  <2> QED
    BY <1>5, <2>1, <2>2, LenProperties DEF GetUnlink
<1>6. ASSUME NEW t \in Threads, GetCount(t) PROVE CountInv'
  <2>1. \A u \in Threads : pc[u] \in {"add_count", "get_count"} => u = t
    BY <1>6, Exclusion DEF GetCount, Section
  <2> QED
    BY <1>6, <2>1, LenProperties DEF GetCount
<1>7. ASSUME NEW t \in Threads,
             \/ AddCalls(t) \/ AddLock(t) \/ AddUnlock(t) \/ AddWake(t)
             \/ GetCalls(t) \/ GetLockRead(t) \/ GetLock(t) \/ GetEmpty(t)
             \/ GetWake(t) \/ GetUnlock(t) \/ queue_del_item(t)
      PROVE  CountInv'
  BY <1>7 DEF AddCalls, AddRefused, AddAlloc, AddLock, AddUnlock, AddWake,
              GetCalls, GetCall, GetRefused, GetLockRead, GetLock, GetEmpty,
              GetWake, GetUnlock, queue_del_item
<1>8. ASSUME NEW t \in Threads,
             SizeCalls(t) \/ SizeLock(t) \/ SizeRead(t) \/ SizeUnlock(t)
      PROVE  CountInv'
  BY <1>8 DEF SizeCalls, SizeCall, SizeUndefined, SizeLock, SizeRead, SizeUnlock
<1>9. CASE UNCHANGED vars
  BY <1>9 DEF vars
<1> QED
  BY <1>1, <1>2, <1>3, <1>4, <1>5, <1>6, <1>7, <1>8, <1>9
     DEF Next, Inside, Threads

LEMMA ClosedStep ==
  ASSUME TypeOK, ClosedInv, [Next]_vars
  PROVE  ClosedInv'
<1> USE DEF TypeOK, ClosedInv, Quiescent, Step
<1>1. CASE queue_init \/ queue_deinit
  BY <1>1 DEF queue_init, queue_deinit
<1>2. ASSUME NEW t \in Threads,
             \/ AddCalls(t) \/ GetCalls(t) \/ SizeCalls(t) \/ queue_del_item(t)
      PROVE  ClosedInv'
  BY <1>2 DEF AddCalls, AddRefused, AddAlloc, GetCalls, GetCall, GetRefused,
              SizeCalls, SizeCall, SizeUndefined, queue_del_item
<1>3. ASSUME NEW t \in Threads, Inside(t) PROVE ClosedInv'
  <2>1. pc[t] \notin {"idle", "have"} /\ g_queue' = g_queue
    BY <1>3 DEF Inside, AddLock, AddLink, AddCount, AddUnlock, AddWake,
                GetLockRead, GetLock, GetEmpty, GetUnlink, GetCount, GetWake,
                GetUnlock, SizeLock, SizeRead, SizeUnlock
  <2> QED
    BY <2>1
<1>4. CASE UNCHANGED vars
  BY <1>4 DEF vars
<1> QED
  BY <1>1, <1>2, <1>3, <1>4 DEF Next, Threads

-----------------------------------------------------------------------------
(* No lost wake-up.                                                        *)

LEMMA WakeStep ==
  ASSUME TypeOK, HolderInv, CountInv, NoLostWakeup, [Next]_vars
  PROVE  NoLostWakeup'
<1> USE DEF TypeOK, NoLostWakeup, Waking, Step
<1>1. CASE queue_init \/ queue_deinit
  BY <1>1 DEF queue_init, queue_deinit
<1>2. ASSUME NEW t \in Threads,
             AddLink(t) \/ AddCount(t) \/ AddUnlock(t) \/ AddWake(t)
      PROVE  NoLostWakeup'
  BY <1>2 DEF AddLink, AddCount, AddUnlock, AddWake
<1>3. ASSUME NEW t \in Threads,
             \/ GetLockRead(t) \/ GetLock(t) \/ GetEmpty(t) \/ GetUnlink(t)
             \/ GetCount(t)
      PROVE  NoLostWakeup'
  BY <1>3 DEF GetLockRead, GetLock, GetEmpty, GetUnlink, GetCount
<1>4. ASSUME NEW t \in Threads, GetWake(t) PROVE NoLostWakeup'
  <2>1. \A u \in Threads : pc[u] \notin {"add_count", "get_count"}
    BY <1>4, Exclusion DEF GetWake, Section
  <2>2. numitems = Len(items)
    BY <2>1 DEF CountInv
  <2>3. items # <<>> => numitems > 0
    BY <2>2, EmptySeq, LenProperties
  <2> QED
    BY <1>4, <2>3 DEF GetWake
<1>5. ASSUME NEW t \in Threads,
             \/ AddCalls(t) \/ AddLock(t) \/ GetCalls(t) \/ GetUnlock(t)
             \/ queue_del_item(t)
      PROVE  NoLostWakeup'
  BY <1>5 DEF AddCalls, AddRefused, AddAlloc, AddLock, GetCalls, GetCall,
              GetRefused, GetUnlock, queue_del_item
<1>6. ASSUME NEW t \in Threads,
             SizeCalls(t) \/ SizeLock(t) \/ SizeRead(t) \/ SizeUnlock(t)
      PROVE  NoLostWakeup'
  BY <1>6 DEF SizeCalls, SizeCall, SizeUndefined, SizeLock, SizeRead, SizeUnlock
<1>7. CASE UNCHANGED vars
  BY <1>7 DEF vars
<1> QED
  BY <1>1, <1>2, <1>3, <1>4, <1>5, <1>6, <1>7 DEF Next, Inside, Threads

-----------------------------------------------------------------------------
(* One owner for every node.                                               *)

LEMMA OwnerStep ==
  ASSUME TypeOK, HolderInv, CountInv, SingleOwner, [Next]_vars
  PROVE  SingleOwner'
<1> USE DEF TypeOK, SingleOwner, Owns, IsInjective, Step
<1>1. CASE queue_init \/ queue_deinit
  BY <1>1, EmptySeq DEF queue_init, queue_deinit
<1>2. ASSUME NEW t \in Threads, AddRefused(t) PROVE SingleOwner'
  BY <1>2 DEF AddRefused
<1>3. ASSUME NEW t \in Threads, AddAlloc(t) PROVE SingleOwner'
  BY <1>3 DEF AddAlloc
<1>4. ASSUME NEW t \in Threads, AddLink(t) PROVE SingleOwner'
  <2>1. /\ qi[t] \in Items /\ qi[t] \in heap
        /\ \A k \in DOMAIN items : items[k] # qi[t]
    BY <1>4 DEF AddLink
  <2>2. /\ DOMAIN items' = 1..(Len(items) + 1)
        /\ DOMAIN items = 1..Len(items) /\ Len(items) \in Nat
        /\ items'[1] = qi[t]
        /\ \A k \in 2..(Len(items) + 1) : items'[k] = items[k - 1]
    BY <1>4, <2>1, LinkFacts, LenProperties DEF AddLink
  <2>3. \A k \in DOMAIN items' :
          k = 1 \/ (k - 1 \in DOMAIN items /\ items'[k] = items[k - 1])
    BY <2>2
  <2>4. IsInjective(items')
    BY <2>1, <2>2, <2>3
  <2>5. \A k \in DOMAIN items' : items'[k] \in heap
    BY <2>1, <2>2, <2>3
  <2>6. \A u \in Threads : Owns(u)' = IF u = t THEN {} ELSE Owns(u)
    BY <1>4 DEF AddLink
  <2>7. \A u \in Threads : \A k \in DOMAIN items' : items'[k] \notin Owns(u)'
    <3>1. SUFFICES ASSUME NEW u \in Threads, NEW k \in DOMAIN items'
                   PROVE  items'[k] \notin Owns(u)'
      OBVIOUS
    <3>2. CASE u = t
      BY <3>2, <2>6
    <3>3. CASE u # t
      <4>1. Owns(u)' = Owns(u) /\ Owns(t) = {qi[t]}
        BY <1>4, <2>6, <3>3 DEF AddLink
      <4>2. CASE k = 1
        BY <2>2, <3>3, <4>1, <4>2
      <4>3. CASE k # 1
        BY <2>3, <4>1, <4>3
      <4> QED
        BY <4>2, <4>3
    <3> QED
      BY <3>2, <3>3
  <2>8. /\ \A u \in Threads : Owns(u)' \subseteq heap'
        /\ \A u, v \in Threads : u # v => Owns(u)' \cap Owns(v)' = {}
    BY <1>4, <2>6 DEF AddLink
  <2> QED
    BY <1>4, <2>4, <2>5, <2>7, <2>8 DEF AddLink
<1>5. ASSUME NEW t \in Threads, GetUnlink(t) PROVE SingleOwner'
  <2> DEFINE n == Len(items)
  <2>1. /\ items' = CutLast /\ qi'[t] = items[n] /\ n \in DOMAIN items
        /\ n \in Nat /\ CutLast \in Seq(Items) /\ Len(CutLast) = n - 1
        /\ \A k \in 1..(n - 1) : CutLast[k] = items[k]
    BY <1>5, CountedAtChange, CutFacts, LenProperties DEF GetUnlink
  <2>2. /\ DOMAIN items = 1..n /\ DOMAIN items' = 1..(n - 1)
        /\ \A k \in DOMAIN items' : k \in DOMAIN items /\ k # n /\ items'[k] = items[k]
    BY <2>1, LenProperties
  <2>3. \A u \in Threads : Owns(u)' = IF u = t THEN {items[n]} ELSE Owns(u)
    BY <1>5, <2>1 DEF GetUnlink
  <2>4. IsInjective(items') /\ \A k \in DOMAIN items' : items'[k] \in heap
    BY <2>2
  <2>5. \A u \in Threads : \A k \in DOMAIN items' : items'[k] \notin Owns(u)'
    BY <2>1, <2>2, <2>3
  <2>6. /\ \A u \in Threads : Owns(u)' \subseteq heap'
        /\ \A u, v \in Threads : u # v => Owns(u)' \cap Owns(v)' = {}
    BY <1>5, <2>1, <2>3 DEF GetUnlink
  <2> QED
    BY <1>5, <2>4, <2>5, <2>6 DEF GetUnlink
<1>6. ASSUME NEW t \in Threads, queue_del_item(t) PROVE SingleOwner'
  <2>1. Owns(t) = {qi[t]} /\ items' = items /\ heap \ {qi[t]} \subseteq heap'
    BY <1>6 DEF queue_del_item
  <2>2. \A u \in Threads : Owns(u)' = IF u = t THEN {} ELSE Owns(u)
    BY <1>6 DEF queue_del_item
  <2> HIDE DEF Owns
  <2> QED
    BY <2>1, <2>2
<1>7. ASSUME NEW t \in Threads,
             \/ AddLock(t) \/ AddCount(t) \/ AddUnlock(t) \/ AddWake(t)
             \/ GetCalls(t) \/ GetLockRead(t) \/ GetLock(t) \/ GetEmpty(t)
             \/ GetCount(t) \/ GetWake(t) \/ GetUnlock(t)
             \/ SizeCalls(t) \/ SizeLock(t) \/ SizeRead(t) \/ SizeUnlock(t)
      PROVE  SingleOwner'
  <2>1. items' = items /\ heap' = heap
    BY <1>7 DEF AddLock, AddCount, AddUnlock, AddWake, GetCalls, GetCall,
                GetRefused, GetLockRead, GetLock, GetEmpty, GetCount, GetWake,
                GetUnlock, SizeCalls, SizeCall, SizeUndefined, SizeLock,
                SizeRead, SizeUnlock
  <2>2. \A u \in Threads : Owns(u)' \subseteq Owns(u)
    BY <1>7 DEF AddLock, AddCount, AddUnlock, AddWake, GetCalls, GetCall,
                GetRefused, GetLockRead, GetLock, GetEmpty, GetCount, GetWake,
                GetUnlock, SizeCalls, SizeCall, SizeUndefined, SizeLock,
                SizeRead, SizeUnlock
  <2> HIDE DEF Owns
  <2> QED
    BY <2>1, <2>2
<1>8. CASE UNCHANGED vars
  BY <1>8 DEF vars
<1> QED
  BY <1>1, <1>2, <1>3, <1>4, <1>5, <1>6, <1>7, <1>8
     DEF Next, Inside, AddCalls, Threads

-----------------------------------------------------------------------------
(* The theorems.                                                           *)

\* The queue starts closed and empty, all threads outside.
LEMMA QueueInit == Init => QueueInv
<1> SUFFICES ASSUME Init PROVE QueueInv
  OBVIOUS
<1> USE QueueAssumption, EmptySeq DEF Init
<1>1. TypeOK
  <2>1. g_queue \in BOOLEAN /\ items \in Seq(Items) /\ numitems \in Nat
    OBVIOUS
  <2>2. /\ modify_mutex \in Threads \cup {NULL}
        /\ read_mutex \in {"locked", "free"} /\ heap \in SUBSET Items
    OBVIOUS
  <2>3. pc \in [Threads -> {"idle", "have"} \cup AddPcs \cup GetPcs \cup SizePcs]
    OBVIOUS
  <2>4. qi \in [Threads -> Items \cup {NULL}] /\ ret \in [Threads -> Int]
    OBVIOUS
  <2> QED
    BY <2>1, <2>2, <2>3, <2>4 DEF TypeOK
<1>2. HolderInv /\ CountInv /\ ClosedInv /\ NoLostWakeup
  BY DEF HolderInv, Section, CountInv, ClosedInv, Quiescent, NoLostWakeup
<1>3. \A t \in Threads : Owns(t) = {}
  BY DEF Owns
<1>4. SingleOwner
  BY <1>3 DEF SingleOwner, IsInjective
<1> QED
  BY <1>1, <1>2, <1>4 DEF QueueInv

\* QueueInv is inductive, whatever the program around the queue does between
\* its calls.
LEMMA QueueStep == QueueInv /\ [Next]_vars => QueueInv'
BY TypeStep, HolderStep, CountStep, ClosedStep, WakeStep, OwnerStep
   DEF QueueInv

\* No interleaving of the statements of the queue's operations (queue.c:24-100)
\* breaks the list, its length or its mutexes.
THEOREM QueueInvariant == Spec => []QueueInv
BY QueueInit, QueueStep, PTL DEF Spec

\* The variables keep their types; the length never goes below zero.
THEOREM TypeCorrect == Spec => []TypeOK
<1>1. QueueInv => TypeOK
  BY DEF QueueInv
<1> QED
  BY <1>1, QueueInvariant, PTL

\* Whoever locks modify_mutex finds the length of the list in numitems.
THEOREM CountCorrect == Spec => []CountMatchesList
<1>1. QueueInv => CountMatchesList
  BY CountedWhenFree, QueueAssumption DEF QueueInv, CountMatchesList
<1> QED
  BY <1>1, QueueInvariant, PTL

\* A reader never stays blocked because an unlock of read_mutex was lost.
THEOREM WakeupsKept == Spec => []NoLostWakeup
<1>1. QueueInv => NoLostWakeup
  BY DEF QueueInv
<1> QED
  BY <1>1, QueueInvariant, PTL

\* No node is handed out twice, freed while listed, or freed twice.
THEOREM OneOwner == Spec => []SingleOwner
<1>1. QueueInv => SingleOwner
  BY DEF QueueInv
<1> QED
  BY <1>1, QueueInvariant, PTL
-----------------------------------------------------------------------------
(* The refinement: what each statement does to the FIFO queue.             *)

\* The list is the FIFO queue backwards.
LEMMA ReverseFacts ==
  ASSUME NEW s \in Seq(Items)
  PROVE  /\ Reverse(s) \in Seq(Items)
         /\ Len(Reverse(s)) = Len(s)
         /\ \A k \in 1..Len(s) : Reverse(s)[k] = s[Len(s) - k + 1]
         /\ Reverse(s) = <<>> <=> s = <<>>
<1>1. Len(s) \in Nat /\ \A k \in 1..Len(s) : s[Len(s) - k + 1] \in Items
  BY LenProperties, ElementOfSeq
<1>2. Reverse(s) \in Seq(Items)
  BY <1>1, IsASeq DEF Reverse
<1>3. DOMAIN Reverse(s) = 1..Len(s)
  BY DEF Reverse
<1>4. Len(Reverse(s)) = Len(s)
  BY <1>1, <1>2, <1>3, LenProperties
<1> QED
  BY <1>1, <1>2, <1>4, EmptySeq DEF Reverse

\* Linking a node in front of the list puts it at the end of the queue.
LEMMA ReverseLink ==
  ASSUME NEW s \in Seq(Items), NEW i \in Items
  PROVE  Reverse(<<i>> \o s) = Append(Reverse(s), i)
<1> DEFINE l == <<i>> \o s
           n == Len(s)
           a == Append(Reverse(s), i)
<1>1. /\ l \in Seq(Items) /\ Len(l) = n + 1 /\ n \in Nat
      /\ l[1] = i /\ \A k \in 2..(n + 1) : l[k] = s[k - 1]
  BY LinkFacts, LenProperties
<1> HIDE DEF l
<1>2. /\ Reverse(l) \in Seq(Items) /\ Len(Reverse(l)) = n + 1
      /\ \A k \in 1..(n + 1) : Reverse(l)[k] = l[n + 1 - k + 1]
  BY <1>1, ReverseFacts
<1>3. /\ a \in Seq(Items) /\ Len(a) = n + 1
      /\ a[n + 1] = i
      /\ \A k \in 1..n : a[k] = s[n - k + 1]
  BY ReverseFacts, AppendProperties
<1> HIDE DEF a, n
<1>4. \A k \in 1..(n + 1) : Reverse(l)[k] = a[k]
  <2>1. ASSUME NEW k \in 1..n PROVE Reverse(l)[k] = a[k]
    <3>1. n + 1 - k + 1 \in 2..(n + 1) /\ (n + 1 - k + 1) - 1 = n - k + 1
      BY <1>1
    <3> QED
      BY <1>1, <1>2, <1>3, <3>1
  <2>2. Reverse(l)[n + 1] = a[n + 1]
    BY <1>1, <1>2, <1>3
  <2> QED
    BY <1>1, <2>1, <2>2
<1>5. Reverse(l) = a
  BY <1>1, <1>2, <1>3, <1>4, SeqEqual
<1> QED
  BY <1>5 DEF l, a

\* Cutting the last node off the list takes the head of the queue.
LEMMA ReverseCut ==
  ASSUME NEW s \in Seq(Items), s # <<>>
  PROVE  /\ s[Len(s)] = Head(Reverse(s))
         /\ Reverse(SubSeq(s, 1, Len(s) - 1)) = Tail(Reverse(s))
<1> DEFINE c == SubSeq(s, 1, Len(s) - 1)
           t == Tail(Reverse(s))
           n == Len(s) - 1
<1>1. n \in Nat /\ Len(s) = n + 1
  BY EmptySeq
<1>2. c \in Seq(Items) /\ Len(c) = n /\ \A k \in 1..n : c[k] = s[k]
  BY <1>1
<1>3. /\ Reverse(c) \in Seq(Items) /\ Len(Reverse(c)) = n
      /\ \A k \in 1..n : Reverse(c)[k] = s[n - k + 1]
  <2> HIDE DEF c, n
  <2>1. \A k \in 1..n : n - k + 1 \in 1..n
    BY <1>1
  <2> QED
    BY <1>1, <1>2, <2>1, ReverseFacts
<1>4. /\ t \in Seq(Items) /\ Len(t) = n
      /\ \A k \in 1..n : t[k] = s[n - k + 1]
  <2>1. /\ Reverse(s) \in Seq(Items) /\ Reverse(s) # <<>>
        /\ Len(Reverse(s)) = n + 1
        /\ \A k \in 1..(n + 1) : Reverse(s)[k] = s[n + 1 - k + 1]
    BY <1>1, ReverseFacts
  <2>2. t \in Seq(Items) /\ Len(t) = n /\ \A k \in 1..n : t[k] = Reverse(s)[k + 1]
    BY <2>1, HeadTailProperties
  <2> QED
    BY <1>1, <2>1, <2>2
<1>5. Reverse(c) = t
  <2> HIDE DEF c, t, n
  <2> QED
    BY <1>3, <1>4, SeqEqual
<1>6. Head(Reverse(s)) = s[Len(s)]
  BY <1>1, ReverseFacts
<1> QED
  BY <1>5, <1>6

\* The phase of a thread at each statement.
LEMMA PhaseValues ==
  /\ Phase("idle") = "idle" /\ Phase("have") = "idle"
  /\ \A l \in {"add_lock", "add_link"} : Phase(l) = "put"
  /\ \A l \in {"add_count", "add_unlock", "add_wake"} : Phase(l) = "stored"
  /\ \A l \in {"get_read", "get_lock", "get_unlink"} : Phase(l) = "get"
  /\ \A l \in {"size_lock", "size_read"} : Phase(l) = "size"
  /\ \A l \in {"get_count", "get_wake", "get_unlock", "none_unlock", "size_unlock"} :
       Phase(l) = "answered"
BY DEF Phase

\* The step of one thread is the move of one phase.
LEMMA PhaseStep ==
  ASSUME TypeOK, NEW t \in Threads, NEW from, NEW to, Step(t, from, to)
  PROVE  /\ Fifo!Move(t, Phase(from), Phase(to))
         /\ Phase(from) = Phase(to) =>
              [u \in Threads |-> Phase(pc[u])]' = [u \in Threads |-> Phase(pc[u])]
BY DEF TypeOK, Step, Fifo!Move

\* Every step of the queue is a step of the FIFO queue or none.
LEMMA FifoStep ==
  ASSUME QueueInv, [Next]_vars
  PROVE  [Fifo!Next]_(Fifo!vars)
<1> DEFINE ph == [u \in Threads |-> Phase(pc[u])]
<1> USE DEF QueueInv
<1>1. CASE queue_init
  <2>1. items = <<>> /\ items' = <<>>
    BY <1>1 DEF queue_init, ClosedInv
  <2>2. Fifo!Open
    BY <1>1, <2>1 DEF queue_init, Fifo!Open
  <2> QED
    BY <2>2 DEF Fifo!Next
<1>2. CASE queue_deinit
  <2>1. \A t \in Threads : ph[t] = "idle"
    BY <1>2, PhaseValues DEF queue_deinit, Quiescent
  <2>2. Reverse(items)' = <<>>
    BY <1>2, EmptySeq, ReverseFacts DEF queue_deinit
  <2>3. Fifo!Close
    BY <1>2, <2>1, <2>2 DEF queue_deinit, Fifo!Close
  <2> QED
    BY <2>3 DEF Fifo!Next
<1>3. ASSUME NEW t \in Threads, AddRefused(t) PROVE [Fifo!Next]_(Fifo!vars)
  <2>1. pc[t] = "idle" /\ ph[t] = "idle"
    BY <1>3, PhaseValues DEF AddRefused
  <2>2. CASE g_queue
    <3>1. Fifo!PutDropped(t)
      BY <1>3, <2>1, <2>2 DEF AddRefused, Fifo!PutDropped
    <3> QED
      BY <3>1 DEF Fifo!Next
  <2>3. CASE ~g_queue
    <3> DEFINE n == IF g_queue THEN 0 ELSE -1
    <3>1. n \in Int /\ ret' = [ret EXCEPT ![t] = n]
      BY <1>3 DEF AddRefused
    <3> HIDE DEF n
    <3>2. ret' = [ret EXCEPT ![t] = ret'[t]] /\ ret'[t] \in Int
      BY <3>1 DEF TypeOK
    <3>3. UNCHANGED <<g_queue, items, pc, qi>>
      BY <1>3 DEF AddRefused
    <3>4. Fifo!NotOpen(t)
      BY <2>1, <2>3, <3>2, <3>3 DEF Fifo!NotOpen
    <3> QED
      BY <3>4 DEF Fifo!Next
  <2> QED
    BY <2>2, <2>3
<1>4. ASSUME NEW t \in Threads, AddAlloc(t) PROVE [Fifo!Next]_(Fifo!vars)
  <2>1. PICK i \in Items : qi' = [qi EXCEPT ![t] = i]
    BY <1>4 DEF AddAlloc
  <2>2. Fifo!Move(t, "idle", "put")
    BY <1>4, PhaseStep, PhaseValues DEF AddAlloc
  <2>3. Fifo!PutCall(t, i)
    BY <1>4, <2>1, <2>2 DEF AddAlloc, Fifo!PutCall
  <2> QED
    BY <2>3 DEF Fifo!Next
<1>5. ASSUME NEW t \in Threads, AddLink(t) PROVE [Fifo!Next]_(Fifo!vars)
  <2>1. qi[t] \in Items
    BY <1>5 DEF AddLink, SingleOwner, Owns, TypeOK, Step
  <2>2. Reverse(items)' = Append(Reverse(items), qi[t])
    BY <1>5, <2>1, ReverseLink DEF AddLink, TypeOK
  <2>3. Fifo!Move(t, "put", "stored")
    BY <1>5, PhaseStep, PhaseValues DEF AddLink
  <2>4. Fifo!Put(t)
    BY <1>5, <2>2, <2>3 DEF AddLink, Fifo!Put
  <2> QED
    BY <2>4 DEF Fifo!Next
<1>6. ASSUME NEW t \in Threads, AddWake(t) PROVE [Fifo!Next]_(Fifo!vars)
  <2>1. Fifo!Move(t, "stored", "idle")
    BY <1>6, PhaseStep, PhaseValues DEF AddWake
  <2>2. Fifo!PutReturn(t)
    BY <1>6, <2>1 DEF AddWake, Fifo!PutReturn
  <2> QED
    BY <2>2 DEF Fifo!Next
<1>7. ASSUME NEW t \in Threads, GetCall(t) PROVE [Fifo!Next]_(Fifo!vars)
  <2>1. Fifo!Move(t, "idle", "get")
    BY <1>7, PhaseStep, PhaseValues DEF GetCall
  <2>2. Fifo!GetCall(t)
    BY <1>7, <2>1 DEF GetCall, Fifo!GetCall
  <2> QED
    BY <2>2 DEF Fifo!Next
<1>8. ASSUME NEW t \in Threads, GetRefused(t) PROVE [Fifo!Next]_(Fifo!vars)
  <2>1. ph[t] = "idle"
    BY <1>8, PhaseValues DEF GetRefused
  <2>2. Fifo!NotOpen(t)
    BY <1>8, <2>1 DEF GetRefused, Fifo!NotOpen
  <2> QED
    BY <2>2 DEF Fifo!Next
<1>9. ASSUME NEW t \in Threads, GetEmpty(t) PROVE [Fifo!Next]_(Fifo!vars)
  <2>1. Reverse(items) = <<>>
    BY <1>9, ReverseFacts DEF GetEmpty, TypeOK
  <2>2. Fifo!Move(t, "get", "answered")
    BY <1>9, PhaseStep, PhaseValues DEF GetEmpty
  <2>3. Fifo!Get(t)
    BY <1>9, <2>1, <2>2 DEF GetEmpty, Fifo!Get
  <2> QED
    BY <2>3 DEF Fifo!Next
<1>10. ASSUME NEW t \in Threads, GetUnlink(t) PROVE [Fifo!Next]_(Fifo!vars)
  <2>1. /\ items \in Seq(Items) /\ items # <<>> /\ Reverse(items) # <<>>
        /\ CutLast = SubSeq(items, 1, Len(items) - 1)
        /\ Last(items) = items[Len(items)]
    BY <1>10, CountedAtChange, CutFacts, ReverseFacts DEF GetUnlink, TypeOK, Step
  <2>2. /\ Last(items) = Head(Reverse(items))
        /\ Reverse(items)' = Tail(Reverse(items))
    BY <1>10, <2>1, ReverseCut DEF GetUnlink
  <2>3. Fifo!Move(t, "get", "answered")
    BY <1>10, PhaseStep, PhaseValues DEF GetUnlink
  <2>4. Fifo!Get(t)
    BY <1>10, <2>1, <2>2, <2>3 DEF GetUnlink, Fifo!Get
  <2> QED
    BY <2>4 DEF Fifo!Next
<1>11. ASSUME NEW t \in Threads, GetUnlock(t) \/ SizeUnlock(t)
       PROVE  [Fifo!Next]_(Fifo!vars)
  <2>1. Fifo!Move(t, "answered", "idle")
    BY <1>11, PhaseStep, PhaseValues DEF GetUnlock, SizeUnlock
  <2>2. Fifo!Return(t)
    BY <1>11, <2>1 DEF GetUnlock, SizeUnlock, Fifo!Return
  <2> QED
    BY <2>2 DEF Fifo!Next
<1>12. ASSUME NEW t \in Threads, SizeCall(t) PROVE [Fifo!Next]_(Fifo!vars)
  <2>1. Fifo!Move(t, "idle", "size")
    BY <1>12, PhaseStep, PhaseValues DEF SizeCall
  <2>2. Fifo!SizeCall(t)
    BY <1>12, <2>1 DEF SizeCall, Fifo!SizeCall
  <2> QED
    BY <2>2 DEF Fifo!Next
<1>13. ASSUME NEW t \in Threads, SizeUndefined(t) PROVE [Fifo!Next]_(Fifo!vars)
  <2>1. ph[t] = "idle"
    BY <1>13, PhaseValues DEF SizeUndefined
  <2>2. PICK g \in Garbage : ret' = [ret EXCEPT ![t] = g]
    BY <1>13 DEF SizeUndefined
  <2>3. ret'[t] = g /\ g \in Int
    BY <2>2, QueueAssumption DEF TypeOK
  <2>4. Fifo!NotOpen(t)
    BY <1>13, <2>1, <2>2, <2>3 DEF SizeUndefined, Fifo!NotOpen
  <2> QED
    BY <2>4 DEF Fifo!Next
<1>14. ASSUME NEW t \in Threads, SizeRead(t) PROVE [Fifo!Next]_(Fifo!vars)
  <2>1. numitems = Len(Reverse(items))
    BY <1>14, CountedAtChange, ReverseFacts DEF SizeRead, TypeOK, Step
  <2>2. Fifo!Move(t, "size", "answered")
    BY <1>14, PhaseStep, PhaseValues DEF SizeRead
  <2>3. Fifo!Size(t)
    BY <1>14, <2>1, <2>2 DEF SizeRead, Fifo!Size
  <2> QED
    BY <2>3 DEF Fifo!Next
<1>15. ASSUME NEW t \in Threads,
              \/ AddLock(t) \/ AddCount(t) \/ AddUnlock(t)
              \/ GetLockRead(t) \/ GetLock(t) \/ GetCount(t) \/ GetWake(t)
              \/ SizeLock(t) \/ queue_del_item(t)
       PROVE  UNCHANGED Fifo!vars
  <2>1. UNCHANGED <<g_queue, items, qi, ret>>
    BY <1>15 DEF AddLock, AddCount, AddUnlock, GetLockRead, GetLock, GetCount,
                 GetWake, SizeLock, queue_del_item
  <2>2. PICK from, to : Step(t, from, to) /\ Phase(from) = Phase(to)
    BY <1>15, PhaseValues
       DEF AddLock, AddCount, AddUnlock, GetLockRead, GetLock, GetCount,
           GetWake, SizeLock, queue_del_item
  <2>3. ph' = ph
    BY <2>2, PhaseStep
  <2> QED
    BY <2>1, <2>3 DEF Fifo!vars
<1>16. CASE UNCHANGED vars
  BY <1>16 DEF vars, Fifo!vars
<1> QED
  BY <1>1, <1>2, <1>3, <1>4, <1>5, <1>6, <1>7, <1>8, <1>9, <1>10, <1>11, <1>12,
     <1>13, <1>14, <1>15, <1>16
     DEF Next, Inside, AddCalls, GetCalls, SizeCalls, Threads

\* Through every interleaving of its statements the queue is a FIFO queue whose
\* calls take effect at one instant each (queue.c:24-100): items leave in the
\* order they entered, NULL is answered only by an empty queue, and a size is
\* one the queue has had during the call.
THEOREM QueueIsFifo == Spec => ImplementsFifo
<1>1. Init => Fifo!Init
  <2> SUFFICES ASSUME Init PROVE Fifo!Init
    OBVIOUS
  <2>1. Reverse(items) = <<>>
    BY EmptySeq, ReverseFacts DEF Init
  <2>2. [t \in Threads |-> Phase(pc[t])] = [t \in Threads |-> "idle"]
    BY PhaseValues DEF Init
  <2> QED
    BY <2>1, <2>2 DEF Init, Fifo!Init
<1>2. QueueInv /\ [Next]_vars => [Fifo!Next]_(Fifo!vars)
  BY FifoStep
<1> QED
  BY <1>1, <1>2, QueueInvariant, PTL DEF Spec, ImplementsFifo, Fifo!Spec
=============================================================================
