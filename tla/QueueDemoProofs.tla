--------------------------- MODULE QueueDemoProofs ---------------------------
(***************************************************************************)
(* The invariants of the event queue's demo, for any limit and any number  *)
(* of nodes.                                                               *)
(***************************************************************************)
EXTENDS QueueDemo, EventQueueProofs

\* The threads are two.
LEMMA TwoThreads ==
  /\ Threads = {increment, decrement} /\ increment # decrement
  /\ NULL \notin Threads
BY DemoAssumption, QueueAssumption DEF Threads

\* What the demo does, it does to the queue by calls of the queue's operations.
LEMMA CallsOnly == DemoNext => [Next]_vars
<1> SUFFICES ASSUME DemoNext PROVE [Next]_vars
  OBVIOUS
<1> USE DemoAssumption DEF Next, Threads
<1>1. CASE main
  BY <1>1 DEF main
<1>2. ASSUME NEW t \in Threads, InCall(t) PROVE [Next]_vars
  BY <1>2 DEF InCall
<1>3. CASE DSize \/ ISize
  BY <1>3 DEF DSize, ISize, CallSize
<1>4. CASE DGet \/ DDel \/ IAdd
  BY <1>4 DEF DGet, DDel, IAdd
<1>5. CASE DLock \/ DWait \/ Spurious \/ DWake \/ DUnlock \/ DUse
  BY <1>5 DEF DLock, DWait, Spurious, DWake, DUnlock, DUse, LockMutex, Returned
<1>6. CASE ILock \/ ISignal \/ IUnlock \/ IEnd
  BY <1>6 DEF ILock, ISignal, IUnlock, IEnd, LockMutex, Returned
<1> QED
  BY <1>1, <1>2, <1>3, <1>4, <1>5, <1>6 DEF DemoNext, Decrement, Increment

\* The parts of the invariant that are the demo's own.
OwnInv == /\ DemoTypeOK /\ CallInv /\ MutexInv
          /\ KnownInv /\ GotInv /\ LimitInv /\ NoMissedSignal

\* Every step of the demo preserves them.
LEMMA OwnStep ==
  ASSUME DemoInv, DemoNext
  PROVE  OwnInv'
<1> USE TwoThreads, DemoAssumption
        DEF DemoInv, OwnInv, DemoTypeOK, CallInv, MutexInv, KnownInv, GotInv,
            LimitInv, ListBounded, NoMissedSignal, Sized, AddPcs, GetPcs,
            SizePcs, Goto, Step, QueueInv
<1>0. Len(items) \in Nat /\ (items = <<>> <=> Len(items) = 0)
  BY EmptySeq, LenProperties DEF TypeOK
<1>1. CASE main
  BY <1>1, <1>0, EmptySeq DEF main, queue_init, Quiescent, ClosedInv, vars, TypeOK
<1>2. CASE DLock \/ DWake \/ ILock
  BY <1>2 DEF DLock, DWake, ILock, LockMutex, vars
<1>3. CASE DSize \/ ISize
  BY <1>3 DEF DSize, ISize, CallSize, SizeCalls, SizeCall, SizeUndefined, TypeOK
<1>4. CASE DWait
  BY <1>4, <1>0 DEF DWait, Returned, vars, ClosedInv
<1>5. CASE Spurious
  BY <1>5 DEF Spurious, vars
<1>6. CASE DGet
  BY <1>6, <1>0 DEF DGet, GetCalls, GetCall, GetRefused, TypeOK
<1>7. CASE DUnlock
  BY <1>7 DEF DUnlock, Returned, vars, TypeOK
<1>8. CASE DUse
  <2>1. pc[decrement] = "have" => item # NULL
    BY <1>8, QueueAssumption DEF DUse, SingleOwner, Owns, TypeOK
  <2>2. \/ at' = [at EXCEPT ![decrement] = "crashed"] /\ item = NULL
        \/ at' = [at EXCEPT ![decrement] = "del"]
    BY <1>8 DEF DUse
  <2>3. at[decrement] = "use" /\ UNCHANGED <<vars, mutex, item>>
    BY <1>8 DEF DUse
  <2> QED
    BY <2>1, <2>2, <2>3 DEF vars
<1>9. CASE DDel
  BY <1>9 DEF DDel, queue_del_item, TypeOK
<1>10. CASE IAdd
  BY <1>10 DEF IAdd, AddCalls, AddRefused, AddAlloc, TypeOK
<1>11. CASE ISignal
  BY <1>11, <1>0 DEF ISignal, Returned, vars, ClosedInv
<1>12. CASE IUnlock
  BY <1>12 DEF IUnlock, vars
<1>13. CASE IEnd
  BY <1>13, <1>0 DEF IEnd, Returned, vars, ClosedInv, TypeOK
<1>14. CASE InCall(increment)
  <2>1. UNCHANGED <<at, mutex, item, g_queue>>
    BY <1>14 DEF InCall, Inside, AddLock, AddLink, AddCount, AddUnlock, AddWake,
                 GetLockRead, GetLock, GetEmpty, GetUnlink, GetCount, GetWake,
                 GetUnlock, SizeLock, SizeRead, SizeUnlock
  <2>2. CASE AddLink(increment)
    <3>1. Len(items') = Len(items) + 1 /\ items' # <<>>
      <4>1. qi[increment] \in Items
        BY <2>2 DEF AddLink, SingleOwner, Owns, TypeOK
      <4> QED
        BY <4>1, <2>2, <1>0, LinkFacts, EmptySeq DEF AddLink, TypeOK
    <3> QED
      BY <2>1, <2>2, <3>1, <1>0 DEF AddLink, TypeOK
  <2>3. CASE \/ AddLock(increment) \/ AddCount(increment)
             \/ AddUnlock(increment) \/ AddWake(increment)
    BY <2>1, <2>3 DEF AddLock, AddCount, AddUnlock, AddWake, TypeOK
  <2>4. CASE SizeLock(increment) \/ SizeUnlock(increment)
    BY <2>1, <2>4 DEF SizeLock, SizeUnlock, TypeOK
  <2>5. CASE SizeRead(increment)
    <3>1. ret'[increment] = Len(items)
      BY <2>5, CountedAtChange DEF SizeRead, TypeOK
    <3> QED
      BY <2>1, <2>5, <3>1, <1>0 DEF SizeRead, TypeOK
  <2> QED
    BY <1>14, <2>2, <2>3, <2>4, <2>5
       DEF InCall, Inside, GetLockRead, GetLock, GetEmpty, GetUnlink, GetCount,
           GetWake, GetUnlock
<1>15. CASE InCall(decrement)
  <2>1. UNCHANGED <<at, mutex, item, g_queue>>
    BY <1>15 DEF InCall, Inside, AddLock, AddLink, AddCount, AddUnlock, AddWake,
                 GetLockRead, GetLock, GetEmpty, GetUnlink, GetCount, GetWake,
                 GetUnlock, SizeLock, SizeRead, SizeUnlock
  <2>2. CASE GetUnlink(decrement)
    <3>1. Len(items') = Len(items) - 1
      BY <2>2, CountedAtChange, CutFacts DEF GetUnlink, TypeOK
    <3>2. mutex = decrement
      BY <2>2 DEF GetUnlink
    <3> QED
      BY <2>1, <2>2, <3>1, <3>2, <1>0 DEF GetUnlink, TypeOK
  <2>3. CASE \/ GetLockRead(decrement) \/ GetLock(decrement) \/ GetEmpty(decrement)
    BY <2>1, <2>3 DEF GetLockRead, GetLock, GetEmpty, TypeOK
  <2>4. CASE \/ GetCount(decrement) \/ GetWake(decrement) \/ GetUnlock(decrement)
    BY <2>1, <2>4 DEF GetCount, GetWake, GetUnlock, TypeOK, ClosedInv, Quiescent
  <2>5. CASE SizeLock(decrement) \/ SizeUnlock(decrement)
    BY <2>1, <2>5 DEF SizeLock, SizeUnlock, TypeOK
  <2>6. CASE SizeRead(decrement)
    <3>1. ret'[decrement] = Len(items)
      BY <2>6, CountedAtChange DEF SizeRead, TypeOK
    <3> QED
      BY <2>1, <2>6, <3>1 DEF SizeRead, TypeOK
  <2> QED
    BY <1>15, <2>2, <2>3, <2>4, <2>5, <2>6
       DEF InCall, Inside, AddLock, AddLink, AddCount, AddUnlock, AddWake
<1> QED
  BY <1>1, <1>2, <1>3, <1>4, <1>5, <1>6, <1>7, <1>8, <1>9, <1>10, <1>11, <1>12,
     <1>13, <1>14, <1>15 DEF DemoNext, Decrement, Increment

\* Nothing is queued before the threads start.
LEMMA DemoInitial == DemoInit => DemoInv
<1> SUFFICES ASSUME DemoInit PROVE DemoInv
  OBVIOUS
<1>1. QueueInv
  BY QueueInit DEF DemoInit
<1>2. OwnInv
  BY TwoThreads, DemoAssumption, EmptySeq
     DEF DemoInit, Init, OwnInv, DemoTypeOK, CallInv, MutexInv, KnownInv, GotInv,
         LimitInv, ListBounded, NoMissedSignal, Sized, AddPcs, GetPcs, SizePcs
<1> QED
  BY <1>1, <1>2 DEF DemoInv, OwnInv

-----------------------------------------------------------------------------
(* The theorems.                                                           *)

\* The two threads, their mutex and condition variable and the queue between
\* them (test.c:16-54) stay consistent through every interleaving.
THEOREM DemoInvariant == DemoSpec => []DemoInv
<1>1. DemoInv /\ [DemoNext]_demoVars => DemoInv'
  <2> SUFFICES ASSUME DemoInv, [DemoNext]_demoVars PROVE DemoInv'
    OBVIOUS
  <2>1. CASE DemoNext
    BY <2>1, CallsOnly, QueueStep, OwnStep DEF DemoInv, OwnInv
  <2>2. CASE UNCHANGED demoVars
    <3>1. UNCHANGED <<vars, mutex, item, at>>
      BY <2>2 DEF demoVars
    <3>2. QueueInv'
      BY <3>1, QueueStep DEF DemoInv
    <3>3. OwnInv'
      BY <3>1 DEF vars, DemoInv, OwnInv, DemoTypeOK, CallInv, MutexInv, KnownInv,
                  GotInv, LimitInv, ListBounded, NoMissedSignal, Sized
    <3> QED
      BY <3>2, <3>3 DEF DemoInv, OwnInv
  <2> QED
    BY <2>1, <2>2
<1> QED
  BY <1>1, DemoInitial, PTL DEF DemoSpec

\* decrement never waits for read_mutex while it holds the demo's mutex
\* (test.c:26): the deadlock of the two threads cannot happen.
THEOREM NeverStuck == DemoSpec => []NeverBlocksHoldingMutex
<1>1. DemoInv => NeverBlocksHoldingMutex
  <2> SUFFICES ASSUME DemoInv, pc[decrement] = "get_read"
               PROVE  read_mutex = "free"
    BY DEF NeverBlocksHoldingMutex
  <2>1. items # <<>> /\ mutex = decrement
    BY DEF DemoInv, GotInv, CallInv, GetPcs, MutexInv
  <2>2. \A t \in Threads : pc[t] \notin Waking
    BY <2>1, TwoThreads DEF DemoInv, CallInv, MutexInv, Waking, AddPcs, GetPcs
  <2> QED
    BY <2>1, <2>2 DEF DemoInv, QueueInv, NoLostWakeup
<1> QED
  BY <1>1, DemoInvariant, PTL

\* The node read at test.c:29 and freed at test.c:30 is an allocated one.
THEOREM ItemAllocated == DemoSpec => []ItemUsable
<1>1. DemoInv => ItemUsable
  BY TwoThreads DEF DemoInv, GotInv, ItemUsable, QueueInv, SingleOwner, Owns
<1> QED
  BY <1>1, DemoInvariant, PTL

\* No node is left in the list by a decrement that nobody is going to signal.
THEOREM SignalKept == DemoSpec => []NoMissedSignal
<1>1. DemoInv => NoMissedSignal
  BY DEF DemoInv
<1> QED
  BY <1>1, DemoInvariant, PTL

\* The list outgrows the limit of test.c:51 by one node at most.
THEOREM ListStaysBounded == DemoSpec => []ListBounded
<1>1. DemoInv => ListBounded
  BY DEF DemoInv, LimitInv
<1> QED
  BY <1>1, DemoInvariant, PTL

-----------------------------------------------------------------------------
(* The queue within the demo.                                              *)

\* The demo uses the queue as any threads may: what is proved of the queue alone
\* holds here.
THEOREM DemoUsesQueue == DemoSpec => Spec
<1>1. DemoInit => Init
  BY DEF DemoInit
<1>2. [DemoNext]_demoVars => [Next]_vars
  BY CallsOnly DEF demoVars
<1> QED
  BY <1>1, <1>2, PTL DEF DemoSpec, Spec

\* To the two threads of the demo (test.c:16-54) the queue is a FIFO queue.
THEOREM DemoQueueIsFifo == DemoSpec => ImplementsFifo
BY DemoUsesQueue, QueueIsFifo
=============================================================================
