----------------------------- MODULE QueueDemo -----------------------------
(***************************************************************************)
(* The program of queue/test.c: thread increment puts nodes into the event *)
(* queue, thread decrement takes them out.  A second mutex and a condition *)
(* variable around the queue keep decrement out of queue_get_item while    *)
(* the queue is empty.  The queue is module EventQueue, statement by       *)
(* statement; decrement and increment have a location of their own, at[t]. *)
(*                                                                         *)
(* The sleeps lie between two statements and are left out.  After creating *)
(* the threads main waits for decrement, which never returns, so that its  *)
(* queue_deinit is never reached.                                          *)
(***************************************************************************)
EXTENDS EventQueue

CONSTANTS
  increment, decrement,  (* the two threads                                 *)
  MaxQueued              (* the length above which increment stops: 10      *)

ASSUME DemoAssumption ==
  /\ Producers = {increment}
  /\ Consumers = {decrement}
  /\ MaxQueued \in Nat

VARIABLES
  mutex,   (* the demo's own mutex: its holder, or NULL                     *)
  item,    (* the global pointer to the node decrement works on             *)
  at       (* at[t]: the statement of its loop thread t executes next       *)

demoVars == <<vars, mutex, item, at>>

DemoInit ==
  /\ Init
  /\ mutex = NULL
  /\ item = NULL
  /\ at = [t \in Threads |-> "created"]

\* main calls queue_init, which may fail, and starts the threads.
main ==
  /\ \A t \in Threads : at[t] = "created"
  /\ at' = [t \in Threads |-> "lock"]
  /\ queue_init \/ UNCHANGED vars
  /\ UNCHANGED <<mutex, item>>

-----------------------------------------------------------------------------
Goto(t, from, to) == at[t] \in from /\ at' = [at EXCEPT ![t] = to]
LockMutex(t) == mutex = NULL /\ mutex' = t /\ UNCHANGED <<vars, item>>
Returned(t) == pc[t] \in {"idle", "have"} /\ UNCHANGED vars

\* A statement inside a call on the queue that thread t has made.
InCall(t) == Inside(t) /\ UNCHANGED <<mutex, item, at>>

\* The calls, made while no other call of the thread is in progress.
CallSize(t, from, to) ==
  Goto(t, from, to) /\ SizeCalls(t) /\ UNCHANGED <<mutex, item>>

-----------------------------------------------------------------------------
(* Thread decrement.                                                       *)

DLock ==
  Goto(decrement, {"lock"}, "print") /\ LockMutex(decrement)

\* The size that is printed, then the size the loop tests.
DSize ==
  \/ CallSize(decrement, {"print"}, "printed")
  \/ CallSize(decrement, {"printed", "woken"}, "tested")

\* pthread_cond_wait gives mutex up ...
DWait ==
  /\ Goto(decrement, {"tested"}, "waiting")
  /\ Returned(decrement)
  /\ ret[decrement] = 0
  /\ mutex' = NULL
  /\ UNCHANGED item

\* ... may return without a signal ...
Spurious ==
  Goto(decrement, {"waiting"}, "signalled") /\ UNCHANGED <<vars, mutex, item>>

\* ... and returns holding mutex.
DWake ==
  Goto(decrement, {"signalled"}, "woken") /\ LockMutex(decrement)

\* Mutant of DGet: the size is not tested before the call.
DGetUntested ==
  /\ Goto(decrement, {"tested"}, "got")
  /\ GetCalls(decrement)
  /\ UNCHANGED <<mutex, item>>

DGet ==
  /\ ret[decrement] # 0
  /\ Goto(decrement, {"tested"}, "got")
  /\ GetCalls(decrement)
  /\ UNCHANGED <<mutex, item>>

DUnlock ==
  /\ Goto(decrement, {"got"}, "use")
  /\ Returned(decrement)
  /\ item' = qi[decrement]
  /\ mutex' = NULL

\* Reading item->data through a null pointer ends the process.
DUse ==
  /\ Goto(decrement, {"use"}, IF item = NULL THEN "crashed" ELSE "del")
  /\ UNCHANGED <<vars, mutex, item>>

DDel ==
  Goto(decrement, {"del"}, "lock") /\ queue_del_item(decrement)
                                   /\ UNCHANGED <<mutex, item>>

Decrement ==
  \/ DLock \/ DSize \/ DWait \/ DWake \/ DGet \/ DUnlock \/ DUse \/ DDel
  \/ InCall(decrement)

-----------------------------------------------------------------------------
(* Thread increment.                                                       *)

ILock ==
  Goto(increment, {"lock"}, "add") /\ LockMutex(increment)

IAdd ==
  Goto(increment, {"add"}, "added") /\ AddCalls(increment)
                                    /\ UNCHANGED <<mutex, item>>

\* The size that decides on the signal, then, with mutex given up, the size
\* that decides whether to go on.
ISize ==
  \/ CallSize(increment, {"added"}, "sized")
  \/ CallSize(increment, {"check"}, "checked")

\* Mutant of ISignal: the first node in an empty queue is not signalled.
ISignalLate ==
  /\ at[increment] = "sized"
  /\ Returned(increment)
  /\ at' = [t \in Threads |->
              IF t = increment THEN "unlock"
              ELSE IF at[t] = "waiting" /\ ret[increment] > 1 THEN "signalled"
              ELSE at[t]]
  /\ UNCHANGED <<mutex, item>>

ISignal ==
  /\ at[increment] = "sized"
  /\ Returned(increment)
  /\ at' = [t \in Threads |->
              IF t = increment THEN "unlock"
              ELSE IF at[t] = "waiting" /\ ret[increment] # 0 THEN "signalled"
              ELSE at[t]]
  /\ UNCHANGED <<mutex, item>>

IUnlock ==
  Goto(increment, {"unlock"}, "check") /\ mutex' = NULL
                                       /\ UNCHANGED <<vars, item>>

\* Mutant of IEnd: the length is compared as if it were one less.
IEndLate ==
  /\ Goto(increment, {"checked"},
          IF ret[increment] > MaxQueued + 1 THEN "done" ELSE "lock")
  /\ Returned(increment)
  /\ UNCHANGED <<mutex, item>>

IEnd ==
  /\ Goto(increment, {"checked"},
          IF ret[increment] > MaxQueued THEN "done" ELSE "lock")
  /\ Returned(increment)
  /\ UNCHANGED <<mutex, item>>

Increment ==
  ILock \/ IAdd \/ ISize \/ ISignal \/ IUnlock \/ IEnd \/ InCall(increment)

-----------------------------------------------------------------------------
Running == at[decrement] # "crashed"

DemoNext == Running /\ (main \/ Decrement \/ Spurious \/ Increment)

\* Each thread goes on while it can.  As each sleeps outside of mutex in every
\* round of its loop, the other one finds mutex free and gets it; the mutex of
\* the queue is contended only while a thread is about to sleep as well.
DemoSpec ==
  /\ DemoInit /\ [][DemoNext]_demoVars
  /\ WF_demoVars(Running /\ main)
  /\ WF_demoVars(Running /\ Decrement)
  /\ WF_demoVars(Running /\ Increment)
  /\ SF_demoVars(Running /\ (DLock \/ DWake))

-----------------------------------------------------------------------------
(* Properties.                                                             *)

\* decrement, which holds mutex in queue_get_item (test.c:26), never waits for
\* read_mutex there: increment, which would have to free it, needs mutex.
NeverBlocksHoldingMutex ==
  pc[decrement] = "get_read" => read_mutex = "free"

\* The node whose data is read at test.c:29 is one queue_get_item has handed
\* out and nobody has freed; with a queue it is never the null pointer.
ItemUsable ==
  at[decrement] \in {"use", "del"} /\ g_queue => item \in heap

\* decrement waits on cond with a node in the list only while increment is on
\* its way to the signal, still holding mutex.
NoMissedSignal ==
  at[decrement] = "waiting" /\ items # <<>>
    => at[increment] \in {"added", "sized"} /\ mutex = increment

\* increment stops in time: the check outside of mutex (test.c:51) lets the
\* list grow one node above the limit, never further.
ListBounded == Len(items) <= MaxQueued + 1

\* Every node ever allocated is taken out and freed by decrement.
EveryNodeFreed ==
  \A i \in Items : i \in heap ~> i \notin heap
-----------------------------------------------------------------------------
(* The inductive invariant: where the threads are in their loops and in    *)
(* the queue's operations, and what the sizes they have been told mean.    *)

DemoTypeOK ==
  /\ at \in [Threads -> {"created", "lock", "print", "printed", "tested",
                         "waiting", "signalled", "woken", "got", "use", "del",
                         "crashed", "add", "added", "sized", "unlock", "check",
                         "checked", "done"}]
  /\ mutex \in Threads \cup {NULL}
  /\ item \in Items \cup {NULL}

\* A thread is inside a call only where its loop has made that call.
CallInv ==
  /\ pc[decrement] \in SizePcs => at[decrement] \in {"printed", "tested"}
  /\ pc[decrement] \in GetPcs => at[decrement] = "got"
  /\ pc[decrement] = "have" => at[decrement] \in {"got", "use", "del"}
  /\ pc[decrement] \notin AddPcs
  /\ pc[increment] \in AddPcs => at[increment] = "added"
  /\ pc[increment] \in SizePcs => at[increment] \in {"sized", "checked"}
  /\ pc[increment] \notin GetPcs \cup {"have"}

MutexInv ==
  /\ mutex = decrement <=>
       at[decrement] \in {"print", "printed", "tested", "woken", "got"}
  /\ mutex = increment <=> at[increment] \in {"add", "added", "sized", "unlock"}

\* The size call of thread t has read its result.
Sized(t) == g_queue /\ pc[t] \in {"size_unlock", "idle"}

\* Under mutex a size stays the length of the list; what increment knows after
\* it has given mutex up is an upper bound.
KnownInv ==
  /\ at[decrement] = "tested" /\ Sized(decrement) => ret[decrement] = Len(items)
  /\ at[increment] = "sized" /\ Sized(increment) => ret[increment] = Len(items)
  /\ at[increment] = "checked" /\ Sized(increment) => Len(items) <= ret[increment]

\* With a queue, decrement gets a node and keeps it until it gives it back.
GotInv ==
  /\ at[decrement] = "got" /\ g_queue =>
       pc[decrement] \in (GetPcs \ {"none_unlock"}) \cup {"have"}
  /\ pc[decrement] \in {"get_read", "get_lock", "get_unlink"} => items # <<>>
  /\ pc[decrement] = "have" => g_queue
  /\ at[decrement] \in {"use", "del"} /\ g_queue =>
       pc[decrement] = "have" /\ item = qi[decrement]

\* increment takes up its loop only while the list is within the limit.
LimitInv ==
  /\ at[increment] \in {"created", "lock", "add"} => Len(items) <= MaxQueued
  /\ pc[increment] \in {"add_lock", "add_link"} => Len(items) <= MaxQueued
  /\ ListBounded

DemoInv ==
  /\ QueueInv
  /\ DemoTypeOK
  /\ CallInv
  /\ MutexInv
  /\ KnownInv
  /\ GotInv
  /\ LimitInv
  /\ NoMissedSignal
=============================================================================
