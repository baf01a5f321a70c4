----------------------------- MODULE MCQueueDemo -----------------------------
(* The demo with a limit of two nodes queued, and addresses for the longest  *)
(* list it can grow to and the node that decrement is working on.            *)
EXTENDS QueueDemo
=============================================================================
