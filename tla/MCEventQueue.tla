---------------------------- MODULE MCEventQueue ----------------------------
(* The event queue with three threads and two nodes.  Threads of one kind   *)
(* and node identities are interchangeable, so symmetric states are         *)
(* explored once; no property tells one address from another.               *)
EXTENDS EventQueue, TLC

MCSymmetry == Permutations(Producers) \cup Permutations(Consumers)
                  \cup Permutations(Items)
=============================================================================
