---------------------------- MODULE MCUartBridge ----------------------------
(* The daemon, a sender, and a test_recv that competes with it; one text the *)
(* daemon does not know beside "quit".                                       *)
EXTENDS UartBridge

MCProcesses == Senders \cup Receivers \cup {bridge}
MCTexts == {"quit", "recordStart", "other"}
MCCommands == [t \in {"recordStart"} |-> 2]
=============================================================================
