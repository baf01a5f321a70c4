--------------------------- MODULE MCMsgPrograms ---------------------------
(* The processes are the senders and the receivers.                         *)
EXTENDS MsgPrograms

MCProcesses == Senders \cup Receivers
=============================================================================
