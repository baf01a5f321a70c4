---------------------------- MODULE MCMsgSocket -----------------------------
(* One server runs out of descriptors with the first connection it loses,   *)
(* the other has one for every call.                                        *)
EXTENDS MsgSocket, TLC

CONSTANTS s1, s2

MCServers == {s1, s2}
MCMaxFds == s1 :> 1 @@ s2 :> 2
=============================================================================
