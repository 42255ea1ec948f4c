------------------------------ MODULE MCSession ------------------------------
(* Session with TCP and SSL sockets and a client sending up to two         *)
(* messages; the websocket upgrade happens on the first.                   *)
EXTENDS Session

MCModes == {"tcp", "ssl"}

=============================================================================
