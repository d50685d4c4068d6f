--------------------------- MODULE MCTcpConnection ---------------------------
(* TcpConnection for TLC. *)
EXTENDS TcpConnection
=============================================================================
