---------------------------- MODULE MCTcpServer ----------------------------
EXTENDS TcpServer
=============================================================================
