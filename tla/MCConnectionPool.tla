-------------------------- MODULE MCConnectionPool --------------------------
(* ConnectionPool for TLC.  As many clients as calls, and one more for a socket    *)
(* given up, are enough: a client is created only when none is idle, so every      *)
(* other is in the hands of another call or given up.                             *)
EXTENDS ConnectionPool
=============================================================================
