------------------------------- MODULE MCConn -------------------------------
(* Conn on a small instance: two request bodies, a handful of requests.      *)
EXTENDS Conn
=============================================================================
