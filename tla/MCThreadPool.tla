----------------------------- MODULE MCThreadPool -----------------------------
(* Two slots and four connections: a slot is used again, and the pool is     *)
(* full with a connection left over.                                         *)
EXTENDS ThreadPool
CONSTANTS j1, j2, j3, j4
=============================================================================
