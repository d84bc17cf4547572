-------------------------- MODULE MCServerThreads --------------------------
(***************************************************************************)
(* A small instance of ServerThreads: a client that comes again and again, *)
(* and a task that is scheduled again before the cancelled one is gone.    *)
(***************************************************************************)
EXTENDS ServerThreads

CONSTANTS k1, t1, t2
=============================================================================
