---------------------------- MODULE MCThreadPool ----------------------------
(* Instances of ThreadPool for TLC; the constants are in MCThreadPool.cfg. *)
EXTENDS ThreadPool
=============================================================================
