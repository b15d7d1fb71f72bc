--------------------------- MODULE MCAsyncLogging ---------------------------
(* Instance of AsyncLogging for TLC; the constants are in MCAsyncLogging.cfg. *)
EXTENDS AsyncLogging
=============================================================================
