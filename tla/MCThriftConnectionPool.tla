----------------------- MODULE MCThriftConnectionPool -----------------------
(* Instance of ThriftConnectionPool for TLC; its constants are in the cfg. *)
EXTENDS ThriftConnectionPool
=============================================================================
