--------------------------- MODULE MC_RPCClient ---------------------------
(* A timeout of six check intervals (600 ms instead of 10 s) and calls of  *)
(* up to two intervals: enough for the server to come up before, between  *)
(* and after the checks, and for slow calls to add up.                    *)
EXTENDS RPCClient
=============================================================================
