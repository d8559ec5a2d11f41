------------------------------ MODULE MC_Store ------------------------------
(* Two transaction ids, database files one version older, current and one  *)
(* version newer, and three NewStorage calls: enough for a failed or       *)
(* killed initialisation followed by two more attempts.                    *)
EXTENDS Store

MCTxIds == {"t1", "t2"}
MCStoredVersions == {4, 5, 6}
=============================================================================
