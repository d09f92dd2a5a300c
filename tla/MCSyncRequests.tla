--------------------------- MODULE MCSyncRequests ----------------------------
(* Model-checking instance of SyncRequests.                                 *)
EXTENDS SyncRequests
==============================================================================
