-------------------------- MODULE MCStoredService ---------------------------
(***************************************************************************)
(* An instance of StoredService: one deal whose storage may be lost at any *)
(* epoch of its service.                                                   *)
(***************************************************************************)
EXTENDS MCSettlement, StoredService
=============================================================================
