--------------------------- MODULE MCStorageLease ---------------------------
(***************************************************************************)
(* Small instances of StorageLease for TLC.                                *)
(***************************************************************************)
EXTENDS StorageLeaseProps, TLC

CONSTANTS f1, f2, o1, o2
=============================================================================
