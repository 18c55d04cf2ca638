---------------------------- MODULE MCReadCache ----------------------------
(* Small instances of ReadCache for TLC; the values are in the .cfg files. *)
EXTENDS ReadCacheProps
============================================================================
