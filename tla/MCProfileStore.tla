--------------------------- MODULE MCProfileStore ---------------------------
(* A store with room for two quarantined files, and a user who may break it any
   number of times. *)
EXTENDS ProfileStore
=============================================================================
