--------------------------- MODULE MCProfileStore ---------------------------
(* Ids, names and secrets are model values given by the .cfg files. *)
EXTENDS ProfileStore
=============================================================================
