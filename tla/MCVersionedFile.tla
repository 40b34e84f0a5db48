-------------------------- MODULE MCVersionedFile --------------------------
(* VersionedFile for TLC: see VersionedFile_*.cfg for the instances. *)
EXTENDS VersionedFile

CONSTANTS worker, poster
=============================================================================
