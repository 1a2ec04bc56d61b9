--------------------------- MODULE MCArchiveStore ---------------------------
(***************************************************************************)
(* ArchiveStore for TLC: sizes small enough that every limit is met.       *)
(***************************************************************************)
EXTENDS ArchiveStore

=============================================================================
