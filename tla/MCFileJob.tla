------------------------------ MODULE MCFileJob ------------------------------
(* Instances of FileJob for TLC. *)
EXTENDS FileJob

AnyIncomplete == (SUBSET Chunks) \ {Chunks}
=============================================================================
