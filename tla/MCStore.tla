------------------------------ MODULE MCStore ------------------------------
(***************************************************************************)
(* The instance of FilesOnTape for TLC.                                    *)
(***************************************************************************)
EXTENDS MCOperations, FilesOnTape
=============================================================================
