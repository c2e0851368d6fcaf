------------------------------ MODULE MCFileIO ------------------------------
(* File reads and writes on small volumes.                                 *)
EXTENDS FileIO

MCVolumes == [fat32 : BOOLEAN, faulty : BOOLEAN]
=============================================================================
