------------------------ MODULE MCDirectoryFailover ------------------------
(***************************************************************************)
(* DirectoryFailover with two persons, one of whom is the last             *)
(* administrator as soon as the other has left.                            *)
(***************************************************************************)
EXTENDS DirectoryFailover
=============================================================================
