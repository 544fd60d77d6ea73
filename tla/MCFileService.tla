---------------------------- MODULE MCFileService ----------------------------
(* FileService on small sets, for TLC. *)
EXTENDS FileService, TLC

(* Goroutines, accounts and ids are interchangeable. *)
Symmetry == Permutations(Proc) \cup Permutations(User) \cup Permutations(File)
===============================================================================
