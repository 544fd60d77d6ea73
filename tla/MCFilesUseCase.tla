---------------------------- MODULE MCFilesUseCase ----------------------------
(* FilesUseCase on small sets, for TLC. *)
EXTENDS FilesUseCase, TLC

Symmetry ==
  Permutations(Proc) \cup Permutations(User) \cup Permutations(File)
    \cup Permutations(Plain)
===============================================================================
