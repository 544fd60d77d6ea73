---------------------------- MODULE MCTelegramBot ----------------------------
(* TelegramBot on small sets, for TLC. *)
EXTENDS TelegramBot, TLC

(* Goroutines, people, names and ids are interchangeable. *)
Symmetry ==
  Permutations(Proc) \cup Permutations(Person) \cup Permutations(Alias)
    \cup Permutations(File)
===============================================================================
