----------------------------- MODULE MCCommands -----------------------------
(* Commands for TLC: threads, commands and elements are interchangeable.   *)
EXTENDS Commands

Symmetry == Permutations(Thread) \cup Permutations(Command) \cup Permutations(Elem)
=============================================================================
