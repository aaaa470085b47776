----------------------------- MODULE MCTerminal -----------------------------
(* Instances of Terminal for TLC.                                          *)
EXTENDS Terminal, TLC

\* For the safety runs: shells and handlers are interchangeable.
Interchangeable == Permutations(Shell) \cup Permutations(Ws)
=============================================================================
