----------------------------- MODULE MCSessions -----------------------------
(* Instances of Sessions for TLC.                                          *)
EXTENDS Sessions, TLC

OneEach == [u \in User |-> 1]

\* Free goroutines, PTYs, shells and session ids are interchangeable.
Interchangeable == Permutations(Req) \cup Permutations(Pty)
                     \cup Permutations(Proc) \cup Permutations(Sid)
=============================================================================
