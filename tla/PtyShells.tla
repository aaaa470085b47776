----------------------------- MODULE PtyShells -----------------------------
(***************************************************************************)
(* What a PTY promises about its shells, as seen by whoever holds it, with *)
(* no goroutine inside: it knows at most one shell, starts one only when   *)
(* it knows none, forgets and kills it in one step, and forgets it when it *)
(* has ended by itself.  Terminal looks inside one PTY, where Stop and the *)
(* end of a shell are several steps that overlap with the next Start;      *)
(* Sessions uses many PTYs from outside.  Both implement this.             *)
(***************************************************************************)
CONSTANTS Pty, Proc, Nobody

VARIABLES cmd,     \* the shell a PTY knows
          state    \* of a shell: none of ours, running, or dead and not noticed

Init == /\ cmd = [p \in Pty |-> Nobody]
        /\ state = [s \in Proc |-> "none"]

Start(p, s) ==
  /\ cmd[p] = Nobody /\ state[s] = "none"
  /\ cmd' = [cmd EXCEPT ![p] = s]
  /\ state' = [state EXCEPT ![s] = "running"]

Exit(s) ==
  /\ state[s] = "running"
  /\ state' = [state EXCEPT ![s] = "dead"]
  /\ UNCHANGED cmd

(* Stop of every PTY in P: what they know is killed, and forgotten.        *)
Stop(P) ==
  /\ cmd' = [p \in Pty |-> IF p \in P THEN Nobody ELSE cmd[p]]
  /\ state' = [s \in Proc |-> IF \E p \in P : cmd[p] = s THEN "dead" ELSE state[s]]

(* A dead shell is noticed; nobody knows it afterwards, and no other shell *)
(* is forgotten for it.                                                    *)
Notice(s) ==
  /\ state[s] = "dead"
  /\ cmd' = [p \in Pty |-> IF cmd[p] = s THEN Nobody ELSE cmd[p]]
  /\ state' = [state EXCEPT ![s] = "none"]

(* The process that holds the PTYs ends, and takes everything with it.     *)
Crash == /\ cmd' = [p \in Pty |-> Nobody]
         /\ state' = [s \in Proc |-> "none"]

Next == \/ \E p \in Pty, s \in Proc : Start(p, s)
        \/ \E s \in Proc : Exit(s) \/ Notice(s)
        \/ \E P \in SUBSET Pty : Stop(P)
        \/ Crash

Spec == Init /\ [][Next]_<<cmd, state>>
=============================================================================
