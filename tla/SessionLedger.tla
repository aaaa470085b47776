--------------------------- MODULE SessionLedger ---------------------------
(***************************************************************************)
(* What the sessions table promises about the per-user cap, with no        *)
(* goroutine, PTY or lock in sight: a slot is only taken while its user is *)
(* below the cap, at the very moment the row appears.  A session that has  *)
(* exited may be taken up again by its user without asking the cap (that   *)
(* is Manager.Revive), and a booting server closes everything.             *)
(***************************************************************************)
EXTENDS Integers, FiniteSets

CONSTANTS User, Slot, Nobody,
          Cap           \* Cap[u] of user u, a natural number; 0 is unlimited

VARIABLES slot,    \* the life of a session
          holder   \* whose it is

Taken(u) == {s \in Slot : slot[s] = "alive" /\ holder[s] = u}

Init == /\ slot = [s \in Slot |-> "none"]
        /\ holder = [s \in Slot |-> Nobody]

Open(u, s) ==
  /\ slot[s] = "none"
  /\ Cap[u] = 0 \/ Cardinality(Taken(u)) < Cap[u]
  /\ slot' = [slot EXCEPT ![s] = "alive"]
  /\ holder' = [holder EXCEPT ![s] = u]

Change(s, from, to) ==
  /\ slot[s] \in from
  /\ slot' = [slot EXCEPT ![s] = to]
  /\ UNCHANGED holder

Close(s)  == Change(s, {"alive"}, "exited")
Reopen(s) == Change(s, {"exited"}, "alive")
Forget(s) == Change(s, {"alive", "exited"}, "deleted")

CloseAll == /\ slot' = [s \in Slot |-> IF slot[s] = "alive" THEN "exited"
                                                            ELSE slot[s]]
            /\ UNCHANGED holder

Next == \/ \E u \in User, s \in Slot : Open(u, s)
        \/ \E s \in Slot : Close(s) \/ Reopen(s) \/ Forget(s)
        \/ CloseAll

Spec == Init /\ [][Next]_<<slot, holder>>
=============================================================================
