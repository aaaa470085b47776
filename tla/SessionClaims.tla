---------------------------- MODULE SessionClaims ----------------------------
(***************************************************************************)
(* What a comment of the repository says of sessions and the code does not *)
(* do: refuted by a run of its own.                                        *)
(***************************************************************************)
EXTENDS MCSessions

(* sessions/manager.go:171-174: the exit reaper is "idempotent alongside   *)
(* Kill/KillAll", "whichever runs second is a harmless no-op".  The reaper *)
(* of a killed shell would then never remove a later revival's entry.      *)
StaleReaperHarmless ==
  [][\A q \in Proc, u \in User, s \in Sid :
       procSt[q] = "unmap" /\ procSt'[q] = "mark" /\ live'[u][s] # live[u][s]
         => live[u][s] = procPty[q]]_vars
=============================================================================
