--------------------------- MODULE SessionsProofs ---------------------------
(***************************************************************************)
(* Theorems about Sessions, for any number of users, sessions, goroutines, *)
(* PTYs and shells, and any set of optional operations.                    *)
(*                                                                         *)
(* IInv is the inductive invariant: what the goroutines hold at each       *)
(* position, how PTYs, shells and rows refer to each other, who holds the  *)
(* lock.  Everything else (one shell per PTY, isolation, the cap ledger,   *)
(* no drift, the shells in reach) is proved from it.                       *)
(***************************************************************************)
EXTENDS Sessions, FiniteSetTheorems, TLAPS

NeedsUser == {"auth", "insert", "start", "lookup", "revive", "attached", "kill",
              "orphan", "orphandel", "orphandrop", "killall"}
NeedsSid  == {"start", "lookup", "revive", "attached", "kill", "stop", "mark",
              "orphan", "orphandel", "orphandrop"}
OwnsSid   == {"revive", "start", "attached", "orphandel", "orphandrop"}

(* A goroutine has the arguments its next step uses.                       *)
ArgsOK == \A t \in Thread : /\ pc[t] \in NeedsUser => who[t] # None
                            /\ pc[t] \in NeedsSid => sid[t] # None

(* A row gets its owner when it is inserted; only such ids are collected.  *)
MintedOK == /\ \A s \in Sid : row[s] = "none" <=> owner[s] = None
            /\ \A t \in Thread : \A s \in batch[t] : owner[s] # None

(* A PTY that something refers to carries the username and the session id  *)
(* it was registered under.                                                *)
PtysOK ==
  /\ \A u \in User, s \in Sid : live[u][s] # None =>
       ptyUser[live[u][s]] = u /\ ptySid[live[u][s]] = s
  /\ \A t \in Thread : pty[t] # None =>
       ptyUser[pty[t]] # None /\ ptySid[pty[t]] # None
  /\ \A q \in Proc : procSt[q] # "free" =>
       /\ procPty[q] # None
       /\ ptyUser[procPty[q]] # None /\ ptySid[procPty[q]] # None

(* cmd and the shells point at each other.                                 *)
ShellsOK ==
  /\ \A p \in Pty : cmd[p] # None =>
       procPty[cmd[p]] = p /\ procSt[cmd[p]] \in {"running", "dead"}
  /\ OneShellPerPty

(* Manager.mu is held across steps exactly by a Create past its count.     *)
LockOK == \A t \in Thread : pc[t] = "insert" <=> mu = t

(* Map entries and requests past their owner check belong to the user.     *)
OwnersOK ==
  /\ \A u \in User, s \in Sid : live[u][s] # None => owner[s] = u
  /\ \A t \in Req : pc[t] \in OwnsSid => owner[sid[t]] = who[t]

IInv == TypeOK /\ ArgsOK /\ MintedOK /\ PtysOK /\ ShellsOK /\ LockOK /\ OwnersOK

LEMMA InitIInv == Init => IInv
BY ConstantsAssumption
   DEF ConstantsAssumption, Thread, Init, IInv, TypeOK, ArgsOK, MintedOK, PtysOK,
       ShellsOK, OneShellPerPty, Running, LockOK, OwnersOK, NeedsUser, NeedsSid,
       OwnsSid, RowState, AgeState, ProcState, Control

(* A handler that returns without touching anything shared.                *)
LEMMA FinishIInv ==
  ASSUME IInv, NEW t \in Thread, pc[t] # "insert", Finish(t),
         UNCHANGED <<up, mu, dbVars, live, ptyVars, procVars>>
  PROVE  IInv'
<1> USE ConstantsAssumption
    DEF ConstantsAssumption, Thread, dbVars, ptyVars, procVars, argVars,
        At, Goto, Hold, Finish, Register, Unmap, Unlocked, FreePty, FreshId,
        OwnRow, SetExited, StopPty, Spawn, Admin,
        IInv, TypeOK, ArgsOK, MintedOK, PtysOK, ShellsOK, OneShellPerPty,
        Running, LockOK, OwnersOK, NeedsUser, NeedsSid, OwnsSid,
        RowState, AgeState, ProcState, Control
<1>1. TypeOK' OBVIOUS
<1>2. ArgsOK' OBVIOUS
<1>3. MintedOK' OBVIOUS
<1>4. PtysOK' OBVIOUS
<1>5. ShellsOK' OBVIOUS
<1>6. LockOK' OBVIOUS
<1>7. OwnersOK' OBVIOUS
<1> QED BY <1>1, <1>2, <1>3, <1>4, <1>5, <1>6, <1>7

LEMMA UserStepIInv ==
  ASSUME IInv, NEW t \in Req, UserRequest(t) PROVE IInv'
<1> USE ConstantsAssumption
    DEF ConstantsAssumption, Thread, dbVars, ptyVars, procVars, argVars,
        At, Goto, Hold, Finish, Register, Unmap, Unlocked, FreePty, FreshId,
        OwnRow, SetExited, StopPty, Spawn, Admin,
        IInv, TypeOK, ArgsOK, MintedOK, PtysOK, ShellsOK, OneShellPerPty,
        Running, LockOK, OwnersOK, NeedsUser, NeedsSid, OwnsSid,
        RowState, AgeState, ProcState, Control
<1>1. ASSUME NEW u \in User, Authenticate(t, u) PROVE IInv'
  BY <1>1 DEF Authenticate
<1>2. CASE CreateRefused(t)
  BY <1>2, FinishIInv DEF CreateRefused
<1>3. CASE CreateAdmitted(t)
  BY <1>3 DEF CreateAdmitted
<1>4. CASE CreateFails(t)
  BY <1>4 DEF CreateFails
<1>5. ASSUME NEW s \in Sid, NEW p \in Pty, CreateInsert(t, s, p) PROVE IInv'
  BY <1>5 DEF CreateInsert
<1>6. ASSUME NEW s \in Sid, AttachHit(t, s) PROVE IInv'
  BY <1>6 DEF AttachHit
<1>7. ASSUME NEW s \in Sid, AttachMiss(t, s) PROVE IInv'
  BY <1>7 DEF AttachMiss
<1>8. CASE RowFound(t)
  BY <1>8 DEF RowFound
<1>9. CASE RowUnknown(t)
  BY <1>9, FinishIInv DEF RowUnknown
<1>10. CASE ReviveFails(t)
  BY <1>10, FinishIInv DEF ReviveFails
<1>11. ASSUME NEW p \in Pty, Revive(t, p) PROVE IInv'
  BY <1>11 DEF Revive
<1>12. ASSUME NEW q \in Proc, Start(t, q) PROVE IInv'
  <2>1. CASE Goto(t, "attached")
    BY <1>12, <2>1 DEF Start
  <2>2. CASE Finish(t)
    BY <1>12, <2>2 DEF Start
  <2> QED BY <1>12, <2>1, <2>2 DEF Start, Started
<1>13. CASE StartNoop(t)
  <2>1. CASE Goto(t, "attached")
    BY <1>13, <2>1 DEF StartNoop
  <2>2. CASE Finish(t)
    BY <1>13, <2>2 DEF StartNoop
  <2> QED BY <1>13, <2>1, <2>2 DEF StartNoop, Started
<1>14. CASE StartFails(t)
  BY <1>14, FinishIInv DEF StartFails
<1>15. CASE Input(t)
  BY <1>15 DEF Input
<1>16. CASE Detach(t)
  BY <1>16, FinishIInv DEF Detach
<1>17. ASSUME NEW s \in Sid, DeleteHit(t, s) PROVE IInv'
  BY <1>17 DEF DeleteHit
<1>18. ASSUME NEW s \in Sid, DeleteMiss(t, s) PROVE IInv'
  BY <1>18 DEF DeleteMiss
<1>19. CASE OrphanCheck(t)
  <2>1. CASE OwnRow(t, sid[t]) /\ Goto(t, "orphandel")
    BY <1>19, <2>1 DEF OrphanCheck
  <2>2. CASE Finish(t)
    BY <1>19, <2>2 DEF OrphanCheck
  <2> QED BY <1>19, <2>1, <2>2 DEF OrphanCheck
<1>20. CASE OrphanDelete(t)
  <2>1. At(t, "orphandel") /\ UNCHANGED <<up, mu, owner, age, suspended, live, ptyVars, procVars>>
    BY <1>20 DEF OrphanDelete
  <2>2. CASE row' = [row EXCEPT ![sid[t]] = "deleted"] /\ Goto(t, "orphandrop")
    BY <2>1, <2>2
  <2>3. CASE Finish(t) /\ UNCHANGED row
    BY <2>1, <2>3, FinishIInv
  <2> QED BY <1>20, <2>2, <2>3 DEF OrphanDelete
<1>21. CASE OrphanDrop(t)
  BY <1>21 DEF OrphanDrop
<1> QED BY <1>1, <1>2, <1>3, <1>4, <1>5, <1>6, <1>7, <1>8, <1>9, <1>10,
          <1>11, <1>12, <1>13, <1>14, <1>15, <1>16, <1>17, <1>18,
          <1>19, <1>20, <1>21
         DEF UserRequest

LEMMA AdminStepIInv ==
  ASSUME IInv, NEW t \in Req, AdminRequest(t) PROVE IInv'
<1> USE ConstantsAssumption
    DEF ConstantsAssumption, Thread, dbVars, ptyVars, procVars, argVars,
        At, Goto, Hold, Finish, Register, Unmap, Unlocked, FreePty, FreshId,
        OwnRow, SetExited, StopPty, Spawn, Admin,
        IInv, TypeOK, ArgsOK, MintedOK, PtysOK, ShellsOK, OneShellPerPty,
        Running, LockOK, OwnersOK, NeedsUser, NeedsSid, OwnsSid,
        RowState, AgeState, ProcState, Control
<1>1. ASSUME NEW u \in User, NEW s \in Sid, AdminKill(t, u, s) PROVE IInv'
  BY <1>1 DEF AdminKill
<1>2. ASSUME NEW u \in User, NEW s \in Sid, Restart(t, u, s) PROVE IInv'
  BY <1>2 DEF Restart
<1>3. ASSUME NEW u \in User, AdminKillAll(t, u) PROVE IInv'
  BY <1>3 DEF AdminKillAll
<1>4. ASSUME NEW u \in User, Suspend(t, u) PROVE IInv'
  BY <1>4 DEF Suspend
<1>5. CASE KillAll(t)
  <2>1. TypeOK' BY <1>5 DEF KillAll
  <2>2. ArgsOK' BY <1>5 DEF KillAll
  <2>3. MintedOK' BY <1>5 DEF KillAll
  <2>4. PtysOK' BY <1>5 DEF KillAll
  <2>5. ShellsOK' BY <1>5 DEF KillAll
  <2>6. LockOK' BY <1>5 DEF KillAll
  <2>7. OwnersOK' BY <1>5 DEF KillAll
  <2> QED BY <2>1, <2>2, <2>3, <2>4, <2>5, <2>6, <2>7
<1>6. CASE KillAllDone(t)
  BY <1>6, FinishIInv DEF KillAllDone
<1>7. ASSUME NEW s \in Sid, KillAllMark(t, s) PROVE IInv'
  <2>1. CASE SetExited(s)
    BY <1>7, <2>1 DEF KillAllMark
  <2>2. CASE UNCHANGED row
    BY <1>7, <2>2 DEF KillAllMark
  <2> QED BY <1>7, <2>1, <2>2 DEF KillAllMark, MarkExited
<1>8. CASE RestartStop(t)
  BY <1>8 DEF RestartStop
<1>9. CASE RestartEnds(t)
  BY <1>9, FinishIInv DEF RestartEnds
<1>10. ASSUME NEW q \in Proc, RestartStart(t, q) PROVE IInv'
  BY <1>10 DEF RestartStart
<1> QED BY <1>1, <1>2, <1>3, <1>4, <1>5, <1>6, <1>7, <1>8, <1>9, <1>10
         DEF AdminRequest

LEMMA KillStepIInv ==
  ASSUME IInv, NEW t \in Thread, Kill(t) PROVE IInv'
<1> USE ConstantsAssumption
    DEF ConstantsAssumption, Thread, dbVars, ptyVars, procVars, argVars,
        At, Goto, Hold, Finish, Register, Unmap, Unlocked, FreePty, FreshId,
        OwnRow, SetExited, StopPty, Spawn, Admin,
        IInv, TypeOK, ArgsOK, MintedOK, PtysOK, ShellsOK, OneShellPerPty,
        Running, LockOK, OwnersOK, NeedsUser, NeedsSid, OwnsSid,
        RowState, AgeState, ProcState, Control
<1>1. CASE KillUnmap(t)
  BY <1>1 DEF KillUnmap
<1>2. CASE KillMissing(t)
  <2>1. CASE t = Reaper
    BY <1>2, <2>1 DEF KillMissing
  <2>2. CASE t # Reaper
    BY <1>2, <2>2, FinishIInv DEF KillMissing
  <2> QED BY <2>1, <2>2
<1>3. CASE KillStop(t)
  BY <1>3 DEF KillStop
<1>4. CASE KillMark(t)
  <2>1. CASE SetExited(sid[t])
    BY <1>4, <2>1 DEF KillMark
  <2>2. CASE UNCHANGED row
    BY <1>4, <2>2 DEF KillMark
  <2> QED BY <1>4, <2>1, <2>2 DEF KillMark, MarkExited
<1> QED BY <1>1, <1>2, <1>3, <1>4
         DEF Kill

LEMMA ServerStepIInv ==
  ASSUME IInv,
         \/ ReapIdle
         \/ \E q \in Proc : Shell(q)
         \/ \E u \in User : Unsuspend(u)
         \/ \E s \in Sid : Elapse(s)
         \/ Crash \/ Boot
  PROVE  IInv'
<1> USE ConstantsAssumption
    DEF ConstantsAssumption, Thread, dbVars, ptyVars, procVars, argVars,
        At, Goto, Hold, Finish, Register, Unmap, Unlocked, FreePty, FreshId,
        OwnRow, SetExited, StopPty, Spawn, Admin,
        IInv, TypeOK, ArgsOK, MintedOK, PtysOK, ShellsOK, OneShellPerPty,
        Running, LockOK, OwnersOK, NeedsUser, NeedsSid, OwnsSid,
        RowState, AgeState, ProcState, Control
<1>1. CASE ReapList
  BY <1>1 DEF ReapList
<1>2. CASE ReapDone
  BY <1>2 DEF ReapDone
<1>3. ASSUME NEW s \in Sid, ReapNext(s) PROVE IInv'
  BY <1>3 DEF ReapNext
<1>4. ASSUME NEW q \in Proc, ProcExit(q) PROVE IInv'
  BY <1>4 DEF ProcExit
<1>5. ASSUME NEW q \in Proc, WaitExit(q) PROVE IInv'
  BY <1>5 DEF WaitExit
<1>6. ASSUME NEW q \in Proc, ExitUnmap(q) PROVE IInv'
  BY <1>6 DEF ExitUnmap
<1>7. ASSUME NEW q \in Proc, ExitMark(q) PROVE IInv'
  BY <1>7 DEF ExitMark, MarkExited
<1>8. ASSUME NEW u \in User, Unsuspend(u) PROVE IInv'
  BY <1>8 DEF Unsuspend
<1>9. ASSUME NEW s \in Sid, Elapse(s) PROVE IInv'
  BY <1>9 DEF Elapse
<1>10. CASE Crash
  <2>1. TypeOK' BY <1>10 DEF Crash
  <2>2. ArgsOK' BY <1>10 DEF Crash
  <2>3. MintedOK' BY <1>10 DEF Crash
  <2>4. PtysOK' BY <1>10 DEF Crash
  <2>5. ShellsOK' BY <1>10 DEF Crash
  <2>6. LockOK' BY <1>10 DEF Crash
  <2>7. OwnersOK' BY <1>10 DEF Crash
  <2> QED BY <2>1, <2>2, <2>3, <2>4, <2>5, <2>6, <2>7
<1>11. CASE Boot
  BY <1>11 DEF Boot
<1> QED BY <1>1, <1>2, <1>3, <1>4, <1>5, <1>6, <1>7, <1>8, <1>9, <1>10, <1>11
         DEF ReapIdle, Shell

LEMMA NextIInv == IInv /\ [Next]_vars => IInv'
<1> SUFFICES ASSUME IInv, [Next]_vars PROVE IInv'
  OBVIOUS
<1>1. CASE Next
  BY <1>1, UserStepIInv, AdminStepIInv, KillStepIInv, ServerStepIInv DEF Next
<1>2. CASE UNCHANGED vars
  BY <1>2
     DEF vars, dbVars, ptyVars, procVars, argVars, IInv, TypeOK, ArgsOK, MintedOK,
         PtysOK, ShellsOK, OneShellPerPty, Running, LockOK, OwnersOK
<1> QED BY <1>1, <1>2

THEOREM IInvHolds == Spec => []IInv
BY InitIInv, NextIInv, PTL DEF Spec

(* Every variable keeps its type, and whoever is about to start or stop a  *)
(* shell holds a PTY, never a nil map entry (Get, Kill, Restart).          *)
THEOREM TypeCorrect == Spec => []TypeOK
<1>1. IInv => TypeOK BY DEF IInv
<1> QED BY <1>1, IInvHolds, PTL

(* A PTY never runs two shells at once, through lazy restarts, Restart,    *)
(* Stop and late waitExit goroutines of earlier shells (pty.Manager).      *)
THEOREM OneShell == Spec => []OneShellPerPty
<1>1. IInv => OneShellPerPty BY DEF IInv, ShellsOK
<1> QED BY <1>1, IInvHolds, PTL

(* No request is ever attached to another user's session, and no user's    *)
(* bucket of the live map ever holds one (ensureSession's owner check).    *)
THEOREM Isolation == Spec => []OwnSessionsOnly
<1>1. IInv => OwnSessionsOnly BY DEF IInv, OwnersOK, OwnSessionsOnly, OwnsSid
<1> QED BY <1>1, IInvHolds, PTL

-----------------------------------------------------------------------------
(* The cap.                                                                *)

(* Every way a step may change the sessions table.                         *)
RowUpdate ==
  \/ UNCHANGED <<row, owner>>
  \/ \E t \in Req, s \in Sid, p \in Pty : CreateInsert(t, s, p)
  \/ \E t \in Req, p \in Pty : Revive(t, p)
  \/ \E s \in Sid : /\ row[s] # "none"
                    /\ row' = [row EXCEPT ![s] = "deleted"]
                    /\ UNCHANGED owner
  \/ \E s \in Sid : SetExited(s) /\ UNCHANGED owner
  \/ Boot

LEMMA NextRowUpdate == IInv /\ [Next]_vars => RowUpdate
<1> SUFFICES ASSUME IInv, [Next]_vars PROVE RowUpdate
  OBVIOUS
<1> USE DEF RowUpdate, dbVars
<1>1. ASSUME NEW t \in Req, UserRequest(t) PROVE RowUpdate
  <2>1. CASE OrphanDelete(t)
    <3>1. /\ sid[t] \in Sid /\ row[sid[t]] # "none"
          /\ UNCHANGED owner
      BY <2>1, ConstantsAssumption
         DEF ConstantsAssumption, Thread, OrphanDelete, At, IInv, TypeOK, ArgsOK,
             MintedOK, OwnersOK, OwnsSid, NeedsSid, NeedsUser
    <3> QED BY <2>1, <3>1 DEF OrphanDelete
  <2>2. CASE Input(t) \/ \E s \in Sid, p \in Pty : CreateInsert(t, s, p)
    BY <2>2 DEF Input
  <2>3. CASE \E p \in Pty : Revive(t, p)
    BY <2>3
  <2>4. CASE UNCHANGED dbVars
    BY <2>4
  <2> QED BY <1>1, <2>1, <2>2, <2>3, <2>4
          DEF UserRequest, Authenticate, CreateRefused, CreateAdmitted, CreateFails,
              AttachHit, AttachMiss, RowFound, RowUnknown, ReviveFails, Start,
              StartNoop, StartFails, Detach, DeleteHit, DeleteMiss, OrphanCheck,
              OrphanDrop
<1>2. ASSUME NEW t \in Req, AdminRequest(t) PROVE RowUpdate
  BY <1>2 DEF AdminRequest, AdminKill, Restart, AdminKillAll, Suspend, Admin,
              KillAll, KillAllDone, KillAllMark, MarkExited, RestartStop,
              RestartEnds, RestartStart
<1>3. ASSUME NEW t \in Thread, Kill(t) PROVE RowUpdate
  <2>1. CASE KillMark(t)
    <3>1. sid[t] \in Sid
      BY <2>1, ConstantsAssumption
         DEF ConstantsAssumption, KillMark, At, IInv, TypeOK, ArgsOK, NeedsSid
    <3> QED BY <2>1, <3>1 DEF KillMark, MarkExited
  <2> QED BY <1>3, <2>1 DEF Kill, KillUnmap, KillMissing, KillStop
<1>4. CASE ReapIdle
  BY <1>4 DEF ReapIdle, ReapList, ReapDone, ReapNext
<1>5. ASSUME NEW q \in Proc, Shell(q) PROVE RowUpdate
  <2>1. CASE ExitMark(q)
    <3>1. ptySid[procPty[q]] \in Sid
      BY <2>1, ConstantsAssumption
         DEF ConstantsAssumption, ExitMark, IInv, TypeOK, PtysOK
    <3> QED BY <2>1, <3>1 DEF ExitMark, MarkExited
  <2> QED BY <1>5, <2>1 DEF Shell, ProcExit, WaitExit, ExitUnmap
<1>6. ASSUME NEW u \in User, Unsuspend(u) PROVE RowUpdate
  BY <1>6 DEF Unsuspend
<1>7. ASSUME NEW s \in Sid, Elapse(s) PROVE RowUpdate
  BY <1>7 DEF Elapse
<1>8. CASE Crash
  BY <1>8 DEF Crash
<1>9. CASE UNCHANGED vars
  BY <1>9 DEF vars
<1> QED BY <1>1, <1>2, <1>3, <1>4, <1>5, <1>6, <1>7, <1>8, <1>9 DEF Next

(* A Create that has passed its count is still below the cap when it       *)
(* inserts: until then, under the lock, the count can only go down.        *)
Admitted == \A t \in Req : pc[t] = "insert" => UnderCap(who[t])

(* How a goroutine comes to, and stays at, the INSERT.                     *)
StaysAtInsert(t) ==
  /\ pc[t] = "insert" /\ mu = t /\ who'[t] = who[t]
  /\ \A r \in Req, s \in Sid, p \in Pty : ~CreateInsert(r, s, p)
  /\ \A r \in Req, p \in Pty : ~Revive(r, p)

LEMMA NextAtInsert ==
  ASSUME IInv, [Next]_vars, NEW t \in Req, pc'[t] = "insert"
  PROVE  CreateAdmitted(t) \/ StaysAtInsert(t)
<1> USE ConstantsAssumption
    DEF ConstantsAssumption, Thread, IInv, TypeOK, LockOK, argVars, At, Goto,
        Finish, Hold, Unlocked
<1>1. SUFFICES ASSUME ~CreateAdmitted(t)
               PROVE  pc[t] = "insert" /\ who'[t] = who[t]
  <2>1. ASSUME NEW r \in Req, NEW s \in Sid, NEW p \in Pty, CreateInsert(r, s, p),
               pc[t] = "insert"
        PROVE  FALSE
    BY <2>1 DEF CreateInsert
  <2>2. ASSUME NEW r \in Req, NEW p \in Pty, Revive(r, p), pc[t] = "insert"
        PROVE  FALSE
    BY <2>2 DEF Revive
  <2> QED BY <2>1, <2>2 DEF StaysAtInsert
<1> DEFINE Goal == pc[t] = "insert" /\ who'[t] = who[t]
<1>2. ASSUME NEW r \in Req, UserRequest(r) PROVE Goal
  <2>1. CASE CreateAdmitted(r)
    BY <1>1, <2>1 DEF CreateAdmitted
  <2>2. CASE \E u \in User : Authenticate(r, u)
    BY <2>2 DEF Authenticate
  <2>3. CASE CreateRefused(r) \/ CreateFails(r) \/ RowUnknown(r) \/ ReviveFails(r)
             \/ StartFails(r) \/ Detach(r) \/ OrphanDrop(r)
    BY <2>3 DEF CreateRefused, CreateFails, RowUnknown, ReviveFails, StartFails,
                Detach, OrphanDrop
  <2>4. CASE \E s \in Sid, p \in Pty : CreateInsert(r, s, p)
    BY <2>4 DEF CreateInsert
  <2>5. CASE \E s \in Sid : AttachHit(r, s) \/ AttachMiss(r, s)
                             \/ DeleteHit(r, s) \/ DeleteMiss(r, s)
    BY <2>5 DEF AttachHit, AttachMiss, DeleteHit, DeleteMiss
  <2>6. CASE RowFound(r) \/ Input(r) \/ StartNoop(r) \/ OrphanCheck(r)
             \/ OrphanDelete(r)
    BY <2>6 DEF RowFound, Input, StartNoop, Started, OrphanCheck, OrphanDelete
  <2>7. CASE \E p \in Pty : Revive(r, p)
    BY <2>7 DEF Revive
  <2>8. CASE \E q \in Proc : Start(r, q)
    BY <2>8 DEF Start, Started
  <2> QED BY <1>2, <2>1, <2>2, <2>3, <2>4, <2>5, <2>6, <2>7, <2>8 DEF UserRequest
<1>3. ASSUME NEW r \in Req, AdminRequest(r) PROVE Goal
  <2>1. CASE \E u \in User, s \in Sid : AdminKill(r, u, s) \/ Restart(r, u, s)
    BY <2>1 DEF AdminKill, Admin, Restart
  <2>2. CASE \E u \in User : AdminKillAll(r, u) \/ Suspend(r, u)
    BY <2>2 DEF AdminKillAll, Suspend, Admin
  <2>3. CASE KillAll(r) \/ KillAllDone(r) \/ \E s \in Sid : KillAllMark(r, s)
    BY <2>3 DEF KillAll, KillAllDone, KillAllMark
  <2>4. CASE RestartStop(r) \/ RestartEnds(r) \/ \E q \in Proc : RestartStart(r, q)
    BY <2>4 DEF RestartStop, RestartEnds, RestartStart
  <2> QED BY <1>3, <2>1, <2>2, <2>3, <2>4 DEF AdminRequest
<1>4. ASSUME NEW r \in Thread, Kill(r) PROVE Goal
  BY <1>4 DEF Kill, KillUnmap, KillMissing, KillStop, KillMark
<1>5. CASE ReapIdle
  BY <1>5 DEF ReapIdle, ReapList, ReapDone, ReapNext
<1>6. ASSUME NEW q \in Proc, Shell(q) PROVE Goal
  BY <1>6 DEF Shell, ProcExit, WaitExit, ExitUnmap, ExitMark
<1>7. CASE (\E u \in User : Unsuspend(u)) \/ (\E s \in Sid : Elapse(s)) \/ Boot
  BY <1>7 DEF Unsuspend, Elapse, Boot
<1>8. CASE Crash
  BY <1>8 DEF Crash
<1>9. CASE UNCHANGED vars
  BY <1>9 DEF vars
<1> QED BY <1>2, <1>3, <1>4, <1>5, <1>6, <1>7, <1>8, <1>9 DEF Next

LEMMA AliveRowsFinite == \A u : IsFiniteSet(AliveRows(u))
BY ConstantsAssumption, FS_Subset DEF ConstantsAssumption, AliveRows

(* Unless a row is opened or reopened, nobody's count grows.               *)
LEMMA CountShrinks ==
  ASSUME IInv, RowUpdate,
         \A r \in Req, s \in Sid, p \in Pty : ~CreateInsert(r, s, p),
         \A r \in Req, p \in Pty : ~Revive(r, p),
         NEW u \in User, UnderCap(u)
  PROVE  UnderCap(u)'
<1>1. AliveRows(u)' \subseteq AliveRows(u)
  BY DEF RowUpdate, AliveRows, SetExited, Boot, IInv, TypeOK
<1>2. Cardinality(AliveRows(u)') <= Cardinality(AliveRows(u))
  BY <1>1, AliveRowsFinite, FS_Subset
<1>3. /\ Cardinality(AliveRows(u)) \in Nat /\ Cardinality(AliveRows(u)') \in Nat
      /\ MaxSessions[u] \in Nat
  BY <1>1, AliveRowsFinite, FS_Subset, FS_CardinalityType, ConstantsAssumption
     DEF ConstantsAssumption
<1> QED BY <1>2, <1>3 DEF UnderCap

LEMMA NextAdmitted == IInv /\ Admitted /\ [Next]_vars => Admitted'
<1> SUFFICES ASSUME IInv, Admitted, [Next]_vars, NEW t \in Req, pc'[t] = "insert"
             PROVE  UnderCap(who[t])'
  BY DEF Admitted
<1>1. CASE CreateAdmitted(t)
  BY <1>1 DEF CreateAdmitted, Goto, argVars, dbVars, UnderCap, AliveRows
<1>2. CASE StaysAtInsert(t)
  <2>1. who[t] \in User
    BY <1>2, ConstantsAssumption
       DEF ConstantsAssumption, StaysAtInsert, IInv, TypeOK, ArgsOK, NeedsUser, Thread
  <2>2. UnderCap(who[t]) BY <1>2 DEF StaysAtInsert, Admitted
  <2>3. PICK u \in User : u = who[t]
    BY <2>1
  <2>4. UnderCap(u)
    BY <2>2, <2>3
  <2>5. UnderCap(u)'
    BY <1>2, <2>4, NextRowUpdate, CountShrinks DEF StaysAtInsert
  <2>6. who'[t] = u
    BY <1>2, <2>3 DEF StaysAtInsert
  <2> QED BY <2>5, <2>6 DEF UnderCap, AliveRows
<1> QED BY <1>1, <1>2, NextAtInsert

(* The cap check of Create and its INSERT are one atomic step of the       *)
(* ledger: no interleaving of requests, admins, exits, reaper and crashes  *)
(* opens a session past the cap; only a revival can (Manager.Create).      *)
THEOREM CapLedger == Spec => LedgerSpec
<1> DEFINE CInv == IInv /\ Admitted
<1>1. Init => CInv
  BY InitIInv DEF Init, Admitted, Thread
<1>2. CInv /\ [Next]_vars => CInv'
  BY NextIInv, NextAdmitted
<1>3. Init => Ledger!Init
  BY DEF Init, Ledger!Init
<1>4. CInv /\ [Next]_vars => [Ledger!Next]_<<row, owner>>
  <2> SUFFICES ASSUME IInv, Admitted, [Next]_vars, ~UNCHANGED <<row, owner>>
               PROVE  Ledger!Next
    OBVIOUS
  <2>0. RowUpdate BY NextRowUpdate
  <2>1. ASSUME NEW t \in Req, NEW s \in Sid, NEW p \in Pty, CreateInsert(t, s, p)
        PROVE  Ledger!Next
    <3>1. who[t] \in User /\ UnderCap(who[t])
      BY <2>1, ConstantsAssumption
         DEF ConstantsAssumption, CreateInsert, At, Admitted, IInv, TypeOK, ArgsOK,
             NeedsUser, Thread
    <3>2. Ledger!Taken(who[t]) = AliveRows(who[t])
      BY DEF AliveRows, Ledger!Taken
    <3>9. Ledger!Cardinality(AliveRows(who[t])) = Cardinality(AliveRows(who[t]))
      BY DEF Ledger!Cardinality, Cardinality
    <3>3. Ledger!Open(who[t], s)
      BY <2>1, <3>1, <3>2, <3>9 DEF CreateInsert, FreshId, UnderCap, Ledger!Open
    <3> QED BY <3>1, <3>3 DEF Ledger!Next
  <2>2. ASSUME NEW t \in Req, NEW p \in Pty, Revive(t, p) PROVE Ledger!Next
    <3>1. sid[t] \in Sid
      BY <2>2, ConstantsAssumption
         DEF ConstantsAssumption, Revive, At, IInv, TypeOK, ArgsOK, NeedsSid, Thread
    <3>2. row[sid[t]] = "exited"
      BY <2>2, <3>1 DEF Revive, IInv, TypeOK
    <3>3. Ledger!Reopen(sid[t])
      BY <2>2, <3>1, <3>2 DEF Revive, Ledger!Reopen, Ledger!Change
    <3> QED BY <3>1, <3>3 DEF Ledger!Next
  <2>3. ASSUME NEW s \in Sid, row[s] # "none",
               row' = [row EXCEPT ![s] = "deleted"], UNCHANGED owner
        PROVE  Ledger!Next
    <3>1. row[s] \in {"alive", "exited"}
      BY <2>3 DEF IInv, TypeOK, RowState
    <3>2. Ledger!Forget(s)
      BY <2>3, <3>1 DEF Ledger!Forget, Ledger!Change
    <3> QED BY <3>2 DEF Ledger!Next
  <2>4. ASSUME NEW s \in Sid, SetExited(s), UNCHANGED owner PROVE Ledger!Next
    <3>1. row[s] = "alive"
      BY <2>4 DEF SetExited, IInv, TypeOK
    <3>2. Ledger!Close(s)
      BY <2>4, <3>1 DEF SetExited, Ledger!Close, Ledger!Change
    <3> QED BY <3>2 DEF Ledger!Next
  <2>5. CASE Boot
    BY <2>5 DEF Boot, Ledger!Next, Ledger!CloseAll
  <2> QED BY <2>0, <2>1, <2>2, <2>3, <2>4, <2>5 DEF RowUpdate
<1> QED BY <1>1, <1>2, <1>3, <1>4, PTL DEF Spec, LedgerSpec, Ledger!Spec

(* Whatever requests, admins, the reaper and crashes do to PTYs and shells *)
(* is what PtyShells allows: Sessions relies on nothing else of a PTY.     *)
THEOREM UsesPtys == Spec => PtySpec
<1> DEFINE seen == [q \in Proc |-> Seen(q)]
<1>1. Init => Ptys!Init
  BY DEF Init, Ptys!Init, Seen
<1>2. IInv /\ [Next]_vars => [Ptys!Next]_<<cmd, seen>>
  <2> SUFFICES ASSUME IInv, [Next]_vars, ~UNCHANGED <<cmd, seen>> PROVE Ptys!Next
    OBVIOUS
  <2>1. /\ cmd \in [Pty -> Proc \cup {None}] /\ procSt \in [Proc -> ProcState]
        /\ None \notin Proc
        /\ \A p \in Pty : cmd[p] # None =>
             procPty[cmd[p]] = p /\ procSt[cmd[p]] \in {"running", "dead"}
        /\ \A t \in Thread :
             pc[t] \in {"start", "stop", "restop", "respawn"} => pty[t] \in Pty
    BY ConstantsAssumption DEF IInv, TypeOK, ShellsOK
  <2>2. ~UNCHANGED <<cmd, procSt>>
    BY DEF Seen
  <2>3. ASSUME NEW p \in Pty, NEW q \in Proc, Spawn(p, q) PROVE Ptys!Next
    <3>1. Ptys!Start(p, q)
      BY <2>1, <2>3 DEF Spawn, Seen, Ptys!Start
    <3> QED BY <3>1 DEF Ptys!Next
  <2>4. ASSUME NEW p \in Pty, StopPty(p) PROVE Ptys!Next
    <3>1. cmd' = [r \in Pty |-> IF r \in {p} THEN None ELSE cmd[r]]
      BY <2>1, <2>4 DEF StopPty
    <3>2. \A q \in Proc : Seen(q)' = IF \E r \in {p} : cmd[r] = q THEN "dead" ELSE Seen(q)
      BY <2>1, <2>4 DEF StopPty, Seen
    <3>3. Ptys!Stop({p})
      BY <3>1, <3>2 DEF Ptys!Stop
    <3> QED BY <3>3 DEF Ptys!Next
  <2>5. ASSUME NEW t \in Req, KillAll(t) PROVE Ptys!Next
    <3> DEFINE P == {p \in Pty : \E s \in Sid : live[who[t]][s] = p}
    <3>1. /\ cmd' = [p \in Pty |-> IF p \in P THEN None ELSE cmd[p]]
          /\ procSt' = [q \in Proc |-> IF \E p \in P : cmd[p] = q THEN "dead" ELSE procSt[q]]
      <4>1. live[who[t]] \in [Sid -> Pty \cup {None}] /\ None \notin Pty
        BY <2>5, ConstantsAssumption
           DEF ConstantsAssumption, KillAll, At, IInv, TypeOK, ArgsOK, NeedsUser, Thread
      <4>2. {live[who[t]][s] : s \in Sid} \ {None} = P
        BY <4>1
      <4> QED BY <2>5, <4>2 DEF KillAll
    <3>2. Ptys!Stop(P)
      BY <2>1, <3>1 DEF Seen, Ptys!Stop
    <3> QED BY <3>2 DEF Ptys!Next
  <2>6. ASSUME NEW q \in Proc, Shell(q) PROVE Ptys!Next
    <3>1. CASE ProcExit(q)
      <4>1. Ptys!Exit(q)
        BY <2>1, <3>1 DEF ProcExit, ptyVars, Seen, Ptys!Exit
      <4> QED BY <4>1 DEF Ptys!Next
    <3>2. CASE WaitExit(q)
      <4>1. cmd' = [p \in Pty |-> IF cmd[p] = q THEN None ELSE cmd[p]]
        BY <2>1, <3>2 DEF WaitExit
      <4>2. Ptys!Notice(q)
        BY <2>1, <3>2, <4>1 DEF WaitExit, Seen, Ptys!Notice
      <4> QED BY <4>2 DEF Ptys!Next
    <3>3. CASE ExitUnmap(q) \/ ExitMark(q)
      <4>1. UNCHANGED cmd /\ \A r \in Proc : Seen(r)' = Seen(r)
        BY <2>1, <3>3 DEF ExitUnmap, ExitMark, ptyVars, Seen
      <4> QED BY <4>1
    <3> QED BY <2>6, <3>1, <3>2, <3>3 DEF Shell
  <2>7. ASSUME NEW t \in Req, UserRequest(t) PROVE Ptys!Next
    <3>1. ASSUME NEW q \in Proc, Start(t, q) PROVE Ptys!Next
      BY <2>1, <2>3, <3>1 DEF Start, At, Thread
    <3>2. CASE ~\E q \in Proc : Start(t, q)
      BY <2>2, <2>7, <3>2
         DEF UserRequest, Authenticate, CreateRefused, CreateAdmitted, CreateFails,
             CreateInsert, AttachHit, AttachMiss, RowFound, RowUnknown, ReviveFails, Revive,
             Register, StartNoop, StartFails, Input, Detach, DeleteHit, DeleteMiss,
             OrphanCheck, OrphanDelete, OrphanDrop, ptyVars, procVars
    <3> QED BY <3>1, <3>2
  <2>8. ASSUME NEW t \in Req, AdminRequest(t) PROVE Ptys!Next
    <3>1. CASE RestartStop(t)
      BY <2>1, <2>4, <3>1 DEF RestartStop, At, Thread
    <3>2. ASSUME NEW q \in Proc, RestartStart(t, q) PROVE Ptys!Next
      BY <2>1, <2>3, <3>2 DEF RestartStart, At, Thread
    <3>3. CASE ~RestartStop(t) /\ ~KillAll(t) /\ ~\E q \in Proc : RestartStart(t, q)
      BY <2>2, <2>8, <3>3
         DEF AdminRequest, Admin, AdminKill, Restart, AdminKillAll, Suspend, KillAllDone,
             KillAllMark, RestartEnds, ptyVars, procVars
    <3> QED BY <2>5, <3>1, <3>2, <3>3
  <2>9. ASSUME NEW t \in Thread, Kill(t) PROVE Ptys!Next
    <3>1. CASE KillStop(t)
      BY <2>1, <2>4, <3>1 DEF KillStop, At
    <3>2. CASE KillUnmap(t) \/ KillMissing(t) \/ KillMark(t)
      BY <2>2, <3>2 DEF KillUnmap, KillMissing, KillMark, ptyVars, procVars
    <3> QED BY <2>9, <3>1, <3>2 DEF Kill
  <2>10. CASE Crash
    <3>1. Ptys!Crash
      BY <2>10 DEF Crash, Seen, Ptys!Crash
    <3> QED BY <3>1 DEF Ptys!Next
  <2>11. ASSUME \/ ReapIdle \/ Boot \/ (\E u \in User : Unsuspend(u))
                \/ \E s \in Sid : Elapse(s)
         PROVE FALSE
    BY <2>2, <2>11 DEF ReapIdle, ReapList, ReapDone, ReapNext, Boot, Unsuspend, Elapse,
                       ptyVars, procVars
  <2>12. ~UNCHANGED vars
    BY <2>2 DEF vars, ptyVars, procVars
  <2> QED BY <2>6, <2>7, <2>8, <2>9, <2>10, <2>11, <2>12 DEF Next
<1> QED BY <1>1, <1>2, InitIInv, NextIInv, PTL DEF Spec, PtySpec, Ptys!Spec

-----------------------------------------------------------------------------
(* No drift.                                                               *)

(* DeleteOrphan touches the map only after its row is gone.                *)
OrphanGone == \A t \in Req : pc[t] = "orphandrop" => row[sid[t]] = "deleted"

LEMMA NextOrphanGone == IInv /\ OrphanGone /\ [Next]_vars => OrphanGone'
<1> SUFFICES ASSUME IInv, OrphanGone, [Next]_vars, NEW t \in Req,
                    pc'[t] = "orphandrop"
             PROVE  row'[sid'[t]] = "deleted"
  BY DEF OrphanGone
<1> USE ConstantsAssumption
    DEF ConstantsAssumption, Thread, IInv, TypeOK, ArgsOK, NeedsSid, argVars, At,
        Goto, Finish, Hold
<1>1. CASE OrphanDelete(t)
  BY <1>1 DEF OrphanDelete
<1>2. ASSUME ~OrphanDelete(t) PROVE pc[t] = "orphandrop" /\ sid'[t] = sid[t]
  <2> DEFINE Goal == pc[t] = "orphandrop" /\ sid'[t] = sid[t]
  <2>1. ASSUME NEW r \in Req, UserRequest(r) PROVE Goal
    <3>1. CASE \E u \in User : Authenticate(r, u)
      BY <3>1 DEF Authenticate
    <3>2. CASE CreateRefused(r) \/ CreateAdmitted(r) \/ CreateFails(r)
               \/ RowUnknown(r) \/ ReviveFails(r) \/ StartFails(r) \/ Detach(r)
               \/ OrphanDrop(r)
      BY <3>2 DEF CreateRefused, CreateAdmitted, CreateFails, RowUnknown,
                  ReviveFails, StartFails, Detach, OrphanDrop
    <3>3. CASE \E s \in Sid, p \in Pty : CreateInsert(r, s, p)
      BY <3>3 DEF CreateInsert
    <3>4. CASE \E s \in Sid : AttachHit(r, s) \/ AttachMiss(r, s)
                               \/ DeleteHit(r, s) \/ DeleteMiss(r, s)
      BY <3>4 DEF AttachHit, AttachMiss, DeleteHit, DeleteMiss
    <3>5. CASE RowFound(r) \/ Input(r) \/ StartNoop(r) \/ OrphanCheck(r)
      BY <3>5 DEF RowFound, Input, StartNoop, Started, OrphanCheck
    <3>6. CASE OrphanDelete(r)
      BY <1>2, <3>6 DEF OrphanDelete
    <3>7. CASE \E p \in Pty : Revive(r, p)
      BY <3>7 DEF Revive
    <3>8. CASE \E q \in Proc : Start(r, q)
      BY <3>8 DEF Start, Started
    <3> QED BY <2>1, <3>1, <3>2, <3>3, <3>4, <3>5, <3>6, <3>7, <3>8
            DEF UserRequest
  <2>2. ASSUME NEW r \in Req, AdminRequest(r) PROVE Goal
    <3>1. CASE \E u \in User, s \in Sid : AdminKill(r, u, s) \/ Restart(r, u, s)
      BY <3>1 DEF AdminKill, Admin, Restart
    <3>2. CASE \E u \in User : AdminKillAll(r, u) \/ Suspend(r, u)
      BY <3>2 DEF AdminKillAll, Suspend, Admin
    <3>3. CASE KillAll(r) \/ KillAllDone(r) \/ \E s \in Sid : KillAllMark(r, s)
      BY <3>3 DEF KillAll, KillAllDone, KillAllMark
    <3>4. CASE RestartStop(r) \/ RestartEnds(r)
               \/ \E q \in Proc : RestartStart(r, q)
      BY <3>4 DEF RestartStop, RestartEnds, RestartStart
    <3> QED BY <2>2, <3>1, <3>2, <3>3, <3>4 DEF AdminRequest
  <2>3. ASSUME NEW r \in Thread, Kill(r) PROVE Goal
    BY <2>3 DEF Kill, KillUnmap, KillMissing, KillStop, KillMark
  <2>4. CASE ReapIdle
    BY <2>4 DEF ReapIdle, ReapList, ReapDone, ReapNext
  <2>5. ASSUME NEW q \in Proc, Shell(q) PROVE Goal
    BY <2>5 DEF Shell, ProcExit, WaitExit, ExitUnmap, ExitMark
  <2>6. CASE (\E u \in User : Unsuspend(u)) \/ (\E s \in Sid : Elapse(s)) \/ Boot
    BY <2>6 DEF Unsuspend, Elapse, Boot
  <2>7. CASE Crash
    BY <2>7 DEF Crash
  <2>8. CASE UNCHANGED vars
    BY <2>8 DEF vars
  <2> QED BY <2>1, <2>2, <2>3, <2>4, <2>5, <2>6, <2>7, <2>8 DEF Next
<1>3. ASSUME pc[t] = "orphandrop", sid'[t] = sid[t] PROVE row'[sid'[t]] = "deleted"
  <2>1. sid[t] \in Sid /\ row[sid[t]] = "deleted"
    BY <1>3 DEF OrphanGone
  <2>2. ASSUME NEW r \in Req, NEW s \in Sid, NEW p \in Pty, CreateInsert(r, s, p)
        PROVE  row'[sid[t]] = "deleted"
    BY <2>1, <2>2 DEF CreateInsert, FreshId
  <2>3. ASSUME NEW r \in Req, NEW p \in Pty, Revive(r, p)
        PROVE  row'[sid[t]] = "deleted"
    BY <2>1, <2>3 DEF Revive
  <2>4. row'[sid[t]] = "deleted"
    BY <2>1, <2>2, <2>3, NextRowUpdate DEF RowUpdate, SetExited, Boot
  <2> QED BY <1>3, <2>4
<1> QED BY <1>1, <1>2, <1>3

(***************************************************************************)
(* No drift.  A step that takes a session out of the map leaves somebody   *)
(* on the way to its MarkSessionExited, and only that write ends the duty. *)
(***************************************************************************)
NoLostWrites == "dbfault" \notin Ops

Accounted(s) == up /\ row[s] = "alive" => Mapped(s) \/ MarkPending(s)

(* The step takes no session outside S from the map, ends nobody's duty to *)
(* mark such a session, and makes no such row count.                       *)
Keeps(S) ==
  /\ up' => up
  /\ \A s \in Sid \ S : row'[s] = "alive" => row[s] = "alive"
  /\ \A u \in User, s \in Sid \ S : live[u][s] # None => live'[u][s] # None
  /\ \A t \in Thread : pc[t] \in {"stop", "mark"} /\ sid[t] \notin S =>
       pc'[t] \in {"stop", "mark"} /\ sid'[t] = sid[t]
  /\ \A t \in Thread, s \in Sid \ S : pc[t] = "markall" /\ s \in batch[t] =>
       pc'[t] = "markall" /\ s \in batch'[t]
  /\ \A q \in Proc : procSt[q] = "mark" /\ ptySid[procPty[q]] \notin S =>
       procSt'[q] = "mark" /\ ptySid'[procPty'[q]] = ptySid[procPty[q]]

LEMMA KeepsAccounted ==
  ASSUME NoDrift, NEW S, Keeps(S), NEW s \in Sid, s \notin S
  PROVE  Accounted(s)'
<1> SUFFICES ASSUME up', row'[s] = "alive" PROVE Mapped(s)' \/ MarkPending(s)'
  BY DEF Accounted
<1>1. Mapped(s) \/ MarkPending(s)
  BY DEF Keeps, NoDrift
<1>2. CASE Mapped(s)
  BY <1>2 DEF Keeps, Mapped
<1>3. CASE \E t \in Thread : pc[t] \in {"stop", "mark"} /\ sid[t] = s
  BY <1>3 DEF Keeps, MarkPending
<1>4. CASE \E t \in Thread : pc[t] = "markall" /\ s \in batch[t]
  BY <1>4 DEF Keeps, MarkPending
<1>5. CASE \E q \in Proc : procSt[q] = "mark" /\ ptySid[procPty[q]] = s
  BY <1>5 DEF Keeps, MarkPending
<1> QED BY <1>1, <1>2, <1>3, <1>4, <1>5 DEF MarkPending

LEMMA KeepsAll == NoDrift /\ Keeps({}) => NoDrift'
BY KeepsAccounted DEF NoDrift, Accounted

LEMMA KeepsAllBut ==
  ASSUME NoDrift, NEW s \in Sid, Keeps({s}), Accounted(s)'
  PROVE  NoDrift'
BY KeepsAccounted DEF NoDrift, Accounted

LEMMA UserStepNoDrift ==
  ASSUME IInv, OrphanGone, NoDrift, NEW t \in Req, UserRequest(t)
  PROVE  NoDrift'
<1> USE ConstantsAssumption
    DEF ConstantsAssumption, Thread, Keeps, dbVars, ptyVars, procVars, argVars, At,
        Goto, Finish, Hold, Register, Unmap, StopPty, Spawn, Admin, FreePty, FreshId,
        IInv, TypeOK, ArgsOK, MintedOK, PtysOK, ShellsOK, NeedsUser, NeedsSid
<1>1. ASSUME NEW u \in User, Authenticate(t, u) PROVE NoDrift'
  BY <1>1, KeepsAll DEF Authenticate
<1>2. CASE CreateRefused(t)
  BY <1>2, KeepsAll DEF CreateRefused
<1>3. CASE CreateAdmitted(t)
  BY <1>3, KeepsAll DEF CreateAdmitted
<1>4. CASE CreateFails(t)
  BY <1>4, KeepsAll DEF CreateFails
<1>5. ASSUME NEW s \in Sid, NEW p \in Pty, CreateInsert(t, s, p) PROVE NoDrift'
  <2>1. Keeps({s})
    BY <1>5 DEF CreateInsert
  <2>2. Mapped(s)'
    BY <1>5 DEF CreateInsert, Mapped
  <2> QED BY <2>1, <2>2, KeepsAllBut DEF Accounted
<1>6. ASSUME NEW s \in Sid, AttachHit(t, s) PROVE NoDrift'
  BY <1>6, KeepsAll DEF AttachHit
<1>7. ASSUME NEW s \in Sid, AttachMiss(t, s) PROVE NoDrift'
  BY <1>7, KeepsAll DEF AttachMiss
<1>8. CASE RowFound(t)
  BY <1>8, KeepsAll DEF RowFound
<1>9. CASE RowUnknown(t)
  BY <1>9, KeepsAll DEF RowUnknown
<1>10. CASE ReviveFails(t)
  BY <1>10, KeepsAll DEF ReviveFails
<1>11. ASSUME NEW p \in Pty, Revive(t, p) PROVE NoDrift'
  <2>1. sid[t] \in Sid /\ Keeps({sid[t]})
    BY <1>11 DEF Revive
  <2>2. PICK s \in Sid : s = sid[t]
    BY <2>1
  <2>3. Mapped(s)'
    BY <1>11, <2>2 DEF Revive, Mapped
  <2> QED BY <2>1, <2>2, <2>3, KeepsAllBut DEF Accounted
<1>12. ASSUME NEW q \in Proc, Start(t, q) PROVE NoDrift'
  BY <1>12, KeepsAll DEF Start, Started
<1>13. CASE StartNoop(t)
  BY <1>13, KeepsAll DEF StartNoop, Started
<1>14. CASE StartFails(t)
  BY <1>14, KeepsAll DEF StartFails
<1>15. CASE Input(t)
  BY <1>15, KeepsAll DEF Input
<1>16. CASE Detach(t)
  BY <1>16, KeepsAll DEF Detach
<1>17. ASSUME NEW s \in Sid, DeleteHit(t, s) PROVE NoDrift'
  BY <1>17, KeepsAll DEF DeleteHit
<1>18. ASSUME NEW s \in Sid, DeleteMiss(t, s) PROVE NoDrift'
  BY <1>18, KeepsAll DEF DeleteMiss
<1>19. CASE OrphanCheck(t)
  BY <1>19, KeepsAll DEF OrphanCheck
<1>20. CASE OrphanDelete(t)
  BY <1>20, KeepsAll DEF OrphanDelete
<1>21. CASE OrphanDrop(t)
  <2>1. sid[t] \in Sid /\ Keeps({sid[t]})
    BY <1>21 DEF OrphanDrop
  <2>2. PICK s \in Sid : s = sid[t]
    BY <2>1
  <2>3. row'[s] # "alive"
    BY <1>21, <2>2 DEF OrphanDrop, OrphanGone
  <2> QED BY <2>1, <2>2, <2>3, KeepsAllBut DEF Accounted
<1> QED BY <1>1, <1>2, <1>3, <1>4, <1>5, <1>6, <1>7, <1>8, <1>9, <1>10,
          <1>11, <1>12, <1>13, <1>14, <1>15, <1>16, <1>17, <1>18,
          <1>19, <1>20, <1>21
         DEF UserRequest

LEMMA AdminStepNoDrift ==
  ASSUME NoLostWrites, IInv, NoDrift, NEW t \in Req, AdminRequest(t)
  PROVE  NoDrift'
<1> USE ConstantsAssumption
    DEF ConstantsAssumption, Thread, Keeps, dbVars, ptyVars, procVars, argVars, At,
        Goto, Finish, Hold, Register, Unmap, StopPty, Spawn, Admin, FreePty, FreshId,
        IInv, TypeOK, ArgsOK, MintedOK, PtysOK, ShellsOK, NeedsUser, NeedsSid
<1>1. ASSUME NEW u \in User, NEW s \in Sid, AdminKill(t, u, s) PROVE NoDrift'
  BY <1>1, KeepsAll DEF AdminKill
<1>2. ASSUME NEW u \in User, NEW s \in Sid, Restart(t, u, s) PROVE NoDrift'
  BY <1>2, KeepsAll DEF Restart
<1>3. ASSUME NEW u \in User, AdminKillAll(t, u) PROVE NoDrift'
  BY <1>3, KeepsAll DEF AdminKillAll
<1>4. ASSUME NEW u \in User, Suspend(t, u) PROVE NoDrift'
  BY <1>4, KeepsAll DEF Suspend
<1>5. CASE KillAll(t)
  <2> DEFINE S == {s \in Sid : live[who[t]][s] # None}
  <2>1. Keeps(S)
    BY <1>5 DEF KillAll
  <2>2. ASSUME NEW s \in Sid, s \in S PROVE MarkPending(s)'
    BY <1>5, <2>2 DEF KillAll, MarkPending
  <2>3. ASSUME NEW s \in Sid PROVE Accounted(s)'
    BY <2>1, <2>2, KeepsAccounted DEF Accounted
  <2> QED BY <2>3 DEF NoDrift, Accounted
<1>6. CASE KillAllDone(t)
  BY <1>6, KeepsAll DEF KillAllDone
<1>7. ASSUME NEW s \in Sid, KillAllMark(t, s) PROVE NoDrift'
  <2>1. Keeps({s})
    BY <1>7 DEF KillAllMark, MarkExited, SetExited, NoLostWrites
  <2>2. row'[s] # "alive"
    BY <1>7 DEF KillAllMark, MarkExited, SetExited, NoLostWrites
  <2> QED BY <2>1, <2>2, KeepsAllBut DEF Accounted
<1>8. CASE RestartStop(t)
  BY <1>8, KeepsAll DEF RestartStop
<1>9. CASE RestartEnds(t)
  BY <1>9, KeepsAll DEF RestartEnds
<1>10. ASSUME NEW q \in Proc, RestartStart(t, q) PROVE NoDrift'
  BY <1>10, KeepsAll DEF RestartStart
<1> QED BY <1>1, <1>2, <1>3, <1>4, <1>5, <1>6, <1>7, <1>8, <1>9, <1>10
         DEF AdminRequest

LEMMA KillStepNoDrift ==
  ASSUME NoLostWrites, IInv, NoDrift, NEW t \in Thread, Kill(t)
  PROVE  NoDrift'
<1> USE ConstantsAssumption
    DEF ConstantsAssumption, Thread, Keeps, dbVars, ptyVars, procVars, argVars, At,
        Goto, Finish, Hold, Register, Unmap, StopPty, Spawn, Admin, FreePty, FreshId,
        IInv, TypeOK, ArgsOK, MintedOK, PtysOK, ShellsOK, NeedsUser, NeedsSid
<1>1. CASE KillUnmap(t)
  <2>1. sid[t] \in Sid /\ Keeps({sid[t]})
    BY <1>1 DEF KillUnmap
  <2>2. PICK s \in Sid : s = sid[t]
    BY <2>1
  <2>3. MarkPending(s)'
    BY <1>1, <2>2 DEF KillUnmap, MarkPending
  <2> QED BY <2>1, <2>2, <2>3, KeepsAllBut DEF Accounted
<1>2. CASE KillMissing(t)
  BY <1>2, KeepsAll DEF KillMissing
<1>3. CASE KillStop(t)
  BY <1>3, KeepsAll DEF KillStop
<1>4. CASE KillMark(t)
  <2>1. sid[t] \in Sid /\ Keeps({sid[t]})
    BY <1>4 DEF KillMark, MarkExited, SetExited, NoLostWrites
  <2>2. PICK s \in Sid : s = sid[t]
    BY <2>1
  <2>3. row'[s] # "alive"
    BY <1>4, <2>2 DEF KillMark, MarkExited, SetExited, NoLostWrites
  <2> QED BY <2>1, <2>2, <2>3, KeepsAllBut DEF Accounted
<1> QED BY <1>1, <1>2, <1>3, <1>4
         DEF Kill

LEMMA ServerStepNoDrift ==
  ASSUME NoLostWrites, IInv, NoDrift,
         \/ ReapIdle
         \/ \E q \in Proc : Shell(q)
         \/ \E u \in User : Unsuspend(u)
         \/ \E s \in Sid : Elapse(s)
         \/ Crash \/ Boot
  PROVE  NoDrift'
<1> USE ConstantsAssumption
    DEF ConstantsAssumption, Thread, Keeps, dbVars, ptyVars, procVars, argVars, At,
        Goto, Finish, Hold, Register, Unmap, StopPty, Spawn, Admin, FreePty, FreshId,
        IInv, TypeOK, ArgsOK, MintedOK, PtysOK, ShellsOK, NeedsUser, NeedsSid
<1>1. CASE ReapList \/ ReapDone
  BY <1>1, KeepsAll DEF ReapList, ReapDone
<1>2. ASSUME NEW s \in Sid, ReapNext(s) PROVE NoDrift'
  BY <1>2, KeepsAll DEF ReapNext
<1>3. ASSUME NEW q \in Proc, ProcExit(q) PROVE NoDrift'
  BY <1>3, KeepsAll DEF ProcExit
<1>4. ASSUME NEW q \in Proc, WaitExit(q) PROVE NoDrift'
  BY <1>4, KeepsAll DEF WaitExit
<1>5. ASSUME NEW q \in Proc, ExitUnmap(q) PROVE NoDrift'
  <2>1. ptySid[procPty[q]] \in Sid /\ Keeps({ptySid[procPty[q]]})
    BY <1>5 DEF ExitUnmap
  <2>2. PICK s \in Sid : s = ptySid[procPty[q]]
    BY <2>1
  <2>3. MarkPending(s)'
    BY <1>5, <2>2 DEF ExitUnmap, MarkPending
  <2> QED BY <2>1, <2>2, <2>3, KeepsAllBut DEF Accounted
<1>6. ASSUME NEW q \in Proc, ExitMark(q) PROVE NoDrift'
  <2>1. ptySid[procPty[q]] \in Sid /\ Keeps({ptySid[procPty[q]]})
    BY <1>6 DEF ExitMark, MarkExited, SetExited, NoLostWrites
  <2>2. PICK s \in Sid : s = ptySid[procPty[q]]
    BY <2>1
  <2>3. row'[s] # "alive"
    BY <1>6, <2>2 DEF ExitMark, MarkExited, SetExited, NoLostWrites
  <2> QED BY <2>1, <2>2, <2>3, KeepsAllBut DEF Accounted
<1>7. CASE \E u \in User : Unsuspend(u)
  BY <1>7, KeepsAll DEF Unsuspend
<1>8. CASE \E s \in Sid : Elapse(s)
  BY <1>8, KeepsAll DEF Elapse
<1>9. CASE Crash
  BY <1>9 DEF Crash, NoDrift
<1>10. CASE Boot
  BY <1>10 DEF Boot, NoDrift
<1> QED BY <1>1, <1>2, <1>3, <1>4, <1>5, <1>6, <1>7, <1>8, <1>9, <1>10
         DEF ReapIdle, Shell

(* A row that counts towards the cap always has a PTY in the live map, or  *)
(* a goroutine about to uncount it, as long as no database write is lost   *)
(* (the exit reaper of Manager.Create: "so the cap doesn't drift").        *)
THEOREM CapDoesNotDrift == NoLostWrites => (Spec => []NoDrift)
<1> SUFFICES ASSUME NoLostWrites PROVE Spec => []NoDrift
  OBVIOUS
<1> DEFINE DInv == IInv /\ OrphanGone /\ NoDrift
<1>1. Init => DInv
  BY InitIInv DEF Init, OrphanGone, NoDrift, Thread
<1>2. DInv /\ [Next]_vars => DInv'
  <2> SUFFICES ASSUME DInv, [Next]_vars PROVE NoDrift'
    BY NextIInv, NextOrphanGone
  <2>1. CASE Next
    BY <2>1, UserStepNoDrift, AdminStepNoDrift, KillStepNoDrift,
       ServerStepNoDrift DEF Next
  <2>2. CASE UNCHANGED vars
    BY <2>2 DEF vars, dbVars, ptyVars, procVars, argVars, NoDrift, Mapped, MarkPending
  <2> QED BY <2>1, <2>2
<1>3. DInv => NoDrift
  OBVIOUS
<1> QED BY <1>1, <1>2, <1>3, PTL DEF Spec

-----------------------------------------------------------------------------
(* Shells in reach.                                                        *)

Reached(q) == InReach(q)' \/ Overwritten(q) \/ Orphaned(q) \/ ReapedForAnother(q)

(* The PTY of a shell that runs is not free, and keeps what it was         *)
(* registered with.                                                        *)
PtyOf(q) == /\ procPty[q] \in Pty /\ ptyUser[procPty[q]] \in User
            /\ ptySid[procPty[q]] \in Sid /\ ~FreePty(procPty[q])

LEMMA RunningPty == ASSUME IInv, NEW q \in Proc, Running(q) PROVE PtyOf(q)
BY DEF IInv, TypeOK, PtysOK, Running, PtyOf, FreePty

(* Shell and PTY are still of the same session.                            *)
Same(q) ==
  /\ procPty'[q] = procPty[q]
  /\ ptyUser'[procPty[q]] = ptyUser[procPty[q]]
  /\ ptySid'[procPty[q]] = ptySid[procPty[q]]

(* Whoever is about to stop the PTY of shell q still is.                   *)
Stops(q) ==
  \A t \in Thread : pc[t] = "stop" /\ pty[t] = procPty[q] =>
                      pc'[t] = "stop" /\ pty'[t] = procPty[q]

LEMMA KeptInReach ==
  ASSUME NEW q \in Proc, Same(q), Stops(q), InReach(q), UNCHANGED live
  PROVE  InReach(q)'
BY DEF Same, Stops, InReach, Entry

(* Of what a user may do only a revival and DeleteOrphan take an entry of  *)
(* another PTY out of the map.                                             *)
LEMMA UserStepReach ==
  ASSUME IInv, OrphanGone, NEW q \in Proc, Running(q), InReach(q),
         NEW t \in Req, UserRequest(t)
  PROVE  Reached(q)
<1>0. PtyOf(q)
  BY RunningPty
<1>1. Stops(q)
  <2>1. ASSUME pc[t] # "stop",
               \E c : pc' = [pc EXCEPT ![t] = c],
               \/ UNCHANGED pty
               \/ \E p : pty' = [pty EXCEPT ![t] = p]
        PROVE  Stops(q)
    BY <2>1 DEF Stops, Thread, IInv, TypeOK
  <2> QED
    BY <2>1, ConstantsAssumption
       DEF UserRequest, Authenticate, CreateRefused, CreateAdmitted, CreateFails,
           CreateInsert, AttachHit, AttachMiss, RowFound, RowUnknown, ReviveFails, Revive,
           Start, Started, StartNoop, StartFails, Input, Detach, DeleteHit, DeleteMiss,
           OrphanCheck, OrphanDelete, OrphanDrop, At, Goto, Hold, Finish, argVars,
           ConstantsAssumption, Stops
<1>2. Same(q)
  BY <1>0 DEF UserRequest, Authenticate, CreateRefused, CreateAdmitted, CreateFails,
           CreateInsert, AttachHit, AttachMiss, RowFound, RowUnknown, ReviveFails, Revive,
           Start, Started, StartNoop, StartFails, Input, Detach, DeleteHit, DeleteMiss,
           OrphanCheck, OrphanDelete, OrphanDrop, Register, Spawn, Same, PtyOf, ptyVars, procVars,
           Running, IInv, TypeOK
<1>3. ASSUME NEW s \in Sid, NEW p \in Pty, CreateInsert(t, s, p) PROVE Reached(q)
  <2>1. /\ who[t] \in User /\ live[who[t]][s] = None
        /\ live' = [live EXCEPT ![who[t]][s] = p]
    BY <1>3, ConstantsAssumption
       DEF CreateInsert, Register, FreshId, At, IInv, TypeOK, ArgsOK, NeedsUser, OwnersOK,
           MintedOK, Thread, ConstantsAssumption
  <2>2. CASE Entry(q) = procPty[q]
    <3>1. Entry(q)' = Entry(q)
      BY <1>0, <1>2, <2>1, <2>2, ConstantsAssumption
         DEF Entry, Same, PtyOf, IInv, TypeOK, ConstantsAssumption
    <3> QED BY <1>2, <2>2, <3>1 DEF Reached, InReach, Same
  <2>3. CASE Entry(q) # procPty[q]
    BY <1>1, <1>2, <2>3 DEF Reached, InReach, Stops, Same
  <2> QED BY <2>2, <2>3
<1>4. ASSUME NEW p \in Pty, Revive(t, p) PROVE Reached(q)
  <2>1. who[t] \in User /\ sid[t] \in Sid /\ p # procPty[q] /\ p # None
        /\ live' = [live EXCEPT ![who[t]][sid[t]] = p]
    BY <1>0, <1>4, ConstantsAssumption
       DEF Revive, Register, At, IInv, TypeOK, ArgsOK, NeedsUser, NeedsSid, PtyOf, Thread,
           ConstantsAssumption
  <2>2. CASE Entry(q) = procPty[q]
    <3>1. Entry(q)' \in {Entry(q), p}
      BY <1>0, <1>2, <2>1 DEF Entry, Same, PtyOf, IInv, TypeOK
    <3> QED BY <1>2, <2>1, <2>2, <3>1 DEF Reached, InReach, Same, Overwritten
  <2>3. CASE Entry(q) # procPty[q]
    BY <1>1, <1>2, <2>3 DEF Reached, InReach, Stops, Same
  <2> QED BY <2>2, <2>3
<1>5. CASE OrphanDrop(t)
  <2>1. /\ who[t] \in User /\ sid[t] \in Sid
        /\ live' = [live EXCEPT ![who[t]][sid[t]] = None]
        /\ pc[t] = "orphandrop" /\ pc'[t] = "idle" /\ row[sid[t]] = "deleted"
    BY <1>5, ConstantsAssumption
       DEF OrphanDrop, OrphanGone, Unmap, Finish, At, IInv, TypeOK, ArgsOK, NeedsUser,
           NeedsSid, Thread, ConstantsAssumption
  <2>2. CASE Entry(q) = procPty[q]
    <3>1. CASE sid[t] = ptySid[procPty[q]]
      BY <2>1, <3>1 DEF Reached, Orphaned
    <3>2. CASE sid[t] # ptySid[procPty[q]]
      <4>1. Entry(q)' = Entry(q)
        BY <1>0, <1>2, <2>1, <3>2 DEF Entry, Same, PtyOf, IInv, TypeOK
      <4> QED BY <1>2, <2>2, <4>1 DEF Reached, InReach, Same
    <3> QED BY <3>1, <3>2
  <2>3. CASE Entry(q) # procPty[q]
    BY <1>1, <1>2, <2>3 DEF Reached, InReach, Stops, Same
  <2> QED BY <2>2, <2>3
<1>6. CASE UNCHANGED live
  BY <1>1, <1>2, <1>6, KeptInReach DEF Reached
<1> QED
  BY <1>3, <1>4, <1>5, <1>6
     DEF UserRequest, Authenticate, CreateRefused, CreateAdmitted, CreateFails,
         AttachHit, AttachMiss, RowFound, RowUnknown, ReviveFails,
         Start, StartNoop, StartFails, Input, Detach, DeleteHit, DeleteMiss,
         OrphanCheck, OrphanDelete

(* KillAll stops every shell whose entry it drops; nothing else an admin   *)
(* does drops one.                                                         *)
LEMMA AdminStepReach ==
  ASSUME IInv, NEW q \in Proc, Running(q), InReach(q), Running(q)',
         NEW t \in Req, AdminRequest(t)
  PROVE  InReach(q)'
<1>0. PtyOf(q)
  BY RunningPty
<1>1. Stops(q)
  BY ConstantsAssumption
     DEF AdminRequest, AdminKill, AdminKillAll, Suspend, Admin, KillAll, KillAllMark,
         KillAllDone, Restart, RestartStop, RestartStart, RestartEnds, At, Goto, Hold,
         Finish, argVars, Stops, Thread, IInv, TypeOK, ConstantsAssumption
<1>2. Same(q)
  BY <1>0
     DEF AdminRequest, AdminKill, AdminKillAll, Suspend, Admin, KillAll, KillAllMark,
         KillAllDone, Restart, RestartStop, RestartStart, RestartEnds, StopPty, Spawn, Same,
         PtyOf, ptyVars, procVars, Running, IInv, TypeOK
<1>3. CASE KillAll(t)
  <2>1. who[t] \in User
    BY <1>3, ConstantsAssumption
       DEF KillAll, At, IInv, TypeOK, ArgsOK, NeedsUser, Thread, ConstantsAssumption
  <2>2. cmd[procPty[q]] = q
    BY DEF IInv, ShellsOK, OneShellPerPty
  <2>3. CASE Entry(q) = procPty[q]
    <3>1. ptyUser[procPty[q]] # who[t]
      <4>1. SUFFICES ASSUME ptyUser[procPty[q]] = who[t] PROVE FALSE
        OBVIOUS
      <4>2. procPty[q] \in {live[who[t]][s] : s \in Sid} \ {None}
        BY <1>0, <2>3, <4>1, ConstantsAssumption DEF Entry, PtyOf, ConstantsAssumption
      <4>3. procSt'[q] = "dead"
        BY <1>3, <2>2, <4>2 DEF KillAll
      <4> QED BY <4>3 DEF Running
    <3>2. Entry(q)' = Entry(q)
      BY <1>0, <1>2, <1>3, <2>1, <3>1 DEF KillAll, Entry, Same, PtyOf, IInv, TypeOK
    <3> QED BY <1>2, <2>3, <3>2 DEF InReach, Same
  <2>4. CASE Entry(q) # procPty[q]
    BY <1>1, <1>2, <2>4 DEF InReach, Stops, Same
  <2> QED BY <2>3, <2>4
<1>4. CASE UNCHANGED live
  BY <1>1, <1>2, <1>4, KeptInReach
<1> QED
  BY <1>3, <1>4
     DEF AdminRequest, AdminKill, AdminKillAll, Suspend, Admin, KillAllMark, KillAllDone,
         Restart, RestartStop, RestartStart, RestartEnds

(* Kill has the PTY in its hands before the entry goes.                    *)
LEMMA KillStepReach ==
  ASSUME IInv, NEW q \in Proc, Running(q), InReach(q), Running(q)',
         NEW t \in Thread, Kill(t)
  PROVE  InReach(q)'
<1>0. PtyOf(q) /\ cmd[procPty[q]] = q
  BY RunningPty DEF IInv, ShellsOK, OneShellPerPty
<1>1. Same(q)
  BY <1>0 DEF Kill, KillUnmap, KillMissing, KillStop, KillMark, StopPty, Same, ptyVars, procVars
<1>2. CASE KillUnmap(t)
  <2>1. /\ who[t] \in User /\ sid[t] \in Sid
        /\ pc[t] = "kill" /\ pc' = [pc EXCEPT ![t] = "stop"]
        /\ pty' = [pty EXCEPT ![t] = live[who[t]][sid[t]]]
        /\ live' = [live EXCEPT ![who[t]][sid[t]] = None]
    BY <1>2, ConstantsAssumption
       DEF KillUnmap, Unmap, Hold, At, IInv, TypeOK, ArgsOK, NeedsUser, NeedsSid,
           ConstantsAssumption
  <2>2. Stops(q)
    BY <2>1 DEF Stops, IInv, TypeOK
  <2>3. CASE Entry(q) = procPty[q]
    <3>1. CASE ptyUser[procPty[q]] = who[t] /\ ptySid[procPty[q]] = sid[t]
      <4>1. pc'[t] = "stop" /\ pty'[t] = procPty[q]
        BY <2>1, <2>3, <3>1 DEF Entry, IInv, TypeOK
      <4> QED BY <1>1, <4>1 DEF InReach, Same
    <3>2. CASE ~(ptyUser[procPty[q]] = who[t] /\ ptySid[procPty[q]] = sid[t])
      <4>1. Entry(q)' = Entry(q)
        BY <1>0, <1>1, <2>1, <3>2 DEF Entry, Same, PtyOf, IInv, TypeOK
      <4> QED BY <1>1, <2>3, <4>1 DEF InReach, Same
    <3> QED BY <3>1, <3>2
  <2>4. CASE Entry(q) # procPty[q]
    BY <1>1, <2>2, <2>4 DEF InReach, Stops, Same
  <2> QED BY <2>3, <2>4
<1>3. CASE KillStop(t)
  <2>1. pty[t] # procPty[q]
    BY <1>0, <1>3, ConstantsAssumption
       DEF KillStop, StopPty, Running, IInv, TypeOK, ConstantsAssumption
  <2>2. Stops(q)
    BY <1>3, <2>1 DEF KillStop, Hold, Stops, IInv, TypeOK
  <2> QED BY <1>1, <1>3, <2>2, KeptInReach DEF KillStop
<1>4. CASE KillMissing(t) \/ KillMark(t)
  <2>1. Stops(q) /\ UNCHANGED live
    BY <1>4 DEF KillMissing, KillMark, At, Goto, Finish, argVars, Stops, IInv, TypeOK
  <2> QED BY <1>1, <2>1, KeptInReach
<1> QED BY <1>2, <1>3, <1>4 DEF Kill

LEMMA ServerStepReach ==
  ASSUME IInv, NEW q \in Proc, Running(q), InReach(q), Running(q)',
         \/ ReapIdle
         \/ \E r \in Proc : Shell(r)
         \/ \E u \in User : Unsuspend(u)
         \/ \E s \in Sid : Elapse(s)
         \/ Crash \/ Boot
  PROVE  Reached(q)
<1>0. PtyOf(q)
  BY RunningPty
<1>1. CASE ReapIdle
  <2>1. Stops(q) /\ Same(q) /\ UNCHANGED live
    BY <1>1 DEF ReapIdle, ReapList, ReapDone, ReapNext, At, Goto, argVars, ptyVars, procVars,
                Stops, Same, IInv, TypeOK
  <2> QED BY <2>1, KeptInReach DEF Reached
<1>2. ASSUME NEW r \in Proc, ExitUnmap(r) PROVE Reached(q)
  <2>1. /\ Stops(q) /\ Same(q)
        /\ ptyUser[procPty[r]] \in User /\ ptySid[procPty[r]] \in Sid /\ r # q
        /\ procSt[r] = "unmap" /\ procSt'[r] = "mark"
        /\ live' = [live EXCEPT ![ptyUser[procPty[r]]][ptySid[procPty[r]]] = None]
    BY <1>2, ConstantsAssumption
       DEF ExitUnmap, Unmap, Stops, Same, ptyVars, argVars, IInv, TypeOK, PtysOK, Running,
           ConstantsAssumption
  <2>2. CASE Entry(q) = procPty[q]
    <3>1. CASE ptySid[procPty[r]] = ptySid[procPty[q]]
      BY <2>1, <3>1 DEF Reached, ReapedForAnother
    <3>2. CASE ptySid[procPty[r]] # ptySid[procPty[q]]
      <4>1. Entry(q)' = Entry(q)
        BY <1>0, <2>1, <3>2 DEF Entry, Same, PtyOf, IInv, TypeOK
      <4> QED BY <2>1, <2>2, <4>1 DEF Reached, InReach, Same
    <3> QED BY <3>1, <3>2
  <2>3. CASE Entry(q) # procPty[q]
    BY <2>1, <2>3 DEF Reached, InReach, Stops, Same
  <2> QED BY <2>2, <2>3
<1>3. ASSUME NEW r \in Proc, ProcExit(r) \/ WaitExit(r) \/ ExitMark(r) PROVE Reached(q)
  <2>1. Stops(q) /\ Same(q) /\ UNCHANGED live
    BY <1>3 DEF ProcExit, WaitExit, ExitMark, ptyVars, argVars, Stops, Same, Running, IInv,
                TypeOK
  <2> QED BY <2>1, KeptInReach DEF Reached
<1>4. CASE Boot \/ (\E u \in User : Unsuspend(u)) \/ \E s \in Sid : Elapse(s)
  <2>1. Stops(q) /\ Same(q) /\ UNCHANGED live
    BY <1>4 DEF Boot, Unsuspend, Elapse, ptyVars, procVars, argVars, Stops, Same
  <2> QED BY <2>1, KeptInReach DEF Reached
<1>5. CASE Crash
  BY <1>5 DEF Crash, Running
<1> QED BY <1>1, <1>2, <1>3, <1>4, <1>5 DEF Shell

(* A shell that can be killed can still be killed while it runs, unless    *)
(* a second Revive, DeleteOrphan or the reaper of another shell takes its  *)
(* entry: Kill, KillAll, Restart, ReapIdle and exits never lose one.       *)
THEOREM KillsReach == Spec => StaysInReach
<1> DEFINE RInv == IInv /\ OrphanGone
<1>1. Init => RInv
  BY InitIInv DEF Init, OrphanGone, Thread
<1>2. RInv /\ [Next]_vars => RInv'
  BY NextIInv, NextOrphanGone
<1> DEFINE Step == \A q \in Proc : Running(q) /\ InReach(q) /\ Running(q)' => Reached(q)
<1>3. RInv /\ [Next]_vars => [Step]_vars
  <2> SUFFICES ASSUME RInv, Next, NEW q \in Proc, Running(q), InReach(q), Running(q)'
               PROVE  Reached(q)
    OBVIOUS
  <2> QED BY UserStepReach, AdminStepReach, KillStepReach, ServerStepReach
          DEF Next, Reached
<1> QED BY <1>1, <1>2, <1>3, PTL DEF Spec, StaysInReach, Reached
=============================================================================
