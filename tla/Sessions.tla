------------------------------ MODULE Sessions ------------------------------
(***************************************************************************)
(* The life of a terminal session: sessions.Manager, the rows of the       *)
(* sessions table it keeps, the PTYs and shells behind them, and the HTTP, *)
(* WebSocket, admin and reaper goroutines that drive all of it at once.    *)
(*                                                                         *)
(* A step of this module is one critical section of Manager.mu, one call   *)
(* on a PTY (each holds that PTY's own mutex) or one database statement.   *)
(* Between two steps of one goroutine any other goroutine may run, the     *)
(* shell may exit, and the server may crash.                               *)
(***************************************************************************)
EXTENDS Integers, FiniteSets

CONSTANTS
  User,         \* accounts
  Sid,          \* session ids (16 random bytes: never minted twice)
  Pty,          \* *pty.Manager instances; one that nothing refers to is free
  Proc,         \* shells; one whose exit has been fully handled is free
  Req,          \* goroutines serving a request or a WebSocket
  Reaper,       \* the goroutine of main.go that calls ReapIdle
  None,         \* "no such thing": nil, an absent map entry, sql.ErrNoRows
  MaxSessions,  \* EffectiveMaxSessions of each user; 0 is unlimited
  Ops           \* the optional operations this instance performs

Thread == Req \cup {Reaper}

ASSUME ConstantsAssumption ==
  /\ None \notin User \cup Sid \cup Pty \cup Proc \cup Thread
  /\ Reaper \notin Req
  /\ IsFiniteSet(Sid)
  /\ MaxSessions \in [User -> Nat]
  /\ Ops \subseteq {"attach", "delete", "adminkill", "suspend", "restart",
                    "reap", "crash", "dbfault"}

VARIABLES
  up,         \* is the server process running?
  mu,         \* who holds Manager.mu across steps (only Create does)
  row,        \* sessions table: the row of an id ...
  owner,      \* ... its user_id ...
  age,        \* ... and how it looks to ReapIdle
  suspended,  \* users.suspended
  live,       \* Manager.sessions: live[u][s] is the PTY, or None
  ptyUser,    \* the username and ...
  ptySid,     \* ... the session id captured by the PTY's exit reaper
  cmd,        \* pty.Manager.cmd: the shell the PTY runs, or None
  procPty,    \* the PTY a shell was started by
  procSt,     \* how far a shell and its waitExit goroutine have come
  pc, who, sid, pty,   \* per goroutine: position and local variables
  batch       \* ids collected by KillAll and ReapIdle, still to be handled

dbVars   == <<row, owner, age, suspended>>
ptyVars  == <<ptyUser, ptySid, cmd>>
procVars == <<procPty, procSt>>
argVars  == <<who, sid, pty, batch>>
vars == <<up, mu, dbVars, live, ptyVars, procVars, pc, argVars>>

RowState  == {"none", "alive", "exited", "deleted"}
(* fresh: a live, recently used session; idle: last_seen_at is older than  *)
(* maxIdle; aged: started_at is older than maxAge, which nothing refreshes *)
AgeState  == {"fresh", "idle", "aged"}
(* running -> dead: the shell is gone, cmd.Wait returns; unmap, mark: the  *)
(* two halves of the exit callback registered by Create and Revive         *)
ProcState == {"free", "running", "dead", "unmap", "mark"}
Control   == {"idle", "auth", "insert", "start", "lookup", "revive",
              "attached", "kill", "stop", "mark", "orphan", "orphandel",
              "orphandrop", "restop", "respawn", "killall", "markall", "reap"}

(* The type invariant; a goroutine about to start a shell holds the PTY.   *)
TypeOK ==
  /\ up \in BOOLEAN
  /\ mu \in Thread \cup {None}
  /\ row \in [Sid -> RowState]
  /\ owner \in [Sid -> User \cup {None}]
  /\ age \in [Sid -> AgeState]
  /\ suspended \in [User -> BOOLEAN]
  /\ live \in [User -> [Sid -> Pty \cup {None}]]
  /\ ptyUser \in [Pty -> User \cup {None}]
  /\ ptySid \in [Pty -> Sid \cup {None}]
  /\ cmd \in [Pty -> Proc \cup {None}]
  /\ procPty \in [Proc -> Pty \cup {None}]
  /\ procSt \in [Proc -> ProcState]
  /\ pc \in [Thread -> Control]
  /\ who \in [Thread -> User \cup {None}]
  /\ sid \in [Thread -> Sid \cup {None}]
  /\ pty \in [Thread -> Pty \cup {None}]
  /\ batch \in [Thread -> SUBSET Sid]
  /\ \A t \in Thread :
       pc[t] \in {"start", "stop", "restop", "respawn"} => pty[t] # None

Init ==
  /\ up = TRUE
  /\ mu = None
  /\ row = [s \in Sid |-> "none"]
  /\ owner = [s \in Sid |-> None]
  /\ age = [s \in Sid |-> "fresh"]
  /\ suspended = [u \in User |-> FALSE]
  /\ live = [u \in User |-> [s \in Sid |-> None]]
  /\ ptyUser = [p \in Pty |-> None]
  /\ ptySid = [p \in Pty |-> None]
  /\ cmd = [p \in Pty |-> None]
  /\ procPty = [q \in Proc |-> None]
  /\ procSt = [q \in Proc |-> "free"]
  /\ pc = [t \in Thread |-> "idle"]
  /\ who = [t \in Thread |-> None]
  /\ sid = [t \in Thread |-> None]
  /\ pty = [t \in Thread |-> None]
  /\ batch = [t \in Thread |-> {}]

-----------------------------------------------------------------------------
(* Control of a goroutine.                                                 *)

At(t, c) == up /\ pc[t] = c

Goto(t, c) == pc' = [pc EXCEPT ![t] = c] /\ UNCHANGED argVars

(* The handler returns: a request is over, the reaper goes back to its     *)
(* loop over the stale rows.                                               *)
Finish(t) ==
  /\ pc' = [pc EXCEPT ![t] = IF t = Reaper THEN "reap" ELSE "idle"]
  /\ who' = [who EXCEPT ![t] = None]
  /\ sid' = [sid EXCEPT ![t] = None]
  /\ pty' = [pty EXCEPT ![t] = None]
  /\ UNCHANGED batch

(* Goroutine t continues at c with PTY p of session s in its hands.        *)
Hold(t, c, s, p) ==
  /\ pc' = [pc EXCEPT ![t] = c]
  /\ sid' = [sid EXCEPT ![t] = s]
  /\ pty' = [pty EXCEPT ![t] = p]
  /\ UNCHANGED <<who, batch>>

(* Manager.mu is free; a critical section that does no I/O is one step.    *)
Unlocked == mu = None

(* CountAliveSessionsForUser.                                              *)
AliveRows(u) == {s \in Sid : row[s] = "alive" /\ owner[s] = u}

UnderCap(u) == MaxSessions[u] = 0 \/ Cardinality(AliveRows(u)) < MaxSessions[u]

(* A PTY nothing refers to any more: the next one the factory returns.     *)
FreePty(p) ==
  /\ cmd[p] = None
  /\ \A u \in User, s \in Sid : live[u][s] # p
  /\ \A t \in Thread : pty[t] # p
  /\ \A q \in Proc : procSt[q] = "free" \/ procPty[q] # p

(* factory(opts), the map entry, and the exit reaper closing over u and s. *)
Register(u, s, p) ==
  /\ live' = [live EXCEPT ![u][s] = p]
  /\ ptyUser' = [ptyUser EXCEPT ![p] = u]
  /\ ptySid' = [ptySid EXCEPT ![p] = s]
  /\ UNCHANGED cmd

Unmap(u, s) == live' = [live EXCEPT ![u][s] = None]

(* UPDATE sessions SET alive = 0: no row, no effect.                       *)
SetExited(s) == row' = [row EXCEPT ![s] = IF @ = "alive" THEN "exited" ELSE @]

(* Every caller drops the error of MarkSessionExited (`_ =`), so a write   *)
(* that SQLite refuses (SQLITE_BUSY) leaves the row as it was.             *)
MarkExited(s) ==
  \/ SetExited(s)
  \/ "dbfault" \in Ops /\ UNCHANGED row

(* Mutation: a shell is only signalled, and may live on.                   *)
StopPtyHangsUp(p) ==
  /\ cmd' = [cmd EXCEPT ![p] = None]
  /\ UNCHANGED <<ptyUser, ptySid, procVars>>

(* pty.Manager.Stop on a PTY: forget the shell, SIGKILL it.                *)
StopPty(p) ==
  /\ cmd' = [cmd EXCEPT ![p] = None]
  /\ procSt' = IF cmd[p] = None THEN procSt
               ELSE [procSt EXCEPT ![cmd[p]] = "dead"]
  /\ UNCHANGED <<ptyUser, ptySid, procPty>>

-----------------------------------------------------------------------------
(* Requests of a user: POST /api/sessions and GET /ws/terminal.            *)

(* authMiddleware and authWSUser look the live user up, and refuse one who *)
(* is suspended.                                                           *)
Active(u) == ~suspended[u]

Authenticate(t, u) ==
  /\ At(t, "idle")
  /\ Active(u)
  /\ pc' = [pc EXCEPT ![t] = "auth"]
  /\ who' = [who EXCEPT ![t] = u]
  /\ UNCHANGED <<up, mu, dbVars, live, ptyVars, procVars, sid, pty, batch>>

(* Create, first half: cap lookup and count under the lock -> 409 ...      *)
CreateRefused(t) ==
  /\ At(t, "auth") /\ Unlocked
  /\ ~UnderCap(who[t])
  /\ Finish(t)
  /\ UNCHANGED <<up, mu, dbVars, live, ptyVars, procVars>>

(* Mutation: the lock is not held from the count to the insert.            *)
CreateUnserialized(t) ==
  /\ At(t, "auth") /\ Unlocked
  /\ UnderCap(who[t])
  /\ Goto(t, "insert")
  /\ UNCHANGED <<up, mu, dbVars, live, ptyVars, procVars>>

(* ... or below the cap: the lock stays held until the row is in.          *)
CreateAdmitted(t) ==
  /\ At(t, "auth") /\ Unlocked
  /\ UnderCap(who[t])
  /\ mu' = t
  /\ Goto(t, "insert")
  /\ UNCHANGED <<up, dbVars, live, ptyVars, procVars>>

(* 16 fresh random bytes: an id that nobody can have named yet.            *)
FreshId(s) == row[s] = "none" /\ \A t \in Thread : sid[t] # s

(* Create, second half: INSERT, PTY, map entry, reaper, unlock.            *)
CreateInsert(t, s, p) ==
  /\ At(t, "insert")
  /\ FreshId(s) /\ FreePty(p)
  /\ row' = [row EXCEPT ![s] = "alive"]
  /\ owner' = [owner EXCEPT ![s] = who[t]]
  /\ Register(who[t], s, p)
  /\ mu' = None
  /\ Hold(t, "start", s, p)
  /\ UNCHANGED <<up, age, suspended, procVars>>

(* The INSERT (or rand.Read) fails: 500, the deferred unlock runs.         *)
CreateFails(t) ==
  /\ At(t, "insert")
  /\ mu' = None
  /\ Finish(t)
  /\ UNCHANGED <<up, dbVars, live, ptyVars, procVars>>

(* Mutation: the `ok` of Get is not looked at.                             *)
AttachUnchecked(t, s) ==
  /\ At(t, "auth") /\ Unlocked /\ "attach" \in Ops
  /\ Hold(t, "start", s, live[who[t]][s])
  /\ UNCHANGED <<up, mu, dbVars, live, ptyVars, procVars>>

(* ensureSession with an id, Get hits: a live PTY is returned as it is,    *)
(* one whose shell has exited is about to be lazily restarted.             *)
AttachHit(t, s) ==
  /\ At(t, "auth") /\ Unlocked /\ "attach" \in Ops
  /\ live[who[t]][s] # None
  /\ Hold(t, "start", s, live[who[t]][s])
  /\ UNCHANGED <<up, mu, dbVars, live, ptyVars, procVars>>

(* ensureSession with an id, Get misses.                                   *)
AttachMiss(t, s) ==
  /\ At(t, "auth") /\ Unlocked /\ "attach" \in Ops
  /\ live[who[t]][s] = None
  /\ Hold(t, "lookup", s, None)
  /\ UNCHANGED <<up, mu, dbVars, live, ptyVars, procVars>>

(* Mutation: any user's row will do.                                       *)
AnyRow(t, s) == t \in Thread /\ row[s] \in {"alive", "exited"}

(* GetSession finds a row of this user, or it is a 404.                    *)
OwnRow(t, s) == row[s] \in {"alive", "exited"} /\ owner[s] = who[t]

RowFound(t) ==
  /\ At(t, "lookup")
  /\ OwnRow(t, sid[t])
  /\ Goto(t, "revive")
  /\ UNCHANGED <<up, mu, dbVars, live, ptyVars, procVars>>

RowUnknown(t) ==
  /\ At(t, "lookup")
  /\ ~OwnRow(t, sid[t])
  /\ Finish(t)
  /\ UNCHANGED <<up, mu, dbVars, live, ptyVars, procVars>>

(* Manager.Revive: alive = 1 and last_seen_at = now (a row deleted in the  *)
(* meantime stays deleted), a new PTY, whatever the map held; no cap check *)
Revive(t, p) ==
  /\ At(t, "revive") /\ Unlocked
  /\ FreePty(p)
  /\ LET s == sid[t] IN
       /\ row' = [row EXCEPT ![s] = IF @ = "exited" THEN "alive" ELSE @]
       /\ age' = [age EXCEPT ![s] = IF @ = "idle" THEN "fresh" ELSE @]
       /\ Register(who[t], s, p)
       /\ Hold(t, "start", s, p)
  /\ UNCHANGED <<up, mu, owner, suspended, procVars>>

(* GetSession no longer finds the row, or the UPDATE fails.                *)
ReviveFails(t) ==
  /\ At(t, "revive")
  /\ row[sid[t]] = "deleted" \/ "dbfault" \in Ops
  /\ Finish(t)
  /\ UNCHANGED <<up, mu, dbVars, live, ptyVars, procVars>>

(* p.Start: the WebSocket goes on to pump, POST /api/sessions returns.     *)
Started(t) == Goto(t, "attached") \/ Finish(t)

Spawn(p, q) ==
  /\ cmd[p] = None /\ procSt[q] = "free"
  /\ cmd' = [cmd EXCEPT ![p] = q]
  /\ procPty' = [procPty EXCEPT ![q] = p]
  /\ procSt' = [procSt EXCEPT ![q] = "running"]
  /\ UNCHANGED <<ptyUser, ptySid>>

Start(t, q) ==
  /\ At(t, "start")
  /\ Spawn(pty[t], q)
  /\ Started(t)
  /\ UNCHANGED <<up, mu, dbVars, live>>

StartNoop(t) ==
  /\ At(t, "start")
  /\ cmd[pty[t]] # None
  /\ Started(t)
  /\ UNCHANGED <<up, mu, dbVars, live, ptyVars, procVars>>

(* StartWithSize fails: 500, and the entry and its row are left behind.    *)
StartFails(t) ==
  /\ At(t, "start")
  /\ cmd[pty[t]] = None
  /\ Finish(t)
  /\ UNCHANGED <<up, mu, dbVars, live, ptyVars, procVars>>

(* An input frame: p.Write and TouchSession.                               *)
Input(t) ==
  /\ At(t, "attached")
  /\ age' = [age EXCEPT ![sid[t]] = IF @ = "idle" THEN "fresh" ELSE @]
  /\ UNCHANGED <<up, mu, row, owner, suspended, live, ptyVars, procVars, pc,
                 argVars>>

(* The WebSocket closes: the handler unsubscribes, the PTY survives.       *)
Detach(t) ==
  /\ At(t, "attached")
  /\ Finish(t)
  /\ UNCHANGED <<up, mu, dbVars, live, ptyVars, procVars>>

-----------------------------------------------------------------------------
(* DELETE /api/sessions/:id, and Manager.Kill.                             *)

DeleteHit(t, s) ==
  /\ At(t, "auth") /\ Unlocked /\ "delete" \in Ops
  /\ live[who[t]][s] # None
  /\ Hold(t, "kill", s, None)
  /\ UNCHANGED <<up, mu, dbVars, live, ptyVars, procVars>>

DeleteMiss(t, s) ==
  /\ At(t, "auth") /\ Unlocked /\ "delete" \in Ops
  /\ live[who[t]][s] = None
  /\ Hold(t, "orphan", s, None)
  /\ UNCHANGED <<up, mu, dbVars, live, ptyVars, procVars>>

(* Mutation: the entry goes and nobody holds its PTY any more.             *)
KillDropsEntry(t) ==
  /\ At(t, "kill") /\ Unlocked
  /\ live[who[t]][sid[t]] # None
  /\ Unmap(who[t], sid[t])
  /\ Hold(t, "mark", sid[t], None)
  /\ UNCHANGED <<up, mu, dbVars, ptyVars, procVars>>

(* Kill: look the PTY up and drop the entry under the lock ...             *)
KillUnmap(t) ==
  /\ At(t, "kill") /\ Unlocked
  /\ LET p == live[who[t]][sid[t]] IN
       /\ p # None
       /\ Hold(t, "stop", sid[t], p)
  /\ Unmap(who[t], sid[t])
  /\ UNCHANGED <<up, mu, dbVars, ptyVars, procVars>>

(* Mutation: the reaper takes ErrNotFound for "already reaped".            *)
KillMissingGivesUp(t) ==
  /\ At(t, "kill") /\ Unlocked
  /\ live[who[t]][sid[t]] = None
  /\ Finish(t)
  /\ UNCHANGED <<up, mu, dbVars, live, ptyVars, procVars>>

(* ... or ErrNotFound, on which ReapIdle still marks the row.              *)
KillMissing(t) ==
  /\ At(t, "kill") /\ Unlocked
  /\ live[who[t]][sid[t]] = None
  /\ IF t = Reaper THEN Goto(t, "mark") ELSE Finish(t)
  /\ UNCHANGED <<up, mu, dbVars, live, ptyVars, procVars>>

(* Mutation: Kill leaves the row to the exit reaper, which will find no    *)
(* shell to wait for if the PTY was never started.                         *)
KillStopOnly(t) ==
  /\ At(t, "stop")
  /\ StopPty(pty[t])
  /\ Finish(t)
  /\ UNCHANGED <<up, mu, dbVars, live>>

(* p.Stop, outside the lock; then MarkSessionExited.                       *)
KillStop(t) ==
  /\ At(t, "stop")
  /\ StopPty(pty[t])
  /\ Hold(t, "mark", sid[t], None)
  /\ UNCHANGED <<up, mu, dbVars, live>>

KillMark(t) ==
  /\ At(t, "mark")
  /\ MarkExited(sid[t])
  /\ Finish(t)
  /\ UNCHANGED <<up, mu, owner, age, suspended, live, ptyVars, procVars>>

(* DeleteOrphan: the owner check, the DELETE, and the map entry a racing   *)
(* revival may have added: it is dropped, its PTY is not stopped.          *)
OrphanCheck(t) ==
  /\ At(t, "orphan")
  /\ IF OwnRow(t, sid[t]) THEN Goto(t, "orphandel") ELSE Finish(t)
  /\ UNCHANGED <<up, mu, dbVars, live, ptyVars, procVars>>

OrphanDelete(t) ==
  /\ At(t, "orphandel")
  /\ \/ row' = [row EXCEPT ![sid[t]] = "deleted"] /\ Goto(t, "orphandrop")
     \/ "dbfault" \in Ops /\ Finish(t) /\ UNCHANGED row
  /\ UNCHANGED <<up, mu, owner, age, suspended, live, ptyVars, procVars>>

OrphanDrop(t) ==
  /\ At(t, "orphandrop") /\ Unlocked
  /\ Unmap(who[t], sid[t])
  /\ Finish(t)
  /\ UNCHANGED <<up, mu, dbVars, ptyVars, procVars>>

-----------------------------------------------------------------------------
(* Admin handlers: kill one, kill all, suspend; and Manager.Restart.       *)

Admin(t, c, u, s) ==
  /\ At(t, "idle")
  /\ pc' = [pc EXCEPT ![t] = c]
  /\ who' = [who EXCEPT ![t] = u]
  /\ sid' = [sid EXCEPT ![t] = s]
  /\ UNCHANGED <<up, mu, row, owner, age, live, ptyVars, procVars, pty, batch>>

AdminKill(t, u, s) ==
  /\ "adminkill" \in Ops
  /\ Admin(t, "kill", u, s)
  /\ UNCHANGED suspended

AdminKillAll(t, u) ==
  /\ "adminkill" \in Ops
  /\ Admin(t, "killall", u, None)
  /\ UNCHANGED suspended

(* Lock the account, SetSuspended, and then KillAll.                       *)
Suspend(t, u) ==
  /\ "suspend" \in Ops
  /\ Admin(t, "killall", u, None)
  /\ suspended' = [suspended EXCEPT ![u] = TRUE]

Unsuspend(u) ==
  /\ up /\ "suspend" \in Ops
  /\ suspended[u]
  /\ suspended' = [suspended EXCEPT ![u] = FALSE]
  /\ UNCHANGED <<up, mu, row, owner, age, live, ptyVars, procVars, pc, argVars>>

(* KillAll, under the lock: collect the ids, stop every PTY of the bucket, *)
(* drop the bucket.                                                        *)
KillAll(t) ==
  /\ At(t, "killall") /\ Unlocked
  /\ LET bucket  == live[who[t]]
         stopped == {bucket[s] : s \in Sid} \ {None}
     IN /\ batch' = [batch EXCEPT ![t] = {s \in Sid : bucket[s] # None}]
        /\ cmd' = [p \in Pty |-> IF p \in stopped THEN None ELSE cmd[p]]
        /\ procSt' = [q \in Proc |-> IF \E p \in stopped : cmd[p] = q
                                     THEN "dead" ELSE procSt[q]]
        /\ live' = [live EXCEPT ![who[t]] = [s \in Sid |-> None]]
  /\ pc' = [pc EXCEPT ![t] = "markall"]
  /\ UNCHANGED <<up, mu, dbVars, ptyUser, ptySid, procPty, who, sid, pty>>

(* KillAll, after the lock: one UPDATE per id.                             *)
KillAllMark(t, s) ==
  /\ At(t, "markall") /\ s \in batch[t]
  /\ MarkExited(s)
  /\ batch' = [batch EXCEPT ![t] = @ \ {s}]
  /\ UNCHANGED <<up, mu, owner, age, suspended, live, ptyVars, procVars, pc,
                 who, sid, pty>>

KillAllDone(t) ==
  /\ At(t, "markall") /\ batch[t] = {}
  /\ Finish(t)
  /\ UNCHANGED <<up, mu, dbVars, live, ptyVars, procVars>>

(* Restart: the PTY is looked up under the lock, stopped and started after *)
Restart(t, u, s) ==
  /\ At(t, "idle") /\ Unlocked /\ "restart" \in Ops
  /\ live[u][s] # None
  /\ Hold(t, "restop", s, live[u][s])
  /\ UNCHANGED <<up, mu, dbVars, live, ptyVars, procVars>>

RestartStop(t) ==
  /\ At(t, "restop")
  /\ StopPty(pty[t])
  /\ Goto(t, "respawn")
  /\ UNCHANGED <<up, mu, dbVars, live>>

RestartStart(t, q) ==
  /\ At(t, "respawn")
  /\ Spawn(pty[t], q)
  /\ Finish(t)
  /\ UNCHANGED <<up, mu, dbVars, live>>

(* Start is a no-op if a lazy restart was quicker, or it fails.            *)
RestartEnds(t) ==
  /\ At(t, "respawn")
  /\ Finish(t)
  /\ UNCHANGED <<up, mu, dbVars, live, ptyVars, procVars>>

-----------------------------------------------------------------------------
(* ReapIdle: a snapshot of the stale rows, then one Kill after another.    *)

ReapList ==
  /\ At(Reaper, "idle") /\ "reap" \in Ops
  /\ batch' = [batch EXCEPT ![Reaper] =
                 {s \in Sid : row[s] = "alive" /\ age[s] # "fresh"}]
  /\ pc' = [pc EXCEPT ![Reaper] = "reap"]
  /\ UNCHANGED <<up, mu, dbVars, live, ptyVars, procVars, who, sid, pty>>

ReapNext(s) ==
  /\ At(Reaper, "reap") /\ s \in batch[Reaper]
  /\ batch' = [batch EXCEPT ![Reaper] = @ \ {s}]
  /\ pc' = [pc EXCEPT ![Reaper] = "kill"]
  /\ who' = [who EXCEPT ![Reaper] = owner[s]]
  /\ sid' = [sid EXCEPT ![Reaper] = s]
  /\ UNCHANGED <<up, mu, dbVars, live, ptyVars, procVars, pty>>

ReapDone ==
  /\ At(Reaper, "reap") /\ batch[Reaper] = {}
  /\ Goto(Reaper, "idle")
  /\ UNCHANGED <<up, mu, dbVars, live, ptyVars, procVars>>

-----------------------------------------------------------------------------
(* The shell, its waitExit goroutine and the exit reaper.                  *)

ProcExit(q) ==
  /\ up /\ procSt[q] = "running"
  /\ procSt' = [procSt EXCEPT ![q] = "dead"]
  /\ UNCHANGED <<up, mu, dbVars, live, ptyVars, procPty, pc, argVars>>

(* Mutation: no check that the PTY still runs this shell.                  *)
WaitExitAnyShell(q) ==
  /\ up /\ procSt[q] = "dead"
  /\ cmd' = [cmd EXCEPT ![procPty[q]] = None]
  /\ procSt' = [procSt EXCEPT ![q] = "unmap"]
  /\ UNCHANGED <<up, mu, dbVars, live, ptyUser, ptySid, procPty, pc, argVars>>

(* cmd.Wait returned: clear cmd if it is still this shell's (`current`),   *)
(* call the exit callbacks in any case.                                    *)
WaitExit(q) ==
  /\ up /\ procSt[q] = "dead"
  /\ cmd' = [cmd EXCEPT ![procPty[q]] = IF @ = q THEN None ELSE @]
  /\ procSt' = [procSt EXCEPT ![q] = "unmap"]
  /\ UNCHANGED <<up, mu, dbVars, live, ptyUser, ptySid, procPty, pc, argVars>>

(* The reaper drops the entry of its session id, whatever PTY it holds.    *)
ExitUnmap(q) ==
  /\ up /\ procSt[q] = "unmap" /\ Unlocked
  /\ Unmap(ptyUser[procPty[q]], ptySid[procPty[q]])
  /\ procSt' = [procSt EXCEPT ![q] = "mark"]
  /\ UNCHANGED <<up, mu, dbVars, ptyVars, procPty, pc, argVars>>

ExitMark(q) ==
  /\ up /\ procSt[q] = "mark"
  /\ MarkExited(ptySid[procPty[q]])
  /\ procSt' = [procSt EXCEPT ![q] = "free"]
  /\ procPty' = [procPty EXCEPT ![q] = None]
  /\ UNCHANGED <<up, mu, owner, age, suspended, live, ptyVars, pc, argVars>>

-----------------------------------------------------------------------------
(* Time, crash and boot.                                                   *)

Elapse(s) ==
  /\ "reap" \in Ops
  /\ row[s] \in {"alive", "exited"}
  /\ \E a \in (IF age[s] = "fresh" THEN {"idle", "aged"} ELSE {"aged"}) :
       /\ age[s] # a
       /\ age' = [age EXCEPT ![s] = a]
  /\ UNCHANGED <<up, mu, row, owner, suspended, live, ptyVars, procVars, pc,
                 argVars>>

(* The server is PID 1 of its container: every shell dies with it, and so  *)
(* does everything in memory.                                              *)
Crash ==
  /\ up /\ "crash" \in Ops
  /\ up' = FALSE
  /\ mu' = None
  /\ live' = [u \in User |-> [s \in Sid |-> None]]
  /\ cmd' = [p \in Pty |-> None]
  /\ procPty' = [q \in Proc |-> None]
  /\ procSt' = [q \in Proc |-> "free"]
  /\ pc' = [t \in Thread |-> "idle"]
  /\ who' = [t \in Thread |-> None]
  /\ sid' = [t \in Thread |-> None]
  /\ pty' = [t \in Thread |-> None]
  /\ batch' = [t \in Thread |-> {}]
  /\ UNCHANGED <<dbVars, ptyUser, ptySid>>

(* main: ReapStaleSessions, before the listener opens.                     *)
Boot ==
  /\ ~up
  /\ up' = TRUE
  /\ row' = [s \in Sid |-> IF row[s] = "alive" THEN "exited" ELSE row[s]]
  /\ UNCHANGED <<mu, owner, age, suspended, live, ptyVars, procVars, pc, argVars>>

-----------------------------------------------------------------------------
UserRequest(t) ==
  \/ \E u \in User : Authenticate(t, u)
  \/ CreateRefused(t) \/ CreateAdmitted(t) \/ CreateFails(t)
  \/ \E s \in Sid, p \in Pty : CreateInsert(t, s, p)
  \/ \E s \in Sid : AttachHit(t, s) \/ AttachMiss(t, s)
  \/ RowFound(t) \/ RowUnknown(t) \/ ReviveFails(t)
  \/ \E p \in Pty : Revive(t, p)
  \/ \E q \in Proc : Start(t, q)
  \/ StartNoop(t) \/ StartFails(t) \/ Input(t) \/ Detach(t)
  \/ \E s \in Sid : DeleteHit(t, s) \/ DeleteMiss(t, s)
  \/ OrphanCheck(t) \/ OrphanDelete(t) \/ OrphanDrop(t)

AdminRequest(t) ==
  \/ \E u \in User, s \in Sid : AdminKill(t, u, s) \/ Restart(t, u, s)
  \/ \E u \in User : AdminKillAll(t, u) \/ Suspend(t, u)
  \/ KillAll(t) \/ KillAllDone(t)
  \/ \E s \in Sid : KillAllMark(t, s)
  \/ RestartStop(t) \/ RestartEnds(t)
  \/ \E q \in Proc : RestartStart(t, q)

Kill(t) == KillUnmap(t) \/ KillMissing(t) \/ KillStop(t) \/ KillMark(t)

ReapIdle == ReapList \/ ReapDone \/ \E s \in Sid : ReapNext(s)

Shell(q) == ProcExit(q) \/ WaitExit(q) \/ ExitUnmap(q) \/ ExitMark(q)

Next ==
  \/ \E t \in Req : UserRequest(t) \/ AdminRequest(t)
  \/ \E t \in Thread : Kill(t)
  \/ ReapIdle
  \/ \E q \in Proc : Shell(q)
  \/ \E u \in User : Unsuspend(u)
  \/ \E s \in Sid : Elapse(s)
  \/ Crash \/ Boot

Spec == Init /\ [][Next]_vars

(***************************************************************************)
(* Fairness.  A goroutine in the middle of its work and a waitExit         *)
(* goroutine are scheduled (WF); one that waits for Manager.mu gets it     *)
(* although others keep taking it: Go's mutex hands over to a waiter       *)
(* starved for a millisecond (SF).  The reaper ticks, the container is     *)
(* restarted (restart: unless-stopped).  No client, admin, shell or clock  *)
(* is ever assumed to do anything.                                         *)
(***************************************************************************)
Proceeds(t) ==
  \/ CreateFails(t) \/ \E s \in Sid, p \in Pty : CreateInsert(t, s, p)
  \/ KillStop(t) \/ KillMark(t)
  \/ KillAllDone(t) \/ \E s \in Sid : KillAllMark(t, s)

WaitsForLock(t) == KillUnmap(t) \/ KillMissing(t) \/ KillAll(t)

Fairness ==
  /\ \A t \in Thread : WF_vars(Proceeds(t)) /\ SF_vars(WaitsForLock(t))
  /\ WF_vars(ReapIdle)
  /\ \A q \in Proc : /\ WF_vars(WaitExit(q) \/ ExitMark(q))
                      /\ SF_vars(ExitUnmap(q))
  /\ WF_vars(Boot)

FairSpec == Spec /\ Fairness

(* SQLite does not refuse the reaper's write for ever.                     *)
WritesGetThrough ==
  \A s \in Sid : SF_vars(sid[Reaper] = s /\ KillMark(Reaper) /\ row' # row)

FaultySpec == FairSpec /\ WritesGetThrough

-----------------------------------------------------------------------------
(* Correctness.                                                            *)

Running(q) == procSt[q] = "running"

Mapped(s) == \E u \in User : live[u][s] # None

(* Somebody has taken the session out of the map and is on the way to its  *)
(* MarkSessionExited: Kill, KillAll, or the exit reaper of its shell.      *)
MarkPending(s) ==
  \/ \E t \in Thread : pc[t] \in {"stop", "mark"} /\ sid[t] = s
  \/ \E t \in Thread : pc[t] = "markall" /\ s \in batch[t]
  \/ \E q \in Proc : procSt[q] = "mark" /\ ptySid[procPty[q]] = s

(* "so the cap doesn't drift" (Create's reaper): a row that counts towards *)
(* the cap has a PTY in the map, or the write that uncounts it is under    *)
(* way.  Holds while no write is lost.                                     *)
NoDrift == \A s \in Sid : up /\ row[s] = "alive" => Mapped(s) \/ MarkPending(s)

(* At most one shell per PTY: a shell that runs is the one its PTY knows,  *)
(* through natural exits, stops and lazy restarts of the same PTY.         *)
OneShellPerPty == \A q \in Proc : Running(q) => cmd[procPty[q]] = q

(* Isolation: whatever a user's request is attached to, and whatever       *)
(* stands in a user's bucket, belongs to a session row of that user.       *)
OwnSessionsOnly ==
  /\ \A t \in Req : pc[t] \in {"start", "attached"} => owner[sid[t]] = who[t]
  /\ \A u \in User, s \in Sid : live[u][s] # None => owner[s] = u

(* The cap is asked and the slot taken in one indivisible step, as the     *)
(* ledger has it, although Create counts and inserts in two statements     *)
(* that exits, deletions and the reaper's writes may separate.             *)
Ledger == INSTANCE SessionLedger
            WITH Slot <- Sid, Nobody <- None, Cap <- MaxSessions,
                 slot <- row, holder <- owner

LedgerSpec == Ledger!Spec

(* The session manager uses a PTY as it is meant to be used: what Kill,    *)
(* KillAll, Restart, the starts and the exit reapers do to PTYs and shells *)
(* are the steps PtyShells allows, and Terminal implements from inside.    *)
Seen(q) == IF procSt[q] \in {"running", "dead"} THEN procSt[q] ELSE "none"

Ptys == INSTANCE PtyShells
          WITH Nobody <- None, state <- [q \in Proc |-> Seen(q)]

PtySpec == Ptys!Spec

(* The map leads to shell q, so that a Kill finds it, or one has.          *)
Entry(q) == live[ptyUser[procPty[q]]][ptySid[procPty[q]]]
InReach(q) ==
  \/ Entry(q) = procPty[q]
  \/ \E t \in Thread : pc[t] = "stop" /\ pty[t] = procPty[q]

(* The ways the code has of losing a shell that runs: a second Revive      *)
(* overwrites its entry, DeleteOrphan drops it after the row, or the exit  *)
(* reaper of an earlier shell of the session does.                         *)
Overwritten(q) == Entry(q)' \notin {None, procPty[q]}
Orphaned(q) ==
  \E t \in Req : /\ pc[t] = "orphandrop" /\ pc'[t] = "idle"
                /\ sid[t] = ptySid[procPty[q]] /\ row[sid[t]] = "deleted"
ReapedForAnother(q) ==
  \E r \in Proc \ {q} : /\ procSt[r] = "unmap" /\ procSt'[r] = "mark"
                       /\ ptySid[procPty[r]] = ptySid[procPty[q]]

(* And no other: through kills, restarts, exits, suspension, the reaper    *)
(* and crashes a shell that can be killed stays so while it runs.          *)
StaysInReach ==
  [][\A q \in Proc : Running(q) /\ InReach(q) /\ Running(q)' =>
       InReach(q)' \/ Overwritten(q) \/ Orphaned(q) \/ ReapedForAnother(q)]_vars

(* A session past its maximal age gives up its slot, whether or not its    *)
(* PTY is still mapped and even if writes to the database fail at times.   *)
StaleReclaimed ==
  \A s \in Sid : (row[s] = "alive" /\ age[s] = "aged") ~> (row[s] # "alive")
=============================================================================
