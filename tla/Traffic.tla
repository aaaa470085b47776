------------------------------ MODULE Traffic ------------------------------
(***************************************************************************)
(* The traffic accounting: nftables counts the bytes of every uid, a       *)
(* sampler turns what the counters show into deltas and adds them to the   *)
(* traffic table, the file handlers add theirs, and the admin pages read   *)
(* the table.  Download and upload are treated alike and one of them       *)
(* stands for both; there is one month.                                    *)
(***************************************************************************)
EXTENDS Integers, FiniteSets

CONSTANTS
  User,
  MaxBytes,   \* bound: what the kernel ever counts for a user
  MaxFiles,   \* bound: what the table holds of a user's file transfers
  Faults      \* what may go wrong: "nft", "db", "flush", "crash"

ASSUME TrafficAssumption ==
  /\ MaxBytes \in Nat /\ MaxFiles \in Nat
  /\ Faults \subseteq {"nft", "db", "flush", "crash"}

VARIABLES
  rule,       \* kernel: is the uid's rule in place?
  counter,    \* kernel: its counter
  installed, last,            \* traffic.Service
  pc, todo, cur, reading, seen, \* SampleOnce: its local variables
  byUid,      \* rows of the traffic table whose user_id is a Linux uid ...
  byId,       \* ... and those whose user_id is a users.id (uids start at
              \*     2000, ids at 1: they do not meet)
  counted,    \* history: bytes the kernel ever counted for a user
  spoiled     \* history: was a sample lost to a flush, a crash or SQLite?

kernelVars  == <<rule, counter>>
serviceVars == <<installed, last>>
tickVars    == <<pc, todo, cur, reading, seen>>
tableVars   == <<byUid, byId>>
historyVars == <<counted, spoiled>>
vars == <<kernelVars, serviceVars, tickVars, tableVars, historyVars>>

Bytes == 0..MaxBytes
Zero  == [u \in User |-> 0]

TypeOK ==
  /\ rule \in [User -> BOOLEAN] /\ installed \in [User -> BOOLEAN]
  /\ counter \in [User -> Bytes] /\ last \in [User -> Bytes]
  /\ pc \in {"idle", "next", "install", "read", "add"}
  /\ todo \subseteq User /\ cur \in User
  /\ reading \in Bytes
  /\ seen \in [User -> Bytes]
  /\ byUid \in [User -> Bytes] /\ byId \in [User -> 0..MaxFiles]
  /\ counted \in [User -> Bytes]
  /\ spoiled \in BOOLEAN
  /\ pc = "add" => reading > 0

Init ==
  /\ rule = [u \in User |-> FALSE] /\ installed = [u \in User |-> FALSE]
  /\ counter = Zero /\ last = Zero
  /\ pc = "idle" /\ todo = {} /\ cur \in User /\ reading = 0 /\ seen = Zero
  /\ byUid = Zero /\ byId = Zero
  /\ counted = Zero /\ spoiled = FALSE

-----------------------------------------------------------------------------
(* The kernel.                                                             *)

(* A socket of user u sends or receives a byte.                            *)
Transfer(u) ==
  /\ rule[u] /\ counted[u] < MaxBytes
  /\ counter' = [counter EXCEPT ![u] = @ + 1]
  /\ counted' = [counted EXCEPT ![u] = @ + 1]
  /\ UNCHANGED <<rule, serviceVars, tickVars, tableVars, spoiled>>

(* The ruleset is flushed behind the server's back.                        *)
Flush ==
  /\ "flush" \in Faults
  /\ rule' = [u \in User |-> FALSE] /\ counter' = Zero
  /\ spoiled' = TRUE
  /\ UNCHANGED <<serviceVars, tickVars, tableVars, counted>>

-----------------------------------------------------------------------------
(* SampleOnce.                                                             *)

(* The ticker fires; last is copied under the lock.                        *)
Tick ==
  /\ pc = "idle"
  /\ pc' = "next" /\ todo' = User /\ seen' = last
  /\ UNCHANGED <<kernelVars, serviceVars, cur, reading, tableVars, historyVars>>

TakeUser(u) ==
  /\ pc = "next" /\ u \in todo
  /\ cur' = u /\ todo' = todo \ {u}
  /\ pc' = IF installed[u] THEN "read" ELSE "install"
  /\ UNCHANGED <<kernelVars, serviceVars, reading, seen, tableVars, historyVars>>

Install ==
  /\ pc = "install"
  /\ rule' = [rule EXCEPT ![cur] = TRUE]
  /\ installed' = [installed EXCEPT ![cur] = TRUE]
  /\ pc' = "read"
  /\ UNCHANGED <<counter, last, todo, cur, reading, seen, tableVars, historyVars>>

(* Mutation: the first failure of nft ends the accounting (avail = false). *)
NftFailsForGood ==
  /\ pc \in {"install", "read"} /\ "nft" \in Faults
  /\ pc' = "off"
  /\ UNCHANGED <<kernelVars, serviceVars, todo, cur, reading, seen, tableVars,
                 historyVars>>

(* Install or Read fails: logged, the user is skipped until the next tick. *)
NftFails ==
  /\ pc \in {"install", "read"} /\ "nft" \in Faults
  /\ pc' = "next"
  /\ UNCHANGED <<kernelVars, serviceVars, todo, cur, reading, seen, tableVars,
                 historyVars>>

(* NftCLI.Read drops the `ok` of scanCounterBytes: a counter that is not   *)
(* there reads as 0.                                                       *)
Scan(u) == IF rule[u] THEN counter[u] ELSE 0

(* Mutation: a delta of nothing is written like any other.                 *)
ReadAddsNothing ==
  /\ pc = "read"
  /\ reading' = IF Scan(cur) >= seen[cur] THEN Scan(cur) - seen[cur] ELSE 0
  /\ pc' = "add"
  /\ seen' = [seen EXCEPT ![cur] = Scan(cur)]
  /\ UNCHANGED <<kernelVars, serviceVars, todo, cur, tableVars, historyVars>>

(* The delta against the last reading; a counter that went backwards gives *)
(* none, and the lower value is the next last reading.                     *)
Read ==
  /\ pc = "read"
  /\ LET delta == IF Scan(cur) >= seen[cur] THEN Scan(cur) - seen[cur] ELSE 0
     IN /\ reading' = delta
        /\ pc' = IF delta = 0 THEN "next" ELSE "add"
  /\ seen' = [seen EXCEPT ![cur] = Scan(cur)]
  /\ UNCHANGED <<kernelVars, serviceVars, todo, cur, tableVars, historyVars>>

(* Mutation: the row of the month is replaced.                             *)
AddReplaces ==
  /\ pc = "add"
  /\ byUid' = [byUid EXCEPT ![cur] = reading]
  /\ pc' = "next" /\ reading' = 0
  /\ UNCHANGED <<kernelVars, serviceVars, todo, cur, seen, byId, historyVars>>

Add ==
  /\ pc = "add"
  /\ byUid' = [byUid EXCEPT ![cur] = @ + reading]
  /\ pc' = "next" /\ reading' = 0
  /\ UNCHANGED <<kernelVars, serviceVars, todo, cur, seen, byId, historyVars>>

(* AddTraffic fails: logged, and the reading counts as seen all the same.  *)
AddFails ==
  /\ pc = "add" /\ "db" \in Faults
  /\ pc' = "next" /\ reading' = 0
  /\ spoiled' = TRUE
  /\ UNCHANGED <<kernelVars, serviceVars, todo, cur, seen, tableVars, counted>>

(* Mutation: the readings of the tick are not merged back.                 *)
TickEndsUnmerged ==
  /\ pc = "next" /\ todo = {}
  /\ pc' = "idle"
  /\ UNCHANGED <<kernelVars, serviceVars, todo, cur, reading, seen, tableVars,
                 historyVars>>

TickEnds ==
  /\ pc = "next" /\ todo = {}
  /\ last' = seen
  /\ pc' = "idle"
  /\ UNCHANGED <<kernelVars, installed, todo, cur, reading, seen, tableVars,
                 historyVars>>

-----------------------------------------------------------------------------
(* The handlers, and a crash.                                              *)

(* recordFileTraffic; if the write fails nothing is charged.               *)
FileTransfer(u) ==
  /\ byId[u] < MaxFiles
  /\ byId' = [byId EXCEPT ![u] = @ + 1]
  /\ UNCHANGED <<kernelVars, serviceVars, tickVars, byUid, historyVars>>

(* POST /api/admin/users/:id/reset-traffic.                                *)
ResetTraffic(u) ==
  /\ byId' = [byId EXCEPT ![u] = 0]
  /\ UNCHANGED <<kernelVars, serviceVars, tickVars, byUid, historyVars>>

(* What GET /api/admin/users/:id/usage, and so the Users page, shows: the  *)
(* sum of the rows whose user_id is the users.id of the path.              *)
Usage(u) == byId[u]

(* The container is restarted: a new network namespace without rules, and  *)
(* a Service without memory.                                               *)
Crash ==
  /\ "crash" \in Faults
  /\ rule' = [u \in User |-> FALSE] /\ counter' = Zero
  /\ installed' = [u \in User |-> FALSE] /\ last' = Zero
  /\ pc' = "idle" /\ todo' = {} /\ reading' = 0 /\ seen' = Zero
  /\ spoiled' = TRUE
  /\ UNCHANGED <<cur, tableVars, counted>>

-----------------------------------------------------------------------------
SampleOnce ==
  \/ Tick \/ (\E u \in User : TakeUser(u)) \/ Install \/ NftFails
  \/ Read \/ Add \/ AddFails \/ TickEnds

Next ==
  \/ SampleOnce
  \/ \E u \in User : Transfer(u) \/ FileTransfer(u) \/ ResetTraffic(u)
  \/ Flush \/ Crash

Spec == Init /\ [][Next]_vars

(* The ticker fires and the sampler runs; nft does not fail for ever for   *)
(* one user.                                                               *)
Fairness ==
  /\ WF_vars(SampleOnce)
  /\ \A u \in User : SF_vars(cur = u /\ Install) /\ SF_vars(cur = u /\ Read)

FairSpec == Spec /\ Fairness

-----------------------------------------------------------------------------
(* Correctness.                                                            *)

(* No byte is charged twice: whatever fails, is flushed or crashes between *)
(* a reading, its write and the merge of the readings, the sampler never   *)
(* charges more than the kernel counted.                                   *)
NeverOvercharged == \A u \in User : byUid[u] <= counted[u]

(* Nor is one lost: between two ticks the table holds exactly what has     *)
(* been read off the kernel, whoever the ticks had to skip, unless a       *)
(* flush, a crash or a refused write lost a sample.                        *)
NothingLost == pc = "idle" /\ ~spoiled => \A u \in User : byUid[u] = last[u]

(* Every byte is charged in the end, over ticks that had to skip the user, *)
(* unless a flush, a crash or a refused write lost a sample.               *)
EventuallyCharged ==
  \A u \in User, k \in 1..MaxBytes :
    counted[u] = k ~> byUid[u] >= k \/ spoiled

(* DEPLOY-TEST.md:64: "After some claude/web-file-manager activity ->      *)
(* admin -> Users -> traffic column shows bytes", and web/src/main.js:193: *)
(* "Your terminal and file-manager transfers are counted".                 *)
ActivityShows ==
  \A u \in User : counted[u] > 0 ~> Usage(u) > 0 \/ spoiled
=============================================================================
