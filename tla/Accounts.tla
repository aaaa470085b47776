------------------------------ MODULE Accounts ------------------------------
(***************************************************************************)
(* A user exists three times: as a row of the users table, as an account   *)
(* of the container's Linux, and as a home directory on a volume.  The     *)
(* admin handlers create and delete the three one after the other with no  *)
(* lock and no transaction around them; a server that boots tries to       *)
(* repair what a crash left half done.                                     *)
(***************************************************************************)
EXTENDS Integers, FiniteSets, FiniteSetsExt

CONSTANTS
  Name,        \* usernames
  BootAdmin,   \* the BOOTSTRAP_ADMIN_USER of the environment
  MaxId,       \* bound: rows ever inserted
  FirstUid,    \* 2000 in the code
  Req,         \* admin requests served at the same time
  None,
  Faults       \* which calls may fail: "dirs", "rm", "db"

ASSUME AccountsAssumption ==
  /\ BootAdmin \in Name
  /\ FirstUid \in Nat /\ MaxId \in Nat
  /\ None \notin Name \cup Int
  /\ Faults \subseteq {"dirs", "rm", "db"}

Id   == 1..MaxId
Uid  == FirstUid..(FirstUid + MaxId)
Role == {"admin", "user"}

VARIABLES
  phase,      \* of the server process
  left,       \* rows ensureUsersProvisioned still has to look at
  row,        \* does row id exist?
  rowName, rowUid, rowRole,   \* its columns, if it exists
  nextId,     \* AUTOINCREMENT: an id is never used again
  account,    \* /etc/passwd: the uid of an account, or None
  home,       \* the uid that owns /home/<name>/workspace, or None
  botched,    \* history: names whose ProvisionUserDirs failed in a creation
  pc, rid, name, uid   \* per request: position and local variables

linuxVars == <<account, home, botched>>
rowVars == <<row, rowName, rowUid, rowRole, nextId>>
reqVars == <<pc, rid, name, uid>>
vars == <<phase, left, rowVars, linuxVars, reqVars>>

(* The type invariant, with the UNIQUE constraints of schema.sql.          *)
TypeOK ==
  /\ phase \in {"down", "ensure", "serving"}
  /\ left \subseteq Id
  /\ row \in [Id -> BOOLEAN]
  /\ rowName \in [Id -> Name] /\ rowUid \in [Id -> Uid]
  /\ rowRole \in [Id -> Role]
  /\ nextId \in 1..(MaxId + 1)
  /\ account \in [Name -> Uid \cup {None}]
  /\ home \in [Name -> Uid \cup {None}]
  /\ botched \subseteq Name
  /\ pc \in [Req -> {"idle", "insert", "useradd", "dirs", "rollback",
                     "userdel", "rm", "delete"}]
  /\ rid \in [Req -> 0..MaxId]
  /\ name \in [Req -> Name] /\ uid \in [Req -> Uid]
  /\ \A i, j \in Id : row[i] /\ row[j] /\ i # j =>
       rowName[i] # rowName[j] /\ rowUid[i] # rowUid[j]

Init ==
  /\ phase = "down" /\ left = {}
  /\ row = [i \in Id |-> FALSE]
  /\ rowName = [i \in Id |-> BootAdmin]
  /\ rowUid = [i \in Id |-> FirstUid]
  /\ rowRole = [i \in Id |-> "user"]
  /\ nextId = 1
  /\ account = [n \in Name |-> None]
  /\ home = [n \in Name |-> None]
  /\ botched = {}
  /\ pc = [r \in Req |-> "idle"]
  /\ rid = [r \in Req |-> 0]
  /\ name = [r \in Req |-> BootAdmin]
  /\ uid = [r \in Req |-> FirstUid]

Rows == {i \in Id : row[i]}

(* AllocateUID: one more than the largest uid of a row.                    *)
AllocateUID == IF Rows = {} THEN FirstUid ELSE Max({rowUid[i] : i \in Rows}) + 1

At(r, c) == phase = "serving" /\ pc[r] = c

Goto(r, c) == pc' = [pc EXCEPT ![r] = c] /\ UNCHANGED <<rid, name, uid>>

Return(r) ==
  /\ pc' = [pc EXCEPT ![r] = "idle"]
  /\ rid' = [rid EXCEPT ![r] = 0]
  /\ name' = [name EXCEPT ![r] = BootAdmin]
  /\ uid' = [uid EXCEPT ![r] = FirstUid]

(* Mutation: no UNIQUE on uid.                                             *)
InsertSameUid(n, k, o) ==
  /\ \A i \in Rows : rowName[i] # n
  /\ row' = [row EXCEPT ![nextId] = TRUE]
  /\ rowName' = [rowName EXCEPT ![nextId] = n]
  /\ rowUid' = [rowUid EXCEPT ![nextId] = k]
  /\ rowRole' = [rowRole EXCEPT ![nextId] = o]
  /\ nextId' = nextId + 1

(* store.CreateUser, as long as the two UNIQUE columns allow it.           *)
Insert(n, k, o) ==
  /\ \A i \in Rows : rowName[i] # n /\ rowUid[i] # k
  /\ row' = [row EXCEPT ![nextId] = TRUE]
  /\ rowName' = [rowName EXCEPT ![nextId] = n]
  /\ rowUid' = [rowUid EXCEPT ![nextId] = k]
  /\ rowRole' = [rowRole EXCEPT ![nextId] = o]
  /\ nextId' = nextId + 1

(* DELETE FROM users WHERE id = i: nothing remains, the id is never reused *)
DeleteRow(i) ==
  /\ row' = [row EXCEPT ![i] = FALSE]
  /\ rowName' = [rowName EXCEPT ![i] = BootAdmin]
  /\ rowUid' = [rowUid EXCEPT ![i] = FirstUid]
  /\ rowRole' = [rowRole EXCEPT ![i] = "user"]
  /\ UNCHANGED nextId

(* useradd refuses a name or a uid that is in /etc/passwd.                 *)
CanAdd(n, k) == account[n] = None /\ \A m \in Name : account[m] # k

UserAdd(n, k) == account' = [account EXCEPT ![n] = k]

(* ProvisionUserDirs: mkdir -p, chown.                                     *)
ProvisionDirs(n, k) == home' = [home EXCEPT ![n] = k]

-----------------------------------------------------------------------------
(* POST /api/admin/users.                                                  *)

Create(r, n) ==
  /\ At(r, "idle") /\ nextId <= MaxId
  /\ pc' = [pc EXCEPT ![r] = "insert"]
  /\ name' = [name EXCEPT ![r] = n]
  /\ uid' = [uid EXCEPT ![r] = AllocateUID]
  /\ UNCHANGED <<phase, left, rowVars, linuxVars, rid>>

CreateRow(r, o) ==
  /\ At(r, "insert") /\ nextId <= MaxId
  /\ Insert(name[r], uid[r], o)
  /\ rid' = [rid EXCEPT ![r] = nextId]
  /\ pc' = [pc EXCEPT ![r] = "useradd"]
  /\ UNCHANGED <<phase, left, linuxVars, name, uid>>

(* The name is taken, or another request was quicker with the same uid.    *)
CreateRefused(r) ==
  /\ At(r, "insert")
  /\ Return(r)
  /\ UNCHANGED <<phase, left, rowVars, linuxVars>>

CreateAccount(r) ==
  /\ At(r, "useradd")
  /\ CanAdd(name[r], uid[r])
  /\ UserAdd(name[r], uid[r])
  /\ Goto(r, "dirs")
  /\ UNCHANGED <<phase, left, rowVars, home, botched>>

CreateAccountFails(r) ==
  /\ At(r, "useradd")
  /\ Goto(r, "rollback")
  /\ UNCHANGED <<phase, left, rowVars, linuxVars>>

CreateDirs(r) ==
  /\ At(r, "dirs")
  /\ ProvisionDirs(name[r], uid[r])
  /\ Return(r)
  /\ UNCHANGED <<phase, left, rowVars, account, botched>>

(* A mkdir, chown or symlink fails: the account stays.                     *)
CreateDirsFails(r) ==
  /\ At(r, "dirs") /\ "dirs" \in Faults
  /\ ProvisionDirs(name[r], uid[r]) \/ UNCHANGED home
  /\ botched' = botched \cup {name[r]}
  /\ Goto(r, "rollback")
  /\ UNCHANGED <<phase, left, rowVars, account>>

(* DELETE FROM users, its error not looked at.                             *)
CreateRollback(r) ==
  /\ At(r, "rollback")
  /\ DeleteRow(rid[r]) \/ ("db" \in Faults /\ UNCHANGED rowVars)
  /\ Return(r)
  /\ UNCHANGED <<phase, left, linuxVars>>

-----------------------------------------------------------------------------
(* DELETE /api/admin/users/:id.                                            *)

Delete(r, i) ==
  /\ At(r, "idle") /\ row[i]
  /\ pc' = [pc EXCEPT ![r] = "userdel"]
  /\ rid' = [rid EXCEPT ![r] = i]
  /\ name' = [name EXCEPT ![r] = rowName[i]]
  /\ UNCHANGED <<phase, left, rowVars, linuxVars, uid>>

(* Mutation: a failing userdel does not end the request.                   *)
UserDelIgnored(r) ==
  /\ At(r, "userdel")
  /\ account' = [account EXCEPT ![name[r]] = None] \/ UNCHANGED account
  /\ Goto(r, "rm")
  /\ UNCHANGED <<phase, left, rowVars, home, botched>>

UserDel(r) ==
  /\ At(r, "userdel")
  /\ account[name[r]] # None
  /\ account' = [account EXCEPT ![name[r]] = None]
  /\ Goto(r, "rm")
  /\ UNCHANGED <<phase, left, rowVars, home, botched>>

(* No such account, or it still has a process: 500.                        *)
UserDelFails(r) ==
  /\ At(r, "userdel")
  /\ Return(r)
  /\ UNCHANGED <<phase, left, rowVars, linuxVars>>

(* rm -rf of the home, its error dropped.                                  *)
RemoveHome(r) ==
  /\ At(r, "rm")
  /\ home' = [home EXCEPT ![name[r]] = None] \/ ("rm" \in Faults /\ UNCHANGED home)
  /\ Goto(r, "delete")
  /\ UNCHANGED <<phase, left, rowVars, account, botched>>

(* DELETE FROM users, its error dropped: 200 in any case.                  *)
DeleteUser(r) ==
  /\ At(r, "delete")
  /\ DeleteRow(rid[r]) \/ ("db" \in Faults /\ UNCHANGED rowVars)
  /\ Return(r)
  /\ UNCHANGED <<phase, left, linuxVars>>

-----------------------------------------------------------------------------
(* Crash, redeployment, boot.                                              *)

Crash ==
  /\ phase # "down"
  /\ phase' = "down" /\ left' = {}
  /\ pc' = [r \in Req |-> "idle"]
  /\ rid' = [r \in Req |-> 0]
  /\ name' = [r \in Req |-> BootAdmin]
  /\ uid' = [r \in Req |-> FirstUid]
  /\ UNCHANGED <<rowVars, linuxVars>>

(* docker compose up with a new image: the volumes of /home and /data      *)
(* survive, /etc/passwd does not.                                          *)
Redeploy ==
  /\ phase = "down"
  /\ account' = [n \in Name |-> None]
  /\ botched' = {}
  /\ UNCHANGED <<phase, left, rowVars, home, reqVars>>

(* BootstrapAdmin: without an admin row, insert one.  If that fails the    *)
(* server exits, and the container is started again.                       *)
Bootstrap ==
  /\ phase = "down"
  /\ IF \E i \in Rows : rowRole[i] = "admin"
     THEN UNCHANGED rowVars
     ELSE nextId <= MaxId /\ Insert(BootAdmin, AllocateUID, "admin")
  /\ phase' = "ensure"
  /\ left' = {i \in Id : row'[i]}
  /\ UNCHANGED <<linuxVars, reqVars>>

(* Mutation: an account that exists is taken for a provisioned user.       *)
EnsureSkips(i) ==
  /\ phase = "ensure" /\ i \in left /\ \A j \in left : i <= j
  /\ left' = left \ {i}
  /\ \/ /\ CanAdd(rowName[i], rowUid[i])
        /\ UserAdd(rowName[i], rowUid[i])
        /\ ProvisionDirs(rowName[i], rowUid[i])
     \/ ~CanAdd(rowName[i], rowUid[i]) /\ UNCHANGED <<account, home>>
  /\ UNCHANGED <<phase, rowVars, botched, reqVars>>

(* ensureUsersProvisioned, one row: useradd if there is no such account    *)
(* (and if that fails a warning), then the directories.                    *)
Ensure(i) ==
  /\ phase = "ensure" /\ i \in left /\ \A j \in left : i <= j
  /\ left' = left \ {i}
  /\ \/ /\ account[rowName[i]] # None
        /\ ProvisionDirs(rowName[i], rowUid[i])
        /\ UNCHANGED account
     \/ /\ CanAdd(rowName[i], rowUid[i])
        /\ UserAdd(rowName[i], rowUid[i])
        /\ ProvisionDirs(rowName[i], rowUid[i])
     \/ /\ account[rowName[i]] = None /\ ~CanAdd(rowName[i], rowUid[i])
        /\ UNCHANGED <<account, home>>
  /\ UNCHANGED <<phase, rowVars, botched, reqVars>>

Listen ==
  /\ phase = "ensure" /\ left = {}
  /\ phase' = "serving"
  /\ UNCHANGED <<left, rowVars, linuxVars, reqVars>>

-----------------------------------------------------------------------------
CreateRequest(r) ==
  \/ \E n \in Name : Create(r, n)
  \/ \E o \in Role : CreateRow(r, o)
  \/ CreateRefused(r) \/ CreateAccount(r) \/ CreateAccountFails(r)
  \/ CreateDirs(r) \/ CreateDirsFails(r) \/ CreateRollback(r)

DeleteRequest(r) ==
  \/ \E i \in Id : Delete(r, i)
  \/ UserDel(r) \/ UserDelFails(r) \/ RemoveHome(r) \/ DeleteUser(r)

Boot == Bootstrap \/ (\E i \in Id : Ensure(i)) \/ Listen

Next ==
  \/ \E r \in Req : CreateRequest(r) \/ DeleteRequest(r)
  \/ Crash \/ Redeploy \/ Boot

Spec == Init /\ [][Next]_vars

-----------------------------------------------------------------------------
(* Correctness.                                                            *)

(* An account never outlives or precedes its row, and has the row's uid:   *)
(* the handlers insert before useradd and delete after userdel, so that    *)
(* what a crash or a refused write leaves behind is a row without an       *)
(* account, which a boot can repair, and never an account nobody knows of; *)
(* except where ProvisionUserDirs failed and only the row was rolled back. *)
AccountHasRow ==
  \A n \in Name : account[n] # None /\ n \notin botched =>
    \E i \in Rows : rowName[i] = n /\ rowUid[i] = account[n]

Provisioned(i) ==
  account[rowName[i]] = rowUid[i] /\ home[rowName[i]] = rowUid[i]

(* When the server opens its port every row has its account and its home,  *)
(* under the row's uid, whatever requests a crash or a redeployment        *)
(* interrupted, unless an account was left behind by a failed creation.    *)
(* Of the boot this supposes two things the code does not ensure: that     *)
(* ProvisionUserDirs succeeds (main.go:127-129 logs its failure and goes   *)
(* on to listen) and that no row has the name of an account of the image's *)
(* own /etc/passwd, which Ensure takes for the user's whatever its uid.    *)
RepairedAtBoot ==
  phase = "ensure" /\ left = {} /\ botched = {} =>
    \A i \in Rows : Provisioned(i)
=============================================================================
