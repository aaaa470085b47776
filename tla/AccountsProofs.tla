--------------------------- MODULE AccountsProofs ---------------------------
(***************************************************************************)
(* Proofs about Accounts, for any names, requests, faults and number of    *)
(* rows: ids and uids stay unique, and no account is without its row.      *)
(*                                                                         *)
(* What makes AccountHasRow inductive is which of a row and an account a   *)
(* request can count on while others create and delete (RequestOK): at     *)
(* useradd the row is still there and has no account, and a row about to   *)
(* be deleted has none and gets none.                                      *)
(***************************************************************************)
EXTENDS Accounts, WellFoundedInduction, TLAPS

Creates(r) == pc[r] \in {"useradd", "dirs", "rollback"}
Deletes(r) == pc[r] \in {"userdel", "rm", "delete"}

(* A row's uid is below the next one that can be allocated.                *)
RowBounds ==
  \A i \in Id : row[i] => i < nextId /\ rowUid[i] <= FirstUid + nextId - 2

RowsOK ==
  /\ RowBounds
  /\ \A r \in Req : uid[r] <= FirstUid + nextId - 1

PhaseOK ==
  /\ phase # "serving" => \A r \in Req : pc[r] = "idle"
  /\ phase = "ensure" => left \subseteq Rows

NoneAdds(i) == \A r \in Req : pc[r] = "useradd" => rid[r] # i

RequestOK(r) ==
  /\ Creates(r) \/ Deletes(r) => /\ rid[r] \in 1..(nextId - 1) /\ rid[r] \in Id
                                 /\ row[rid[r]] => rowName[rid[r]] = name[r]
  /\ pc[r] = "useradd" /\ name[r] \notin botched =>
       row[rid[r]] /\ rowUid[rid[r]] = uid[r] /\ account[name[r]] = None
  /\ pc[r] \in {"rm", "delete", "rollback"} /\ row[rid[r]] /\ name[r] \notin botched =>
       account[name[r]] = None /\ NoneAdds(rid[r])

(* A creator's id is its own.                                              *)
OwnIds == \A r, q \in Req : r # q /\ Creates(r) /\ Creates(q) => rid[r] # rid[q]

IInv ==
  /\ TypeOK
  /\ RowsOK /\ PhaseOK /\ OwnIds
  /\ \A r \in Req : RequestOK(r)
  /\ AccountHasRow

-----------------------------------------------------------------------------
(* One more than the largest uid exists, and is not too large.             *)
LEMMA Allocated ==
  ASSUME TypeOK, RowsOK
  PROVE  /\ AllocateUID \in Nat
         /\ AllocateUID >= FirstUid /\ AllocateUID <= FirstUid + nextId - 1
<1> DEFINE T == {rowUid[i] : i \in Rows}
           B == FirstUid + nextId - 2
           D == {B - x : x \in T}
           Less == {p \in Nat \X Nat : p[1] < p[2]}
<1>1. nextId \in Nat /\ nextId >= 1 /\ FirstUid \in Nat
  BY AccountsAssumption DEF TypeOK
<1>2. CASE Rows = {}
  BY <1>1, <1>2 DEF AllocateUID
<1>3. CASE Rows # {}
  <2>1. \A x \in T : x \in Int /\ x >= FirstUid /\ x <= B
    BY <1>1 DEF TypeOK, RowsOK, RowBounds, Rows, Uid
  <2>2. D \subseteq Nat /\ D # {}
    <3>1. B \in Int /\ T # {}
      BY <1>1, <1>3
    <3> HIDE DEF T, B
    <3>2. \A x \in T : B - x \in Nat
      BY <2>1, <3>1
    <3> QED BY <3>1, <3>2
  <2>3. IsWellFoundedOn(Less, Nat)
    BY NatLessThanWellFounded DEF OpToRel
  <2>4. PICK d \in D : \A y \in D : ~(y < d)
    <3> HIDE DEF D
    <3>1. PICK d \in D : \A y \in D : ~(<<y, d>> \in Less)
      <4> HIDE DEF Less
      <4> QED BY <2>2, <2>3, WFMin
    <3> QED BY <2>2, <3>1
  <2>5. PICK m \in T : d = B - m
    OBVIOUS
  <2>6. \A y \in T : m >= y
    <3> SUFFICES ASSUME NEW y \in T PROVE m >= y
      OBVIOUS
    <3>1. B - y \in D /\ B \in Int /\ m \in Int /\ y \in Int
      BY <1>1, <2>1, <2>5
    <3>2. ~(B - y < B - m)
      BY <2>4, <2>5, <3>1
    <3> HIDE DEF T, B, D
    <3> QED BY <3>1, <3>2
  <2>7. Max(T) \in T
    BY <2>6 DEF Max
  <2>8. AllocateUID = Max(T) + 1
    BY <1>3 DEF AllocateUID
  <2> QED BY <1>1, <2>1, <2>7, <2>8
<1> QED BY <1>2, <1>3

(* The values a returning request and a deleted row fall back to.         *)
LEMMA Defaults ==
  ASSUME TypeOK
  PROVE  /\ FirstUid \in Uid /\ BootAdmin \in Name /\ "user" \in Role /\ 0 \in 0..MaxId
         /\ FirstUid \in Nat /\ nextId \in Nat /\ nextId >= 1
         /\ FirstUid <= FirstUid + nextId - 1 /\ \A n \in Name : n # None
         /\ None \notin Uid
BY AccountsAssumption DEF TypeOK, Uid, Role

-----------------------------------------------------------------------------
(* The table.                                                              *)

RowType ==
  /\ row \in [Id -> BOOLEAN]
  /\ rowName \in [Id -> Name] /\ rowUid \in [Id -> Uid] /\ rowRole \in [Id -> Role]
  /\ nextId \in 1..(MaxId + 1)
  /\ \A i, j \in Id : row[i] /\ row[j] /\ i # j =>
       rowName[i] # rowName[j] /\ rowUid[i] # rowUid[j]

(* The other half of the type invariant.                                   *)
RestType ==
  /\ phase \in {"down", "ensure", "serving"}
  /\ left \subseteq Id
  /\ account \in [Name -> Uid \cup {None}]
  /\ home \in [Name -> Uid \cup {None}]
  /\ botched \subseteq Name
  /\ pc \in [Req -> {"idle", "insert", "useradd", "dirs", "rollback",
                     "userdel", "rm", "delete"}]
  /\ rid \in [Req -> 0..MaxId]
  /\ name \in [Req -> Name] /\ uid \in [Req -> Uid]

(* The type invariant is its two halves, before and after a step.          *)
LEMMA Types == TypeOK <=> RowType /\ RestType
BY DEF TypeOK, RowType, RestType

LEMMA TypesNext == TypeOK' <=> RowType' /\ RestType'
BY DEF TypeOK, RowType, RestType

(* A row is added under an id that no row and no request has.              *)
LEMMA Inserted ==
  ASSUME TypeOK, RowsOK, nextId <= MaxId, NEW n \in Name, NEW k \in Int, NEW o \in Role,
         FirstUid <= k, k <= FirstUid + nextId - 1, Insert(n, k, o)
  PROVE  /\ nextId \in Id /\ nextId' = nextId + 1 /\ ~row[nextId]
         /\ row'[nextId] /\ rowName'[nextId] = n /\ rowUid'[nextId] = k
         /\ \A i \in Id : i # nextId => /\ row'[i] = row[i] /\ rowName'[i] = rowName[i]
                                       /\ rowUid'[i] = rowUid[i]
         /\ \A i \in Id : row[i] => rowName[i] # n
         /\ RowType' /\ RowBounds'
<1>1. nextId \in Id /\ nextId \in Nat /\ MaxId \in Nat /\ FirstUid \in Nat /\ k \in Uid
  BY AccountsAssumption DEF TypeOK, Id, Uid
<1>2. ~row[nextId]
  BY <1>1 DEF RowsOK, RowBounds
<1>3. nextId' = nextId + 1 /\ nextId' \in 1..(MaxId + 1)
  BY <1>1 DEF Insert, Id
<1>4. row' \in [Id -> BOOLEAN] /\ rowName' \in [Id -> Name] /\ rowUid' \in [Id -> Uid]
      /\ rowRole' \in [Id -> Role]
  BY <1>1 DEF TypeOK, Insert
<1>5. /\ row'[nextId] /\ rowName'[nextId] = n /\ rowUid'[nextId] = k
      /\ \A i \in Id : i # nextId => /\ row'[i] = row[i] /\ rowName'[i] = rowName[i]
                                    /\ rowUid'[i] = rowUid[i]
  BY <1>1 DEF TypeOK, Insert
<1>6. \A i \in Id : row[i] => rowName[i] # n /\ rowUid[i] # k
  BY DEF Insert, Rows
<1>7. \A i, j \in Id : row'[i] /\ row'[j] /\ i # j =>
        rowName'[i] # rowName'[j] /\ rowUid'[i] # rowUid'[j]
  BY <1>5, <1>6 DEF TypeOK
<1>8. \A i \in Id : row'[i] => i < nextId' /\ rowUid'[i] <= FirstUid + nextId' - 2
  <2> SUFFICES ASSUME NEW i \in Id, row'[i]
               PROVE  i < nextId' /\ rowUid'[i] <= FirstUid + nextId' - 2
    OBVIOUS
  <2>1. CASE i = nextId
    BY <1>1, <1>3, <1>5, <2>1
  <2>2. CASE i # nextId
    <3>1. row[i] /\ rowUid'[i] = rowUid[i]
      BY <1>5, <2>2
    <3>3. i \in Int /\ rowUid[i] \in Int
      BY <1>1 DEF TypeOK, Id, Uid
    <3>2. i < nextId /\ rowUid[i] <= FirstUid + nextId - 2
      BY <3>1 DEF RowsOK, RowBounds
    <3> QED BY <1>1, <1>3, <3>1, <3>2, <3>3
  <2> QED BY <2>1, <2>2
<1> QED BY <1>1, <1>2, <1>3, <1>4, <1>5, <1>6, <1>7, <1>8 DEF RowType, RowBounds

(* DELETE of one row leaves the others and the bounds as they are.         *)
LEMMA Deleted ==
  ASSUME TypeOK, RowsOK, NEW d \in Id, DeleteRow(d)
  PROVE  /\ ~row'[d]
         /\ \A i \in Id : i # d => /\ row'[i] = row[i] /\ rowName'[i] = rowName[i]
                               /\ rowUid'[i] = rowUid[i]
         /\ RowType' /\ RowBounds'
<1>1. FirstUid \in Uid /\ BootAdmin \in Name /\ "user" \in Role
  BY AccountsAssumption DEF Uid, Role
<1>2. /\ ~row'[d]
      /\ \A i \in Id : i # d => /\ row'[i] = row[i] /\ rowName'[i] = rowName[i]
                            /\ rowUid'[i] = rowUid[i]
  BY DEF DeleteRow, TypeOK
<1>3. RowType'
  BY <1>1, <1>2 DEF DeleteRow, TypeOK, RowType
<1>4. RowBounds'
  BY <1>2 DEF RowsOK, RowBounds, DeleteRow
<1> QED BY <1>2, <1>3, <1>4

-----------------------------------------------------------------------------
(* Steps that leave the table as it is.                                    *)

(* The handlers' commands: useradd, mkdir and chown, userdel, rm.          *)
LEMMA RequestNext ==
  ASSUME IInv, NEW r \in Req
  PROVE  /\ CreateRefused(r) \/ CreateAccount(r) \/ CreateAccountFails(r) => IInv'
         /\ CreateDirs(r) \/ CreateDirsFails(r) => IInv'
         /\ UserDel(r) \/ UserDelFails(r) \/ RemoveHome(r) => IInv'
<1> USE Defaults
<1>1. ASSUME CreateRefused(r) PROVE IInv'
  <2>1. TypeOK'
    BY <1>1 DEF IInv, TypeOK, CreateRefused, At, Return, rowVars, linuxVars
  <2>2. RowsOK' /\ PhaseOK' /\ OwnIds'
    BY <1>1 DEF IInv, TypeOK, RowsOK, RowBounds, PhaseOK, OwnIds, Creates, Rows,
                CreateRefused, At, Return, rowVars, linuxVars
  <2>3. ASSUME NEW q \in Req PROVE RequestOK(q)'
    BY <1>1 DEF IInv, TypeOK, RequestOK, Creates, Deletes, NoneAdds, CreateRefused, At,
                Return, rowVars, linuxVars
  <2>4. AccountHasRow'
    BY <1>1 DEF IInv, TypeOK, AccountHasRow, Rows, CreateRefused, At, Return, rowVars,
                linuxVars
  <2> QED BY <2>1, <2>2, <2>3, <2>4 DEF IInv
<1>2. ASSUME CreateAccount(r) PROVE IInv'
  <2>1. TypeOK'
    BY <1>2 DEF IInv, TypeOK, CreateAccount, At, CanAdd, UserAdd, Goto, rowVars
  <2>2. RowsOK' /\ PhaseOK' /\ OwnIds'
    BY <1>2 DEF IInv, TypeOK, RowsOK, RowBounds, PhaseOK, OwnIds, Creates, Rows,
                CreateAccount, At, CanAdd, UserAdd, Goto, rowVars
  <2>3. /\ account' = [account EXCEPT ![name[r]] = uid[r]]
        /\ pc' = [pc EXCEPT ![r] = "dirs"] /\ pc[r] = "useradd"
        /\ name[r] \in Name /\ uid[r] \in Uid
        /\ UNCHANGED <<rid, name, uid, row, rowName, rowUid, nextId, botched>>
    BY <1>2 DEF IInv, TypeOK, CreateAccount, At, UserAdd, Goto, rowVars
  <2>4. name[r] \notin botched =>
          rid[r] \in Id /\ row[rid[r]] /\ rowUid[rid[r]] = uid[r] /\ rowName[rid[r]] = name[r]
    BY <2>3 DEF IInv, RequestOK, Creates
  <2>5. ASSUME NEW q \in Req PROVE RequestOK(q)'
    <3>1. ASSUME q # r, name[q] = name[r], name[r] \notin botched
          PROVE  pc[q] # "useradd"
                 /\ ~(pc[q] \in {"rm", "delete", "rollback"} /\ row[rid[q]])
      <4>1. Creates(q) \/ Deletes(q) => rid[q] \in Id /\ (row[rid[q]] => rowName[rid[q]] = name[q])
        BY DEF IInv, RequestOK
      <4>2. ASSUME rid[q] \in Id, row[rid[q]], rowName[rid[q]] = name[q] PROVE rid[q] = rid[r]
        BY <2>4, <3>1, <4>2 DEF IInv, TypeOK
      <4>3. pc[q] # "useradd"
        BY <2>3, <3>1, <4>1, <4>2 DEF IInv, RequestOK, OwnIds, Creates
      <4>4. ASSUME pc[q] \in {"rm", "delete", "rollback"}, row[rid[q]] PROVE FALSE
        BY <2>3, <3>1, <4>1, <4>2, <4>4 DEF IInv, RequestOK, NoneAdds, Creates, Deletes
      <4> QED BY <4>3, <4>4
    <3>2. \A i : NoneAdds(i) => NoneAdds(i)'
      BY <2>3 DEF NoneAdds, IInv, TypeOK
    <3>3. RequestOK(q)
      BY DEF IInv
    <3>4. CASE q = r
      BY <2>3, <3>3, <3>4 DEF RequestOK, Creates, Deletes, IInv, TypeOK
    <3>5. CASE q # r
      <4>1. pc'[q] = pc[q] /\ (name[q] # name[r] => account'[name[q]] = account[name[q]])
        BY <2>3, <3>5 DEF IInv, TypeOK
      <4> QED BY <2>3, <3>1, <3>2, <3>3, <3>5, <4>1 DEF RequestOK, Creates, Deletes
    <3> QED BY <3>4, <3>5
  <2>6. AccountHasRow'
    <3> SUFFICES ASSUME NEW n \in Name, account'[n] # None, n \notin botched
                 PROVE  \E i \in Id : row[i] /\ rowName[i] = n /\ rowUid[i] = account'[n]
      BY <2>3 DEF AccountHasRow, Rows
    <3>1. CASE n = name[r]
      BY <2>3, <2>4, <3>1 DEF IInv, TypeOK
    <3>2. CASE n # name[r]
      BY <2>3, <3>2 DEF IInv, TypeOK, AccountHasRow, Rows
    <3> QED BY <3>1, <3>2
  <2> QED BY <2>1, <2>2, <2>5, <2>6 DEF IInv
<1>3. ASSUME CreateAccountFails(r) PROVE IInv'
  <2>1. TypeOK'
    BY <1>3 DEF IInv, TypeOK, CreateAccountFails, At, Goto, rowVars, linuxVars
  <2>2. RowsOK' /\ PhaseOK' /\ OwnIds'
    BY <1>3 DEF IInv, TypeOK, RowsOK, RowBounds, PhaseOK, OwnIds, Creates, Rows,
                CreateAccountFails, At, Goto, rowVars, linuxVars
  <2>3. ASSUME NEW q \in Req PROVE RequestOK(q)'
    BY <1>3 DEF IInv, TypeOK, RequestOK, OwnIds, Creates, Deletes, NoneAdds,
                CreateAccountFails, At, Goto, rowVars, linuxVars
  <2>4. AccountHasRow'
    BY <1>3 DEF IInv, TypeOK, AccountHasRow, Rows, CreateAccountFails, At, Goto,
                rowVars, linuxVars
  <2> QED BY <2>1, <2>2, <2>3, <2>4 DEF IInv
<1>4. ASSUME CreateDirs(r) PROVE IInv'
  <2>1. TypeOK'
    BY <1>4 DEF IInv, TypeOK, CreateDirs, At, ProvisionDirs, Return, rowVars
  <2>2. RowsOK' /\ PhaseOK' /\ OwnIds'
    BY <1>4 DEF IInv, TypeOK, RowsOK, RowBounds, PhaseOK, OwnIds, Creates, Rows,
                CreateDirs, At, ProvisionDirs, Return, rowVars
  <2>3. ASSUME NEW q \in Req PROVE RequestOK(q)'
    BY <1>4 DEF IInv, TypeOK, RequestOK, Creates, Deletes, NoneAdds, CreateDirs, At,
                ProvisionDirs, Return, rowVars
  <2>4. AccountHasRow'
    BY <1>4 DEF IInv, TypeOK, AccountHasRow, Rows, CreateDirs, At, ProvisionDirs,
                Return, rowVars
  <2> QED BY <2>1, <2>2, <2>3, <2>4 DEF IInv
<1>5. ASSUME CreateDirsFails(r) PROVE IInv'
  <2>1. TypeOK'
    BY <1>5 DEF IInv, TypeOK, CreateDirsFails, At, ProvisionDirs, Goto, rowVars
  <2>2. RowsOK' /\ PhaseOK' /\ OwnIds'
    BY <1>5 DEF IInv, TypeOK, RowsOK, RowBounds, PhaseOK, OwnIds, Creates, Rows,
                CreateDirsFails, At, ProvisionDirs, Goto, rowVars
  <2>3. ASSUME NEW q \in Req PROVE RequestOK(q)'
    BY <1>5 DEF IInv, TypeOK, RequestOK, Creates, Deletes, NoneAdds, CreateDirsFails,
                At, ProvisionDirs, Goto, rowVars
  <2>4. AccountHasRow'
    BY <1>5 DEF IInv, TypeOK, AccountHasRow, Rows, CreateDirsFails, At, ProvisionDirs,
                Goto, rowVars
  <2> QED BY <2>1, <2>2, <2>3, <2>4 DEF IInv
<1>6. ASSUME UserDel(r) PROVE IInv'
  <2>1. TypeOK'
    BY <1>6 DEF IInv, TypeOK, UserDel, At, Goto, rowVars
  <2>2. RowsOK' /\ PhaseOK' /\ OwnIds'
    BY <1>6 DEF IInv, TypeOK, RowsOK, RowBounds, PhaseOK, OwnIds, Creates, Rows,
                UserDel, At, Goto, rowVars
  <2>3. ASSUME NEW q \in Req PROVE RequestOK(q)'
    BY <1>6 DEF IInv, TypeOK, RequestOK, Creates, Deletes, NoneAdds, UserDel, At, Goto,
                rowVars
  <2>4. AccountHasRow'
    BY <1>6 DEF IInv, TypeOK, AccountHasRow, Rows, UserDel, At, Goto, rowVars
  <2> QED BY <2>1, <2>2, <2>3, <2>4 DEF IInv
<1>7. ASSUME UserDelFails(r) PROVE IInv'
  <2>1. TypeOK'
    BY <1>7 DEF IInv, TypeOK, UserDelFails, At, Return, rowVars, linuxVars
  <2>2. RowsOK' /\ PhaseOK' /\ OwnIds'
    BY <1>7 DEF IInv, TypeOK, RowsOK, RowBounds, PhaseOK, OwnIds, Creates, Rows,
                UserDelFails, At, Return, rowVars, linuxVars
  <2>3. ASSUME NEW q \in Req PROVE RequestOK(q)'
    BY <1>7 DEF IInv, TypeOK, RequestOK, Creates, Deletes, NoneAdds, UserDelFails, At,
                Return, rowVars, linuxVars
  <2>4. AccountHasRow'
    BY <1>7 DEF IInv, TypeOK, AccountHasRow, Rows, UserDelFails, At, Return, rowVars,
                linuxVars
  <2> QED BY <2>1, <2>2, <2>3, <2>4 DEF IInv
<1>8. ASSUME RemoveHome(r) PROVE IInv'
  <2>1. TypeOK'
    BY <1>8 DEF IInv, TypeOK, RemoveHome, At, Goto, rowVars
  <2>2. RowsOK' /\ PhaseOK' /\ OwnIds'
    BY <1>8 DEF IInv, TypeOK, RowsOK, RowBounds, PhaseOK, OwnIds, Creates, Rows,
                RemoveHome, At, Goto, rowVars
  <2>3. ASSUME NEW q \in Req PROVE RequestOK(q)'
    BY <1>8 DEF IInv, TypeOK, RequestOK, Creates, Deletes, NoneAdds, RemoveHome, At,
                Goto, rowVars
  <2>4. AccountHasRow'
    BY <1>8 DEF IInv, TypeOK, AccountHasRow, Rows, RemoveHome, At, Goto, rowVars
  <2> QED BY <2>1, <2>2, <2>3, <2>4 DEF IInv
<1> QED BY <1>1, <1>2, <1>3, <1>4, <1>5, <1>6, <1>7, <1>8

-----------------------------------------------------------------------------
(* Steps of requests that read or change the table.                        *)

(* AllocateUID reads the table before the INSERT.                          *)
LEMMA CreateNext ==
  ASSUME IInv, NEW r \in Req, NEW n \in Name, Create(r, n)
  PROVE  IInv'
<1>1. AllocateUID \in Uid /\ AllocateUID <= FirstUid + nextId - 1
  BY Allocated, AccountsAssumption DEF IInv, TypeOK, Uid
<1>2. TypeOK'
  BY <1>1 DEF IInv, TypeOK, Create, At, rowVars, linuxVars
<1>3. RowsOK' /\ PhaseOK' /\ OwnIds'
  BY <1>1 DEF IInv, TypeOK, RowsOK, RowBounds, PhaseOK, OwnIds, Creates, Rows, Create, At,
              rowVars, linuxVars
<1>4. ASSUME NEW q \in Req PROVE RequestOK(q)'
  BY DEF IInv, TypeOK, RequestOK, Creates, Deletes, NoneAdds, Create, At, rowVars, linuxVars
<1>5. AccountHasRow'
  BY DEF IInv, AccountHasRow, Rows, Create, rowVars, linuxVars
<1> QED BY <1>2, <1>3, <1>4, <1>5 DEF IInv

(* The INSERT: the new row has no account yet, for its name had no row.    *)
LEMMA CreateRowNext ==
  ASSUME IInv, NEW r \in Req, NEW o \in Role, CreateRow(r, o)
  PROVE  IInv'
<1>0. TypeOK
  BY DEF IInv
<1> USE Defaults
<1>1. /\ pc[r] = "insert" /\ phase = "serving" /\ nextId <= MaxId
      /\ Insert(name[r], uid[r], o)
      /\ rid' = [rid EXCEPT ![r] = nextId] /\ pc' = [pc EXCEPT ![r] = "useradd"]
      /\ UNCHANGED <<phase, left, account, home, botched, name, uid>>
      /\ name[r] \in Name /\ uid[r] \in Uid
  BY DEF CreateRow, At, linuxVars, IInv, TypeOK
<1>2. uid[r] \in Int /\ FirstUid <= uid[r] /\ uid[r] <= FirstUid + nextId - 1
  BY <1>1 DEF IInv, RowsOK, Uid
<1>3. /\ nextId \in Id /\ nextId' = nextId + 1 /\ ~row[nextId]
      /\ row'[nextId] /\ rowName'[nextId] = name[r] /\ rowUid'[nextId] = uid[r]
      /\ \A i \in Id : i # nextId => /\ row'[i] = row[i] /\ rowName'[i] = rowName[i]
                                    /\ rowUid'[i] = rowUid[i]
      /\ \A i \in Id : row[i] => rowName[i] # name[r]
      /\ RowType' /\ RowBounds'
  BY <1>1, <1>2, Inserted DEF IInv
<1>4. TypeOK'
  <2>1. nextId \in 0..MaxId
    BY <1>3 DEF Id
  <2>2. RestType'
    BY <1>1, <2>1, Types DEF IInv, RestType
  <2> QED BY <1>3, <2>2, TypesNext
<1>5. RowsOK' /\ PhaseOK'
  <2>1. \A q \in Req : uid[q] \in Int /\ uid[q] <= FirstUid + nextId - 1
    BY DEF IInv, RowsOK, TypeOK, Uid
  <2>2. \A q \in Req : uid'[q] <= FirstUid + nextId' - 1
    BY <1>0, <1>1, <1>3, <2>1
  <2> QED BY <1>1, <1>3, <2>2 DEF RowsOK, PhaseOK
<1>6. ASSUME NEW q \in Req, q # r
      PROVE  /\ pc'[q] = pc[q] /\ rid'[q] = rid[q]
             /\ Creates(q) \/ Deletes(q) => rid[q] # nextId
  BY <1>1, <1>6 DEF IInv, TypeOK, RequestOK
<1>7. pc'[r] = "useradd" /\ rid'[r] = nextId
  BY <1>1 DEF IInv, TypeOK
<1>8. OwnIds'
  BY <1>6, <1>7 DEF IInv, OwnIds, Creates, Deletes
<1>9. name[r] \notin botched => account[name[r]] = None
  BY <1>1, <1>3 DEF IInv, AccountHasRow, Rows
<1>10. ASSUME NEW q \in Req PROVE RequestOK(q)'
  <2>1. RequestOK(q) /\ RequestOK(r)
    BY DEF IInv
  <2>2. CASE q = r
    <3>1. nextId \in 1..(nextId' - 1)
      BY <1>0, <1>3
    <3> QED BY <1>1, <1>3, <1>7, <1>9, <2>2, <3>1 DEF RequestOK, Creates, Deletes
  <2>3. CASE q # r
    <3>1. rid[q] \in 1..(nextId - 1) => rid[q] \in 1..(nextId' - 1)
      BY <1>0, <1>3
    <3>2. rid[q] # nextId /\ NoneAdds(rid[q]) => NoneAdds(rid[q])'
      BY <1>6, <1>7, <2>3 DEF NoneAdds
    <3> QED BY <1>1, <1>3, <1>6, <2>1, <2>3, <3>1, <3>2 DEF RequestOK, Creates, Deletes
  <2> QED BY <2>2, <2>3
<1>11. AccountHasRow'
  BY <1>1, <1>3 DEF IInv, AccountHasRow, Rows
<1> QED BY <1>4, <1>5, <1>8, <1>10, <1>11 DEF IInv

(* DELETE of the row of a request that is at the end of its work.          *)
LEMMA DeleteRowNext ==
  ASSUME IInv, NEW r \in Req, pc[r] \in {"rollback", "delete"}, phase = "serving",
         DeleteRow(rid[r]) \/ UNCHANGED rowVars, Return(r),
         UNCHANGED <<phase, left, linuxVars>>
  PROVE  IInv'
<1> USE Defaults
<1>1. /\ rid[r] \in Id /\ (row[rid[r]] => rowName[rid[r]] = name[r])
      /\ row[rid[r]] /\ name[r] \notin botched =>
           account[name[r]] = None /\ NoneAdds(rid[r])
  BY DEF IInv, RequestOK, Creates, Deletes
<1>2. /\ UNCHANGED <<phase, left, account, home, botched, nextId>>
      /\ pc' = [pc EXCEPT ![r] = "idle"] /\ rid' = [rid EXCEPT ![r] = 0]
      /\ name' = [name EXCEPT ![r] = BootAdmin] /\ uid' = [uid EXCEPT ![r] = FirstUid]
  BY DEF Return, linuxVars, rowVars, DeleteRow
<1>3. /\ \A i \in Id : i # rid[r] => /\ row'[i] = row[i] /\ rowName'[i] = rowName[i]
                                    /\ rowUid'[i] = rowUid[i]
      /\ ~row'[rid[r]] \/ UNCHANGED <<row, rowName, rowUid>>
      /\ RowType' /\ RowBounds'
  <2>1. CASE DeleteRow(rid[r])
    BY <1>1, <2>1, Deleted DEF IInv
  <2>2. CASE UNCHANGED rowVars
    BY <2>2, Types DEF IInv, RowsOK, RowBounds, RowType, rowVars
  <2> QED BY <2>1, <2>2
<1>4. TypeOK'
  <2>1. RestType'
    BY <1>2, Types DEF IInv, RestType
  <2> QED BY <1>3, <2>1, TypesNext
<1>5. RowsOK' /\ PhaseOK' /\ OwnIds'
  BY <1>2, <1>3 DEF IInv, TypeOK, RowsOK, PhaseOK, OwnIds, Creates
<1>6. ASSUME NEW q \in Req PROVE RequestOK(q)'
  <2>1. CASE q = r
    BY <1>2, <2>1 DEF RequestOK, Creates, Deletes, IInv, TypeOK
  <2>2. CASE q # r
    <3>1. pc'[q] = pc[q] /\ rid'[q] = rid[q] /\ name'[q] = name[q] /\ uid'[q] = uid[q]
      BY <1>2, <2>2 DEF IInv, TypeOK
    <3>2. \A i : NoneAdds(i) => NoneAdds(i)'
      BY <1>2 DEF NoneAdds, IInv, TypeOK
    <3>3. RequestOK(q)
      BY DEF IInv
    <3>4. row'[rid[q]] /\ rid[q] \in Id => row[rid[q]] /\ rowName'[rid[q]] = rowName[rid[q]]
      BY <1>3
    <3>5. pc[q] = "useradd" /\ name[q] \notin botched =>
            row'[rid[q]] /\ rowUid'[rid[q]] = rowUid[rid[q]]
      BY <1>1, <1>3, <3>3 DEF RequestOK, NoneAdds, Creates
    <3> QED BY <1>2, <3>1, <3>2, <3>3, <3>4, <3>5 DEF RequestOK, Creates, Deletes
  <2> QED BY <2>1, <2>2
<1>7. AccountHasRow'
  <2> SUFFICES ASSUME NEW n \in Name, account[n] # None, n \notin botched
               PROVE  \E i \in Id : row'[i] /\ rowName'[i] = n /\ rowUid'[i] = account[n]
    BY <1>2 DEF AccountHasRow, Rows
  <2>1. PICK i \in Id : row[i] /\ rowName[i] = n /\ rowUid[i] = account[n]
    BY DEF IInv, AccountHasRow, Rows
  <2>2. i # rid[r] \/ UNCHANGED <<row, rowName, rowUid>>
    BY <1>1, <1>3, <2>1
  <2> QED BY <1>3, <2>1, <2>2
<1> QED BY <1>4, <1>5, <1>6, <1>7 DEF IInv

(* A deletion looks its row up.                                            *)
LEMMA DeleteNext ==
  ASSUME IInv, NEW r \in Req, NEW i \in Id, Delete(r, i)
  PROVE  IInv'
<1>1. i \in 1..(nextId - 1) /\ i \in 0..MaxId /\ row[i] /\ rowName[i] \in Name
  BY AccountsAssumption DEF IInv, TypeOK, RowsOK, RowBounds, Delete, Id
<1>2. TypeOK'
  BY <1>1 DEF IInv, TypeOK, Delete, At, rowVars, linuxVars
<1>3. RowsOK' /\ PhaseOK' /\ OwnIds'
  BY <1>1 DEF IInv, TypeOK, RowsOK, RowBounds, PhaseOK, OwnIds, Creates, Rows, Delete, At,
              rowVars, linuxVars
<1>4. ASSUME NEW q \in Req PROVE RequestOK(q)'
  BY <1>1 DEF IInv, TypeOK, RequestOK, Creates, Deletes, NoneAdds, Delete, At, rowVars,
              linuxVars
<1>5. AccountHasRow'
  BY DEF IInv, AccountHasRow, Rows, Delete, rowVars, linuxVars
<1> QED BY <1>2, <1>3, <1>4, <1>5 DEF IInv

-----------------------------------------------------------------------------
(* Crash and boot.                                                         *)

(* No request survives a crash; a boot adds accounts of rows only.         *)
LEMMA SystemNext ==
  ASSUME IInv, Crash \/ Redeploy \/ Listen \/ \E i \in Id : Ensure(i)
  PROVE  IInv'
<1> USE Defaults
<1>1. TypeOK /\ RowsOK /\ UNCHANGED rowVars
  BY DEF IInv, Crash, Redeploy, Listen, Ensure
<1>2. RowType' /\ RowBounds'
  BY <1>1, Types DEF RowType, RowsOK, RowBounds, rowVars
<1>3. CASE Crash
  <2>1. TypeOK'
    <3>1. RestType'
      BY <1>1, <1>3, Types DEF RestType, Crash, linuxVars
    <3> QED BY <1>2, <3>1, TypesNext
  <2>2. RowsOK' /\ PhaseOK' /\ OwnIds' /\ \A q \in Req : RequestOK(q)'
    BY <1>1, <1>2, <1>3 DEF RowsOK, PhaseOK, OwnIds, RequestOK, Creates, Deletes, Crash,
                            rowVars
  <2>3. AccountHasRow'
    BY <1>3 DEF IInv, AccountHasRow, Rows, Crash, linuxVars, rowVars
  <2> QED BY <2>1, <2>2, <2>3 DEF IInv
<1>4. ASSUME ~Crash
      PROVE /\ phase # "serving" /\ UNCHANGED reqVars
            /\ \A q \in Req : pc[q] = "idle"
  BY <1>4 DEF IInv, PhaseOK, Redeploy, Listen, Ensure
<1>5. ASSUME ~Crash, phase' = "ensure" => left' \subseteq Rows, TypeOK', AccountHasRow'
      PROVE  IInv'
  BY <1>1, <1>2, <1>4, <1>5 DEF IInv, RowsOK, PhaseOK, OwnIds, RequestOK, Creates, Deletes,
                               reqVars, rowVars, Rows
<1>6. CASE Redeploy /\ ~Crash
  <2>1. RestType'
    BY <1>1, <1>6, Types DEF RestType, Redeploy, reqVars
  <2>2. AccountHasRow'
    BY <1>6 DEF Redeploy, AccountHasRow
  <2> QED BY <1>2, <1>5, <1>6, <2>1, <2>2, TypesNext DEF Redeploy
<1>7. CASE Listen /\ ~Crash
  <2>1. RestType'
    BY <1>1, <1>7, Types DEF RestType, Listen, reqVars, linuxVars
  <2>2. AccountHasRow'
    BY <1>7 DEF IInv, AccountHasRow, Rows, Listen, linuxVars, rowVars
  <2> QED BY <1>2, <1>5, <1>7, <2>1, <2>2, TypesNext DEF Listen
<1>8. ASSUME NEW i \in Id, Ensure(i), ~Crash PROVE IInv'
  <2>1. i \in Rows /\ left' \subseteq Rows /\ left \subseteq Id
    BY <1>8 DEF Ensure, IInv, PhaseOK, TypeOK
  <2>2. rowName[i] \in Name /\ rowUid[i] \in Uid
    BY <1>1 DEF TypeOK
  <2>3. /\ \/ account' = [account EXCEPT ![rowName[i]] = rowUid[i]]
           \/ UNCHANGED account
        /\ \/ home' = [home EXCEPT ![rowName[i]] = rowUid[i]]
           \/ UNCHANGED home
        /\ UNCHANGED <<phase, botched, reqVars>> /\ left' \subseteq left
    BY <1>8 DEF Ensure, UserAdd, ProvisionDirs
  <2>4. RestType'
    BY <1>1, <2>1, <2>2, <2>3, Types DEF RestType, reqVars
  <2>5. AccountHasRow'
    <3> SUFFICES ASSUME NEW n \in Name, account'[n] # None, n \notin botched
                 PROVE  \E j \in Id : row[j] /\ rowName[j] = n /\ rowUid[j] = account'[n]
      BY <1>1, <2>3 DEF AccountHasRow, Rows, rowVars
    <3>1. CASE account'[n] = account[n]
      BY <3>1 DEF IInv, AccountHasRow, Rows
    <3>2. CASE account'[n] # account[n]
      BY <1>1, <2>1, <2>2, <2>3, <3>2 DEF TypeOK, Rows
    <3> QED BY <3>1, <3>2
  <2> QED BY <1>2, <1>5, <1>8, <2>1, <2>4, <2>5, TypesNext
<1> QED BY <1>3, <1>6, <1>7, <1>8

(* BootstrapAdmin inserts like a request does.                             *)
LEMMA BootstrapNext == ASSUME IInv, Bootstrap PROVE IInv'
<1> USE Defaults
<1>1. /\ phase = "down" /\ phase' = "ensure" /\ left' = {i \in Id : row'[i]}
      /\ UNCHANGED <<account, home, botched, pc, rid, name, uid>>
      /\ \A q \in Req : pc[q] = "idle"
  BY DEF Bootstrap, linuxVars, reqVars, IInv, PhaseOK
<1>2. /\ RowType' /\ RowBounds' /\ nextId' \in Nat /\ nextId <= nextId'
      /\ \A i \in Id : row[i] => row'[i] /\ rowName'[i] = rowName[i] /\ rowUid'[i] = rowUid[i]
  <2>1. CASE UNCHANGED rowVars
    BY <2>1, Types DEF IInv, RowsOK, RowBounds, RowType, rowVars
  <2>2. CASE nextId <= MaxId /\ Insert(BootAdmin, AllocateUID, "admin")
    <3>1. "admin" \in Role
      BY DEF Role
    <3>2. AllocateUID \in Int /\ FirstUid <= AllocateUID /\ AllocateUID <= FirstUid + nextId - 1
      BY Allocated DEF IInv
    <3> HIDE DEF Insert
    <3>3. /\ nextId' = nextId + 1 /\ ~row[nextId]
          /\ \A i \in Id : i # nextId => /\ row'[i] = row[i] /\ rowName'[i] = rowName[i]
                                        /\ rowUid'[i] = rowUid[i]
          /\ RowType' /\ RowBounds'
      BY <2>2, <3>1, <3>2, Inserted DEF IInv
    <3> QED BY <3>3 DEF IInv
  <2> QED BY <2>1, <2>2 DEF Bootstrap
<1>3. TypeOK'
  <2>1. RestType'
    BY <1>1, Types DEF IInv, RestType
  <2> QED BY <1>2, <2>1, TypesNext
<1>4. RowsOK'
  <2>1. \A q \in Req : uid[q] \in Int /\ uid[q] <= FirstUid + nextId - 1
    BY DEF IInv, RowsOK, TypeOK, Uid
  <2>2. \A q \in Req : uid[q] <= FirstUid + nextId' - 1
    BY <1>2, <2>1 DEF IInv
  <2> QED BY <1>1, <1>2, <2>2 DEF RowsOK
<1>5. PhaseOK' /\ OwnIds' /\ \A q \in Req : RequestOK(q)'
  BY <1>1 DEF PhaseOK, OwnIds, RequestOK, Creates, Deletes, Rows
<1>6. AccountHasRow'
  BY <1>1, <1>2 DEF IInv, AccountHasRow, Rows
<1> QED BY <1>3, <1>4, <1>5, <1>6 DEF IInv

-----------------------------------------------------------------------------
(* What a boot has repaired so far: every row it has looked at.            *)
Repaired ==
  phase = "ensure" /\ botched = {} => \A i \in Rows \ left : Provisioned(i)

(* ensureUsersProvisioned repairs one row and spoils no other.             *)
LEMMA RepairedNext == ASSUME IInv, Repaired, [Next]_vars PROVE Repaired'
<1> SUFFICES ASSUME phase' = "ensure", botched' = {}, NEW j \in Id, row'[j], j \notin left'
             PROVE  Provisioned(j)'
  BY DEF Repaired, Rows
<1>1. ASSUME NEW r \in Req, CreateRequest(r) \/ DeleteRequest(r) PROVE FALSE
  BY <1>1 DEF CreateRequest, DeleteRequest, Create, CreateRow, CreateRefused, CreateAccount,
              CreateAccountFails, CreateDirs, CreateDirsFails, CreateRollback, Delete, UserDel,
              UserDelFails, RemoveHome, DeleteUser, At
<1>2. ~Crash /\ ~Redeploy /\ ~Listen /\ ~Bootstrap
  BY DEF Crash, Redeploy, Listen, Bootstrap
<1>3. ASSUME NEW i \in Id, Ensure(i) PROVE Provisioned(j)'
  <2>1. /\ phase = "ensure" /\ i \in left /\ left' = left \ {i} /\ botched = {}
        /\ UNCHANGED <<row, rowName, rowUid>>
        /\ rowName[i] \in Name /\ rowUid[i] \in Uid /\ rowName[j] \in Name /\ row[i]
    BY <1>3 DEF Ensure, rowVars, IInv, TypeOK, PhaseOK, Rows
  <2>2. \A m \in Name : account[m] # None =>
          \E k \in Id : row[k] /\ rowName[k] = m /\ rowUid[k] = account[m]
    BY <2>1 DEF IInv, AccountHasRow, Rows
  <2>3. account[rowName[i]] # None => account[rowName[i]] = rowUid[i]
    BY <2>1, <2>2 DEF IInv, TypeOK
  <2>4. account[rowName[i]] = None => CanAdd(rowName[i], rowUid[i])
    <3> SUFFICES ASSUME NEW m \in Name, account[rowName[i]] = None, account[m] = rowUid[i]
                 PROVE  FALSE
      BY DEF CanAdd
    <3>1. account[m] # None
      BY <2>1, Defaults DEF IInv
    <3> QED BY <2>1, <2>2, <3>1 DEF IInv, TypeOK
  <2>5. account'[rowName[i]] = rowUid[i] /\ home'[rowName[i]] = rowUid[i]
    BY <1>3, <2>1, <2>3, <2>4 DEF Ensure, UserAdd, ProvisionDirs, IInv, TypeOK
  <2>6. ASSUME j # i PROVE Provisioned(j)'
    <3>1. Provisioned(j) /\ rowName[j] # rowName[i]
      BY <2>1, <2>6 DEF Repaired, Rows, IInv, TypeOK
    <3>2. /\ account'[rowName[j]] = account[rowName[j]]
          /\ home'[rowName[j]] = home[rowName[j]]
      BY <1>3, <2>1, <3>1 DEF Ensure, UserAdd, ProvisionDirs, IInv, TypeOK
    <3> QED BY <2>1, <3>1, <3>2 DEF Provisioned
  <2> QED BY <2>1, <2>5, <2>6 DEF Provisioned
<1>4. CASE UNCHANGED vars
  BY <1>4 DEF vars, rowVars, linuxVars, Repaired, Provisioned, Rows
<1> QED BY <1>1, <1>2, <1>3, <1>4 DEF Next, Boot

-----------------------------------------------------------------------------
LEMMA InitIInv == Init => IInv
<1> SUFFICES ASSUME Init PROVE IInv
  OBVIOUS
<1>1. /\ FirstUid \in Uid /\ BootAdmin \in Name /\ "user" \in Role /\ 0 \in 0..MaxId
      /\ 1 \in 1..(MaxId + 1) /\ FirstUid \in Nat
  BY AccountsAssumption DEF Uid, Role
<1>2. TypeOK
  BY <1>1 DEF Init, TypeOK
<1>3. RowsOK /\ PhaseOK /\ OwnIds /\ AccountHasRow /\ \A r \in Req : RequestOK(r)
  BY <1>1 DEF Init, RowsOK, RowBounds, PhaseOK, OwnIds, AccountHasRow, RequestOK,
              Creates, Deletes
<1> QED BY <1>2, <1>3 DEF IInv

LEMMA NextIInv == IInv /\ [Next]_vars => IInv'
<1> SUFFICES ASSUME IInv, [Next]_vars PROVE IInv'
  OBVIOUS
<1>1. ASSUME NEW r \in Req, CreateRequest(r) PROVE IInv'
  <2>1. CASE CreateRollback(r)
    BY <2>1, DeleteRowNext DEF CreateRollback, At
  <2> QED BY <1>1, <2>1, CreateNext, CreateRowNext, RequestNext DEF CreateRequest
<1>2. ASSUME NEW r \in Req, DeleteRequest(r) PROVE IInv'
  <2>1. CASE DeleteUser(r)
    BY <2>1, DeleteRowNext DEF DeleteUser, At
  <2> QED BY <1>2, <2>1, DeleteNext, RequestNext DEF DeleteRequest
<1>3. CASE Crash \/ Redeploy \/ Boot
  BY <1>3, SystemNext, BootstrapNext DEF Boot
<1>4. CASE UNCHANGED vars
  BY <1>4 DEF vars, rowVars, linuxVars, reqVars, IInv, TypeOK, RowsOK, RowBounds,
              PhaseOK, OwnIds,
              RequestOK, NoneAdds, Creates, Deletes, AccountHasRow, Rows
<1> QED BY <1>1, <1>2, <1>3, <1>4 DEF Next

LEMMA IInvHolds == Spec => []IInv
BY InitIInv, NextIInv, PTL DEF Spec

(* Every variable of Accounts keeps its type, no two rows share a name or  *)
(* a uid, and AllocateUID (store/users.go) never runs ahead of the ids     *)
(* given out.                                                              *)
THEOREM TypeCorrect == Spec => []TypeOK
<1>1. IInv => TypeOK
  BY DEF IInv
<1> QED BY <1>1, IInvHolds, PTL

(* No account outlives or precedes its row, whatever creations, deletions, *)
(* failures, crashes and boots (server/admin_users.go, cmd/server/main.go) *)
(* interleave, for any number of names and requests; except where the code *)
(* leaves it behind, after ProvisionUserDirs failed.                       *)
THEOREM NoStrayAccount == Spec => []AccountHasRow
<1>1. IInv => AccountHasRow
  BY DEF IInv
<1> QED BY <1>1, IInvHolds, PTL

(* When the port opens every row has its account and its home, whatever a  *)
(* crash or a redeployment left (ensureUsersProvisioned in                 *)
(* cmd/server/main.go), for any number of rows.                            *)
THEOREM BootRepairs == Spec => []RepairedAtBoot
<1>1. Init => Repaired
  BY DEF Init, Repaired
<1>2. IInv /\ Repaired /\ [Next]_vars => Repaired'
  BY RepairedNext
<1>3. Repaired => RepairedAtBoot
  BY DEF Repaired, RepairedAtBoot
<1> QED BY <1>1, <1>2, <1>3, IInvHolds, PTL DEF Spec
=============================================================================
