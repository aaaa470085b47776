--------------------------- MODULE TrafficProofs ---------------------------
(***************************************************************************)
(* Theorems about Traffic, for any set of users, any bounds and any        *)
(* faults: the types, that the sampler never charges a byte twice, and     *)
(* that without a fault it loses none.                                     *)
(***************************************************************************)
EXTENDS Traffic, TLAPS

(* The reading the next delta of u is taken against: the sampler's own     *)
(* during a tick, the service's between two ticks.                         *)
LastSeen(u) == IF pc = "idle" THEN last[u] ELSE seen[u]

(* Bytes the kernel shows beyond that reading, ...                         *)
Unread(u) == IF counter[u] >= LastSeen(u) THEN counter[u] - LastSeen(u) ELSE 0

(* ... and bytes that were read and are about to be written.               *)
Pending(u) == IF pc = "add" /\ cur = u THEN reading ELSE 0

(* Every byte is charged, about to be charged, not read yet, or lost, and  *)
(* only one of these.  It is the sum that every step keeps, not its first  *)
(* term: Read moves bytes from the third to the second, Add to the first.  *)
Balance == \A u \in User : byUid[u] + Pending(u) + Unread(u) <= counted[u]

(* A rule that is not in place shows nothing, and no counter shows more    *)
(* than was ever counted.                                                  *)
CountersOK ==
  \A u \in User : (~rule[u] => counter[u] = 0) /\ counter[u] <= counted[u]

(* Without a fault the two terms that were read make up that reading: what *)
(* the sampler has seen it has charged or is about to.                     *)
Exact ==
  ~spoiled => \A u \in User : /\ byUid[u] + Pending(u) = LastSeen(u)
                              /\ LastSeen(u) <= counter[u]

IInv == TypeOK /\ CountersOK /\ Balance /\ Exact

LEMMA InitIInv == Init => IInv
<1> SUFFICES ASSUME Init PROVE IInv
  OBVIOUS
<1>1. TypeOK
  <2>1. Zero \in [User -> Bytes] /\ Zero \in [User -> 0..MaxFiles] /\ 0 \in Bytes
    BY TrafficAssumption DEF TrafficAssumption, Zero, Bytes
  <2>2. /\ rule \in [User -> BOOLEAN] /\ installed \in [User -> BOOLEAN]
        /\ spoiled \in BOOLEAN
    BY DEF Init
  <2> QED BY <2>1, <2>2 DEF Init, TypeOK
<1> USE TrafficAssumption DEF TrafficAssumption, Init, Bytes, Zero
<1>2. CountersOK
  BY DEF CountersOK
<1>3. Balance
  BY DEF Balance, Pending, Unread, LastSeen
<1>4. Exact
  BY DEF Exact, Pending, LastSeen
<1> QED BY <1>1, <1>2, <1>3, <1>4 DEF IInv

(* One tick of the sampler.                                                *)
LEMMA SampleIInv == IInv /\ SampleOnce => IInv'
<1> SUFFICES ASSUME IInv, SampleOnce PROVE IInv'
  OBVIOUS
<1> USE TrafficAssumption
    DEF TrafficAssumption, IInv, TypeOK, CountersOK, Balance, Exact, Pending, Unread,
        LastSeen, Bytes, Zero, kernelVars, serviceVars, tickVars, tableVars,
        historyVars
<1>1. CASE Tick
  BY <1>1 DEF Tick
<1>2. ASSUME NEW u \in User, TakeUser(u) PROVE IInv'
  BY <1>2 DEF TakeUser
<1>3. CASE Install
  BY <1>3 DEF Install
<1>4. CASE NftFails
  BY <1>4 DEF NftFails
<1>5. CASE Read
  <2>1. Scan(cur) = counter[cur]
    BY DEF Scan
  <2>2. TypeOK'
    BY <1>5, <2>1 DEF Read
  <2>3. CountersOK'
    BY <1>5 DEF Read
  <2>4. Balance'
    BY <1>5, <2>1 DEF Read
  <2>5. Exact'
    <3>1. SUFFICES ASSUME ~spoiled, NEW u \in User
                   PROVE  byUid[u] + Pending(u)' = seen'[u] /\ seen'[u] <= counter[u]
      BY <1>5 DEF Read
    <3>2. byUid[u] = seen[u] /\ seen[u] <= counter[u]
      BY <1>5, <3>1 DEF Read
    <3>3. CASE u = cur
      BY <1>5, <2>1, <3>2, <3>3 DEF Read
    <3>4. CASE u # cur
      BY <1>5, <3>2, <3>4 DEF Read
    <3> QED BY <3>3, <3>4
  <2> QED BY <2>2, <2>3, <2>4, <2>5
<1>6. CASE Add
  <2>1. byUid[cur] + reading <= counted[cur]
    BY <1>6 DEF Add
  <2> QED BY <1>6, <2>1 DEF Add
<1>7. CASE AddFails
  BY <1>7 DEF AddFails
<1>8. CASE TickEnds
  BY <1>8 DEF TickEnds
<1> QED BY <1>1, <1>2, <1>3, <1>4, <1>5, <1>6, <1>7, <1>8 DEF SampleOnce

LEMMA NextIInv == IInv /\ [Next]_vars => IInv'
<1> SUFFICES ASSUME IInv, [Next]_vars PROVE IInv'
  OBVIOUS
<1> USE TrafficAssumption
    DEF TrafficAssumption, IInv, TypeOK, CountersOK, Balance, Exact, Pending, Unread,
        LastSeen, Bytes, Zero, kernelVars, serviceVars, tickVars, tableVars,
        historyVars
<1>1. CASE SampleOnce
  BY <1>1, SampleIInv
<1>2. ASSUME NEW u \in User, Transfer(u) PROVE IInv'
  BY <1>2 DEF Transfer
<1>3. ASSUME NEW u \in User, FileTransfer(u) PROVE IInv'
  BY <1>3 DEF FileTransfer
<1>4. ASSUME NEW u \in User, ResetTraffic(u) PROVE IInv'
  BY <1>4 DEF ResetTraffic
<1>5. CASE Flush
  BY <1>5 DEF Flush
<1>6. CASE Crash
  BY <1>6 DEF Crash
<1>7. CASE UNCHANGED vars
  BY <1>7 DEF vars
<1> QED BY <1>1, <1>2, <1>3, <1>4, <1>5, <1>6, <1>7 DEF Next

THEOREM IInvHolds == Spec => []IInv
BY InitIInv, NextIInv, PTL DEF Spec

(* Every variable keeps its type; in particular the table never holds more *)
(* of a user than the kernel can have counted.                             *)
THEOREM TypeCorrect == Spec => []TypeOK
<1>1. IInv => TypeOK BY DEF IInv
<1> QED BY <1>1, IInvHolds, PTL

(* No byte is charged twice, whatever fails between the reading, the write *)
(* and the merge of a tick (Service.SampleOnce).                           *)
THEOREM NoDoubleCharge == Spec => []NeverOvercharged
<1>1. IInv => NeverOvercharged
  BY TrafficAssumption
     DEF TrafficAssumption, IInv, Balance, NeverOvercharged, Pending, Unread,
         LastSeen, TypeOK, Bytes
<1> QED BY <1>1, IInvHolds, PTL

(* No byte that was read is lost: where no flush, crash or refused write   *)
(* took a sample away, the table holds what the last readings show, though *)
(* Install or Read failed for users in any of the ticks (SampleOnce).      *)
THEOREM AllReadIsCharged == Spec => []NothingLost
<1>1. IInv => NothingLost
  BY DEF IInv, Exact, NothingLost, Pending, LastSeen, TypeOK, Bytes
<1> QED BY <1>1, IInvHolds, PTL
=============================================================================
