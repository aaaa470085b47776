-------------------------- MODULE TermClientProofs --------------------------
(***************************************************************************)
(* Proofs about TermClient, for any mounts, session ids and bounds: an     *)
(* attached terminal names the session it talks to, a timeout that cannot  *)
(* be cancelled names none, an id that was given up is asked for again     *)
(* only by the answer of the first list, and the server the terminals see  *)
(* is a SessionLedger.                                                     *)
(*                                                                         *)
(* The first three are not inductive.  A timeout that names a session is   *)
(* pending only while the terminal is closed, it is the youngest and the   *)
(* one reconnectTimer refers to; so attach, the only way out of closed,    *)
(* clears it.  A timeout names an id that was not given up: ids come into  *)
(* timeouts from a terminal that was attached, where the server had named  *)
(* its id last.                                                            *)
(***************************************************************************)
EXTENDS TermClient, SequenceTheorems, FiniteSetTheorems, TLAPS

(* At most the youngest timeout is held, and only a held one names one.    *)
OneHeld(q) ==
  /\ q \in Seq(Timer)
  /\ \A i \in 1..Len(q) : (q[i].held => i = Len(q)) /\ (q[i].sid # NoSid => q[i].held)

NamesNone(q) == \A i \in 1..Len(q) : q[i].sid = NoSid

(* s may be asked for by m.                                                *)
Open(m, s) == s = NoSid \/ s \notin dropped[m]

MountOK(m) ==
  /\ OneHeld(timers[m])
  /\ phase[m] # "closed" => NamesNone(timers[m])
  /\ phase[m] = "attached" => currentSID[m] = bound[m]
  /\ phase[m] \in {"off", "attached", "closed"} => Open(m, currentSID[m])
  /\ \A i \in 1..Len(timers[m]) : Open(m, timers[m][i].sid)

IInv == TypeOK /\ \A m \in Mount : MountOK(m)

-----------------------------------------------------------------------------
(* Timeouts.                                                               *)

LEMMA ClearedNamesNone ==
  ASSUME NEW q, OneHeld(q)
  PROVE  OneHeld(Cleared(q)) /\ NamesNone(Cleared(q))
<1>1. CASE q # <<>> /\ Last(q).held
  <2>1. Cleared(q) = SubSeq(q, 1, Len(q) - 1)
    BY <1>1 DEF Cleared, Front
  <2>2. Len(q) \in Nat /\ Len(q) > 0 /\ q \in Seq(Timer)
    BY <1>1 DEF OneHeld
  <2>3. Cleared(q) \in Seq(Timer) /\ Len(Cleared(q)) = Len(q) - 1
        /\ \A i \in 1..(Len(q) - 1) : Cleared(q)[i] = q[i]
    <3> DEFINE n == Len(q) - 1
               c == SubSeq(q, 1, n)
    <3>1. n \in Nat /\ \A i \in 1..n : q[i] \in Timer
      BY <2>2
    <3> HIDE DEF n
    <3>2. c \in Seq(Timer) /\ Len(c) = n /\ \A i \in 1..n : c[i] = q[i]
      BY <3>1, SubSeqProperties
    <3> QED BY <2>1, <3>2 DEF n
  <2> QED BY <2>2, <2>3 DEF OneHeld, NamesNone
<1>2. CASE ~(q # <<>> /\ Last(q).held)
  <2>1. Cleared(q) = q
    BY <1>2 DEF Cleared
  <2>2. \A i \in 1..Len(q) : ~q[i].held
    BY <1>2 DEF OneHeld, Last
  <2> QED BY <2>1, <2>2 DEF OneHeld, NamesNone
<1> QED BY <1>1, <1>2

LEMMA RemoveAtOneHeld ==
  ASSUME NEW q, OneHeld(q), NEW i \in 1..Len(q)
  PROVE  OneHeld(RemoveAt(q, i))
<1> DEFINE r == RemoveAt(q, i)
<1>1. Len(q) \in Nat /\ q \in Seq(Timer)
  BY DEF OneHeld
<1>2. r \in Seq(Timer) /\ Len(r) = Len(q) - 1
      /\ \A j \in 1..Len(r) : r[j] = IF j < i THEN q[j] ELSE q[j + 1]
  <2> DEFINE a == SubSeq(q, 1, i - 1)
             b == SubSeq(q, i + 1, Len(q))
  <2>1. a \in Seq(Timer) /\ Len(a) = i - 1 /\ \A j \in 1..(i - 1) : a[j] = q[j]
    BY <1>1, SubSeqProperties
  <2>2. b \in Seq(Timer) /\ Len(b) = Len(q) - i /\ \A j \in 1..(Len(q) - i) : b[j] = q[i + j]
    BY <1>1, SubSeqProperties
  <2>3. r = a \o b
    BY DEF RemoveAt
  <2> HIDE DEF a, b, r
  <2>4. r \in Seq(Timer) /\ Len(r) = Len(q) - 1
    <3> a \in Seq(Timer) /\ b \in Seq(Timer)
      BY <2>1, <2>2
    <3>1. a \o b \in Seq(Timer) /\ Len(a \o b) = Len(a) + Len(b)
      BY ConcatProperties, Zenon
    <3> QED BY <1>1, <2>1, <2>2, <2>3, <3>1
  <2>5. ASSUME NEW j \in 1..Len(r)
        PROVE  r[j] = IF j < i THEN q[j] ELSE q[j + 1]
    <3>1. r[j] = IF j <= Len(a) THEN a[j] ELSE b[j - Len(a)]
      BY <1>1, <2>1, <2>2, <2>3, <2>4, ConcatProperties
    <3> QED BY <1>1, <2>1, <2>2, <2>4, <3>1
  <2> QED BY <2>4, <2>5
<1> HIDE DEF r
<1>3. OneHeld(r)
  <2>1. ASSUME NEW j \in 1..Len(r)
        PROVE  (r[j].held => j = Len(r)) /\ (r[j].sid # NoSid => r[j].held)
    <3>1. j \in 1..Len(q) /\ j + 1 \in 1..Len(q)
      BY <1>1, <1>2
    <3> QED BY <1>1, <1>2, <3>1 DEF OneHeld
  <2> QED BY <1>2, <2>1 DEF OneHeld
<1> QED BY <1>3 DEF r

(* With none of the pending timeouts naming a session, the new one does.   *)
LEMMA ForgottenThenHeld ==
  ASSUME NEW q, OneHeld(q), NamesNone(q), NEW s \in MaybeSid, NEW w \in Nat
  PROVE  LET r == Append(Forgotten(q), [sid |-> s, wait |-> w, held |-> TRUE])
         IN /\ OneHeld(r)
            /\ Len(r) = Len(q) + 1 /\ r[Len(r)].sid = s
            /\ \A i \in 1..Len(q) : r[i].sid = NoSid
<1> DEFINE f == Forgotten(q)
           t == [sid |-> s, wait |-> w, held |-> TRUE]
           r == Append(f, t)
<1>1. q \in Seq(Timer) /\ Len(q) \in Nat /\ \A i \in 1..Len(q) : q[i] \in Timer
  BY DEF OneHeld
<1>2. f \in Seq(Timer) /\ Len(f) = Len(q)
      /\ \A i \in 1..Len(q) : f[i] = [q[i] EXCEPT !.held = FALSE]
  <2>1. DOMAIN q = 1..Len(q)
    BY <1>1
  <2>2. \A i \in 1..Len(q) : [q[i] EXCEPT !.held = FALSE] \in Timer
    BY <1>1 DEF Timer
  <2>3. f = [i \in 1..Len(q) |-> [q[i] EXCEPT !.held = FALSE]]
    BY <2>1 DEF Forgotten
  <2> HIDE DEF f
  <2>4. f \in [1..Len(q) -> Timer]
    BY <2>2, <2>3
  <2> QED BY <1>1, <2>3, <2>4
<1>3. \A i \in 1..Len(q) : ~f[i].held /\ f[i].sid = NoSid
  BY <1>1, <1>2 DEF NamesNone, Timer
<1>4. t \in Timer /\ t.held /\ t.sid = s
  BY DEF Timer
<1> HIDE DEF f, t
<1>5. r \in Seq(Timer) /\ Len(r) = Len(q) + 1 /\ r[Len(q) + 1] = t
      /\ \A i \in 1..Len(q) : r[i] = f[i]
  BY <1>1, <1>2, <1>4
<1> HIDE DEF r
<1>6. OneHeld(r) /\ r[Len(r)].sid = s /\ \A i \in 1..Len(q) : r[i].sid = NoSid
  BY <1>1, <1>3, <1>4, <1>5 DEF OneHeld
<1> QED BY <1>5, <1>6 DEF r, f, t

-----------------------------------------------------------------------------
(* The pieces of the client.                                               *)

Same(n) ==
  /\ phase'[n] = phase[n] /\ bound'[n] = bound[n]
  /\ currentSID'[n] = currentSID[n] /\ timers'[n] = timers[n]

LEMMA AttachType ==
  ASSUME TypeOK, NEW m \in Mount, NEW s \in MaybeSid, NEW q, OneHeld(q), Attach(m, s, q)
  PROVE  /\ timers' \in [Mount -> Seq(Timer)] /\ currentSID' \in [Mount -> MaybeSid]
         /\ strays' \in [MaybeSid -> Nat] /\ phase' \in [Mount -> Phase]
         /\ asked' \in [Mount -> MaybeSid] /\ bound' \in [Mount -> MaybeSid]
         /\ link' \in [Mount -> Link]
         /\ eof' \in [Mount -> BOOLEAN] /\ broken' \in [Mount -> BOOLEAN]
<1>1. Cleared(q) \in Seq(Timer)
  BY ClearedNamesNone DEF OneHeld
<1>2. timers' \in [Mount -> Seq(Timer)]
  BY <1>1 DEF Attach, TypeOK
<1>3. strays' \in [MaybeSid -> Nat]
  BY DEF Attach, TypeOK
<1>4. phase' \in [Mount -> Phase]
  BY DEF Attach, TypeOK, Phase
<1>5. /\ currentSID' \in [Mount -> MaybeSid] /\ asked' \in [Mount -> MaybeSid]
      /\ bound' \in [Mount -> MaybeSid]
      /\ eof' \in [Mount -> BOOLEAN] /\ broken' \in [Mount -> BOOLEAN]
  BY DEF Attach, TypeOK, MaybeSid
<1>6. link' \in [Mount -> Link]
  BY DEF Attach, TypeOK, Link
<1> QED BY <1>2, <1>3, <1>4, <1>5, <1>6

LEMMA AttachEffect ==
  ASSUME TypeOK, NEW m \in Mount, NEW s \in MaybeSid, NEW q, OneHeld(q), Attach(m, s, q)
  PROVE  /\ OneHeld(timers'[m]) /\ NamesNone(timers'[m])
         /\ phase'[m] = "sent" /\ bound'[m] = NoSid /\ currentSID'[m] = s
         /\ \A n \in Mount \ {m} : Same(n)
<1>1. timers'[m] = Cleared(q)
  BY DEF Attach, TypeOK
<1>2. phase'[m] = "sent" /\ bound'[m] = NoSid /\ currentSID'[m] = s
  BY DEF Attach, TypeOK
<1>3. \A n \in Mount \ {m} : Same(n)
  BY DEF Attach, TypeOK, Same
<1> QED BY <1>1, <1>2, <1>3, ClearedNamesNone

LEMMA ScheduleEffect ==
  ASSUME TypeOK, NEW m \in Mount, NEW s \in MaybeSid, ScheduleReconnect(m, s),
         OneHeld(timers[m]), NamesNone(timers[m])
  PROVE  /\ timers' \in [Mount -> Seq(Timer)] /\ reconnectAttempts' \in [Mount -> 0..Retries]
         /\ OneHeld(timers'[m])
         /\ \A i \in 1..Len(timers'[m]) : timers'[m][i].sid \in {NoSid, s}
         /\ \A n \in Mount \ {m} : timers'[n] = timers[n]
<1>1. CASE intentionalClose[m] \/ reconnectAttempts[m] >= Retries
  BY <1>1 DEF ScheduleReconnect, retryVars, TypeOK, NamesNone
<1>2. CASE ~(intentionalClose[m] \/ reconnectAttempts[m] >= Retries)
  <2> DEFINE w == reconnectAttempts[m]
             r == Append(Forgotten(timers[m]), [sid |-> s, wait |-> w, held |-> TRUE])
  <2>1. w \in Nat /\ w + 1 \in 0..Retries
    BY <1>2, ClientAssumption DEF TypeOK
  <2>2. /\ reconnectAttempts' = [reconnectAttempts EXCEPT ![m] = w + 1]
        /\ timers' = [timers EXCEPT ![m] = r]
    BY <1>2 DEF ScheduleReconnect
  <2>3. /\ OneHeld(r) /\ Len(r) = Len(timers[m]) + 1 /\ r[Len(r)].sid = s
        /\ \A i \in 1..Len(timers[m]) : r[i].sid = NoSid
    BY <2>1, ForgottenThenHeld
  <2>4. Len(timers[m]) \in Nat /\ r \in Seq(Timer)
    BY <2>3 DEF OneHeld
  <2> HIDE DEF r, w
  <2>5. \A i \in 1..Len(r) : r[i].sid \in {NoSid, s}
    BY <2>3, <2>4
  <2>6. timers' \in [Mount -> Seq(Timer)] /\ timers'[m] = r
        /\ \A n \in Mount \ {m} : timers'[n] = timers[n]
    BY <2>2, <2>4 DEF TypeOK
  <2>7. reconnectAttempts' \in [Mount -> 0..Retries]
    BY <2>1, <2>2 DEF TypeOK
  <2> QED BY <2>3, <2>5, <2>6, <2>7
<1> QED BY <1>1, <1>2

-----------------------------------------------------------------------------
LEMMA FreshIdIsFresh == \A s \in Sid : EnsureFresh(s) \/ EnsureNamed(s) =>
                          sess' = [sess EXCEPT ![s] = "alive"]
BY DEF EnsureFresh, EnsureNamed

LEMMA ServerType ==
  ASSUME TypeOK,
         \/ \E m \in Mount : Server(m)
         \/ \E k \in kills : DeleteServed(k)
         \/ \E a \in MaybeSid : StrayLost(a) \/ \E s \in Sid : StrayArrives(a, s)
         \/ \E s \in Sid : ShellExits(s)
  PROVE  TypeOK'
<1> USE DEF TypeOK, Phase
<1>1. ASSUME NEW m \in Mount, NEW s \in Sid, HandshakeAccepted(m, s) PROVE TypeOK'
  <2>1. sess' = [sess EXCEPT ![s] = "alive"]
    BY <1>1, FreshIdIsFresh DEF HandshakeAccepted
  <2> QED BY <1>1, <2>1 DEF HandshakeAccepted, worldVars, retryVars, listVars, Link, MaybeSid
<1>2. ASSUME NEW m \in Mount, HandshakeRefused(m) PROVE TypeOK'
  BY <1>2 DEF HandshakeRefused, serverVars, worldVars, retryVars, listVars, MaybeSid
<1>3. ASSUME NEW m \in Mount, ListRead(m) PROVE TypeOK'
  <2>1. list' \in [Mount -> {"none", "asked", "read"}]
    BY <1>3 DEF ListRead
  <2>2. aliveID' \in [Mount -> MaybeSid]
    BY <1>3 DEF ListRead, MaybeSid, Alive
  <2> QED BY <1>3, <2>1, <2>2 DEF ListRead, serverVars, worldVars, socketVars, retryVars
<1>4. ASSUME NEW k \in kills, DeleteServed(k) PROVE TypeOK'
  <2>1. k \in Delete /\ k.sid \in Sid
    BY DEF Delete
  <2>4. [k EXCEPT !.done = TRUE] \in Delete
    BY <2>1 DEF Delete
  <2>2. kills' \subseteq Delete
    BY <1>4, <2>4 DEF DeleteServed
  <2>3. sess' \in [Sid -> {"none", "alive", "exited", "deleted"}]
        /\ eof' \in [Mount -> BOOLEAN] /\ link' \in [Mount -> Link]
    <3>1. CASE ShellGone(k.sid)
      BY <3>1, <2>1 DEF ShellGone, Link
    <3>2. CASE sess' = [sess EXCEPT ![k.sid] = "deleted"] /\ UNCHANGED <<eof, link>>
      BY <3>2, <2>1
    <3>3. CASE UNCHANGED <<sess, eof, link>>
      BY <3>3
    <3> QED BY <1>4, <3>1, <3>2, <3>3 DEF DeleteServed
  <2> QED BY <1>4, <2>2, <2>3 DEF DeleteServed, worldVars, retryVars, listVars
<1>5. ASSUME NEW a \in MaybeSid, StrayLost(a) PROVE TypeOK'
  BY <1>5 DEF StrayLost, worldVars, socketVars, retryVars, listVars
<1>6. ASSUME NEW a \in MaybeSid, NEW s \in Sid, StrayArrives(a, s) PROVE TypeOK'
  <2>1. sess' = [sess EXCEPT ![s] = "alive"]
    BY <1>6, FreshIdIsFresh DEF StrayArrives
  <2> QED BY <1>6, <2>1 DEF StrayArrives, worldVars, socketVars, retryVars, listVars
<1>7. ASSUME NEW s \in Sid, ShellExits(s) PROVE TypeOK'
  <2>1. sess' \in [Sid -> {"none", "alive", "exited", "deleted"}] /\ exits' \in Nat
    BY <1>7 DEF ShellExits, ShellGone
  <2>2. eof' \in [Mount -> BOOLEAN] /\ link' \in [Mount -> Link]
    BY <1>7 DEF ShellExits, ShellGone, Link
  <2> QED BY <1>7, <2>1, <2>2 DEF ShellExits, retryVars, listVars
<1>8. ASSUME NEW m \in Mount, Subscribes(m) PROVE TypeOK'
  BY <1>8 DEF Subscribes, serverVars, worldVars, retryVars, listVars, Link
<1> QED BY <1>1, <1>2, <1>3, <1>4, <1>5, <1>6, <1>7, <1>8 DEF Server

LEMMA WorldType ==
  ASSUME TypeOK, (\E B \in SUBSET Mount : Outage(B)) \/ ServerRestarts \/ Restored
  PROVE  TypeOK'
<1> USE DEF TypeOK, Phase
<1>1. ASSUME NEW B \in SUBSET Mount, Outage(B) PROVE TypeOK'
  <2>1. faults' \in Nat
    BY <1>1 DEF Outage
  <2>2. up' \in BOOLEAN
    BY <1>1 DEF Outage
  <2>3. broken' \in [Mount -> BOOLEAN]
    BY <1>1, Zenon DEF Outage
  <2> QED BY <1>1, <2>1, <2>2, <2>3 DEF Outage, serverVars, retryVars, listVars
<1>2. CASE ServerRestarts
  <2>1. sess' \in [Sid -> {"none", "alive", "exited", "deleted"}]
    BY <1>2 DEF ServerRestarts
  <2>2. faults' \in Nat
    BY <1>2 DEF ServerRestarts
  <2>3. up' \in BOOLEAN
    BY <1>2 DEF ServerRestarts
  <2>4. broken' \in [Mount -> BOOLEAN]
    BY <1>2, Zenon DEF ServerRestarts
  <2> QED BY <1>2, <2>1, <2>2, <2>3, <2>4 DEF ServerRestarts, retryVars, listVars
<1>3. CASE Restored
  <2>1. up' \in BOOLEAN
    BY <1>3 DEF Restored
  <2> QED BY <1>3, <2>1 DEF Restored, serverVars, socketVars, retryVars, listVars
<1> QED BY <1>1, <1>2, <1>3

LEMMA ClientType ==
  ASSUME IInv, NEW m \in Mount, EventLoop(m) \/ ByUser(m)
  PROVE  TypeOK'
<1>1. TypeOK /\ MountOK(m) /\ OneHeld(timers[m])
  BY DEF IInv, MountOK
<1>2. CASE FirstAttach(m)
  <2>1. PICK s \in MaybeSid : Attach(m, s, timers[m])
    BY <1>1, <1>2 DEF FirstAttach, TypeOK, MaybeSid
  <2>2. list' \in [Mount -> {"none", "asked", "read"}] /\ aliveID' \in [Mount -> MaybeSid]
    BY <1>1, <1>2 DEF FirstAttach, TypeOK, MaybeSid
  <2> QED BY <1>1, <1>2, <2>1, <2>2, AttachType DEF FirstAttach, TypeOK, worldVars
<1>3. CASE OnOpen(m) \/ OnSession(m) \/ Mounted(m)
  <2>1. CASE OnOpen(m)
    <3>1. 0 \in 0..Retries
      BY ClientAssumption
    <3> QED BY <1>1, <2>1, <3>1 DEF OnOpen, TypeOK, Phase, serverVars, worldVars, listVars
  <2>2. CASE OnSession(m)
    <3>1. dropped' \in [Mount -> SUBSET Sid] /\ currentSID' \in [Mount -> MaybeSid]
      BY <1>1, <2>2 DEF OnSession, TypeOK
    <3> QED BY <1>1, <2>2, <3>1
            DEF OnSession, TypeOK, Phase, serverVars, worldVars, retryVars, listVars
  <2>3. CASE Mounted(m)
    BY <1>1, <2>3 DEF Mounted, TypeOK, Phase, serverVars, worldVars, retryVars
  <2> QED BY <1>3, <2>1, <2>2, <2>3
<1>4. CASE OnPtyExit(m)
  <2>1. ScheduleReconnect(m, NoSid) /\ NoSid \in MaybeSid /\ NamesNone(timers[m])
    BY <1>1, <1>4 DEF OnPtyExit, MaybeSid, MountOK
  <2> QED BY <1>1, <1>4, <2>1, ScheduleEffect DEF OnPtyExit, TypeOK, serverVars, worldVars, listVars
<1>5. CASE OnClose(m)
  <2>1. ScheduleReconnect(m, currentSID[m]) /\ currentSID[m] \in MaybeSid
        /\ NamesNone(timers[m])
    BY <1>1, <1>5 DEF OnClose, TypeOK, Closing, Upgraded, MountOK
  <2>2. /\ phase' \in [Mount -> Phase] /\ asked' \in [Mount -> MaybeSid]
        /\ bound' \in [Mount -> MaybeSid] /\ eof' \in [Mount -> BOOLEAN]
        /\ broken' \in [Mount -> BOOLEAN] /\ link' \in [Mount -> Link]
    BY <1>1, <1>5 DEF OnClose, TypeOK, Phase, Link, MaybeSid
  <2> QED BY <1>1, <1>5, <2>1, <2>2, ScheduleEffect
         DEF OnClose, TypeOK, serverVars, worldVars, listVars
<1>6. CASE OnCloseUnconfirmed(m)
  <2>1. Attach(m, NoSid, timers[m]) /\ NoSid \in MaybeSid
    BY <1>6 DEF OnCloseUnconfirmed, MaybeSid
  <2>2. dropped' \in [Mount -> SUBSET Sid]
    BY <1>1, <1>6 DEF OnCloseUnconfirmed, TypeOK, MaybeSid
  <2> QED BY <1>1, <1>6, <2>1, <2>2, AttachType
         DEF OnCloseUnconfirmed, TypeOK, worldVars, listVars
<1>7. CASE \E i \in DOMAIN timers[m] : TimerFires(m, i)
  <2>1. PICK i \in DOMAIN timers[m] : TimerFires(m, i)
    BY <1>7
  <2>2. i \in 1..Len(timers[m]) /\ timers[m][i].sid \in MaybeSid
    <3>1. timers[m] \in Seq(Timer) /\ DOMAIN timers[m] = 1..Len(timers[m])
      BY <1>1 DEF OneHeld
    <3>2. timers[m][i] \in Timer
      BY <3>1
    <3> QED BY <3>1, <3>2 DEF Timer
  <2>3. Attach(m, timers[m][i].sid, RemoveAt(timers[m], i)) /\ OneHeld(RemoveAt(timers[m], i))
    BY <1>1, <2>1, <2>2, RemoveAtOneHeld DEF TimerFires
  <2> QED BY <1>1, <2>1, <2>2, <2>3, AttachType DEF TimerFires, TypeOK, worldVars, listVars
<1>8. CASE ClickAttach(m)
  <2>1. Attach(m, NoSid, timers[m]) /\ NoSid \in MaybeSid
    BY <1>8 DEF ClickAttach, MaybeSid
  <2>2. clicks' \in Nat
    BY <1>1, <1>8 DEF ClickAttach, TypeOK
  <2> QED BY <1>1, <1>8, <2>1, <2>2, AttachType DEF ClickAttach, TypeOK, listVars
<1>9. CASE ClickKill(m)
  <2>1. [mount |-> m, sid |-> currentSID[m], n |-> clicks, done |-> FALSE] \in Delete
    BY <1>1, <1>9 DEF ClickKill, TypeOK, Delete, MaybeSid
  <2>2. kills' \subseteq Delete
    BY <1>1, <1>9, <2>1, Zenon DEF ClickKill, TypeOK
  <2>3. clicks' \in Nat /\ intentionalClose' \in [Mount -> BOOLEAN]
    BY <1>1, <1>9 DEF ClickKill, TypeOK
  <2> QED BY <1>1, <1>9, <2>2, <2>3 DEF ClickKill, TypeOK, serverVars, socketVars, retryVars, listVars
<1> QED BY <1>2, <1>3, <1>4, <1>5, <1>6, <1>7, <1>8, <1>9 DEF EventLoop, ByUser

LEMMA KillType ==
  ASSUME IInv, NEW k \in kills, KillAnswered(k) \/ KillFails(k)
  PROVE  TypeOK'
<1>1. TypeOK /\ k.mount \in Mount /\ OneHeld(timers[k.mount])
  BY DEF IInv, MountOK, TypeOK, Delete
<1>2. CASE KillAnswered(k)
  <2>1. Attach(k.mount, NoSid, timers[k.mount]) /\ NoSid \in MaybeSid
    BY <1>2 DEF KillAnswered, MaybeSid
  <2> QED BY <1>1, <1>2, <2>1, AttachType DEF KillAnswered, TypeOK, worldVars, listVars
<1>3. CASE KillFails(k)
  BY <1>1, <1>3 DEF KillFails, TypeOK, serverVars, worldVars, socketVars, retryVars, listVars
<1> QED BY <1>2, <1>3

LEMMA NextType == ASSUME IInv, Next PROVE TypeOK'
<1> TypeOK
  BY DEF IInv
<1> QED BY ServerType, WorldType, ClientType, KillType DEF Next

-----------------------------------------------------------------------------
(* The invariant of each mount.                                            *)

LEMMA SameMountOK ==
  ASSUME NEW n \in Mount, MountOK(n), Same(n), dropped'[n] = dropped[n]
  PROVE  MountOK(n)'
BY DEF MountOK, Same, Open, OneHeld, NamesNone

(* attach clears the only timeout that may name a session.                 *)
LEMMA AttachMountOK ==
  ASSUME IInv, NEW m \in Mount, NEW s \in MaybeSid, NEW q, OneHeld(q), Attach(m, s, q),
         \A n \in Mount \ {m} : dropped'[n] = dropped[n]
  PROVE  \A n \in Mount : MountOK(n)'
<1>1. /\ OneHeld(timers'[m]) /\ NamesNone(timers'[m]) /\ phase'[m] = "sent"
      /\ \A n \in Mount \ {m} : Same(n)
  BY AttachEffect DEF IInv
<1>2. MountOK(m)'
  BY <1>1 DEF MountOK, Open, OneHeld, NamesNone
<1>3. ASSUME NEW n \in Mount \ {m} PROVE MountOK(n)'
  BY <1>1, SameMountOK DEF IInv
<1> QED BY <1>2, <1>3

(* Steps of the server, and of the world.                                  *)
LEMMA ServerMountOK ==
  ASSUME IInv,
         \/ \E m \in Mount : Server(m)
         \/ \E k \in kills : DeleteServed(k)
         \/ \E a \in MaybeSid : StrayLost(a) \/ \E s \in Sid : StrayArrives(a, s)
         \/ \E s \in Sid : ShellExits(s)
         \/ (\E B \in SUBSET Mount : Outage(B)) \/ ServerRestarts \/ Restored
  PROVE  \A n \in Mount : MountOK(n)'
<1>1. TypeOK /\ \A n \in Mount : MountOK(n)
  BY DEF IInv
<1>2. ASSUME NEW m \in Mount, HandshakeRefused(m) \/ \E s \in Sid : HandshakeAccepted(m, s)
      PROVE  \A n \in Mount : MountOK(n)'
  <2>1. /\ UNCHANGED <<dropped, timers, currentSID>>
        /\ phase[m] = "sent" /\ phase'[m] \in {"accepted", "refused"}
        /\ \A n \in Mount \ {m} : Same(n)
    BY <1>1, <1>2 DEF HandshakeAccepted, HandshakeRefused, TypeOK, Same, retryVars
  <2>2. MountOK(m)'
    BY <1>1, <2>1 DEF MountOK, Open, OneHeld, NamesNone
  <2>3. \A n \in Mount \ {m} : MountOK(n)'
    BY <1>1, <2>1, SameMountOK
  <2> QED BY <2>2, <2>3
<1>3. CASE UNCHANGED <<phase, bound, currentSID, timers, dropped>>
  BY <1>1, <1>3, SameMountOK DEF Same
<1>4. ASSUME NEW m \in Mount, ListRead(m) \/ Subscribes(m)
      PROVE  \A n \in Mount : MountOK(n)'
  BY <1>3, <1>4 DEF ListRead, Subscribes, socketVars, retryVars
<1>5. ASSUME NEW k \in kills, DeleteServed(k) PROVE \A n \in Mount : MountOK(n)'
  BY <1>3, <1>5 DEF DeleteServed, retryVars
<1>6. ASSUME NEW a \in MaybeSid, StrayLost(a) \/ \E s \in Sid : StrayArrives(a, s)
      PROVE  \A n \in Mount : MountOK(n)'
  BY <1>3, <1>6 DEF StrayLost, StrayArrives, socketVars, retryVars
<1>7. ASSUME NEW s \in Sid, ShellExits(s) PROVE \A n \in Mount : MountOK(n)'
  BY <1>3, <1>7 DEF ShellExits, retryVars
<1>8. ASSUME (\E B \in SUBSET Mount : Outage(B)) \/ ServerRestarts \/ Restored
      PROVE  \A n \in Mount : MountOK(n)'
  BY <1>3, <1>8 DEF Outage, ServerRestarts, Restored, socketVars, retryVars
<1> QED BY <1>2, <1>4, <1>5, <1>6, <1>7, <1>8 DEF Server

(* Steps of a mount that open no socket.                                   *)
LEMMA StayMountOK ==
  ASSUME IInv, NEW m \in Mount,
         \/ OnOpen(m) \/ OnSession(m) \/ OnPtyExit(m) \/ OnClose(m)
         \/ Mounted(m) \/ ClickKill(m)
  PROVE  \A n \in Mount : MountOK(n)'
<1>1. TypeOK /\ \A n \in Mount : MountOK(n)
  BY DEF IInv
<1>2. CASE OnOpen(m) \/ Mounted(m)
  <2>1. /\ UNCHANGED <<bound, timers, currentSID, dropped>>
        /\ \/ phase[m] = "accepted" /\ phase'[m] = "open"
           \/ phase[m] = "off" /\ phase'[m] = "closed"
        /\ \A n \in Mount \ {m} : Same(n)
    BY <1>1, <1>2 DEF OnOpen, Mounted, TypeOK, Same, retryVars
  <2>2. MountOK(m)'
    BY <1>1, <2>1 DEF MountOK, Open, OneHeld, NamesNone
  <2>3. \A n \in Mount \ {m} : MountOK(n)'
    BY <1>1, <2>1, SameMountOK
  <2> QED BY <2>2, <2>3
<1>3. CASE OnSession(m)
  <2>1. /\ UNCHANGED <<bound, timers>> /\ phase[m] = "open" /\ phase'[m] = "attached"
        /\ currentSID'[m] = bound[m] /\ dropped'[m] = dropped[m] \ {bound[m]}
        /\ \A n \in Mount \ {m} : Same(n) /\ dropped'[n] = dropped[n]
    BY <1>1, <1>3 DEF OnSession, TypeOK, Same, retryVars
  <2>2. MountOK(m)'
    BY <1>1, <2>1 DEF MountOK, Open, OneHeld, NamesNone
  <2>3. \A n \in Mount \ {m} : MountOK(n)'
    BY <1>1, <2>1, SameMountOK
  <2> QED BY <2>2, <2>3
<1>4. CASE OnPtyExit(m)
  <2>1. ScheduleReconnect(m, NoSid) /\ NoSid \in MaybeSid /\ NamesNone(timers[m])
        /\ OneHeld(timers[m])
    BY <1>1, <1>4 DEF OnPtyExit, MaybeSid, MountOK
  <2>2. /\ OneHeld(timers'[m]) /\ \A i \in 1..Len(timers'[m]) : timers'[m][i].sid = NoSid
        /\ \A n \in Mount \ {m} : timers'[n] = timers[n]
    BY <1>1, <2>1, ScheduleEffect
  <2>3. UNCHANGED <<phase, bound, currentSID, dropped>>
    BY <1>4 DEF OnPtyExit
  <2>4. MountOK(m)'
    BY <1>1, <2>2, <2>3 DEF MountOK, Open, OneHeld, NamesNone
  <2>5. \A n \in Mount \ {m} : MountOK(n)'
    BY <1>1, <2>2, <2>3, SameMountOK DEF Same
  <2> QED BY <2>4, <2>5
<1>5. CASE OnClose(m)
  <2>1. ScheduleReconnect(m, currentSID[m]) /\ currentSID[m] \in MaybeSid
        /\ NamesNone(timers[m]) /\ OneHeld(timers[m]) /\ Open(m, currentSID[m])
    BY <1>1, <1>5 DEF OnClose, TypeOK, Closing, Upgraded, MountOK, Open
  <2>2. /\ OneHeld(timers'[m])
        /\ \A i \in 1..Len(timers'[m]) : timers'[m][i].sid \in {NoSid, currentSID[m]}
        /\ \A n \in Mount \ {m} : timers'[n] = timers[n]
    BY <1>1, <2>1, ScheduleEffect
  <2>3. /\ phase'[m] = "closed" /\ UNCHANGED <<currentSID, dropped>>
        /\ \A n \in Mount \ {m} : Same(n)
    BY <1>1, <1>5, <2>2 DEF OnClose, TypeOK, Same
  <2>4. MountOK(m)'
    BY <2>1, <2>2, <2>3 DEF MountOK, Open, OneHeld
  <2>5. \A n \in Mount \ {m} : MountOK(n)'
    BY <1>1, <2>3, SameMountOK
  <2> QED BY <2>4, <2>5
<1>6. CASE ClickKill(m)
  <2>1. UNCHANGED dropped /\ \A n \in Mount : Same(n)
    BY <1>6 DEF ClickKill, Same, socketVars, retryVars
  <2> QED BY <1>1, <2>1, SameMountOK
<1> QED BY <1>2, <1>3, <1>4, <1>5, <1>6

(* Steps of a mount that call attach.                                      *)
LEMMA OpenMountOK ==
  ASSUME IInv, NEW m \in Mount,
         \/ FirstAttach(m) \/ OnCloseUnconfirmed(m) \/ ClickAttach(m)
         \/ \E i \in DOMAIN timers[m] : TimerFires(m, i)
  PROVE  \A n \in Mount : MountOK(n)'
<1>1. TypeOK /\ OneHeld(timers[m]) /\ NoSid \in MaybeSid
  BY DEF IInv, MountOK, MaybeSid
<1>2. \A n \in Mount \ {m} : dropped'[n] = dropped[n]
  BY <1>1 DEF FirstAttach, OnCloseUnconfirmed, ClickAttach, TimerFires, TypeOK
<1>3. CASE FirstAttach(m) \/ ClickAttach(m) \/ OnCloseUnconfirmed(m)
  <2>1. PICK s \in MaybeSid : Attach(m, s, timers[m])
    BY <1>1, <1>3 DEF FirstAttach, ClickAttach, OnCloseUnconfirmed, TypeOK
  <2> QED BY <1>1, <1>2, <2>1, AttachMountOK
<1>4. CASE \E i \in DOMAIN timers[m] : TimerFires(m, i)
  <2>1. PICK i \in DOMAIN timers[m] : TimerFires(m, i)
    BY <1>4
  <2>2. timers[m] \in Seq(Timer) /\ i \in 1..Len(timers[m])
    BY <1>1 DEF OneHeld
  <2>3. timers[m][i].sid \in MaybeSid
    <3>1. timers[m][i] \in Timer
      BY <2>2
    <3> QED BY <3>1 DEF Timer
  <2>4. Attach(m, timers[m][i].sid, RemoveAt(timers[m], i)) /\ OneHeld(RemoveAt(timers[m], i))
    BY <1>1, <2>1, <2>2, RemoveAtOneHeld DEF TimerFires
  <2> QED BY <1>2, <2>3, <2>4, AttachMountOK
<1> QED BY <1>3, <1>4

LEMMA KillMountOK ==
  ASSUME IInv, NEW k \in kills, KillAnswered(k) \/ KillFails(k)
  PROVE  \A n \in Mount : MountOK(n)'
<1>1. k.mount \in Mount /\ OneHeld(timers[k.mount]) /\ NoSid \in MaybeSid
  BY DEF IInv, MountOK, TypeOK, Delete, MaybeSid
<1>2. CASE KillAnswered(k)
  <2>1. Attach(k.mount, NoSid, timers[k.mount]) /\ UNCHANGED dropped
    BY <1>2 DEF KillAnswered
  <2> QED BY <1>1, <2>1, AttachMountOK
<1>3. CASE KillFails(k)
  <2>1. UNCHANGED dropped /\ \A n \in Mount : Same(n)
    BY <1>3 DEF KillFails, Same, socketVars, retryVars
  <2> QED BY <2>1, SameMountOK DEF IInv
<1> QED BY <1>2, <1>3

-----------------------------------------------------------------------------
LEMMA InitIInv == Init => IInv
<1> SUFFICES ASSUME Init PROVE IInv
  OBVIOUS
<1>1. TypeOK
  <2>1. \A m \in Mount : timers[m] \in Seq(Timer)
    BY DEF Init
  <2>2. timers \in [Mount -> Seq(Timer)]
    BY <2>1 DEF Init
  <2>3. reconnectAttempts \in [Mount -> 0..Retries]
    BY ClientAssumption DEF Init
  <2>4. /\ phase \in [Mount -> Phase] /\ kills \subseteq Delete
        /\ dropped \in [Mount -> SUBSET Sid]
        /\ sess \in [Sid -> {"none", "alive", "exited", "deleted"}]
    BY DEF Init, Phase
  <2>5. /\ asked \in [Mount -> MaybeSid] /\ bound \in [Mount -> MaybeSid]
        /\ currentSID \in [Mount -> MaybeSid]
    BY DEF Init, MaybeSid
  <2>6. strays \in [MaybeSid -> Nat] /\ faults \in Nat /\ exits \in Nat /\ clicks \in Nat
    BY DEF Init
  <2>8. /\ list \in [Mount -> {"none", "asked", "read"}] /\ aliveID \in [Mount -> MaybeSid]
        /\ link \in [Mount -> Link]
    BY DEF Init, MaybeSid, Link
  <2>7. /\ up \in BOOLEAN /\ eof \in [Mount -> BOOLEAN] /\ broken \in [Mount -> BOOLEAN]
        /\ intentionalClose \in [Mount -> BOOLEAN]
    BY DEF Init
  <2> QED BY <2>2, <2>3, <2>4, <2>5, <2>6, <2>7, <2>8 DEF TypeOK
<1>2. ASSUME NEW m \in Mount PROVE MountOK(m)
  <2>1. timers[m] = <<>>
    BY DEF Init
  <2>2. OneHeld(timers[m]) /\ NamesNone(timers[m]) /\ Len(timers[m]) = 0
    BY <2>1 DEF OneHeld, NamesNone
  <2> QED BY <2>1, <2>2 DEF Init, MountOK, Open
<1> QED BY <1>1, <1>2 DEF IInv

LEMMA NextIInv == IInv /\ [Next]_vars => IInv'
<1> SUFFICES ASSUME IInv, [Next]_vars PROVE IInv'
  OBVIOUS
<1>1. CASE Next
  <2>1. \A n \in Mount : MountOK(n)'
    BY <1>1, ServerMountOK, StayMountOK, OpenMountOK, KillMountOK DEF Next, EventLoop, ByUser
  <2> QED BY <1>1, <2>1, NextType DEF IInv
<1>2. CASE UNCHANGED vars
  <2>1. TypeOK'
    BY <1>2 DEF IInv, TypeOK, vars, serverVars, worldVars, socketVars, retryVars, listVars
  <2>2. \A n \in Mount : MountOK(n)'
    BY <1>2, SameMountOK
    DEF IInv, Same, vars, serverVars, worldVars, socketVars, retryVars, listVars
  <2> QED BY <2>1, <2>2 DEF IInv
<1> QED BY <1>1, <1>2

LEMMA IInvHolds == Spec => []IInv
BY InitIInv, NextIInv, PTL DEF Spec

(* Every variable of the terminals and of the world keeps its type; the    *)
(* attempts never exceed Retries (terminal.js, scheduleReconnect).         *)
THEOREM TypeCorrect == Spec => []TypeOK
<1>1. IInv => TypeOK
  BY DEF IInv
<1> QED BY <1>1, IInvHolds, PTL

(* An attached terminal would kill, reconnect to and name the session its  *)
(* socket is bound to (terminal.js, currentSID).                           *)
THEOREM CurrentFollows == Spec => []CurrentIsBound
<1>1. IInv => CurrentIsBound
  BY DEF IInv, MountOK, CurrentIsBound
<1> QED BY <1>1, IInvHolds, PTL

(* A timeout whose handle scheduleReconnect has overwritten names no       *)
(* session.                                                                *)
THEOREM ForgottenTimeouts == Spec => []ForgottenNameNone
<1>1. IInv => ForgottenNameNone
  <2> SUFFICES ASSUME IInv, NEW m \in Mount, NEW i \in DOMAIN timers[m], ~timers[m][i].held
               PROVE  timers[m][i].sid = NoSid
    BY DEF ForgottenNameNone
  <2>1. OneHeld(timers[m]) /\ DOMAIN timers[m] = 1..Len(timers[m])
    BY DEF IInv, MountOK, OneHeld
  <2> QED BY <2>1 DEF OneHeld
<1> QED BY <1>1, IInvHolds, PTL

LEMMA AttachAsks ==
  ASSUME TypeOK, NEW m \in Mount, NEW n \in Mount, NEW s, NEW q, Attach(n, s, q), Asks(m)
  PROVE  m = n /\ asked'[m] = s
BY DEF Attach, TypeOK, Asks

(* An id the terminal gave up, and was not given again since, is asked for *)
(* again by no retry, no forgotten timeout, no click and no second close   *)
(* (terminal.js, ws.onclose): only by the attach that follows the list     *)
(* asked for at mount, whose answer may be late.                           *)
THEOREM GivenUpForGood == Spec => DroppedForGood
<1> DEFINE A == \A m \in Mount :
                  Asks(m) /\ asked'[m] \in dropped[m] => list[m] = "read" /\ list'[m] = "none"
<1>1. ASSUME IInv, [Next]_vars, NEW m \in Mount, Asks(m), asked'[m] \in dropped[m]
      PROVE  list[m] = "read" /\ list'[m] = "none"
  <2>1. TypeOK /\ asked'[m] # NoSid
    BY <1>1, ClientAssumption DEF IInv, TypeOK
  <2>2. \A n \in Mount : \A q : ~Attach(n, NoSid, q)
    BY <1>1, <2>1, AttachAsks
  <2>3. ASSUME NEW n \in Mount, FirstAttach(n) PROVE list[m] = "read" /\ list'[m] = "none"
    <3>1. list[n] = "read" /\ Attach(n, aliveID[n], timers[n])
      BY <2>2, <2>3 DEF FirstAttach
    <3>2. m = n
      BY <1>1, <2>1, <3>1, AttachAsks
    <3> QED BY <2>1, <2>3, <3>1, <3>2 DEF FirstAttach, TypeOK
  <2>4. ASSUME NEW n \in Mount, NEW i \in DOMAIN timers[n], TimerFires(n, i) PROVE FALSE
    <3>1. Attach(n, timers[n][i].sid, RemoveAt(timers[n], i))
      BY <2>4 DEF TimerFires
    <3>2. m = n /\ asked'[m] = timers[n][i].sid
      BY <1>1, <2>1, <3>1, AttachAsks
    <3>3. MountOK(n) /\ DOMAIN timers[n] = 1..Len(timers[n])
      BY <1>1, <2>1 DEF IInv, TypeOK
    <3>4. Open(n, timers[n][i].sid)
      BY <3>3 DEF MountOK
    <3> QED BY <1>1, <2>1, <3>2, <3>4 DEF Open
  <2>5. ASSUME asked'[m] \in {asked[m], NoSid}, phase'[m] = "sent" => phase[m] = "sent"
        PROVE  FALSE
    BY <1>1, <2>1, <2>5 DEF Asks
  <2>6. ASSUME NEW n \in Mount, EventLoop(n) PROVE list[m] = "read" /\ list'[m] = "none"
    <3>1. CASE FirstAttach(n) \/ \E i \in DOMAIN timers[n] : TimerFires(n, i)
      BY <2>3, <2>4, <3>1
    <3>2. CASE OnCloseUnconfirmed(n)
      BY <2>2, <3>2 DEF OnCloseUnconfirmed
    <3>3. CASE OnOpen(n) \/ OnSession(n) \/ OnPtyExit(n) \/ OnClose(n)
      BY <2>1, <2>5, <3>3 DEF OnOpen, OnSession, OnPtyExit, OnClose, TypeOK
    <3> QED BY <2>6, <3>1, <3>2, <3>3 DEF EventLoop
  <2>7. ASSUME NEW n \in Mount, Server(n) PROVE FALSE
    BY <2>1, <2>5, <2>7 DEF Server, ListRead, HandshakeRefused, HandshakeAccepted, Subscribes,
                            TypeOK, socketVars
  <2>8. ASSUME NEW n \in Mount, ByUser(n) PROVE FALSE
    <3>1. CASE ClickAttach(n)
      BY <2>2, <3>1 DEF ClickAttach
    <3>2. CASE Mounted(n) \/ ClickKill(n)
      BY <2>1, <2>5, <3>2 DEF Mounted, ClickKill, TypeOK, socketVars
    <3> QED BY <2>8, <3>1, <3>2 DEF ByUser
  <2>9. ASSUME NEW k \in kills, DeleteServed(k) \/ KillAnswered(k) \/ KillFails(k) PROVE FALSE
    <3>1. CASE KillAnswered(k)
      <4>1. k.mount \in Mount
        BY <2>1 DEF TypeOK, Delete
      <4> QED BY <2>2, <3>1, <4>1 DEF KillAnswered
    <3>2. CASE DeleteServed(k) \/ KillFails(k)
      BY <2>5, <3>2 DEF DeleteServed, KillFails, socketVars
    <3> QED BY <2>9, <3>1, <3>2
  <2>10. ASSUME UNCHANGED vars PROVE FALSE
    BY <2>5, <2>10 DEF vars, socketVars
  <2>11. ASSUME \/ \E a \in MaybeSid : StrayLost(a) \/ \E s \in Sid : StrayArrives(a, s)
                \/ \E s \in Sid : ShellExits(s)
                \/ (\E B \in SUBSET Mount : Outage(B)) \/ ServerRestarts \/ Restored
         PROVE  FALSE
    BY <2>5, <2>11 DEF StrayLost, StrayArrives, ShellExits, Outage, ServerRestarts, Restored,
                       socketVars
  <2> QED BY <1>1, <2>6, <2>7, <2>8, <2>9, <2>10, <2>11 DEF Next
<1>2. IInv /\ [Next]_vars => [A]_vars
  BY <1>1
<1> HIDE DEF A
<1>3. Spec => [][A]_vars
  BY <1>2, IInvHolds, PTL DEF Spec
<1> QED BY <1>3 DEF A, DroppedForGood

(* The server the terminals are modelled against never opens a session     *)
(* past the cap of 1, for any terminals, stray handshakes, kills and       *)
(* restarts: it implements the ledger that Sessions implements too, of     *)
(* which it is the outside (ensureSession).                                *)
THEOREM ServedByLedger == Spec => LedgerSpec
<1> DEFINE holder == [s \in Sid |-> IF sess[s] = "none" THEN "nobody" ELSE "user"]
           cap == [u \in {"user"} |-> 1]
<1>1. Init => Ledger!Init
  BY DEF Init, Ledger!Init
<1>2. IInv /\ [Next]_vars => [Ledger!Next]_<<sess, holder>>
  <2> SUFFICES ASSUME IInv, [Next]_vars, ~UNCHANGED sess PROVE Ledger!Next
    OBVIOUS
  <2>0. sess \in [Sid -> {"none", "alive", "exited", "deleted"}]
    BY DEF IInv, TypeOK
  <2>1. ASSUME NEW s \in Sid, sess[s] \in {"alive", "exited"},
               NEW to \in {"alive", "exited", "deleted"},
               sess' = [sess EXCEPT ![s] = to]
        PROVE  holder' = holder
    BY <2>0, <2>1
  <2>2. ASSUME NEW s \in Sid, EnsureNamed(s) PROVE Ledger!Next
    <3>1. sess[s] = "exited" /\ sess' = [sess EXCEPT ![s] = "alive"] /\ holder' = holder
      BY <2>0, <2>1, <2>2 DEF EnsureNamed
    <3>2. Ledger!Reopen(s)
      BY <3>1 DEF Ledger!Reopen, Ledger!Change
    <3> QED BY <3>2 DEF Ledger!Next
  <2>3. ASSUME NEW s \in Sid, EnsureFresh(s) PROVE Ledger!Next
    <3>1. Ledger!Taken("user") = {}
      BY <2>3 DEF EnsureFresh, Alive, Ledger!Taken
    <3>2. Ledger!Cardinality({}) = 0
      BY FS_EmptySet DEF Ledger!Cardinality, Cardinality
    <3>3. holder' = [holder EXCEPT ![s] = "user"]
      BY <2>0, <2>3 DEF EnsureFresh
    <3>4. Ledger!Open("user", s)
      BY <2>3, <3>1, <3>2, <3>3 DEF EnsureFresh, Ledger!Open
    <3> QED BY <3>4 DEF Ledger!Next
  <2>4. ASSUME NEW s \in Sid, sess[s] = "alive", sess' = [sess EXCEPT ![s] = "exited"]
        PROVE  Ledger!Next
    <3>1. Ledger!Close(s)
      BY <2>1, <2>4 DEF Ledger!Close, Ledger!Change
    <3> QED BY <3>1 DEF Ledger!Next
  <2>5. ASSUME NEW k \in kills, DeleteServed(k) PROVE Ledger!Next
    <3>1. k.sid \in Sid
      BY DEF IInv, TypeOK, Delete
    <3>2. CASE sess[k.sid] = "alive"
      BY <2>4, <2>5, <3>1, <3>2 DEF DeleteServed, ShellGone
    <3>3. CASE sess[k.sid] = "exited"
      <4>1. sess' = [sess EXCEPT ![k.sid] = "deleted"]
        BY <2>5, <3>3 DEF DeleteServed
      <4>2. Ledger!Forget(k.sid)
        BY <2>1, <3>1, <3>3, <4>1 DEF Ledger!Forget, Ledger!Change
      <4> QED BY <3>1, <4>2 DEF Ledger!Next
    <3> QED BY <2>5, <3>2, <3>3 DEF DeleteServed
  <2>6. CASE ServerRestarts
    <3>1. holder' = holder
      BY <2>0, <2>6 DEF ServerRestarts
    <3>2. Ledger!CloseAll
      BY <2>6, <3>1 DEF ServerRestarts, Ledger!CloseAll
    <3> QED BY <3>2 DEF Ledger!Next
  <2>7. ASSUME NEW m \in Mount, NEW s \in Sid, HandshakeAccepted(m, s) PROVE Ledger!Next
    BY <2>2, <2>3, <2>7 DEF HandshakeAccepted
  <2>8. ASSUME NEW a \in MaybeSid, NEW s \in Sid, StrayArrives(a, s) PROVE Ledger!Next
    BY <2>2, <2>3, <2>8 DEF StrayArrives
  <2>9. ASSUME NEW s \in Sid, ShellExits(s) PROVE Ledger!Next
    BY <2>4, <2>9 DEF ShellExits, ShellGone
  <2> QED
    BY <2>5, <2>6, <2>7, <2>8, <2>9
       DEF Next, EventLoop, Server, ByUser, vars, serverVars, FirstAttach, OnOpen, OnSession,
           OnPtyExit, OnCloseUnconfirmed, OnClose, TimerFires, ListRead, HandshakeRefused,
           Subscribes, Mounted, ClickAttach, ClickKill, KillAnswered, KillFails, StrayLost, Outage,
           Restored
<1> QED BY <1>1, <1>2, IInvHolds, PTL DEF Spec, LedgerSpec, Ledger!Spec
=============================================================================
