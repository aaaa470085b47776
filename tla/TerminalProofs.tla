--------------------------- MODULE TerminalProofs ---------------------------
(***************************************************************************)
(* Proofs about Terminal, for any shells, connections and amount of        *)
(* output: who closes a ptmx, which shells may run, who is subscribed, and *)
(* that a client is sent a contiguous piece of a shell's output.           *)
(*                                                                         *)
(* The duty to close a ptmx is a token (Token): it is with the PTY, with   *)
(* the Stop that took the shell, or with its waitExit, and gone once the   *)
(* ptmx is closed.  The position of a handler says which of its callbacks  *)
(* are in the lists, once each (SubsOK).  And the last chunk a client was  *)
(* sent is the last one read, or the one before while the client is still  *)
(* to be called for it (StreamOK).                                         *)
(***************************************************************************)
EXTENDS Terminal, SequenceTheorems, TLAPS

(* How many hold the duty to close the ptmx of s.                          *)
Token(s) ==
  {h \in {"pty", "stop", "wait"} :
     \/ h = "pty" /\ current = s
     \/ h = "stop" /\ stopper[s] # "none"
     \/ h = "wait" /\ waiter[s] = "close"}

ShellOK(s) ==
  /\ shell[s] = "none" => /\ current # s /\ closed[s] = 0 /\ stopper[s] = "none"
                          /\ waiter[s] = "none" /\ reader[s] = "none"
  /\ shell[s] = "running" => waiter[s] = "wait" /\ (current = s \/ stopper[s] = "kill")
  /\ current = s => waiter[s] = "wait"
  /\ shell[s] = "dead" => waiter[s] # "none"
  /\ closed[s] \in {0, 1}
  /\ closed[s] = 1 => Token(s) = {}
  /\ shell[s] # "none" /\ closed[s] = 0 => \E h \in Token(s) : Token(s) = {h}

(* No entry occurs twice.                                                  *)
Once(q) == q \in Seq(Ws) /\ \A i, j \in 1..Len(q) : q[i] = q[j] => i = j

SubsOK ==
  /\ Once(dataCbs) /\ Once(exitCbs)
  /\ \A w \in Ws :
       /\ Contains(dataCbs, w) <=> ws[w] \in {"onexit", "open", "offexit", "offdata"}
       /\ Contains(exitCbs, w) <=> ws[w] \in {"open", "offexit"}
       /\ connected[w] => ws[w] \in {"ondata", "onexit", "open"}

ReadOK(s) ==
  /\ Once(dataFor[s])
  /\ reader[s] = "copy" => dataFor[s] = <<>>
  /\ reader[s] = "copy" \/ dataFor[s] # <<>> => read[s] > 0
  /\ \A w \in Ws : Contains(dataFor[s], w) =>
       ws[w] \notin {"request", "start", "accept", "ondata"}

StreamOK(w, s) ==
  LET o == out[w][s] IN
  /\ o # <<>> => connected[w] /\ Contains(dataCbs, w)
  /\ o # <<>> => o[Len(o)] = IF reader[s] = "copy" \/ Contains(dataFor[s], w)
                             THEN read[s] - 1 ELSE read[s]
  /\ \A i \in 1..(Len(o) - 1) : o[i + 1] = o[i] + 1

IInv ==
  /\ TypeOK
  /\ \A s \in Shell : ShellOK(s) /\ ReadOK(s)
  /\ SubsOK
  /\ \A w \in Ws, s \in Shell : StreamOK(w, s)

-----------------------------------------------------------------------------
(* Lists of callbacks.                                                     *)

LEMMA AppendOnce ==
  ASSUME NEW q, Once(q), NEW w \in Ws, ~Contains(q, w)
  PROVE  /\ Once(Append(q, w))
         /\ \A x : Contains(Append(q, w), x) <=> x = w \/ Contains(q, x)
<1> DEFINE r == Append(q, w)
<1>1. q \in Seq(Ws) /\ Len(q) \in Nat /\ \A i \in 1..Len(q) : q[i] # w
  BY DEF Once, Contains
<1>2. r \in Seq(Ws) /\ Len(r) = Len(q) + 1 /\ r[Len(q) + 1] = w
      /\ \A i \in 1..Len(q) : r[i] = q[i]
  BY <1>1, AppendProperties
<1> HIDE DEF r
<1>3. Once(r)
  BY <1>1, <1>2 DEF Once
<1>4. \A x : Contains(r, x) <=> x = w \/ Contains(q, x)
  BY <1>1, <1>2 DEF Contains
<1> QED BY <1>3, <1>4 DEF r

LEMMA TailOnce ==
  ASSUME NEW q, Once(q), q # <<>>
  PROVE  /\ Once(Tail(q)) /\ Head(q) \in Ws
         /\ \A x : Contains(Tail(q), x) <=> x # Head(q) /\ Contains(q, x)
         /\ Contains(q, Head(q))
<1> DEFINE r == Tail(q)
<1>1. q \in Seq(Ws) /\ Len(q) \in Nat /\ Len(q) > 0
  BY DEF Once
<1>2. r \in Seq(Ws) /\ Len(r) = Len(q) - 1 /\ \A i \in 1..Len(r) : r[i] = q[i + 1]
  BY <1>1, HeadTailProperties
<1>3. Head(q) = q[1] /\ Head(q) \in Ws
  BY <1>1
<1> HIDE DEF r
<1>4. Once(r)
  BY <1>1, <1>2 DEF Once
<1>5. ASSUME NEW x PROVE Contains(r, x) <=> x # q[1] /\ Contains(q, x)
  <2>1. ASSUME NEW i \in 1..Len(r), r[i] = x PROVE x # q[1] /\ Contains(q, x)
    BY <1>1, <1>2, <2>1 DEF Once, Contains
  <2>2. ASSUME NEW i \in 1..Len(q), q[i] = x, x # q[1] PROVE Contains(r, x)
    <3>1. i - 1 \in 1..Len(r) /\ r[i - 1] = x
      BY <1>1, <1>2, <2>2
    <3> QED BY <3>1 DEF Contains
  <2> QED BY <2>1, <2>2 DEF Contains
<1>6. Contains(q, q[1])
  BY <1>1 DEF Contains
<1> QED BY <1>3, <1>4, <1>5, <1>6 DEF r

LEMMA RemoveOnce ==
  ASSUME NEW q, Once(q), NEW w, Contains(q, w)
  PROVE  /\ Once(RemoveFirst(q, w))
         /\ \A x : Contains(RemoveFirst(q, w), x) <=> x # w /\ Contains(q, x)
<1>1. q \in Seq(Ws) /\ Len(q) \in Nat
  BY DEF Once
<1>2. PICK k \in 1..Len(q) : q[k] = w
  BY DEF Contains
<1>3. RemoveFirst(q, w) = RemoveAt(q, k)
  <2>1. {i \in 1..Len(q) : q[i] = w} = {k}
    BY <1>2 DEF Once
  <2>2. Min({k}) = k
    BY <1>1 DEF Min
  <2>3. SelectInSeq(q, LAMBDA v : v = w) = k
    BY <2>1, <2>2 DEF SelectInSeq
  <2> QED BY <1>2, <2>3 DEF RemoveFirst
<1> DEFINE r == RemoveAt(q, k)
           a == SubSeq(q, 1, k - 1)
           b == SubSeq(q, k + 1, Len(q))
<1>4. a \in Seq(Ws) /\ Len(a) = k - 1 /\ \A j \in 1..(k - 1) : a[j] = q[j]
  BY <1>1, SubSeqProperties
<1>5. b \in Seq(Ws) /\ Len(b) = Len(q) - k /\ \A j \in 1..(Len(q) - k) : b[j] = q[k + j]
  BY <1>1, SubSeqProperties
<1>6. r = a \o b
  BY DEF RemoveAt
<1> HIDE DEF a, b, r
<1>7. r \in Seq(Ws) /\ Len(r) = Len(q) - 1
  <2> a \in Seq(Ws) /\ b \in Seq(Ws)
    BY <1>4, <1>5
  <2>1. a \o b \in Seq(Ws) /\ Len(a \o b) = Len(a) + Len(b)
    BY ConcatProperties, Zenon
  <2> QED BY <1>1, <1>4, <1>5, <1>6, <2>1
<1>8. ASSUME NEW j \in 1..Len(r)
      PROVE  r[j] = IF j < k THEN q[j] ELSE q[j + 1]
  <2>1. r[j] = IF j <= Len(a) THEN a[j] ELSE b[j - Len(a)]
    BY <1>1, <1>4, <1>5, <1>6, <1>7, ConcatProperties
  <2> QED BY <1>1, <1>4, <1>5, <1>7, <2>1
<1>9. Once(r)
  BY <1>1, <1>7, <1>8 DEF Once
<1>10. ASSUME NEW x PROVE Contains(r, x) <=> x # w /\ Contains(q, x)
  <2>1. ASSUME NEW i \in 1..Len(r), r[i] = x PROVE x # w /\ Contains(q, x)
    BY <1>1, <1>2, <1>7, <1>8, <2>1 DEF Once, Contains
  <2>2. ASSUME NEW i \in 1..Len(q), q[i] = x, x # w PROVE Contains(r, x)
    <3>1. i # k
      BY <1>2, <2>2
    <3>2. CASE i < k
      BY <1>1, <1>7, <1>8, <2>2, <3>2 DEF Contains
    <3>3. CASE i > k
      <4>1. i - 1 \in 1..Len(r) /\ r[i - 1] = x
        BY <1>1, <1>7, <1>8, <2>2, <3>3
      <4> QED BY <4>1 DEF Contains
    <3> QED BY <3>1, <3>2, <3>3
  <2> QED BY <2>1, <2>2 DEF Contains
<1> QED BY <1>3, <1>9, <1>10 DEF r

-----------------------------------------------------------------------------
(* Who closes a ptmx, and which shells run.                                *)

(* Nothing ShellOK speaks of changes for s.                                *)
SameShell(s) ==
  /\ (current' = s) <=> (current = s)
  /\ shell'[s] = shell[s] /\ closed'[s] = closed[s] /\ stopper'[s] = stopper[s]
  /\ waiter'[s] = waiter[s]
  /\ reader[s] = "none" => reader'[s] = "none"

LEMMA SameShellOK ==
  ASSUME NEW s, ShellOK(s), SameShell(s) PROVE ShellOK(s)'
<1>1. Token(s)' = Token(s)
  BY DEF Token, SameShell
<1> QED BY <1>1 DEF ShellOK, SameShell

LEMMA ShellNext ==
  ASSUME IInv, Next, NEW t \in Shell
  PROVE  ShellOK(t)'
<1>1. TypeOK /\ ShellOK(t) /\ None \notin Shell
  BY TerminalAssumption DEF IInv
<1>2. ASSUME NEW s \in Shell, Spawn(s) PROVE ShellOK(t)'
  <2>1. CASE t = s
    <3>1. /\ shell[s] = "none" /\ shell'[s] = "running" /\ current' = s /\ waiter'[s] = "wait"
          /\ closed'[s] = closed[s] /\ stopper'[s] = stopper[s]
      BY <1>1, <1>2 DEF Spawn, TypeOK
    <3>2. closed'[s] = 0 /\ stopper'[s] = "none"
      BY <1>1, <2>1, <3>1 DEF ShellOK
    <3>3. Token(s)' = {"pty"}
      BY <3>1, <3>2 DEF Token
    <3> QED BY <2>1, <3>1, <3>2, <3>3 DEF ShellOK
  <2>2. CASE t # s
    <3>1. SameShell(t)
      BY <1>1, <1>2, <2>2 DEF Spawn, TypeOK, SameShell
    <3> QED BY <1>1, <3>1, SameShellOK
  <2> QED BY <2>1, <2>2
<1>3. ASSUME NEW s \in Shell, ShellExits(s) PROVE ShellOK(t)'
  <2>1. CASE t = s
    <3>1. /\ shell[s] = "running" /\ shell'[s] = "dead" /\ current' = current
          /\ UNCHANGED <<closed, stopper, waiter, reader>>
      BY <1>1, <1>3 DEF ShellExits, TypeOK, readVars, waitVars
    <3>2. Token(s)' = Token(s)
      BY <3>1 DEF Token
    <3> QED BY <1>1, <2>1, <3>1, <3>2 DEF ShellOK
  <2>2. CASE t # s
    <3>1. SameShell(t)
      BY <1>1, <1>3, <2>2 DEF ShellExits, TypeOK, SameShell, readVars, waitVars
    <3> QED BY <1>1, <3>1, SameShellOK
  <2> QED BY <2>1, <2>2
<1>4. ASSUME NEW s \in Shell, ReadLoop(s) PROVE ShellOK(t)'
  <2>1. SameShell(t)
    BY <1>1, <1>4 DEF ReadLoop, ReadChunk, CopyCallbacks, DeliverChunk, ReadFails, SameShell,
                      TypeOK, shellVars, waitVars
  <2> QED BY <1>1, <2>1, SameShellOK
<1>5. ASSUME NEW s \in Shell, ExitLocked(s) PROVE ShellOK(t)'
  <2>1. CASE t = s
    <3>1. /\ waiter[s] = "wait" /\ shell[s] = "dead" /\ current' # s
          /\ waiter'[s] = IF current = s THEN "close" ELSE "notify"
          /\ UNCHANGED <<shell, closed, stopper, reader>>
      BY <1>1, <1>5 DEF ExitLocked, TypeOK, shellVars, readVars
    <3>2. CASE current = s
      <4>1. Token(s) = {"pty"}
        BY <1>1, <2>1, <3>1, <3>2 DEF ShellOK, Token
      <4>2. Token(s)' = {"wait"} /\ closed[s] # 1
        BY <1>1, <2>1, <3>1, <3>2, <4>1 DEF ShellOK, Token
      <4> QED BY <1>1, <2>1, <3>1, <3>2, <4>2 DEF ShellOK
    <3>3. CASE current # s
      <4>1. Token(s)' = Token(s)
        BY <3>1, <3>3 DEF Token
      <4> QED BY <1>1, <2>1, <3>1, <3>3, <4>1 DEF ShellOK
    <3> QED BY <3>2, <3>3
  <2>2. CASE t # s
    <3>1. SameShell(t)
      BY <1>1, <1>5, <2>2 DEF ExitLocked, TypeOK, SameShell, shellVars, readVars
    <3> QED BY <1>1, <3>1, SameShellOK
  <2> QED BY <2>1, <2>2
<1>6. ASSUME NEW s \in Shell, ExitClose(s) PROVE ShellOK(t)'
  <2>1. CASE t = s
    <3>1. /\ waiter[s] = "close" /\ waiter'[s] = "notify" /\ closed'[s] = closed[s] + 1
          /\ UNCHANGED <<current, shell, stopper, reader>>
      BY <1>1, <1>6 DEF ExitClose, Close, TypeOK, readVars
    <3>2. shell[s] = "dead" /\ closed[s] = 0 /\ current # s
      BY <1>1, <2>1, <3>1 DEF ShellOK, Token, TypeOK
    <3>3. Token(s) = {"wait"}
      BY <1>1, <2>1, <3>1, <3>2 DEF ShellOK, Token
    <3>4. Token(s)' = {}
      BY <3>1, <3>3 DEF Token
    <3> QED BY <1>1, <2>1, <3>1, <3>2, <3>4 DEF ShellOK
  <2>2. CASE t # s
    <3>1. SameShell(t)
      BY <1>1, <1>6, <2>2 DEF ExitClose, Close, TypeOK, SameShell, readVars
    <3> QED BY <1>1, <3>1, SameShellOK
  <2> QED BY <2>1, <2>2
<1>7. ASSUME NEW s \in Shell, ExitNotify(s) PROVE ShellOK(t)'
  <2>1. SameShell(t)
    BY <1>7 DEF ExitNotify, SameShell, shellVars, readVars
  <2> QED BY <1>1, <2>1, SameShellOK
<1>8. ASSUME NEW s \in Shell, StopTake(s) PROVE ShellOK(t)'
  <2>1. CASE t = s
    <3>1. /\ current = s /\ current' # s /\ stopper'[s] = "kill"
          /\ UNCHANGED <<shell, closed, reader, waiter>>
      BY <1>1, <1>8 DEF StopTake, TypeOK, readVars, waitVars
    <3>2. Token(s) = {"pty"} /\ closed[s] # 1
      BY <1>1, <2>1, <3>1 DEF ShellOK, Token
    <3>3. Token(s)' = {"stop"}
      BY <3>1, <3>2 DEF Token
    <3> QED BY <1>1, <2>1, <3>1, <3>2, <3>3 DEF ShellOK
  <2>2. CASE t # s
    <3>1. SameShell(t)
      BY <1>1, <1>8, <2>2 DEF StopTake, TypeOK, SameShell, readVars, waitVars
    <3> QED BY <1>1, <3>1, SameShellOK
  <2> QED BY <2>1, <2>2
<1>9. ASSUME NEW s \in Shell, StopKill(s) PROVE ShellOK(t)'
  <2>1. CASE t = s
    <3>1. /\ stopper[s] = "kill" /\ stopper'[s] = "close" /\ shell'[s] = "dead"
          /\ UNCHANGED <<current, closed, reader, waiter>>
      BY <1>1, <1>9 DEF StopKill, TypeOK, readVars, waitVars
    <3>2. Token(s)' = Token(s) /\ waiter[s] # "none"
      BY <1>1, <2>1, <3>1 DEF Token, ShellOK, TypeOK
    <3> QED BY <1>1, <2>1, <3>1, <3>2 DEF ShellOK
  <2>2. CASE t # s
    <3>1. SameShell(t)
      BY <1>1, <1>9, <2>2 DEF StopKill, TypeOK, SameShell, readVars, waitVars
    <3> QED BY <1>1, <3>1, SameShellOK
  <2> QED BY <2>1, <2>2
<1>10. ASSUME NEW s \in Shell, StopClose(s) PROVE ShellOK(t)'
  <2>1. CASE t = s
    <3>1. /\ stopper[s] = "close" /\ stopper'[s] = "none" /\ closed'[s] = closed[s] + 1
          /\ UNCHANGED <<current, shell, reader, waiter>>
      BY <1>1, <1>10 DEF StopClose, Close, TypeOK, readVars, waitVars
    <3>2. closed[s] = 0 /\ Token(s) = {"stop"}
      BY <1>1, <2>1, <3>1 DEF ShellOK, Token, TypeOK
    <3>3. Token(s)' = {}
      BY <3>1, <3>2 DEF Token
    <3>4. current # s
      <4>1. "pty" \notin Token(s)
        BY <3>2
      <4> QED BY <4>1 DEF Token
    <3>5. shell[s] = "dead" /\ current # s
      BY <1>1, <2>1, <3>1, <3>4 DEF ShellOK, TypeOK
    <3>6. closed'[s] = 1
      BY <3>1, <3>2
    <3> QED BY <1>1, <2>1, <3>1, <3>3, <3>5, <3>6 DEF ShellOK
  <2>2. CASE t # s
    <3>1. SameShell(t)
      BY <1>1, <1>10, <2>2 DEF StopClose, Close, TypeOK, SameShell, readVars, waitVars
    <3> QED BY <1>1, <3>1, SameShellOK
  <2> QED BY <2>1, <2>2
<1>11. ASSUME NEW w \in Ws, \/ Attach(w) \/ StartNoop(w) \/ Accept(w) \/ Refuse(w) \/ OnData(w)
                            \/ OnExit(w) \/ Leave(w) \/ OffExit(w) \/ OffData(w) \/ Disconnect(w)
       PROVE  ShellOK(t)'
  <2>1. UNCHANGED <<current, shellVars, readVars, waitVars>>
    BY <1>11 DEF Attach, StartNoop, Accept, Refuse, OnData, OnExit, Leave, OffExit, OffData,
                 Disconnect
  <2>2. SameShell(t)
    BY <2>1 DEF SameShell, shellVars, readVars, waitVars
  <2> QED BY <1>1, <2>2, SameShellOK
<1>12. ASSUME NEW s \in Shell, StartElsewhere(s) PROVE ShellOK(t)'
  BY <1>2, <1>12 DEF StartElsewhere
<1>13. ASSUME NEW w \in Ws, NEW s \in Shell, StartShell(w, s) PROVE ShellOK(t)'
  BY <1>2, <1>13 DEF StartShell
<1> QED BY <1>3, <1>4, <1>5, <1>6, <1>7, <1>8, <1>9, <1>10, <1>11, <1>12, <1>13
        DEF Next, Handler, WaitExit

-----------------------------------------------------------------------------
(* Who is subscribed.                                                      *)

LEMMA SubsNext == ASSUME IInv, Next PROVE SubsOK'
<1>1. TypeOK /\ SubsOK
  BY DEF IInv
<1>2. CASE UNCHANGED <<cbVars, wsVars>>
  BY <1>1, <1>2 DEF SubsOK, cbVars, wsVars, Once, Contains
<1>3. ASSUME NEW w \in Ws,
             \/ Attach(w) \/ StartNoop(w) \/ Refuse(w) \/ Leave(w)
             \/ \E s \in Shell : StartShell(w, s)
      PROVE  SubsOK'
  <2>1. /\ UNCHANGED <<dataCbs, exitCbs, connected>>
        /\ \A v \in Ws \ {w} : ws'[v] = ws[v]
        /\ \/ ws[w] \in {"request", "start", "accept"} /\ ws'[w] \in {"start", "accept", "returned"}
           \/ ws[w] = "open" /\ ws'[w] = "offexit" /\ ~connected[w]
    BY <1>1, <1>3 DEF Attach, StartNoop, Refuse, Leave, StartShell, Goto, TypeOK, cbVars
  <2> QED BY <1>1, <2>1 DEF SubsOK, Once, Contains
<1>4. ASSUME NEW w \in Ws, Accept(w) \/ Disconnect(w) PROVE SubsOK'
  <2>1. /\ UNCHANGED <<dataCbs, exitCbs>>
        /\ \A v \in Ws \ {w} : ws'[v] = ws[v] /\ connected'[v] = connected[v]
        /\ \/ ws[w] = "accept" /\ ws'[w] = "ondata"
           \/ ws'[w] = ws[w] /\ connected'[w] = FALSE
    BY <1>1, <1>4 DEF Accept, Disconnect, TypeOK, cbVars
  <2> QED BY <1>1, <2>1 DEF SubsOK, Once, Contains
<1>5. ASSUME NEW w \in Ws, OnData(w) \/ OnExit(w) PROVE SubsOK'
  <2>1. UNCHANGED connected /\ \A v \in Ws \ {w} : ws'[v] = ws[v]
    BY <1>1, <1>5 DEF OnData, OnExit, Goto, TypeOK
  <2>2. CASE OnData(w)
    <3>1. ws[w] = "ondata" /\ ws'[w] = "onexit" /\ dataCbs' = Append(dataCbs, w)
          /\ UNCHANGED exitCbs
      BY <1>1, <2>2 DEF OnData, Goto, TypeOK
    <3>2. /\ Once(Append(dataCbs, w))
          /\ \A x : Contains(Append(dataCbs, w), x) <=> x = w \/ Contains(dataCbs, x)
      BY <1>1, <3>1, AppendOnce DEF SubsOK
    <3>3. Once(dataCbs)' /\ \A x : Contains(dataCbs, x)' <=> x = w \/ Contains(dataCbs, x)
      BY <3>1, <3>2 DEF Once, Contains
    <3>4. Once(exitCbs)' /\ \A x : Contains(exitCbs, x)' <=> Contains(exitCbs, x)
      BY <1>1, <3>1 DEF Once, Contains, SubsOK
    <3> QED BY <1>1, <2>1, <3>1, <3>3, <3>4 DEF SubsOK
  <2>3. CASE OnExit(w)
    <3>1. ws[w] = "onexit" /\ ws'[w] = "open" /\ exitCbs' = Append(exitCbs, w)
          /\ UNCHANGED dataCbs
      BY <1>1, <2>3 DEF OnExit, Goto, TypeOK
    <3>2. /\ Once(Append(exitCbs, w))
          /\ \A x : Contains(Append(exitCbs, w), x) <=> x = w \/ Contains(exitCbs, x)
      BY <1>1, <3>1, AppendOnce DEF SubsOK
    <3>3. Once(exitCbs)' /\ \A x : Contains(exitCbs, x)' <=> x = w \/ Contains(exitCbs, x)
      BY <3>1, <3>2 DEF Once, Contains
    <3>4. Once(dataCbs)' /\ \A x : Contains(dataCbs, x)' <=> Contains(dataCbs, x)
      BY <1>1, <3>1 DEF Once, Contains, SubsOK
    <3> QED BY <1>1, <2>1, <3>1, <3>3, <3>4 DEF SubsOK
  <2> QED BY <1>5, <2>2, <2>3
<1>6. ASSUME NEW w \in Ws, OffExit(w) \/ OffData(w) PROVE SubsOK'
  <2>1. UNCHANGED connected /\ \A v \in Ws \ {w} : ws'[v] = ws[v]
    BY <1>1, <1>6 DEF OffExit, OffData, Goto, TypeOK
  <2>2. CASE OffData(w)
    <3>1. ws[w] = "offdata" /\ ws'[w] = "returned" /\ dataCbs' = RemoveFirst(dataCbs, w)
          /\ UNCHANGED exitCbs
      BY <1>1, <2>2 DEF OffData, Goto, TypeOK
    <3>2. /\ Once(RemoveFirst(dataCbs, w))
          /\ \A x : Contains(RemoveFirst(dataCbs, w), x) <=> x # w /\ Contains(dataCbs, x)
      BY <1>1, <3>1, RemoveOnce DEF SubsOK
    <3>3. Once(dataCbs)' /\ \A x : Contains(dataCbs, x)' <=> x # w /\ Contains(dataCbs, x)
      BY <3>1, <3>2 DEF Once, Contains
    <3>4. Once(exitCbs)' /\ \A x : Contains(exitCbs, x)' <=> Contains(exitCbs, x)
      BY <1>1, <3>1 DEF Once, Contains, SubsOK
    <3> QED BY <1>1, <2>1, <3>1, <3>3, <3>4 DEF SubsOK
  <2>3. CASE OffExit(w)
    <3>1. ws[w] = "offexit" /\ ws'[w] = "offdata" /\ exitCbs' = RemoveFirst(exitCbs, w)
          /\ UNCHANGED dataCbs
      BY <1>1, <2>3 DEF OffExit, Goto, TypeOK
    <3>2. /\ Once(RemoveFirst(exitCbs, w))
          /\ \A x : Contains(RemoveFirst(exitCbs, w), x) <=> x # w /\ Contains(exitCbs, x)
      BY <1>1, <3>1, RemoveOnce DEF SubsOK
    <3>3. Once(exitCbs)' /\ \A x : Contains(exitCbs, x)' <=> x # w /\ Contains(exitCbs, x)
      BY <3>1, <3>2 DEF Once, Contains
    <3>4. Once(dataCbs)' /\ \A x : Contains(dataCbs, x)' <=> Contains(dataCbs, x)
      BY <1>1, <3>1 DEF Once, Contains, SubsOK
    <3> QED BY <1>1, <2>1, <3>1, <3>3, <3>4 DEF SubsOK
  <2> QED BY <1>6, <2>2, <2>3
<1>7. ASSUME NEW s \in Shell,
             \/ StartElsewhere(s) \/ ShellExits(s) \/ ReadLoop(s) \/ WaitExit(s)
             \/ StopTake(s) \/ StopKill(s) \/ StopClose(s)
      PROVE  UNCHANGED <<cbVars, wsVars>>
  BY <1>7 DEF StartElsewhere, ShellExits, ReadLoop, ReadChunk, CopyCallbacks, DeliverChunk,
     ReadFails, WaitExit, ExitLocked, ExitClose, ExitNotify, StopTake, StopKill, StopClose
<1> QED BY <1>2, <1>3, <1>4, <1>5, <1>6, <1>7 DEF Next, Handler

-----------------------------------------------------------------------------
(* What clients are sent.                                                  *)

Before == {"request", "start", "accept", "ondata"}

(* A step that reads, copies and sends nothing of s, and takes nobody who  *)
(* is connected out of the list.                                           *)
Quiet(s) ==
  /\ dataFor'[s] = dataFor[s] /\ read'[s] = read[s]
  /\ (reader'[s] = "copy") <=> (reader[s] = "copy")
  /\ \A w \in Ws :
       /\ ws'[w] \in Before => ws[w] \in Before
       /\ \/ out'[w][s] = out[w][s] /\ (connected[w] => connected'[w])
          \/ out'[w][s] = <<>>
       /\ connected[w] /\ Contains(dataCbs, w) => Contains(dataCbs, w)'

LEMMA QuietOK ==
  ASSUME NEW s, ReadOK(s), Quiet(s), \A w \in Ws : StreamOK(w, s)
  PROVE  ReadOK(s)' /\ \A w \in Ws : StreamOK(w, s)'
<1>1. ReadOK(s)'
  <2>1. Once(dataFor[s])' /\ \A w : Contains(dataFor[s], w)' <=> Contains(dataFor[s], w)
    BY DEF Quiet, ReadOK, Once, Contains
  <2> QED BY <2>1 DEF Quiet, ReadOK, Before
<1>2. ASSUME NEW w \in Ws PROVE StreamOK(w, s)'
  <2>1. Contains(dataFor[s], w)' <=> Contains(dataFor[s], w)
    BY DEF Quiet, Contains
  <2>2. StreamOK(w, s)
    OBVIOUS
  <2>3. CASE out'[w][s] = <<>>
    BY <2>3 DEF StreamOK
  <2>4. CASE out'[w][s] = out[w][s] /\ (connected[w] => connected'[w])
    BY <2>1, <2>2, <2>4 DEF StreamOK, Quiet
  <2> QED BY <2>3, <2>4 DEF Quiet
<1> QED BY <1>1, <1>2

(* readLoop is the only one to send chunks.                                *)
LEMMA ReadLoopNext ==
  ASSUME IInv, NEW s \in Shell, ReadLoop(s), NEW t \in Shell
  PROVE  ReadOK(t)' /\ \A w \in Ws : StreamOK(w, t)'
<1>1. /\ TypeOK /\ ReadOK(t) /\ \A w \in Ws : StreamOK(w, t)
      /\ SubsOK /\ UNCHANGED <<dataCbs, ws, connected>>
  BY DEF IInv, ReadLoop, ReadChunk, CopyCallbacks, DeliverChunk, ReadFails, cbVars, wsVars
<1>2. CASE t # s
  <2>1. /\ dataFor'[t] = dataFor[t] /\ read'[t] = read[t] /\ reader'[t] = reader[t]
        /\ \A w \in Ws : out'[w][t] = out[w][t]
    <3>1. CASE DeliverChunk(s)
      <4>1. dataFor'[t] = dataFor[t] /\ UNCHANGED <<read, reader>>
        BY <1>1, <1>2, <3>1 DEF DeliverChunk, TypeOK
      <4>2. \A w \in Ws : out'[w][t] = out[w][t]
        BY <1>1, <1>2, <3>1 DEF DeliverChunk, TypeOK
      <4> QED BY <4>1, <4>2
    <3>2. CASE ReadChunk(s) \/ CopyCallbacks(s) \/ ReadFails(s)
      BY <1>1, <1>2, <3>2 DEF ReadChunk, CopyCallbacks, ReadFails, TypeOK, sentVars
    <3> QED BY <3>1, <3>2 DEF ReadLoop
  <2>2. Quiet(t)
    BY <1>1, <2>1 DEF Quiet, Contains
  <2> QED BY <1>1, <2>2, QuietOK
<1>3. ASSUME t = s, ReadChunk(s) PROVE ReadOK(s)' /\ \A w \in Ws : StreamOK(w, s)'
  <2>1. /\ reader[s] = "read" /\ dataFor[s] = <<>> /\ read'[s] = read[s] + 1 /\ read[s] \in Nat
        /\ reader'[s] = "copy" /\ UNCHANGED <<dataFor, out>>
    BY <1>1, <1>3, TerminalAssumption DEF ReadChunk, TypeOK, sentVars
  <2>2. \A w : ~Contains(dataFor[s], w) /\ ~Contains(dataFor[s], w)'
    BY <2>1 DEF Contains
  <2>3. ReadOK(s)'
    <3>1. Once(dataFor[s])'
      BY <1>1, <1>3, <2>1 DEF ReadOK, Once
    <3>2. read'[s] > 0 /\ dataFor'[s] = <<>>
      BY <2>1
    <3> QED BY <2>2, <3>1, <3>2 DEF ReadOK
  <2>4. ASSUME NEW w \in Ws PROVE StreamOK(w, s)'
    <3>1. StreamOK(w, s)
      BY <1>1, <1>3
    <3>2. Contains(dataCbs, w)' <=> Contains(dataCbs, w)
      BY <1>1 DEF Contains
    <3> QED BY <1>1, <2>1, <2>2, <3>1, <3>2 DEF StreamOK
  <2> QED BY <2>3, <2>4
<1>4. ASSUME t = s, CopyCallbacks(s) PROVE ReadOK(s)' /\ \A w \in Ws : StreamOK(w, s)'
  <2>1. /\ reader[s] = "copy" /\ reader'[s] = "read" /\ dataFor'[s] = dataCbs
        /\ UNCHANGED <<read, out>>
    BY <1>1, <1>4 DEF CopyCallbacks, TypeOK, sentVars
  <2>2. \A w : Contains(dataFor[s], w)' <=> Contains(dataCbs, w)
    BY <2>1 DEF Contains
  <2>3. ReadOK(s)'
    <3>1. Once(dataFor[s])'
      BY <1>1, <2>1 DEF SubsOK, Once
    <3>2. \A w \in Ws : Contains(dataFor[s], w)' => ws'[w] \notin Before
      BY <1>1, <2>2 DEF SubsOK, Before
    <3> QED BY <1>1, <1>4, <2>1, <3>1, <3>2 DEF ReadOK, Before
  <2>4. ASSUME NEW w \in Ws PROVE StreamOK(w, s)'
    <3>1. StreamOK(w, s)
      BY <1>1, <1>4
    <3>2. Contains(dataCbs, w)' <=> Contains(dataCbs, w)
      BY <1>1 DEF Contains
    <3> QED BY <1>1, <2>1, <2>2, <3>1, <3>2 DEF StreamOK
  <2> QED BY <2>3, <2>4
<1>5. ASSUME t = s, DeliverChunk(s) PROVE ReadOK(s)' /\ \A w \in Ws : StreamOK(w, s)'
  <2>1. dataFor[s] # <<>> /\ dataFor'[s] = Tail(dataFor[s]) /\ UNCHANGED <<read, reader>>
    BY <1>1, <1>5 DEF DeliverChunk, TypeOK
  <2>h. PICK h \in Ws : h = Head(dataFor[s])
    BY <1>1, <1>5, <2>1, TailOnce DEF ReadOK
  <2>2. /\ Once(dataFor[s])' /\ Contains(dataFor[s], h)
        /\ \A w : Contains(dataFor[s], w)' <=> w # h /\ Contains(dataFor[s], w)
    <3>1. /\ Once(Tail(dataFor[s])) /\ Contains(dataFor[s], h)
          /\ \A w : Contains(Tail(dataFor[s]), w) <=> w # h /\ Contains(dataFor[s], w)
      BY <1>1, <1>5, <2>1, <2>h, TailOnce DEF ReadOK
    <3> QED BY <2>1, <3>1 DEF Once, Contains
  <2>3. reader[s] # "copy" /\ read[s] \in 1..Chunks
    BY <1>1, <1>5, <2>1, TerminalAssumption DEF ReadOK, TypeOK
  <2>4. /\ out' = IF connected[h] THEN [out EXCEPT ![h][s] = Append(@, read[s])] ELSE out
        /\ out[h] \in [Shell -> Seq(1..Chunks)] /\ out \in [Ws -> [Shell -> Seq(1..Chunks)]]
    BY <1>1, <1>5, <2>h DEF DeliverChunk, TypeOK
  <2>5. ReadOK(s)'
    BY <1>1, <1>5, <2>1, <2>2, <2>3 DEF ReadOK
  <2>6. ASSUME NEW w \in Ws, w # h PROVE StreamOK(w, s)'
    <3>1. StreamOK(w, s)
      BY <1>1, <1>5
    <3>2. Contains(dataCbs, w)' <=> Contains(dataCbs, w)
      BY <1>1 DEF Contains
    <3>3. out'[w][s] = out[w][s]
      BY <2>4, <2>6
    <3>4. Contains(dataFor[s], w)' <=> Contains(dataFor[s], w)
      BY <2>2, <2>6
    <3> QED BY <1>1, <2>1, <3>1, <3>2, <3>3, <3>4 DEF StreamOK
  <2>7. StreamOK(h, s)'
    <3>1. StreamOK(h, s) /\ ~Contains(dataFor[s], h)'
      BY <1>1, <1>5, <2>2
    <3>2. Contains(dataCbs, h)' <=> Contains(dataCbs, h)
      BY <1>1 DEF Contains
    <3>3. CASE ~connected[h]
      BY <1>1, <2>4, <3>1, <3>3 DEF StreamOK
    <3>4. CASE connected[h]
      <4> DEFINE o == out[h][s]
                 n == out'[h][s]
      <4>1. n = Append(o, read[s]) /\ o \in Seq(1..Chunks)
        BY <2>2, <2>4, <3>4
      <4> HIDE DEF n, o
      <4>2. /\ n # <<>> /\ Len(o) \in Nat /\ Len(n) = Len(o) + 1 /\ n[Len(o) + 1] = read[s]
            /\ \A i \in 1..Len(o) : n[i] = o[i]
        BY <2>3, <4>1, AppendProperties
      <4>3. /\ o # <<>> => o[Len(o)] = read[s] - 1
            /\ \A i \in 1..(Len(o) - 1) : o[i + 1] = o[i] + 1
        BY <2>2, <3>1 DEF StreamOK, o
      <4>4. \A i \in 1..(Len(n) - 1) : n[i + 1] = n[i] + 1
        <5>1. Len(o) > 0 => o # <<>>
          BY <4>2
        <5> QED BY <2>3, <4>2, <4>3, <5>1
      <4>5. Contains(dataCbs, h)
        <5>1. ws[h] \notin Before
          BY <1>1, <1>5, <2>2 DEF ReadOK, Before
        <5> QED BY <1>1, <2>2, <3>4, <5>1 DEF SubsOK, Before
      <4>6. connected'[h] /\ Contains(dataCbs, h)'
        BY <1>1, <3>2, <3>4, <4>5
      <4>7. n[Len(n)] = read'[s] /\ reader'[s] # "copy"
        BY <2>1, <2>3, <4>2
      <4> QED BY <3>1, <4>4, <4>6, <4>7 DEF StreamOK, n
    <3> QED BY <3>3, <3>4
  <2> QED BY <2>5, <2>6, <2>7
<1>6. ASSUME t = s, ReadFails(s) PROVE ReadOK(s)' /\ \A w \in Ws : StreamOK(w, s)'
  <2>1. Quiet(s)
    BY <1>1, <1>6 DEF ReadFails, TypeOK, sentVars, Quiet, Contains
  <2> QED BY <1>1, <1>6, <2>1, QuietOK
<1> QED BY <1>2, <1>3, <1>4, <1>5, <1>6 DEF ReadLoop

LEMMA StreamNext ==
  ASSUME IInv, Next, NEW t \in Shell
  PROVE  ReadOK(t)' /\ \A w \in Ws : StreamOK(w, t)'
<1>1. TypeOK /\ ReadOK(t) /\ SubsOK /\ ShellOK(t) /\ \A w \in Ws : StreamOK(w, t)
  BY DEF IInv
<1>2. ASSUME NEW s \in Shell, Spawn(s) PROVE (reader'[t] = "copy") <=> (reader[t] = "copy")
  <2>1. CASE t = s
    BY <1>1, <1>2, <2>1 DEF Spawn, TypeOK, ShellOK
  <2>2. CASE t # s
    BY <1>1, <1>2, <2>2 DEF Spawn, TypeOK
  <2> QED BY <2>1, <2>2
<1>3. ASSUME NEW s \in Shell, StartElsewhere(s) PROVE Quiet(t)
  <2>1. (reader'[t] = "copy") <=> (reader[t] = "copy")
    BY <1>2, <1>3 DEF StartElsewhere
  <2> QED BY <1>3, <2>1 DEF StartElsewhere, Spawn, Quiet, Contains, cbVars, wsVars, sentVars
<1>4. ASSUME NEW s \in Shell,
             ShellExits(s) \/ WaitExit(s) \/ StopTake(s) \/ StopKill(s) \/ StopClose(s)
      PROVE  Quiet(t)
  <2>1. UNCHANGED <<readVars, cbVars, wsVars, out>>
    BY <1>4 DEF ShellExits, WaitExit, ExitLocked, ExitClose, ExitNotify, StopTake, StopKill,
                StopClose, sentVars
  <2> QED BY <2>1 DEF Quiet, Contains, readVars, cbVars, wsVars
<1>5. ASSUME NEW w \in Ws, Handler(w) PROVE Quiet(t)
  <2>1. UNCHANGED <<dataFor, read, out>> /\ (reader'[t] = "copy" <=> reader[t] = "copy")
    <3>1. CASE \E s \in Shell : StartShell(w, s)
      BY <1>2, <3>1 DEF StartShell, Spawn, sentVars
    <3>2. CASE ~\E s \in Shell : StartShell(w, s)
      BY <1>5, <3>2 DEF Handler, Attach, StartNoop, Accept, Refuse, OnData, OnExit, Leave,
                        OffExit, OffData, readVars, sentVars
    <3> QED BY <3>1, <3>2
  <2>2. \A v \in Ws : /\ ws'[v] \in Before => ws[v] \in Before
                      /\ connected[v] => connected'[v]
    <3>1. CASE Accept(w)
      BY <1>1, <3>1 DEF Accept, Before, TypeOK
    <3>2. CASE \E s \in Shell : StartShell(w, s)
      BY <1>1, <3>2 DEF StartShell, Before, TypeOK
    <3>3. CASE Attach(w) \/ StartNoop(w) \/ Refuse(w)
      BY <1>1, <3>3 DEF Attach, StartNoop, Refuse, Goto, Before, TypeOK
    <3>4. CASE OnData(w) \/ OnExit(w) \/ Leave(w) \/ OffExit(w) \/ OffData(w)
      BY <1>1, <3>4 DEF OnData, OnExit, Leave, OffExit, OffData, Goto, Before, TypeOK
    <3> QED BY <1>5, <3>1, <3>2, <3>3, <3>4 DEF Handler
  <2>3. \A v \in Ws : connected[v] /\ Contains(dataCbs, v) => Contains(dataCbs, v)'
    <3>1. CASE OnData(w)
      <4>1. dataCbs' = Append(dataCbs, w) /\ ~Contains(dataCbs, w) /\ Once(dataCbs)
        BY <1>1, <3>1 DEF OnData, SubsOK
      <4>2. \A x : Contains(Append(dataCbs, w), x) <=> x = w \/ Contains(dataCbs, x)
        BY <4>1, AppendOnce
      <4> QED BY <4>1, <4>2 DEF Contains
    <3>2. CASE OffData(w)
      <4>1. /\ dataCbs' = RemoveFirst(dataCbs, w) /\ Contains(dataCbs, w) /\ Once(dataCbs)
            /\ ~connected[w]
        BY <1>1, <3>2 DEF OffData, SubsOK
      <4>2. \A x : Contains(RemoveFirst(dataCbs, w), x) <=> x # w /\ Contains(dataCbs, x)
        BY <4>1, RemoveOnce
      <4>3. \A v \in Ws : connected[v] => v # w
        BY <4>1
      <4>4. \A x : Contains(dataCbs, x)' <=> x # w /\ Contains(dataCbs, x)
        BY <4>1, <4>2 DEF Contains
      <4> QED BY <4>3, <4>4
    <3>3. CASE ~OnData(w) /\ ~OffData(w)
      <4>1. UNCHANGED dataCbs
        BY <1>5, <3>3 DEF Handler, Attach, StartShell, StartNoop, Accept, Refuse, OnExit,
                          Leave, OffExit, cbVars
      <4> QED BY <4>1 DEF Contains
    <3> QED BY <3>1, <3>2, <3>3
  <2> QED BY <2>1, <2>2, <2>3 DEF Quiet
<1>6. ASSUME NEW w \in Ws, Disconnect(w) PROVE Quiet(t)
  <2>1. UNCHANGED <<dataFor, read, reader, dataCbs, ws>>
    BY <1>6 DEF Disconnect, readVars, cbVars
  <2>2. \A v \in Ws : \/ out'[v][t] = out[v][t] /\ (connected[v] => connected'[v])
                      \/ out'[v][t] = <<>>
    BY <1>1, <1>6 DEF Disconnect, TypeOK
  <2> QED BY <2>1, <2>2 DEF Quiet, Contains
<1> QED BY <1>1, <1>3, <1>4, <1>5, <1>6, QuietOK, ReadLoopNext DEF Next

-----------------------------------------------------------------------------
(* Types.                                                                  *)

LEMMA TypeNext == ASSUME IInv, Next PROVE TypeOK'
<1>1. TypeOK /\ SubsOK' /\ \A s \in Shell : ReadOK(s)'
  BY SubsNext, StreamNext DEF IInv
<1>2. /\ (dataCbs \in Seq(Ws) /\ exitCbs \in Seq(Ws))'
      /\ \A s \in Shell : (reader[s] = "copy" => dataFor[s] = <<>>)'
  BY <1>1 DEF SubsOK, ReadOK, Once
<1> DEFINE ProcType == /\ current \in Shell \cup {None}
                       /\ shell \in [Shell -> {"none", "running", "dead"}]
                       /\ closed \in [Shell -> Nat]
                       /\ stopper \in [Shell -> {"none", "kill", "close"}]
           LoopType == /\ read \in [Shell -> 0..Chunks]
                       /\ dataFor \in [Shell -> Seq(Ws)]
                       /\ reader \in [Shell -> {"none", "read", "copy", "ended"}]
           WaitType == /\ waiter \in [Shell -> {"none", "wait", "close", "notify"}]
                       /\ exitFor \in [Shell -> Seq(Ws)]
           HandType == ws \in [Ws -> Position] /\ connected \in [Ws -> BOOLEAN]
           SentType == /\ out \in [Ws -> [Shell -> Seq(1..Chunks)]]
                       /\ exits \in [Ws -> [Shell -> Nat]]
<1>3. ProcType /\ LoopType /\ WaitType /\ HandType /\ SentType
  BY <1>1 DEF TypeOK
<1>4. ASSUME ProcType', LoopType', WaitType', HandType', SentType' PROVE TypeOK'
  BY <1>2, <1>4 DEF TypeOK
<1>5. /\ UNCHANGED <<current, shellVars>> => ProcType'
      /\ UNCHANGED readVars => LoopType'
      /\ UNCHANGED waitVars => WaitType'
      /\ UNCHANGED wsVars => HandType'
      /\ UNCHANGED sentVars => SentType'
  BY <1>3 DEF shellVars, readVars, waitVars, wsVars, sentVars
<1>6. ASSUME NEW s \in Shell, Spawn(s) PROVE ProcType' /\ LoopType' /\ WaitType'
  BY <1>3, <1>6 DEF Spawn
<1>7. ASSUME NEW s \in Shell, StartElsewhere(s) PROVE TypeOK'
  BY <1>4, <1>5, <1>6, <1>7 DEF StartElsewhere
<1>8. ASSUME NEW s \in Shell, ShellExits(s) \/ StopTake(s) \/ StopKill(s) \/ StopClose(s)
      PROVE  TypeOK'
  <2>1. ProcType'
    <3>1. CASE ShellExits(s)
      BY <1>3, <3>1 DEF ShellExits
    <3>2. CASE StopTake(s)
      BY <1>3, <3>2 DEF StopTake
    <3>3. CASE StopKill(s)
      BY <1>3, <3>3 DEF StopKill
    <3>4. CASE StopClose(s)
      BY <1>3, <3>4 DEF StopClose, Close
    <3> QED BY <1>8, <3>1, <3>2, <3>3, <3>4
  <2> QED BY <1>4, <1>5, <1>8, <2>1 DEF ShellExits, StopTake, StopKill, StopClose
<1>9. ASSUME NEW s \in Shell, ReadLoop(s) PROVE TypeOK'
  <2>1. CASE ReadChunk(s)
    <3>1. read[s] + 1 \in 0..Chunks
      BY <1>3, <2>1, TerminalAssumption DEF ReadChunk
    <3>2. LoopType'
      BY <1>3, <2>1, <3>1 DEF ReadChunk
    <3> QED BY <1>4, <1>5, <2>1, <3>2 DEF ReadChunk
  <2>2. CASE CopyCallbacks(s)
    <3>1. dataCbs \in Seq(Ws)
      BY <1>1 DEF TypeOK
    <3>2. LoopType'
      BY <1>3, <2>2, <3>1 DEF CopyCallbacks
    <3> QED BY <1>4, <1>5, <2>2, <3>2 DEF CopyCallbacks
  <2>3. CASE DeliverChunk(s)
    <3>1. dataFor[s] \in Seq(Ws) /\ dataFor[s] # <<>>
      BY <1>3, <2>3 DEF DeliverChunk
    <3>2. Tail(dataFor[s]) \in Seq(Ws) /\ Head(dataFor[s]) \in Ws
      BY <3>1, HeadTailProperties
    <3>3. LoopType'
      BY <1>3, <2>3, <3>2 DEF DeliverChunk
    <3>4. read[s] \in 1..Chunks
      BY <1>3, <3>1, TerminalAssumption DEF IInv, ReadOK
    <3>5. PICK h \in Ws : h = Head(dataFor[s])
      BY <3>2
    <3>6. Append(out[h][s], read[s]) \in Seq(1..Chunks)
      BY <1>3, <3>4
    <3>7. SentType'
      <4>1. out' = IF connected[h] THEN [out EXCEPT ![h][s] = Append(@, read[s])] ELSE out
        BY <2>3, <3>5 DEF DeliverChunk
      <4>2. out' \in [Ws -> [Shell -> Seq(1..Chunks)]]
        BY <1>3, <3>6, <4>1
      <4> QED BY <1>3, <2>3, <4>2 DEF DeliverChunk
    <3> QED BY <1>4, <1>5, <2>3, <3>3, <3>7 DEF DeliverChunk
  <2>4. CASE ReadFails(s)
    <3>1. LoopType'
      BY <1>3, <2>4 DEF ReadFails
    <3> QED BY <1>4, <1>5, <2>4, <3>1 DEF ReadFails
  <2> QED BY <1>9, <2>1, <2>2, <2>3, <2>4 DEF ReadLoop
<1>10. ASSUME NEW s \in Shell, WaitExit(s) PROVE TypeOK'
  <2>1. CASE ExitLocked(s)
    <3>1. exitCbs \in Seq(Ws)
      BY <1>1 DEF TypeOK
    <3>2. WaitType'
      BY <1>3, <2>1, <3>1 DEF ExitLocked
    <3>3. ProcType'
      BY <1>3, <2>1 DEF ExitLocked, shellVars
    <3> QED BY <1>4, <1>5, <2>1, <3>2, <3>3 DEF ExitLocked
  <2>2. CASE ExitClose(s)
    <3>1. ProcType' /\ WaitType'
      BY <1>3, <2>2 DEF ExitClose, Close
    <3> QED BY <1>4, <1>5, <2>2, <3>1 DEF ExitClose
  <2>3. CASE ExitNotify(s)
    <3>1. exitFor[s] \in Seq(Ws) /\ exitFor[s] # <<>>
      BY <1>3, <2>3 DEF ExitNotify
    <3>2. Tail(exitFor[s]) \in Seq(Ws) /\ Head(exitFor[s]) \in Ws
      BY <3>1, HeadTailProperties
    <3>3. WaitType'
      BY <1>3, <2>3, <3>2 DEF ExitNotify
    <3>4. PICK h \in Ws : h = Head(exitFor[s])
      BY <3>2
    <3>5. exits' = IF connected[h] THEN [exits EXCEPT ![h][s] = @ + 1] ELSE exits
      BY <2>3, <3>4 DEF ExitNotify
    <3>6. exits[h][s] + 1 \in Nat
      BY <1>3
    <3>7. SentType'
      <4>1. exits' \in [Ws -> [Shell -> Nat]]
        BY <1>3, <3>5, <3>6
      <4> QED BY <1>3, <2>3, <4>1 DEF ExitNotify
    <3> QED BY <1>4, <1>5, <2>3, <3>3, <3>7 DEF ExitNotify
  <2> QED BY <1>10, <2>1, <2>2, <2>3 DEF WaitExit
<1>11. ASSUME NEW w \in Ws, Handler(w) PROVE TypeOK'
  <2>1. HandType'
    <3>1. CASE Accept(w)
      BY <1>3, <3>1 DEF Accept, Position
    <3>2. CASE \E s \in Shell : StartShell(w, s)
      BY <1>3, <3>2 DEF StartShell, Position
    <3>3. CASE \/ Attach(w) \/ StartNoop(w) \/ Refuse(w) \/ OnData(w) \/ OnExit(w)
               \/ Leave(w) \/ OffExit(w) \/ OffData(w)
      BY <1>3, <3>3 DEF Attach, StartNoop, Refuse, OnData, OnExit, Leave, OffExit, OffData,
                        Goto, Position
    <3> QED BY <1>11, <3>1, <3>2, <3>3 DEF Handler
  <2>2. CASE \E s \in Shell : StartShell(w, s)
    BY <1>4, <1>5, <1>6, <2>1, <2>2 DEF StartShell
  <2>3. CASE ~\E s \in Shell : StartShell(w, s)
    <3>1. UNCHANGED <<current, shellVars, readVars, waitVars, sentVars>>
      BY <1>11, <2>3 DEF Handler, Attach, StartNoop, Accept, Refuse, OnData, OnExit, Leave,
                         OffExit, OffData
    <3> QED BY <1>4, <1>5, <2>1, <3>1
  <2> QED BY <2>2, <2>3
<1>12. ASSUME NEW w \in Ws, Disconnect(w) PROVE TypeOK'
  <2>1. HandType'
    BY <1>3, <1>12 DEF Disconnect
  <2>2. <<>> \in Seq(1..Chunks)
    OBVIOUS
  <2>3. SentType'
    BY <1>3, <1>12, <2>2 DEF Disconnect
  <2> QED BY <1>4, <1>5, <1>12, <2>1, <2>3 DEF Disconnect
<1> QED BY <1>7, <1>8, <1>9, <1>10, <1>11, <1>12 DEF Next

-----------------------------------------------------------------------------
LEMMA InitIInv == Init => IInv
<1> SUFFICES ASSUME Init PROVE IInv
  OBVIOUS
<1>1. TypeOK
  <2>1. <<>> \in Seq(Ws) /\ <<>> \in Seq(1..Chunks) /\ 0 \in 0..Chunks
    BY TerminalAssumption
  <2>2. out \in [Ws -> [Shell -> Seq(1..Chunks)]] /\ exits \in [Ws -> [Shell -> Nat]]
    BY <2>1 DEF Init
  <2> QED BY <2>1, <2>2 DEF Init, TypeOK, Position
<1>2. SubsOK
  BY DEF Init, SubsOK, Once, Contains
<1>3. ASSUME NEW s \in Shell PROVE ShellOK(s) /\ ReadOK(s)
  BY TerminalAssumption DEF Init, ShellOK, ReadOK, Once, Contains
<1>4. ASSUME NEW w \in Ws, NEW s \in Shell PROVE StreamOK(w, s)
  BY DEF Init, StreamOK
<1> QED BY <1>1, <1>2, <1>3, <1>4 DEF IInv

LEMMA NextIInv == IInv /\ [Next]_vars => IInv'
<1> SUFFICES ASSUME IInv, [Next]_vars PROVE IInv'
  OBVIOUS
<1>1. CASE Next
  BY <1>1, TypeNext, ShellNext, SubsNext, StreamNext DEF IInv
<1>2. CASE UNCHANGED vars
  <2> USE <1>2 DEF vars, cbVars, shellVars, readVars, waitVars, wsVars, sentVars
  <2>1. TypeOK'
    BY DEF IInv, TypeOK
  <2>2. \A s \in Shell : ShellOK(s)'
    BY SameShellOK DEF IInv, SameShell
  <2>3. SubsOK'
    BY DEF IInv, SubsOK, Once, Contains
  <2>4. \A s \in Shell : Quiet(s)
    BY DEF Quiet, Contains
  <2>5. \A s \in Shell : ReadOK(s)' /\ \A w \in Ws : StreamOK(w, s)'
    BY <2>4, QuietOK DEF IInv
  <2> QED BY <2>1, <2>2, <2>3, <2>5 DEF IInv
<1> QED BY <1>1, <1>2

LEMMA IInvHolds == Spec => []IInv
BY InitIInv, NextIInv, PTL DEF Spec

(* Every variable of the terminal keeps its type, and a readLoop that is   *)
(* about to copy the callbacks has called them all for the chunk before.   *)
THEOREM TypeCorrect == Spec => []TypeOK
<1>1. IInv => TypeOK
  BY DEF IInv
<1> QED BY <1>1, IInvHolds, PTL

(* The ptmx of a shell is closed by exactly one of Stop and waitExit       *)
(* (pty/manager.go), however they overlap and whatever is started meanwhile. *)
THEOREM OneClose == Spec => []ClosedOnce
<1>1. IInv => ClosedOnce
  <2> SUFFICES ASSUME IInv, NEW s \in Shell
               PROVE  /\ closed[s] <= 1
                      /\ Reported(s) /\ stopper[s] = "none" => closed[s] = 1
    BY DEF ClosedOnce
  <2>1. ShellOK(s) /\ closed[s] \in {0, 1}
    BY DEF IInv, ShellOK
  <2>2. ASSUME Reported(s), stopper[s] = "none", closed[s] = 0 PROVE FALSE
    <3>1. waiter[s] = "notify"
      BY <2>2 DEF Reported
    <3>2. Token(s) = {} /\ shell[s] # "none"
      BY <2>1, <2>2, <3>1 DEF ShellOK, Token
    <3> QED BY <2>1, <2>2, <3>2 DEF ShellOK
  <2> QED BY <2>1, <2>2
<1> QED BY <1>1, IInvHolds, PTL

(* A shell that runs is the one the PTY knows, or a Stop is about to kill  *)
(* it.                                                                     *)
THEOREM NoLostShell == Spec => []KnownShells
<1>1. IInv => KnownShells
  BY DEF IInv, ShellOK, KnownShells
<1> QED BY <1>1, IInvHolds, PTL

(* Subscriptions follow the handlers, whichever come and go meanwhile.     *)
THEOREM Subscriptions == Spec => []SubscriptionsMatch
<1>1. IInv => SubscriptionsMatch
  BY DEF IInv, SubsOK, SubscriptionsMatch, Subscribed
<1> QED BY <1>1, IInvHolds, PTL

(* No gap, repetition or change of order in what a client is sent of a     *)
(* shell, for any number of shells, clients and chunks.                    *)
THEOREM NoGaps == Spec => []ContiguousOutput
<1>1. IInv => ContiguousOutput
  BY DEF IInv, StreamOK, ContiguousOutput
<1> QED BY <1>1, IInvHolds, PTL

(* From outside, the steps of Stop and of a shell's end are one each:      *)
(* whoever uses a pty.Manager may rely on PtyShells.                       *)
THEOREM ImplementsPtys == Spec => PtySpec
<1> DEFINE known == [p \in {"this"} |-> current]
           seen == [s \in Shell |-> Seen(s)]
<1>1. Init => Ptys!Init
  BY DEF Init, Ptys!Init, Seen
<1>2. IInv /\ [Next]_vars => [Ptys!Next]_<<known, seen>>
  <2> SUFFICES ASSUME IInv, [Next]_vars, ~UNCHANGED <<known, seen>> PROVE Ptys!Next
    OBVIOUS
  <2>1. TypeOK /\ \A s \in Shell : ShellOK(s)
    BY DEF IInv
  <2>2. ASSUME UNCHANGED <<current, shell, waiter, stopper>> PROVE FALSE
    BY <2>2 DEF Seen
  <2>3. ASSUME NEW s \in Shell, Spawn(s), UNCHANGED stopper PROVE Ptys!Next
    <3>1. /\ current = None /\ current' = s /\ Seen(s) = "none" /\ Seen(s)' = "running"
          /\ \A q \in Shell : q # s => Seen(q)' = Seen(q)
      BY <2>1, <2>3 DEF Spawn, Seen, TypeOK, ShellOK
    <3>2. Ptys!Start("this", s)
      BY <3>1 DEF Ptys!Start
    <3> QED BY <3>2 DEF Ptys!Next
  <2>4. ASSUME NEW s \in Shell, ShellExits(s) PROVE Ptys!Next
    <3>1. /\ Seen(s) # Seen(s)' => Seen(s) = "running" /\ Seen(s)' = "dead"
          /\ UNCHANGED current
          /\ \A q \in Shell : q # s => Seen(q)' = Seen(q)
      BY <2>1, <2>4 DEF ShellExits, Seen, TypeOK, ShellOK, waitVars
    <3>2. Seen(s) # Seen(s)'
      BY <3>1
    <3>3. Ptys!Exit(s)
      BY <3>1, <3>2 DEF Ptys!Exit
    <3> QED BY <3>3 DEF Ptys!Next
  <2>5. ASSUME NEW s \in Shell, StopTake(s) PROVE Ptys!Next
    <3>1. /\ current = s /\ current' = None /\ Seen(s)' = "dead"
          /\ \A q \in Shell : q # s => Seen(q)' = Seen(q)
      BY <2>1, <2>5, TerminalAssumption DEF StopTake, Seen, TypeOK, ShellOK, waitVars
    <3>2. Ptys!Stop({"this"})
      BY <3>1 DEF Ptys!Stop
    <3> QED BY <3>2 DEF Ptys!Next
  <2>6. ASSUME NEW s \in Shell, StopKill(s) \/ StopClose(s) PROVE FALSE
    <3>1. UNCHANGED current /\ \A q \in Shell : Seen(q)' = Seen(q)
      BY <2>1, <2>6 DEF StopKill, StopClose, Close, Seen, TypeOK, ShellOK, waitVars
    <3> QED BY <3>1
  <2>7. ASSUME NEW s \in Shell, ExitLocked(s) PROVE Ptys!Next
    <3>1. /\ Seen(s) = "dead" /\ Seen(s)' = "none"
          /\ current' = IF current = s THEN None ELSE current
          /\ \A q \in Shell : q # s => Seen(q)' = Seen(q)
      BY <2>1, <2>7 DEF ExitLocked, Seen, TypeOK, ShellOK, shellVars
    <3>2. Ptys!Notice(s)
      BY <3>1 DEF Ptys!Notice
    <3> QED BY <3>2 DEF Ptys!Next
  <2>8. ASSUME NEW s \in Shell, ExitClose(s) PROVE FALSE
    <3>1. UNCHANGED current /\ \A q \in Shell : Seen(q)' = Seen(q)
      BY <2>1, <2>8 DEF ExitClose, Close, Seen, TypeOK
    <3> QED BY <3>1
  <2>9. ASSUME NEW w \in Ws, Handler(w) PROVE Ptys!Next
    <3>1. CASE \E s \in Shell : StartShell(w, s)
      BY <2>3, <3>1 DEF StartShell, Spawn
    <3>2. CASE ~\E s \in Shell : StartShell(w, s)
      BY <2>2, <2>9, <3>2 DEF Handler, Attach, StartNoop, Accept, Refuse, OnData, OnExit, Leave,
                             OffExit, OffData, shellVars, waitVars
    <3> QED BY <3>1, <3>2
  <2>10. ASSUME NEW s \in Shell, ReadLoop(s) \/ ExitNotify(s) PROVE FALSE
    BY <2>2, <2>10 DEF ReadLoop, ReadChunk, CopyCallbacks, DeliverChunk, ReadFails, ExitNotify,
                       shellVars, waitVars
  <2>11. ASSUME NEW w \in Ws, Disconnect(w) PROVE FALSE
    BY <2>2, <2>11 DEF Disconnect, shellVars, waitVars
  <2>12. ~UNCHANGED vars
    BY <2>2 DEF vars, shellVars, waitVars
  <2>13. ASSUME NEW s \in Shell, StartElsewhere(s) PROVE Ptys!Next
    BY <2>3, <2>13 DEF StartElsewhere, Spawn
  <2> QED BY <2>4, <2>5, <2>6, <2>7, <2>8, <2>9, <2>10, <2>11, <2>12, <2>13 DEF Next, WaitExit
<1> QED BY <1>1, <1>2, InitIInv, NextIInv, PTL DEF Spec, PtySpec, Ptys!Spec
=============================================================================
