------------------------------ MODULE Terminal ------------------------------
(***************************************************************************)
(* One terminal: a pty.Manager, the shells it runs one after another with  *)
(* their readLoop and waitExit goroutines, and the WebSocket handlers that *)
(* subscribe to it.  Sessions looks at the same PTY from above, where Stop *)
(* is one step and output does not exist; here Stop is what the code does, *)
(* and every chunk of output is followed to the clients.                   *)
(***************************************************************************)
EXTENDS Integers, Sequences, SequencesExt

CONSTANTS
  Shell,      \* the shells this PTY may start; each is a new cmd and ptmx
  Ws,         \* WebSocket handlers, one connection each
  Chunks,     \* bound: how much a shell writes
  None

ASSUME TerminalAssumption == None \notin Shell \cup Ws /\ Chunks \in Nat

VARIABLES
  current,    \* m.cmd and m.ptmx, always set and cleared together
  dataCbs,    \* the OnData and ...
  exitCbs,    \* ... OnExit callbacks, in order of registration
  shell,      \* the process
  closed,     \* how often the ptmx of a shell was closed
  read,       \* chunks of output its readLoop took
  dataFor,    \* callbacks the readLoop still has to call with chunk read[s]
  waiter,     \* position of the shell's waitExit
  exitFor,    \* callbacks the waitExit still has to call
  stopper,    \* position of the Stop that took the shell
  reader,     \* position of the shell's readLoop
  ws,         \* position of a handler
  connected,  \* is the client at the other end?
  out,        \* out[w][s]: chunks of shell s the client of w was sent
  exits       \* exits[w][s]: pty-exit messages for s it was sent

cbVars    == <<dataCbs, exitCbs>>
shellVars == <<shell, closed, stopper>>
readVars  == <<read, dataFor, reader>>
waitVars  == <<waiter, exitFor>>
wsVars    == <<ws, connected>>
sentVars  == <<out, exits>>
vars == <<current, cbVars, shellVars, readVars, waitVars, wsVars, sentVars>>

Position == {"request", "start", "accept", "ondata", "onexit", "open",
             "offexit", "offdata", "returned"}

(* The type invariant; a readLoop that is about to copy the callbacks for  *)
(* a chunk has called them all for the chunk before.                       *)
TypeOK ==
  /\ current \in Shell \cup {None}
  /\ dataCbs \in Seq(Ws) /\ exitCbs \in Seq(Ws)
  /\ shell \in [Shell -> {"none", "running", "dead"}]
  /\ closed \in [Shell -> Nat]
  /\ read \in [Shell -> 0..Chunks]
  /\ dataFor \in [Shell -> Seq(Ws)]
  /\ reader \in [Shell -> {"none", "read", "copy", "ended"}]
  /\ waiter \in [Shell -> {"none", "wait", "close", "notify"}]
  /\ exitFor \in [Shell -> Seq(Ws)]
  /\ stopper \in [Shell -> {"none", "kill", "close"}]
  /\ ws \in [Ws -> Position]
  /\ connected \in [Ws -> BOOLEAN]
  /\ out \in [Ws -> [Shell -> Seq(1..Chunks)]]
  /\ exits \in [Ws -> [Shell -> Nat]]
  /\ \A s \in Shell : reader[s] = "copy" => dataFor[s] = <<>>

Init ==
  /\ current = None
  /\ dataCbs = <<>> /\ exitCbs = <<>>
  /\ shell = [s \in Shell |-> "none"]
  /\ closed = [s \in Shell |-> 0]
  /\ read = [s \in Shell |-> 0]
  /\ dataFor = [s \in Shell |-> <<>>]
  /\ reader = [s \in Shell |-> "none"]
  /\ waiter = [s \in Shell |-> "none"]
  /\ exitFor = [s \in Shell |-> <<>>]
  /\ stopper = [s \in Shell |-> "none"]
  /\ ws = [w \in Ws |-> "request"]
  /\ connected = [w \in Ws |-> FALSE]
  /\ out = [w \in Ws |-> [s \in Shell |-> <<>>]]
  /\ exits = [w \in Ws |-> [s \in Shell |-> 0]]

Goto(w, c) == ws' = [ws EXCEPT ![w] = c] /\ UNCHANGED connected

-----------------------------------------------------------------------------
(* Start, and the shell.                                                   *)

(* Start with m.cmd = nil: the process, its ptmx and its two goroutines.   *)
Spawn(s) ==
  /\ current = None /\ shell[s] = "none"
  /\ current' = s
  /\ shell' = [shell EXCEPT ![s] = "running"]
  /\ reader' = [reader EXCEPT ![s] = "read"]
  /\ waiter' = [waiter EXCEPT ![s] = "wait"]
  /\ UNCHANGED <<closed, stopper, read, dataFor, exitFor>>

(* Restart's Start (after its Stop) or that of POST /api/sessions.         *)
StartElsewhere(s) == Spawn(s) /\ UNCHANGED <<cbVars, wsVars, sentVars>>

ShellExits(s) ==
  /\ shell[s] = "running"
  /\ shell' = [shell EXCEPT ![s] = "dead"]
  /\ UNCHANGED <<current, cbVars, closed, stopper, readVars, waitVars,
                 wsVars, sentVars>>

Close(s) == closed' = [closed EXCEPT ![s] = @ + 1]

-----------------------------------------------------------------------------
(* readLoop.                                                               *)

(* Mutation: the callbacks run in goroutines that nobody waits for, and    *)
(* share the buffer of the next read.                                      *)
ReadChunkEarly(s) ==
  /\ reader[s] = "read"
  /\ closed[s] = 0 /\ read[s] < Chunks
  /\ read' = [read EXCEPT ![s] = @ + 1]
  /\ reader' = [reader EXCEPT ![s] = "copy"]
  /\ UNCHANGED <<current, cbVars, shellVars, dataFor, waitVars, wsVars, sentVars>>

(* ptmx.Read returns what the shell wrote next, or had written before it   *)
(* died.                                                                   *)
ReadChunk(s) ==
  /\ reader[s] = "read" /\ dataFor[s] = <<>>
  /\ closed[s] = 0 /\ read[s] < Chunks
  /\ read' = [read EXCEPT ![s] = @ + 1]
  /\ reader' = [reader EXCEPT ![s] = "copy"]
  /\ UNCHANGED <<current, cbVars, shellVars, dataFor, waitVars, wsVars, sentVars>>

(* The callbacks are copied under the lock and called without it.          *)
CopyCallbacks(s) ==
  /\ reader[s] = "copy"
  /\ dataFor' = [dataFor EXCEPT ![s] = dataCbs]
  /\ reader' = [reader EXCEPT ![s] = "read"]
  /\ UNCHANGED <<current, cbVars, shellVars, read, waitVars, wsVars, sentVars>>

(* Mutation: the write to a client that is gone does not return.           *)
DeliverBlocks(s) ==
  /\ dataFor[s] # <<>> /\ connected[Head(dataFor[s])]
  /\ dataFor' = [dataFor EXCEPT ![s] = Tail(@)]
  /\ out' = [out EXCEPT ![Head(dataFor[s])][s] = Append(@, read[s])]
  /\ UNCHANGED <<current, cbVars, shellVars, read, reader, waitVars, wsVars, exits>>

(* One callback: c.Write; its error is dropped.                            *)
DeliverChunk(s) ==
  /\ dataFor[s] # <<>>
  /\ dataFor' = [dataFor EXCEPT ![s] = Tail(@)]
  /\ LET w == Head(dataFor[s]) IN
       out' = IF connected[w]
              THEN [out EXCEPT ![w][s] = Append(@, read[s])]
              ELSE out
  /\ UNCHANGED <<current, cbVars, shellVars, read, reader, waitVars, wsVars, exits>>

(* Read fails: the ptmx is closed (and what was not read yet is lost), or  *)
(* the shell is gone and has no more output.                               *)
ReadFails(s) ==
  /\ reader[s] = "read" /\ dataFor[s] = <<>>
  /\ closed[s] > 0 \/ shell[s] = "dead"
  /\ reader' = [reader EXCEPT ![s] = "ended"]
  /\ UNCHANGED <<current, cbVars, shellVars, read, dataFor, waitVars, wsVars, sentVars>>

-----------------------------------------------------------------------------
(* waitExit.                                                               *)

(* Mutation: the comparison with m.ptmx is missing.                        *)
ExitAnyShell(s) ==
  /\ waiter[s] = "wait" /\ shell[s] = "dead"
  /\ current' = None
  /\ waiter' = [waiter EXCEPT ![s] = "close"]
  /\ exitFor' = [exitFor EXCEPT ![s] = exitCbs]
  /\ UNCHANGED <<cbVars, shellVars, readVars, wsVars, sentVars>>

(* Mutation: a shell that was stopped is not reported.                     *)
ExitCurrentOnly(s) ==
  /\ waiter[s] = "wait" /\ shell[s] = "dead"
  /\ current' = IF current = s THEN None ELSE current
  /\ waiter' = [waiter EXCEPT ![s] = IF current = s THEN "close" ELSE "notify"]
  /\ exitFor' = [exitFor EXCEPT ![s] = IF current = s THEN exitCbs ELSE <<>>]
  /\ UNCHANGED <<cbVars, shellVars, readVars, wsVars, sentVars>>

(* cmd.Wait returned: under the lock, clear cmd and ptmx if they are still *)
(* this shell's, and copy the exit callbacks in any case.                  *)
ExitLocked(s) ==
  /\ waiter[s] = "wait" /\ shell[s] = "dead"
  /\ current' = IF current = s THEN None ELSE current
  /\ waiter' = [waiter EXCEPT ![s] = IF current = s THEN "close" ELSE "notify"]
  /\ exitFor' = [exitFor EXCEPT ![s] = exitCbs]
  /\ UNCHANGED <<cbVars, shellVars, readVars, wsVars, sentVars>>

ExitClose(s) ==
  /\ waiter[s] = "close"
  /\ Close(s)
  /\ waiter' = [waiter EXCEPT ![s] = "notify"]
  /\ UNCHANGED <<current, cbVars, shell, stopper, readVars, exitFor,
                 wsVars, sentVars>>

ExitNotify(s) ==
  /\ waiter[s] = "notify" /\ exitFor[s] # <<>>
  /\ exitFor' = [exitFor EXCEPT ![s] = Tail(@)]
  /\ LET w == Head(exitFor[s]) IN
       exits' = IF connected[w] THEN [exits EXCEPT ![w][s] = @ + 1] ELSE exits
  /\ UNCHANGED <<current, cbVars, shellVars, readVars, waiter, wsVars, out>>

Reported(s) == waiter[s] = "notify" /\ exitFor[s] = <<>>

-----------------------------------------------------------------------------
(* Stop: take cmd and ptmx under the lock, then SIGKILL, then Close.       *)

(* Mutation: cmd and ptmx stay where they are until waitExit clears them.  *)
StopTakeNothing(s) ==
  /\ current = s /\ stopper[s] = "none"
  /\ stopper' = [stopper EXCEPT ![s] = "kill"]
  /\ UNCHANGED <<current, cbVars, shell, closed, readVars, waitVars,
                 wsVars, sentVars>>

StopTake(s) ==
  /\ current = s
  /\ current' = None
  /\ stopper' = [stopper EXCEPT ![s] = "kill"]
  /\ UNCHANGED <<cbVars, shell, closed, readVars, waitVars, wsVars, sentVars>>

StopKill(s) ==
  /\ stopper[s] = "kill"
  /\ shell' = [shell EXCEPT ![s] = "dead"]
  /\ stopper' = [stopper EXCEPT ![s] = "close"]
  /\ UNCHANGED <<current, cbVars, closed, readVars, waitVars, wsVars, sentVars>>

StopClose(s) ==
  /\ stopper[s] = "close"
  /\ Close(s)
  /\ stopper' = [stopper EXCEPT ![s] = "none"]
  /\ UNCHANGED <<current, cbVars, shell, readVars, waitVars, wsVars, sentVars>>

-----------------------------------------------------------------------------
(* handleTerminalWS.                                                       *)

(* ensureSession: a PTY that is Alive is taken as it is.                   *)
Attach(w) ==
  /\ ws[w] = "request"
  /\ Goto(w, IF current # None THEN "accept" ELSE "start")
  /\ UNCHANGED <<current, cbVars, shellVars, readVars, waitVars, sentVars>>

StartShell(w, s) ==
  /\ ws[w] = "start"
  /\ Spawn(s)
  /\ ws' = [ws EXCEPT ![w] = "accept"]
  /\ UNCHANGED <<cbVars, connected, sentVars>>

StartNoop(w) ==
  /\ ws[w] = "start" /\ current # None
  /\ Goto(w, "accept")
  /\ UNCHANGED <<current, cbVars, shellVars, readVars, waitVars, sentVars>>

(* The upgrade and the {type:"session"} message.                           *)
Accept(w) ==
  /\ ws[w] = "accept"
  /\ ws' = [ws EXCEPT ![w] = "ondata"]
  /\ connected' = [connected EXCEPT ![w] = TRUE]
  /\ UNCHANGED <<current, cbVars, shellVars, readVars, waitVars, sentVars>>

(* Start, Accept or the first Write fails: nothing was subscribed.         *)
Refuse(w) ==
  /\ ws[w] \in {"start", "accept"}
  /\ Goto(w, "returned")
  /\ UNCHANGED <<current, cbVars, shellVars, readVars, waitVars, sentVars>>

OnData(w) ==
  /\ ws[w] = "ondata"
  /\ dataCbs' = Append(dataCbs, w)
  /\ Goto(w, "onexit")
  /\ UNCHANGED <<current, exitCbs, shellVars, readVars, waitVars, sentVars>>

OnExit(w) ==
  /\ ws[w] = "onexit"
  /\ exitCbs' = Append(exitCbs, w)
  /\ Goto(w, "open")
  /\ UNCHANGED <<current, dataCbs, shellVars, readVars, waitVars, sentVars>>

(* The client goes away, at any time, and what it was sent with it.        *)
Disconnect(w) ==
  /\ connected[w]
  /\ connected' = [connected EXCEPT ![w] = FALSE]
  /\ out' = [out EXCEPT ![w] = [s \in Shell |-> <<>>]]
  /\ exits' = [exits EXCEPT ![w] = [s \in Shell |-> 0]]
  /\ UNCHANGED <<current, cbVars, shellVars, readVars, waitVars, ws>>

(* c.Read fails, and the deferred unsubscriptions run, last one first.     *)
Leave(w) ==
  /\ ws[w] = "open" /\ ~connected[w]
  /\ Goto(w, "offexit")
  /\ UNCHANGED <<current, cbVars, shellVars, readVars, waitVars, sentVars>>

OffExit(w) ==
  /\ ws[w] = "offexit"
  /\ exitCbs' = RemoveFirst(exitCbs, w)
  /\ Goto(w, "offdata")
  /\ UNCHANGED <<current, dataCbs, shellVars, readVars, waitVars, sentVars>>

(* Mutation: the wrong entry is cut out, the head of the list.             *)
OffDataHead(w) ==
  /\ ws[w] = "offdata"
  /\ dataCbs' = Tail(dataCbs)
  /\ Goto(w, "returned")
  /\ UNCHANGED <<current, exitCbs, shellVars, readVars, waitVars, sentVars>>

OffData(w) ==
  /\ ws[w] = "offdata"
  /\ dataCbs' = RemoveFirst(dataCbs, w)
  /\ Goto(w, "returned")
  /\ UNCHANGED <<current, exitCbs, shellVars, readVars, waitVars, sentVars>>

-----------------------------------------------------------------------------
ReadLoop(s) ==
  ReadChunk(s) \/ CopyCallbacks(s) \/ DeliverChunk(s) \/ ReadFails(s)

WaitExit(s) == ExitLocked(s) \/ ExitClose(s) \/ ExitNotify(s)

Handler(w) ==
  \/ Attach(w) \/ (\E s \in Shell : StartShell(w, s)) \/ StartNoop(w)
  \/ Accept(w) \/ Refuse(w) \/ OnData(w) \/ OnExit(w)
  \/ Leave(w) \/ OffExit(w) \/ OffData(w)

Next ==
  \/ \E s \in Shell : \/ StartElsewhere(s) \/ ShellExits(s)
                      \/ ReadLoop(s) \/ WaitExit(s)
                      \/ StopTake(s) \/ StopKill(s) \/ StopClose(s)
  \/ \E w \in Ws : Handler(w) \/ Disconnect(w)

(* Goroutines in the middle of their work are scheduled; clients, shells   *)
(* and whoever calls Start or Stop do as they please.  A client that is    *)
(* connected takes what it is sent: a Write that blocks for ever on a full *)
(* socket is not modelled.                                                 *)
Fairness ==
  /\ \A s \in Shell : /\ WF_vars(ReadLoop(s)) /\ WF_vars(WaitExit(s))
                      /\ WF_vars(StopKill(s) \/ StopClose(s))
  /\ \A w \in Ws : WF_vars(Handler(w) /\ ws[w] # "request")

Spec == Init /\ [][Next]_vars

FairSpec == Spec /\ Fairness

-----------------------------------------------------------------------------
(* Correctness.                                                            *)

(* What a client is sent of one shell is a contiguous piece of that        *)
(* shell's output: no gap, no repetition, nothing out of order, whatever   *)
(* subscribers come and go meanwhile (readLoop's copy of dataCbs).         *)
ContiguousOutput ==
  \A w \in Ws, s \in Shell : \A i \in 1..(Len(out[w][s]) - 1) :
    out[w][s][i + 1] = out[w][s][i] + 1

(* The ptmx of a shell is closed by exactly one of Stop and waitExit: not  *)
(* twice (the descriptor may be somebody else's by then), and not never.   *)
ClosedOnce ==
  \A s \in Shell :
    /\ closed[s] <= 1
    /\ Reported(s) /\ stopper[s] = "none" => closed[s] = 1

(* No shell outlives the PTY's knowledge of it: one that runs is the       *)
(* current one or about to be killed, so two never share the terminal for  *)
(* longer than a Stop takes.                                               *)
KnownShells ==
  \A s \in Shell : shell[s] = "running" => current = s \/ stopper[s] = "kill"

(* Seen from outside a Stop is one step: a shell that was taken is as good *)
(* as dead, though it may run until its SIGKILL while the next one starts; *)
(* and its own end is noticed in one step, though closing and reporting    *)
(* take more.  PtyShells is all that Sessions relies on.                   *)
Seen(s) ==
  CASE shell[s] = "none" \/ waiter[s] \in {"close", "notify"} -> "none"
    [] shell[s] = "running" /\ stopper[s] # "kill" -> "running"
    [] OTHER -> "dead"

Ptys == INSTANCE PtyShells
          WITH Pty <- {"this"}, Proc <- Shell, Nobody <- None,
               cmd <- [p \in {"this"} |-> current],
               state <- [s \in Shell |-> Seen(s)]

PtySpec == Ptys!Spec

(* A handler that has returned has left no callback behind, and one that   *)
(* serves a client is still subscribed to both streams.                    *)
Subscribed(w) == Contains(dataCbs, w) /\ Contains(exitCbs, w)

SubscriptionsMatch ==
  \A w \in Ws :
    /\ ws[w] = "open" => Subscribed(w)
    /\ ws[w] = "returned" => ~Contains(dataCbs, w) /\ ~Contains(exitCbs, w)

(* A client that is there when a shell dies, killed or not, is told.       *)
ExitsReported ==
  \A w \in Ws, s \in Shell :
    (waiter[s] = "wait" /\ shell[s] = "dead" /\ ws[w] = "open" /\ connected[w])
      ~> (exits[w][s] = 1 \/ ~connected[w])

(* The two goroutines of every shell that dies come to an end, whatever    *)
(* clients come and go: neither waits for a client, a Stop or the other.   *)
GoroutinesEnd ==
  \A s \in Shell :
    shell[s] = "dead" ~> (shell[s] = "dead" /\ reader[s] = "ended" /\ Reported(s))
=============================================================================
