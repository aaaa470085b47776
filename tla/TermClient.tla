----------------------------- MODULE TermClient -----------------------------
(***************************************************************************)
(* The browser terminal (web/src/terminal.js, mountTerminal) against one   *)
(* user's sessions with a cap of 1.  A mount is one call of mountTerminal: *)
(* another browser tab, or a return to the Terminal view, which builds a   *)
(* new terminal and leaves the timers and the socket of the old one alive. *)
(*                                                                         *)
(* A step of a mount is one callback of its event loop.  The server is     *)
(* ensureSession, seen from outside, and an error of it shows only as a    *)
(* socket that closes: it answers before the upgrade.                      *)
(***************************************************************************)
EXTENDS Naturals, SequencesExt

CONSTANTS
  Mount,      \* the terminals mounted in the user's browsers
  Sid,        \* session ids
  NoSid,      \* no session named: "" or null in the code
  Retries,    \* reconnections before giving up; 6 in the code
  MaxEvents   \* bound: outages, restarts of the server, shells that end by
              \* themselves and clicks on Restart terminal, together

ASSUME ClientAssumption ==
  /\ NoSid \notin Sid
  /\ Retries \in Nat /\ MaxEvents \in Nat

VARIABLES
  sess,         \* row of each session: none, alive, exited, deleted
  up,           \* the network is up
  faults, exits, clicks,
  list,         \* the list request of each mount: none, asked, read
  aliveID,      \* the live session the server read for it
  phase,        \* where each mount is: not yet there, or how far its socket is
  asked,        \* the id in the URL of a socket, until the server answers
  bound,        \* the session the server bound the socket to
  link,         \* what the socket's handler has to do with a shell's exit
  eof,          \* a pty-exit message is on its way on the socket
  broken,       \* the connection is lost, the client does not know yet
  currentSID,
  reconnectAttempts,
  timers,       \* pending timeouts, oldest first; held: reconnectTimer's
  intentionalClose,
  kills,        \* DELETE requests in flight
  strays,       \* handshakes on their way whose socket was replaced
  dropped       \* history: ids each mount gave up as unknown, and was not
                \* given again since

serverVars  == <<sess, strays>>
worldVars   == <<up, faults, exits, clicks>>
listVars    == <<list, aliveID>>
socketVars  == <<phase, asked, bound, link, eof, broken>>
retryVars   == <<reconnectAttempts, timers>>
vars == <<serverVars, worldVars, listVars, socketVars, currentSID, retryVars,
          intentionalClose, kills, dropped>>

MaybeSid == Sid \cup {NoSid}
Timer == [sid : MaybeSid, wait : Nat, held : BOOLEAN]
Delete == [mount : Mount, sid : Sid, n : Nat, done : BOOLEAN]

(* closed: there is no socket, or it has closed.                           *)
Phase == {"off", "sent", "refused", "accepted", "open", "attached", "closed"}

(* early: the handler has not subscribed OnExit yet; dead: the shell of    *)
(* the PTY it holds is gone.                                               *)
Link == {"none", "early", "subscribed", "dead"}

TypeOK ==
  /\ sess \in [Sid -> {"none", "alive", "exited", "deleted"}]
  /\ up \in BOOLEAN
  /\ faults \in Nat /\ exits \in Nat /\ clicks \in Nat
  /\ list \in [Mount -> {"none", "asked", "read"}] /\ aliveID \in [Mount -> MaybeSid]
  /\ phase \in [Mount -> Phase] /\ link \in [Mount -> Link]
  /\ asked \in [Mount -> MaybeSid] /\ bound \in [Mount -> MaybeSid]
  /\ eof \in [Mount -> BOOLEAN] /\ broken \in [Mount -> BOOLEAN]
  /\ currentSID \in [Mount -> MaybeSid]
  /\ reconnectAttempts \in [Mount -> 0..Retries]
  /\ timers \in [Mount -> Seq(Timer)]
  /\ intentionalClose \in [Mount -> BOOLEAN]
  /\ kills \subseteq Delete
  /\ strays \in [MaybeSid -> Nat]
  /\ dropped \in [Mount -> SUBSET Sid]

Init ==
  /\ sess = [s \in Sid |-> "none"]
  /\ up = TRUE
  /\ faults = 0 /\ exits = 0 /\ clicks = 0
  /\ list = [m \in Mount |-> "none"] /\ aliveID = [m \in Mount |-> NoSid]
  /\ phase = [m \in Mount |-> "off"] /\ link = [m \in Mount |-> "none"]
  /\ asked = [m \in Mount |-> NoSid] /\ bound = [m \in Mount |-> NoSid]
  /\ eof = [m \in Mount |-> FALSE] /\ broken = [m \in Mount |-> FALSE]
  /\ currentSID = [m \in Mount |-> NoSid]
  /\ reconnectAttempts = [m \in Mount |-> 0]
  /\ timers = [m \in Mount |-> <<>>]
  /\ intentionalClose = [m \in Mount |-> FALSE]
  /\ kills = {}
  /\ strays = [s \in MaybeSid |-> 0]
  /\ dropped = [m \in Mount |-> {}]

Alive == {s \in Sid : sess[s] = "alive"}
Upgraded == {"accepted", "open", "attached"}

EventsLeft == faults + exits + clicks < MaxEvents

-----------------------------------------------------------------------------
(* The pieces of the client.                                               *)

(* clearTimeout(reconnectTimer), where it is set: to the youngest timeout. *)
Cleared(q) == IF q # <<>> /\ Last(q).held THEN Front(q) ELSE q

(* reconnectTimer is assigned without a clearTimeout: a timeout that is    *)
(* still pending is forgotten, and fires all the same.                     *)
Forgotten(q) == [i \in DOMAIN q |-> [q[i] EXCEPT !.held = FALSE]]

(* Mutation: the attempts are not compared with the limit.                 *)
ScheduleUncapped(m, s) ==
  IF intentionalClose[m]
  THEN UNCHANGED retryVars
  ELSE /\ reconnectAttempts' = [reconnectAttempts EXCEPT ![m] = @ + 1]
       /\ timers' = [timers EXCEPT ![m] =
            Append(Forgotten(@), [sid |-> s, wait |-> reconnectAttempts[m], held |-> TRUE])]

(* Mutation: an attempt is not counted.                                    *)
ScheduleUncounted(m, s) ==
  IF intentionalClose[m] \/ reconnectAttempts[m] >= Retries
  THEN UNCHANGED retryVars
  ELSE /\ timers' = [timers EXCEPT ![m] =
            Append(Forgotten(@), [sid |-> s, wait |-> reconnectAttempts[m], held |-> TRUE])]
       /\ UNCHANGED reconnectAttempts

(* scheduleReconnect(s).                                                   *)
ScheduleReconnect(m, s) ==
  IF intentionalClose[m] \/ reconnectAttempts[m] >= Retries
  THEN UNCHANGED retryVars
  ELSE /\ reconnectAttempts' = [reconnectAttempts EXCEPT ![m] = @ + 1]
       /\ timers' = [timers EXCEPT ![m] =
            Append(Forgotten(@), [sid |-> s, wait |-> reconnectAttempts[m], held |-> TRUE])]

(* attach(s), with q the timeouts pending.  The old socket's onclose is    *)
(* removed and close() silences its messages; a handshake it had under way *)
(* may still reach the server.                                             *)
Attach(m, s, q) ==
  /\ timers' = [timers EXCEPT ![m] = Cleared(q)]
  /\ currentSID' = [currentSID EXCEPT ![m] = s]
  /\ strays' = IF phase[m] = "sent" /\ up /\ ~broken[m]
               THEN [strays EXCEPT ![asked[m]] = @ + 1] ELSE strays
  /\ phase' = [phase EXCEPT ![m] = "sent"]
  /\ asked' = [asked EXCEPT ![m] = s]
  /\ bound' = [bound EXCEPT ![m] = NoSid]
  /\ link' = [link EXCEPT ![m] = "none"]
  /\ eof' = [eof EXCEPT ![m] = FALSE]
  /\ broken' = [broken EXCEPT ![m] = FALSE]

-----------------------------------------------------------------------------
(* The server.                                                             *)

(* ensureSession with ?session=s: 404 for an unknown id, else the session  *)
(* is found alive or revived.                                              *)
EnsureNamed(s) ==
  /\ sess[s] \in {"alive", "exited"}
  /\ sess' = [sess EXCEPT ![s] = "alive"]

Unknown(s) == s \in Sid /\ sess[s] \notin {"alive", "exited"}

(* ensureSession without an id, below the cap: a fresh session s (one id   *)
(* never used is like another).                                            *)
FreshId == CHOOSE s \in Sid : sess[s] = "none"

EnsureFresh(s) ==
  /\ Alive = {}
  /\ sess[s] = "none" /\ s = FreshId
  /\ sess' = [sess EXCEPT ![s] = "alive"]

(* A handshake is answered: by an upgrade that binds the socket, and the   *)
(* session message, ...                                                    *)
HandshakeAccepted(m, s) ==
  /\ up /\ phase[m] = "sent" /\ ~broken[m]
  /\ IF asked[m] = NoSid THEN EnsureFresh(s) ELSE s = asked[m] /\ EnsureNamed(s)
  /\ phase' = [phase EXCEPT ![m] = "accepted"]
  /\ bound' = [bound EXCEPT ![m] = s]
  /\ link' = [link EXCEPT ![m] = "early"]
  /\ asked' = [asked EXCEPT ![m] = NoSid]
  /\ UNCHANGED <<strays, worldVars, eof, broken, currentSID, retryVars,
                 intentionalClose, kills, dropped, listVars>>

(* ... or by 404 or 409.                                                   *)
HandshakeRefused(m) ==
  /\ up /\ phase[m] = "sent" /\ ~broken[m]
  /\ IF asked[m] = NoSid THEN Alive # {} ELSE Unknown(asked[m])
  /\ phase' = [phase EXCEPT ![m] = "refused"]
  /\ asked' = [asked EXCEPT ![m] = NoSid]
  /\ UNCHANGED <<serverVars, worldVars, bound, link, eof, broken, currentSID,
                 retryVars, intentionalClose, kills, dropped, listVars>>

(* The handler subscribes OnExit once it has written the session message,  *)
(* which the client may have read by then.                                 *)
Subscribes(m) ==
  /\ link[m] = "early" /\ ~broken[m]
  /\ link' = [link EXCEPT ![m] = "subscribed"]
  /\ UNCHANGED <<serverVars, worldVars, phase, asked, bound, eof, broken,
                 currentSID, retryVars, intentionalClose, kills, dropped,
                 listVars>>

(* The handshake of a replaced socket reaches the server all the same, and *)
(* takes a session for nobody.                                             *)
StrayArrives(a, s) ==
  /\ up /\ strays[a] > 0
  /\ IF a = NoSid THEN EnsureFresh(s) ELSE s = a /\ EnsureNamed(s)
  /\ strays' = [strays EXCEPT ![a] = @ - 1]
  /\ UNCHANGED <<worldVars, socketVars, currentSID, retryVars, intentionalClose,
                 kills, dropped, listVars>>

StrayLost(a) ==
  /\ strays[a] > 0
  /\ strays' = [strays EXCEPT ![a] = @ - 1]
  /\ UNCHANGED <<sess, worldVars, socketVars, currentSID, retryVars,
                 intentionalClose, kills, dropped, listVars>>

(* The shell of s is gone: the exit reaper, registered first, has marked   *)
(* the row (the comment at terminal.go:91-94, "the row stays alive=1 until *)
(* an explicit kill (T6 DELETE) or a reconnect notices and reaps it", is   *)
(* older than the reaper and no longer true), and the handlers that have   *)
(* subscribed send pty-exit.  The others hold a PTY that is out of the map *)
(* and starts no shell again.                                              *)
ShellGone(s) ==
  /\ sess' = [sess EXCEPT ![s] = "exited"]
  /\ eof' = [m \in Mount |-> eof[m] \/ (link[m] = "subscribed" /\ bound[m] = s)]
  /\ link' = [m \in Mount |-> IF link[m] # "none" /\ bound[m] = s THEN "dead" ELSE link[m]]

ShellExits(s) ==
  /\ sess[s] = "alive" /\ EventsLeft
  /\ ShellGone(s)
  /\ exits' = exits + 1
  /\ UNCHANGED <<strays, up, faults, clicks, phase, asked, bound, broken,
                 currentSID, retryVars, intentionalClose, kills, dropped,
                 listVars>>

(* DELETE /api/sessions/:id kills a live session; it deletes the row of an *)
(* exited one; else 404, to the client an answer like the others.          *)
DeleteServed(k) ==
  /\ up /\ k \in kills /\ ~k.done
  /\ CASE sess[k.sid] = "alive" -> ShellGone(k.sid)
       [] sess[k.sid] = "exited" -> sess' = [sess EXCEPT ![k.sid] = "deleted"]
                                    /\ UNCHANGED <<eof, link>>
       [] OTHER -> UNCHANGED <<sess, eof, link>>
  /\ kills' = (kills \ {k}) \cup {[k EXCEPT !.done = TRUE]}
  /\ UNCHANGED <<strays, worldVars, phase, asked, bound, broken, currentSID,
                 retryVars, intentionalClose, dropped, listVars>>

-----------------------------------------------------------------------------
(* The network, and restarts of the server.                                *)

(* An outage loses the connections of the mounts in B.                     *)
Outage(B) ==
  /\ up /\ EventsLeft
  /\ up' = FALSE /\ faults' = faults + 1
  /\ broken' = [m \in Mount |-> broken[m] \/ (m \in B /\ phase[m] \in Upgraded \cup {"sent"})]
  /\ UNCHANGED <<serverVars, exits, clicks, phase, asked, bound, link, eof,
                 currentSID, retryVars, intentionalClose, kills, dropped,
                 listVars>>

(* A restart loses all connections, every shell, and at boot every live    *)
(* row is marked exited.                                                   *)
ServerRestarts ==
  /\ up /\ EventsLeft
  /\ up' = FALSE /\ faults' = faults + 1
  /\ sess' = [s \in Sid |-> IF sess[s] = "alive" THEN "exited" ELSE sess[s]]
  /\ broken' = [m \in Mount |-> broken[m] \/ phase[m] \in Upgraded \cup {"sent"}]
  /\ UNCHANGED <<strays, exits, clicks, phase, asked, bound, link, eof,
                 currentSID, retryVars, intentionalClose, kills, dropped,
                 listVars>>

Restored ==
  /\ ~up
  /\ up' = TRUE
  /\ UNCHANGED <<serverVars, faults, exits, clicks, socketVars, currentSID,
                 retryVars, intentionalClose, kills, dropped, listVars>>

-----------------------------------------------------------------------------
(* A mount.                                                                *)

(* mountTerminal asks for the list of sessions, ...                        *)
Mounted(m) ==
  /\ phase[m] = "off"
  /\ phase' = [phase EXCEPT ![m] = "closed"]
  /\ list' = [list EXCEPT ![m] = "asked"]
  /\ UNCHANGED <<serverVars, worldVars, aliveID, asked, bound, link, eof, broken,
                 currentSID, retryVars, intentionalClose, kills, dropped>>

(* ... which the server reads at some moment ...                           *)
ListRead(m) ==
  /\ up /\ list[m] = "asked"
  /\ list' = [list EXCEPT ![m] = "read"]
  /\ \E s \in (IF Alive = {} THEN {NoSid} ELSE Alive) :
       aliveID' = [aliveID EXCEPT ![m] = s]
  /\ UNCHANGED <<serverVars, worldVars, socketVars, currentSID, retryVars,
                 intentionalClose, kills, dropped>>

(* ... and attaches to the live session it found, or to none when the list *)
(* could not be had.  The button has worked since before the request: its  *)
(* socket is replaced.                                                     *)
FirstAttach(m) ==
  /\ \/ list[m] = "read" /\ Attach(m, aliveID[m], timers[m])
     \/ list[m] # "none" /\ ~up /\ Attach(m, NoSid, timers[m])
  /\ list' = [list EXCEPT ![m] = "none"]
  /\ aliveID' = [aliveID EXCEPT ![m] = NoSid]
  /\ UNCHANGED <<sess, worldVars, reconnectAttempts, intentionalClose, kills, dropped>>

(* ws.onopen.                                                              *)
OnOpen(m) ==
  /\ phase[m] = "accepted" /\ ~broken[m]
  /\ phase' = [phase EXCEPT ![m] = "open"]
  /\ reconnectAttempts' = [reconnectAttempts EXCEPT ![m] = 0]
  /\ UNCHANGED <<serverVars, worldVars, asked, bound, link, eof, broken,
                 currentSID, timers, intentionalClose, kills, dropped,
                 listVars>>

(* Mutation: the id the server names is not kept.                          *)
OnSessionForgets(m) ==
  /\ phase[m] = "open" /\ ~broken[m]
  /\ phase' = [phase EXCEPT ![m] = "attached"]
  /\ UNCHANGED <<serverVars, worldVars, asked, bound, link, eof, broken,
                 currentSID, retryVars, intentionalClose, kills, dropped,
                 listVars>>

(* ws.onmessage of the session message: sessionConfirmed.                  *)
OnSession(m) ==
  /\ phase[m] = "open" /\ ~broken[m]
  /\ phase' = [phase EXCEPT ![m] = "attached"]
  /\ currentSID' = [currentSID EXCEPT ![m] = bound[m]]
  /\ dropped' = [dropped EXCEPT ![m] = @ \ {bound[m]}]
  /\ UNCHANGED <<serverVars, worldVars, asked, bound, link, eof, broken,
                 retryVars, intentionalClose, kills, listVars>>

(* Mutation: the reconnection names the session that ended.                *)
OnPtyExitNames(m) ==
  /\ phase[m] = "attached" /\ ~broken[m] /\ eof[m]
  /\ eof' = [eof EXCEPT ![m] = FALSE]
  /\ ScheduleReconnect(m, currentSID[m])
  /\ UNCHANGED <<serverVars, worldVars, phase, asked, bound, link, broken,
                 currentSID, intentionalClose, kills, dropped, listVars>>

(* Mutation: the exit is shown, and nothing follows.                       *)
OnPtyExitShows(m) ==
  /\ phase[m] = "attached" /\ ~broken[m] /\ eof[m]
  /\ eof' = [eof EXCEPT ![m] = FALSE]
  /\ UNCHANGED <<serverVars, worldVars, phase, asked, bound, link, broken,
                 currentSID, retryVars, intentionalClose, kills, dropped,
                 listVars>>

(* ws.onmessage of pty-exit; the socket stays open.                        *)
OnPtyExit(m) ==
  /\ phase[m] = "attached" /\ ~broken[m] /\ eof[m]
  /\ eof' = [eof EXCEPT ![m] = FALSE]
  /\ ScheduleReconnect(m, NoSid)
  /\ UNCHANGED <<serverVars, worldVars, phase, asked, bound, link, broken,
                 currentSID, intentionalClose, kills, dropped, listVars>>

(* The socket failed or was refused.                                       *)
Closing(m) ==
  \/ phase[m] = "refused"
  \/ phase[m] \in Upgraded \cup {"sent"} /\ broken[m]
  \/ phase[m] = "sent" /\ ~up

(* Mutation: the id is given up and asked for again.                       *)
OnCloseLoops(m) ==
  /\ Closing(m) /\ phase[m] # "attached" /\ currentSID[m] # NoSid
  /\ dropped' = [dropped EXCEPT ![m] = @ \cup {currentSID[m]}]
  /\ Attach(m, currentSID[m], timers[m])
  /\ UNCHANGED <<sess, worldVars, reconnectAttempts, intentionalClose, kills,
                 listVars>>

(* ws.onclose before the named session was confirmed: the id is given up,  *)
(* and a socket that names none is opened at once.                         *)
OnCloseUnconfirmed(m) ==
  /\ Closing(m) /\ phase[m] # "attached" /\ currentSID[m] # NoSid
  /\ dropped' = [dropped EXCEPT ![m] = @ \cup {currentSID[m]}]
  /\ Attach(m, NoSid, timers[m])
  /\ UNCHANGED <<sess, worldVars, reconnectAttempts, intentionalClose, kills,
                 listVars>>

OnClose(m) ==
  /\ Closing(m) /\ (phase[m] = "attached" \/ currentSID[m] = NoSid)
  /\ phase' = [phase EXCEPT ![m] = "closed"]
  /\ asked' = [asked EXCEPT ![m] = NoSid]
  /\ bound' = [bound EXCEPT ![m] = NoSid]
  /\ link' = [link EXCEPT ![m] = "none"]
  /\ eof' = [eof EXCEPT ![m] = FALSE]
  /\ broken' = [broken EXCEPT ![m] = FALSE]
  /\ ScheduleReconnect(m, currentSID[m])
  /\ UNCHANGED <<serverVars, worldVars, currentSID, intentionalClose, kills,
                 dropped, listVars>>

(* Mutation: the timeout attaches to no session in particular.             *)
TimerFiresBlank(m, i) ==
  /\ i \in DOMAIN timers[m]
  /\ \A j \in 1..(i - 1) : timers[m][j].wait > timers[m][i].wait
  /\ Attach(m, NoSid, RemoveAt(timers[m], i))
  /\ UNCHANGED <<sess, worldVars, reconnectAttempts, intentionalClose, kills,
                 dropped, listVars>>

(* A timeout fires: an older one with no longer delay has fired before.    *)
TimerFires(m, i) ==
  /\ i \in DOMAIN timers[m]
  /\ \A j \in 1..(i - 1) : timers[m][j].wait > timers[m][i].wait
  /\ Attach(m, timers[m][i].sid, RemoveAt(timers[m], i))
  /\ UNCHANGED <<sess, worldVars, reconnectAttempts, intentionalClose, kills,
                 dropped, listVars>>

(* A click on Restart terminal: attach at once when there is no session to *)
(* kill, else a DELETE; the button can be clicked again meanwhile.         *)
ClickAttach(m) ==
  /\ phase[m] # "off" /\ EventsLeft
  /\ currentSID[m] = NoSid
  /\ clicks' = clicks + 1
  /\ Attach(m, NoSid, timers[m])
  /\ UNCHANGED <<sess, up, faults, exits, reconnectAttempts, intentionalClose,
                 kills, dropped, listVars>>

ClickKill(m) ==
  /\ EventsLeft /\ currentSID[m] # NoSid
  /\ clicks' = clicks + 1
  /\ intentionalClose' = [intentionalClose EXCEPT ![m] = TRUE]
  /\ kills' = kills \cup {[mount |-> m, sid |-> currentSID[m], n |-> clicks, done |-> FALSE]}
  /\ UNCHANGED <<serverVars, up, faults, exits, socketVars, currentSID,
                 retryVars, dropped, listVars>>

(* The click's handler goes on after the answer, whatever its status: it   *)
(* forgets the id and attaches to none.                                    *)
KillAnswered(k) ==
  /\ k \in kills /\ k.done
  /\ kills' = kills \ {k}
  /\ intentionalClose' = [intentionalClose EXCEPT ![k.mount] = FALSE]
  /\ Attach(k.mount, NoSid, timers[k.mount])
  /\ UNCHANGED <<sess, worldVars, reconnectAttempts, dropped, listVars>>

(* The fetch fails, before or after the server acted: only the finally     *)
(* part runs.                                                              *)
KillFails(k) ==
  /\ ~up /\ k \in kills
  /\ kills' = kills \ {k}
  /\ intentionalClose' = [intentionalClose EXCEPT ![k.mount] = FALSE]
  /\ UNCHANGED <<serverVars, worldVars, socketVars, currentSID, retryVars,
                 dropped, listVars>>

-----------------------------------------------------------------------------
EventLoop(m) ==
  \/ FirstAttach(m) \/ OnOpen(m) \/ OnSession(m) \/ OnPtyExit(m)
  \/ OnCloseUnconfirmed(m) \/ OnClose(m)
  \/ \E i \in DOMAIN timers[m] : TimerFires(m, i)

Server(m) ==
  \/ ListRead(m) \/ HandshakeRefused(m) \/ Subscribes(m)
  \/ \E s \in Sid : HandshakeAccepted(m, s)

ByUser(m) == Mounted(m) \/ ClickAttach(m) \/ ClickKill(m)

Next ==
  \/ \E m \in Mount : EventLoop(m) \/ Server(m) \/ ByUser(m)
  \/ \E k \in kills : DeleteServed(k) \/ KillAnswered(k) \/ KillFails(k)
  \/ \E a \in MaybeSid : StrayLost(a) \/ \E s \in Sid : StrayArrives(a, s)
  \/ \E s \in Sid : ShellExits(s)
  \/ (\E B \in SUBSET Mount : Outage(B)) \/ ServerRestarts \/ Restored

Spec == Init /\ [][Next]_vars

(* Browsers run their callbacks, the server answers what reaches it, and   *)
(* an outage ends.  No user clicks and no shell exits by fairness.         *)
Fairness ==
  /\ \A m \in Mount : WF_vars(EventLoop(m)) /\ WF_vars(Server(m))
  /\ WF_vars(\E k \in kills : DeleteServed(k) \/ KillAnswered(k) \/ KillFails(k))
  /\ WF_vars(Restored)

FairSpec == Spec /\ Fairness

-----------------------------------------------------------------------------
(* Correctness.                                                            *)

(* The session an attached terminal talks to is the one it would kill,     *)
(* reconnect to and name: through retries, forgotten timeouts and restarts *)
(* whose answers overlap, currentSID follows the socket (Restart terminal  *)
(* never kills a session other than the one on the screen).                *)
CurrentIsBound ==
  \A m \in Mount : phase[m] = "attached" => currentSID[m] = bound[m]

(* terminal.js:92-95, 133-135: an id that was not confirmed is dropped     *)
(* "instead of looping on the dead id forever".  No callback, retry or     *)
(* forgotten timeout of that mount asks for it again, unless the server    *)
(* has named it to the mount since - but for the list asked for at mount:  *)
(* its answer, the only one of its kind, may come late and name it once    *)
(* more.                                                                   *)
Asks(m) == asked'[m] # asked[m] \/ (phase'[m] = "sent" /\ phase[m] # "sent")

DroppedForGood ==
  [][\A m \in Mount :
       Asks(m) /\ asked'[m] \in dropped[m]
         => list[m] = "read" /\ list'[m] = "none"]_vars

(* What the terminals are served by keeps the promise that Sessions, which *)
(* is that server from the inside, is shown to keep: a slot is taken below *)
(* the cap only, or by a revival.                                          *)
Ledger == INSTANCE SessionLedger
            WITH User <- {"user"}, Cap <- [u \in {"user"} |-> 1],
                 Slot <- Sid, Nobody <- "nobody", slot <- sess,
                 holder <- [s \in Sid |-> IF sess[s] = "none" THEN "nobody" ELSE "user"]

LedgerSpec == Ledger!Spec

(* A timeout whose handle was overwritten names no session: it cannot take *)
(* a terminal back to an old session under a user who went on to another.  *)
ForgottenNameNone ==
  \A m \in Mount : \A i \in DOMAIN timers[m] :
    ~timers[m][i].held => timers[m][i].sid = NoSid

(* scheduleReconnect gives up after Retries: when faults, exits and clicks *)
(* have ended, every terminal stops trying, attached or not.               *)
AtRest(m) ==
  /\ list[m] = "none" /\ timers[m] = <<>> /\ {k \in kills : k.mount = m} = {}
  /\ \/ phase[m] \in {"off", "closed"}
     \/ phase[m] = "attached" /\ ~eof[m] /\ ~broken[m]

ComesToRest == \A m \in Mount : <>[]AtRest(m)

(* A shell whose end is reported is followed by a new one on the same      *)
(* terminal, so far as no fault, click, other terminal or second exit      *)
(* interferes: the row is exited before pty-exit is sent, so that the      *)
(* retry without an id is below the cap.  An exit between the upgrade and  *)
(* OnExit is reported to nobody, and the terminal stays with a dead shell. *)
Alone(m) ==
  faults = 0 /\ clicks = 0 /\ exits = 1 /\ \A n \in Mount \ {m} : phase[n] = "off"

ExitRestarts ==
  \A m \in Mount :
    eof[m] ~> ~Alone(m) \/ (phase[m] = "attached" /\ bound[m] \in Alive)

(* DEPLOY-TEST.md:72: "Simulate network interruption; terminal reconnects  *)
(* automatically and resumes session without data loss".  Of the session,  *)
(* not of its data, which no model of the terminal has: a terminal that    *)
(* waits to reconnect to a live session when the network is back is        *)
(* attached to a live one again - the same, while no session ends and no   *)
(* user restarts one.  (A retry during the outage gives the id up:         *)
(* OnCloseUnconfirmed.)                                                    *)
Waits(m) ==
  /\ up /\ phase[m] = "closed"
  /\ Len(timers[m]) = 1 /\ timers[m][1].sid \in Alive

Resumes ==
  \A m \in Mount :
    Waits(m) ~> \/ phase[m] = "attached" /\ bound[m] \in Alive
               \/ exits > 0 \/ clicks > 0 \/ ~up
=============================================================================
