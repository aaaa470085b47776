# A TLA+ verification of claude-docker

claude-docker is a Go server that runs as PID 1 (and root) of a container. It
gives every user of a small team a Linux account, browser terminals (`bash`
under a PTY, in which they run `claude`), a file manager, and gives admins a
panel; the pages are plain JavaScript. This directory holds TLA+ models of the
parts of the server and of its pages where order matters, TLC configurations
that check them, and TLAPS proofs of what matters most.

    tlc -workers 2 -config MCSessions_safe.cfg MCSessions.tla    one run
    tlapm SessionsProofs.tla                                     one module of proofs

The proofs are in `SessionsProofs`, `TerminalProofs`, `AccountsProofs`,
`TrafficProofs`, `TermClientProofs`, `WebAppProofs` and `FileViewProofs`.
`PROJECT.json` lists the runs, the source lines behind each definition, the
mutants that show each property can fail, the findings and the hazards.

## 1. Inventory

Server paths are relative to `src/backend/internal`, page paths to
`src/web/src`, unless they start with `src/`.

**Session manager** (`sessions/manager.go`, called from `server/server.go`,
`sessions_api.go`, `admin_sessions.go`, `admin_users.go`, `terminal.go`).
State: the map `sessions[username][id]` of live PTYs under one mutex, and the
rows of the `sessions` table. Operations: `Create`, `Revive`, `Get`, `Kill`,
`KillAll`, `DeleteOrphan`, `Restart`, `ReapIdle`, and an exit reaper registered
with every PTY. Interactions: HTTP and WebSocket goroutines, admin handlers,
the reaper goroutine of `main.go` (2 minutes), the `waitExit` goroutine of
every shell, SQLite. Hard: only the map is under the mutex; rows are written
before it is taken or after it is released, errors of those writes are dropped,
the server may crash between any two steps. Correct when: rows that count
towards a user's cap correspond to PTYs, nobody reaches a foreign session, the
cap holds, a stale session is given up, a suspended user has no shell.

**PTY** (`pty/manager.go`). State: `cmd`, `ptmx`, two lists of callbacks.
Operations: `Start`, `Stop`, `readLoop`, `waitExit`, `OnData`, `OnExit`,
`Write`, `Resize`, `Alive`. Hard: `waitExit` of an old shell overlaps the next
`Start`; `Stop` and `waitExit` share the duty to close; callback lists change
while they are walked. Correct when: one shell at a time, one close per ptmx,
contiguous output, exits reported, no goroutine left.

**Terminal WebSocket** (`server/terminal.go`). State: the connection and two
subscriptions. Hard: the PTY is started before the subscription.

**Accounts** (`server/admin_users.go`, `store/users.go`, `system/account.go`,
`system/dirs.go`). State: a `users` row, a line of `/etc/passwd`, a home
directory. Operations: create, delete, suspend, unsuspend. Hard: three systems,
no transaction and no lock, each step can fail, the process can die anywhere.

**Boot** (`src/backend/cmd/server/main.go`, `store/bootstrap.go`).
`ReapStaleSessions`, `BootstrapAdmin`, `ensureUsersProvisioned`, then the
listener. Correct when what a crash or a redeployment left is repaired.

**Traffic accounting** (`traffic/traffic.go`, `store/traffic.go`,
`server/files_api.go:32`, `admin_traffic.go`, `admin_quota.go`). State: kernel
counters per uid, the last readings, the table. Hard: read, write and merge are
three steps, calls fail and are retried, counters are reset. Correct when
nothing is charged twice, everything is charged in the end, and shown.

**Login, cookies, roles** (`auth/`, `server/auth_handler.go`, the middleware in
`server/server.go`). State: password hash, `must_change_password`, a signed
cookie with username and role. Hard: claims in a cookie go stale.

**Workspace files** (`server/files_api.go`, `files/`). State: the directory
tree. Operations: list, mkdir, rename, delete, upload; each is one request and
answers in its own time. `Resolve` confines a path to the workspace under
symbolic links.

**Browser terminal** (`terminal.js`). State, per call of `mountTerminal`: the
socket, `currentSID`, `reconnectAttempts`, `reconnectTimer`,
`intentionalClose`. Operations: the first attach, the handlers of the socket,
six retries with growing delay, Restart terminal. Interactions: the server's
`ensureSession` behind a handshake that shows the browser no status, DELETE
`/api/sessions/:id`, other tabs of the same user, and the mounts that navigation
leaves behind without closing them. Hard: `reconnectTimer` is assigned without
clearing what it held; a click's handler goes on after its answer whatever came
meanwhile, and the button works while the first list is under way; a replaced socket's handshake still reaches the server. Correct when:
a terminal names the session it talks to, never loops on a dead id, and comes to
rest; a shell that exits is followed by another.

**File manager** (`files.js`, class `FileView`). State: `cwd`, `history`,
`histIdx`, `entries`, `selected`, `lastAnchor`, `treeCache`, `treeOpen`, an
overlay. Operations: navigation, selection, preview, delete, rename, mkdir,
upload, drop, move. Hard: every handler awaits answers that come in any order,
and reads `this.cwd` and `this.selected` afterwards. Correct when: what is on
the screen is what there is, and a handler acts on what the user confirmed.

**Web application** (`main.js`, `api.js`). State: what `#app` and `#view` show,
the `current` view, an open dialog, a cookie. Operations: `boot`, sign-in,
password change, sign-out, navigation, the users table and its buttons. Hard:
the same as the file manager; an answer may find another page than the one that
asked. Correct when: no application before the first password is changed, the
page never stays blank, the table is current.

**Quota** (`quota/`): a disk check, a cgroup removed at suspension. **Store**
(`store/`): one SQLite file, one statement per operation. **Credentials and
environment** (`pty/env.go`, `system/template_cred.go`): built at each spawn.
**Metrics, audit, settings, configuration, embedded UI**: read-only or one
statement each. **`src/web/vite.config.js`**: a proxy table for development.

## 2. The modules

| module | stands for |
|---|---|
| `SessionLedger` | abstract: slots of a user taken below the cap, in one step; implemented by `Sessions` and by the server of `TermClient` |
| `Sessions` | session manager, its callers, PTYs and shells seen from above, crash and boot |
| `MCSessions` | instances of `Sessions` for TLC |
| `SessionClaims` | what a comment says of the exit reaper and the code does not do |
| `SessionsProofs` | proofs about `Sessions`, and that it implements `SessionLedger` |
| `PtyShells` | abstract: what a PTY promises about its shells, each operation in one step |
| `Terminal`, `MCTerminal` | one PTY from the inside and the WebSocket handlers on it |
| `TerminalProofs` | proofs about `Terminal` |
| `Accounts` | users in the database, in `/etc/passwd` and on disk; boot |
| `AccountsProofs` | proofs about `Accounts` |
| `Traffic` | kernel counters, sampler, table, pages |
| `TrafficProofs` | proofs about `Traffic` |
| `TermClient` | the browser terminals of one user, the network, and the server they see |
| `TermClientProofs` | proofs about `TermClient` |
| `FileView`, `MCFileView` | the file manager, its requests and the workspace |
| `FileViewProofs` | proofs about `FileView` |
| `WebApp` | the page of an admin, its requests, the session cookie and the users table |
| `WebAppProofs` | proofs about `WebApp` |

### Sessions

One step is one critical section of `Manager.mu`, one call on a PTY or one SQL
statement. `Create` is two steps with `mu` held between (`CreateAdmitted`,
`CreateInsert`), because its cap check and its INSERT are separate statements
that goroutines without the lock (exit reapers, `Kill` marking a row,
`DeleteSession`) can come between; `mu` is therefore a variable. All other
critical sections do no database work except `Revive`'s single UPDATE, and are
one step. `pc`, `who`, `sid`, `pty` and `batch` are the local variables of a
goroutine: what it read before and uses after.

* `row[s]` is the row of session id `s`; ids are random and never minted twice.
  `age[s]` abstracts `last_seen_at` and `started_at` to what `ReapIdle` tests:
  `idle` is undone by input or revival, `aged` by nothing.
* `live[u][s]` is the map. `cmd[p]` is the shell a PTY knows.
* A shell `q` is `running`, then `dead` (its `waitExit` will run), `unmap` and
  `mark` (the two halves of the exit reaper), then `free`. The identity of the
  PTY that started it and of the session its reaper closes over survive in
  `procPty`, `ptyUser` and `ptySid`.
* `Ops` names the optional operations of an instance; `dbfault` lets every
  `MarkSessionExited`, whose error each caller drops, do nothing.
* `Restart` is exported and tested but no route calls it at this commit. It is
  modelled as the admin operation its comment describes.

Users are fixed; the deletion of a user is in `Accounts`. A request that has
been authenticated is not authenticated again, as in the code.

### Terminal

One `pty.Manager`. A shell is its own `cmd` and `ptmx`, which are set and
cleared together (`current`). `readLoop` is read, copy the callbacks, call them
one by one; `waitExit` is a locked part, a close, the callbacks; `Stop` is take,
kill, close. In `Sessions` a `Stop` is one step, and so is what a `waitExit`
does to `cmd`; other goroutines run between their parts only here. That nothing
is lost by this is checked and proved: `PtyShells` says what a PTY promises
about its shells, `Terminal` implements it (a shell that was taken is seen as
dead, though it may run until its SIGKILL), and `Sessions` does to its PTYs
nothing else. A chunk of output is its number. `out[w][s]` is what the present
client of `w` was sent.

### Accounts

`account[n]` and `home[n]` hold uids. The steps of the two handlers are the SQL
statements and the commands `useradd`, `mkdir`/`chown`, `userdel`, `rm`.
`useradd` and `userdel` may refuse at any time in a handler; at boot `useradd`
fails only for a name or uid in use (a spontaneous failure at boot is logged by
the code and would void any promise), and the directories are provisioned at
boot without failure (`main.go:127-129` logs one and goes on to listen). The
accounts of the image's own `/etc/passwd` are not modelled: for a user of such a
name `useradd` is refused at creation, and `Ensure` takes the account for the
user's whatever its uid. `RepairedAtBoot` holds within these limits. `Redeploy` loses `/etc/passwd`, because
only `/home` and `/data` are volumes. An id is never reused (AUTOINCREMENT), a
uid is (`MAX(uid)+1`).

### Traffic

`counter[u]` is the kernel's; `last` and `installed` are the service's; `seen`,
`todo`, `cur`, `reading` are local to `SampleOnce`, which only one goroutine
runs. The table is two functions, since the sampler writes rows keyed by the
Linux uid (2000 and up) and everything else uses `users.id`. Upload and download
are treated alike and one stands for both.

### TermClient

A mount is one call of `mountTerminal`; nothing in the code takes one down, so a
terminal left by navigation is as alive as one in another tab. One step is one
callback of a mount. `list` and `aliveID` are the list request of the mount,
which the server reads at one moment and the page acts on at a later one; the
Restart button works from the start, so that a click, a socket, its failures and
its retries may all come between (`FirstAttach` then replaces that socket).
`phase` says how far the socket is; `asked` is the id in the socket's URL, `bound` the session the server gave it,
and the property that matters relates the latter to `currentSID`. The server is
`ensureSession` with a cap of 1 seen from outside: a named session is found or
revived, an unknown one refused, none named takes a fresh one below the cap.
`Sessions` has the inside of it; here its errors show only as a socket that
closes, which is all a browser learns. What the two models of the server have in
common is `SessionLedger`, which both are shown to implement. Sockets are
numbered by nothing: `attach` removes the old socket's `onclose` and `close()`
silences the rest, so that only the handshake of a replaced socket survives it
(`strays`).

`link` is the server's end of a socket. The handler sends the session message
before it subscribes `OnExit` (`Subscribes`), so the page may be attached when
the shell's end is still reported to nobody; `ShellGone` sends `pty-exit` to the
handlers that have subscribed, and leaves the others with a dead PTY. By then
the row is exited: the exit reaper is the first callback of the PTY's list. (The
comment at `server/terminal.go:91-94`, "the row stays alive=1 until an explicit
kill (T6 DELETE) or a reconnect notices and reaps it", contradicts this; it is
from before the exit reaper, `sessions/manager.go:168-185`, and no longer true.)

`timers[m]` are the pending timeouts of a mount, oldest first; `held` marks the
one `reconnectTimer` refers to. `wait` is the exponent of its delay: an older
timeout with no longer delay fires first.

### FileView

One step is one callback up to its next await, or one request served. `lists`,
`fetches` and `loads` are the requests for a listing, a directory of the tree
and a preview; `jobs` are the handlers in the middle of a deletion, an upload, a
drop and so on, with the names left to do. A job's next name is joined to the
`cwd` of that moment, as in the code. `entries` is what was listed last,
`rowsIn` the `cwd` its rows carry in their closures. The workspace is a function
from paths to kinds; what the server refuses is in `Accepts`. It is changed by
this view only. `MaxDepth` bounds the paths the handlers name; what lies in the
workspace may be deeper, for a file dropped on a directory's row may be a
directory by the time it is moved.

The network may fail a listing (`ListFails`), a fetch of the tree, which then
caches no directories for that path (`FetchFails`), or a change. A change that
fails ends its handler without a refresh (`JobLost`), an upload tells its
handler that it failed (`UploadLost`); in both cases the server may have served
the request before, or serve it after (`late`, `LateServed`).

### WebApp

`calls` are the requests under way with their handlers. `live` says that the
elements the handler holds are still in the page, `page` that the page was not
reloaded; the server's side is `authMiddleware`, the auth handlers and
`admin_users.go`, one step each. `mustChange` is the flag of the admin at the
page. The role is fixed: this is an admin's page.

## 3. What the runs check

Passing runs:

| run | bounds | what it shows |
|---|---|---|
| `sessions` | 2 users, 2 ids, 2 PTYs, 2 shells, 2 requests, cap 1; attach, delete, crash | `TypeOK`; `NoDrift`: a row that counts has its PTY in the map or its mark under way; `OneShellPerPty`; `OwnSessionsOnly`: isolation although ids are guessed; `LedgerSpec`: refinement of `SessionLedger`; `PtySpec`: refinement of `PtyShells`; `StaysInReach`: a shell that a kill can find stays so while it runs, but for three ways of losing it |
| `stale` | 1 user, 1 id, 2 PTYs, 2 shells, 1 request, every operation, lost writes, fairness | `StaleReclaimed`: an aged session gives up its slot |
| `terminal` | 2 shells, 2 connections, 1 chunk | `ClosedOnce`, `KnownShells`, `SubscriptionsMatch`; `PtySpec`: refinement of `PtyShells` |
| `terminal_live` | 1 shell, 2 connections, 2 chunks, fairness | `TypeOK`, `ContiguousOutput`, `ExitsReported`, `GoroutinesEnd` |
| `accounts` | 2 names, 4 rows ever, 2 requests, all faults | `TypeOK`, `AccountHasRow`, `RepairedAtBoot` |
| `traffic` | 2 users, 2 bytes each, all faults, fairness | `TypeOK`, `NeverOvercharged`, `NothingLost`: between ticks the table holds what was read, `EventuallyCharged` |
| `client` | 2 terminals, 3 ids, 2 retries, 2 events (outage, restart, exit or click), fairness | `TypeOK`; `CurrentIsBound`: Restart never kills a session other than the one on the screen; `ForgottenNameNone`; `DroppedForGood`: no loop on a dead id; `ComesToRest`; `ExitRestarts`, for an exit that is reported; `Resumes` |
| `files` | 4 paths, depth 2, 3 actions, 2 handlers, 1 request the network fails | `TypeOK`, `HistoryPointsAtCwd`, `ShowsDirectory`, `TreeShowsDirectories`, `PreviewShowsItsFile` |
| `web` | 3 users, 5 clicks, 1 failure, fairness | `TypeOK`, `NoAppBeforeChange`, `TableCurrent`, `BlankEnds`, `SignOutEnds` |

Runs that refute what the repository says of itself (see the findings):

| run | statement | what happens |
|---|---|---|
| `reaper` | "whichever runs second is a harmless no-op" (`sessions/manager.go:171-174`) | kill, reattach (a new PTY under the same id), then the killed shell's reaper deletes the new entry |
| `usage` | "After some claude/web-file-manager activity -> ... traffic column shows bytes" (`src/DEPLOY-TEST.md:64`) | the bytes are booked under the uid and looked up under the id |
| `delete` | "Delete the file via Files -> it disappears from terminal listing" (`src/DEPLOY-TEST.md:52`) | two files are selected, the user navigates during the first DELETE, the second name is deleted under the new directory, without an alert |

Other places where the models and the repository's words part, seen while
modelling and not made into runs: a user with a cap of 1 may have two live
sessions, for `Revive` asks no cap (`terminal.js:9-10` says "exactly one session
exists at a time"); a request past the gate may create a session after
suspension's `KillAll` (`src/DEPLOY-TEST.md:91`); the first bytes of a shell may
come before `OnData` (`server/terminal.go:30-31`); a retry during the outage
itself gives up an id that is alive (`src/DEPLOY-TEST.md:72`, "terminal
reconnects automatically and resumes session without data loss"; `Resumes` is
therefore about retries after it, and about the session, not its data: what a
shell prints while nobody is subscribed is kept nowhere); the row of a shell
that exits does not stay alive (`server/terminal.go:91-94`); a shell that exits
between the upgrade and `OnExit` leaves its terminal attached to a dead PTY, with
no pty-exit; the late answer of the first list may ask once more for an id that
was given up since (`terminal.js:92-95`, "looping on the dead id forever", does
not follow: it is one socket); 401 is handled by `boot` only, not by "the
caller" in general (`api.js:1-2`); an older listing may overwrite a newer one.

**Why these bounds.** The session hazards are races for one row or one PTY: two
requests and an exiting shell are the parties of every one of them, and two PTYs
are what a revival beside an old PTY needs. Isolation and the ledger need a
second user and a second id. `stale` has every operation on one id. `reaper`
needs three PTYs and two shells. In `Terminal` the second shell is the one that
overlaps the first one's end; the second chunk is needed only for contiguity.
Four rows let a name be created, deleted and created again next to another user
with the same uid.

In `client` a second terminal is what can take the one slot from the first, or
lose its session to the first one's Restart; any two events meet, of one kind or
of two (`MaxEvents`), at any stage of both terminals. Each event ends one session
at most, so that with three ids a fresh one is there when it is needed (without
one a handshake would stay unanswered, and `ComesToRest` would fail). Two retries
are enough for a forgotten timeout: it takes a second one. In `files` three actions and two handlers are enough for a
navigation or a second handler between the steps of a first; depth 2 gives a
directory in a directory, so that a tree row can lie below one that moves; one
failing request reaches each kind of failure. In `web` five clicks reach a sign-in, a navigation, a dialog and two changes under
way at once.

Sets of interchangeable model values are symmetric in the safety runs only.

**Fairness and why the code justifies it.** A goroutine in the middle of its
work is scheduled (WF). One that waits for `Manager.mu` gets it although others
keep taking it (SF): Go's mutex hands over to a waiter that has starved for a
millisecond. The reaper and the sampler tick. The container is restarted
(`restart: unless-stopped`). For `stale`, SQLite does not refuse the reaper's
write for ever; for `traffic`, `nft` does not fail one user for ever. For
`client` and `web`, a browser runs the callbacks it has queued, the server
answers a request that reaches it (its handlers above end), and an outage ends.
No client, admin, shell or clock is assumed to act: `StaleReclaimed` starts from
a session that *is* aged, the terminal's properties from a shell that *is* dead,
the pages' from a request that *is* under way.

**Deadlock** is checked except where the system really ends: the `terminal`
runs, in which each connection and each shell is used once, and `client`,
`files`, `delete` and `web`, in which the user has nothing left to do once the
bounds on clicks, actions and faults are used up.

**History variables.** `Accounts.botched` records the names whose
`ProvisionUserDirs` failed in a creation: the code rolls back the row and leaves
the account, so neither property can hold of them, and the properties say so.
`Traffic.counted` and `spoiled` record what the kernel counted and whether a
sample was lost to a flush, a crash or a refused write. `TermClient.dropped`
records the ids a mount gave up and was not given again since: an id a server
has named anew is no longer a dead one. `overtaken`, `unasked` and `treeOld` of
`FileView`, and `overtaken` and `unasked` of `WebApp`, record the causes the
properties about the screen excuse: a late or failed listing shown over a newer
one, a change after which the code asks for no list (a rejected handler, an
upload that stopped half way, a request served after the page gave it up), a
fetch of the tree that failed or was under way when its cache was dropped, and a
directory moved or replaced by a handler that drops no cache; they are reset when
a new listing makes good for it.

## 4. What is proved

`SessionsProofs` proves, for all finite or infinite sets of users, PTYs, shells
and goroutines, any finite set of session ids and any caps (from
`ConstantsAssumption` of `Sessions` alone):

* `TypeCorrect`: `Spec => []TypeOK`
* `OneShell`: `Spec => []OneShellPerPty`
* `Isolation`: `Spec => []OwnSessionsOnly`
* `CapLedger`: `Spec => LedgerSpec`, the refinement of `SessionLedger`
* `UsesPtys`: `Spec => PtySpec`, the refinement of `PtyShells`
* `CapDoesNotDrift`: if no write is lost, `Spec => []NoDrift`
* `KillsReach`: `Spec => StaysInReach`, an action property

The inductive invariant `IInv` adds to `TypeOK` the facts the actions rely on:
which local variables are set at which position of a goroutine (`ArgsOK`), that
a goroutine is between the two halves of `Create` exactly when it holds `mu`
(`LockOK`; it is what makes the count still true at the INSERT), that a row that
was ever used has an owner (`MintedOK`) and whatever is attached to it or mapped
belongs to that owner (`OwnersOK`), that a PTY in use carries the username and
id it was registered under (`PtysOK`), and that the shell a PTY knows was
started by it (`ShellsOK`). Each group of actions (requests of users, of admins,
kills, shells, time and crash) has a lemma that it preserves `IInv`.

For the ledger, the step that matters is `CreateInsert`: between count and
INSERT rows may disappear from the count but none may be added, since rows are
added under `mu` by `CreateInsert` and `Revive` only. The invariant `Admitted`,
"whoever is at `insert` is below the cap", holds through every other step; the
cardinality of a subset is bounded by `FS_Subset` of the finite-set library.

`NoDrift` is itself inductive together with `IInv`, in one lemma per group of
actions: each action that takes an entry out of the map leaves a mark pending,
each mark makes the row exited, and each entry overwritten by a revival is
replaced by another. `DeleteOrphan` drops entries without a mark, but only of
rows it has deleted (`OrphanGone`).

`KillsReach` says which shells can be lost. A running shell is in reach when its
PTY stands in the map under the session it was registered for, or a goroutine
holds that PTY and is about to stop it. The proof goes through the actions that
write the map: `Kill` and `KillAll` hold or stop the PTY whose entry they drop,
`Create` and `Revive` put another PTY there (`Overwritten`), `DeleteOrphan`
and the exit reaper drop whatever is there (`Orphaned`, `ReapedForAnother`; for
the last, a reaper of the shell itself is excluded because that shell no longer
runs). All others leave entry and holder alone. Each of the three ways happens:
without it, TLC finds a step of run `sessions` that loses a shell. They are the
races of the hazards at `manager.go:227` and `manager.go:175`. A shell that a
lazy restart starts on a PTY `Kill` has already unmapped was never in reach.

`TerminalProofs` proves, for any shells, connections and amount of output
(`TerminalAssumption`):

* `TypeCorrect`: `Spec => []TypeOK`
* `OneClose`: `Spec => []ClosedOnce`
* `NoLostShell`: `Spec => []KnownShells`
* `Subscriptions`: `Spec => []SubscriptionsMatch`
* `NoGaps`: `Spec => []ContiguousOutput`
* `ImplementsPtys`: `Spec => PtySpec`, the refinement of `PtyShells`

The duty to close a ptmx is a token (`Token`), held by the PTY that knows the
shell, by the `Stop` that took it or by its `waitExit`; exactly one of them has
it until the ptmx is closed, none after (`ShellOK`, which also has
`KnownShells`). The position of a handler says which of its callbacks are in the
lists, once each (`SubsOK`). For `NoGaps` the invariant says which chunk a
client was sent last (`StreamOK`): the last one its `readLoop` took, or the one
before while the client is still to be called for it. It rests on `ReadOK`: a
`readLoop` still has to call only handlers that subscribed before, each once, so
that a client that came meanwhile starts with the next chunk. For
`ImplementsPtys` `StopTake` is the abstract `Stop`, `ExitLocked` the abstract
`Notice`, and the kill, the closes and the callbacks are stutters: `ShellOK`
says that they find the shell forgotten already.

`AccountsProofs` proves, for any names, requests, faults and number of rows
(`AccountsAssumption`):

* `TypeCorrect`: `Spec => []TypeOK`, the UNIQUE columns included
* `NoStrayAccount`: `Spec => []AccountHasRow`
* `BootRepairs`: `Spec => []RepairedAtBoot`

`AccountHasRow` alone does not say why a DELETE of a row leaves no account
behind when another request is between its INSERT and its `useradd`. The
invariant says what each request may count on (`RequestOK`): at `useradd` its
row is still there and has no account, because the deletion of that row would
have had to run `userdel` on an account first; a row about to be deleted has no
account and nobody is about to add one; ids of two creations differ
(`OwnIds`). That a uid exists to be allocated, and stays in its bounds, is
`Allocated`, from the well-foundedness of the numbers. `BootRepairs` adds that a
boot has repaired every row it has looked at (`Repaired`): an account in the
way of one would need a row of its own with the same name or uid.

`TrafficProofs` proves, for any users, bounds and faults (`TrafficAssumption`):

* `TypeCorrect`: `Spec => []TypeOK`
* `NoDoubleCharge`: `Spec => []NeverOvercharged`
* `AllReadIsCharged`: `Spec => []NothingLost`

`NeverOvercharged` is not inductive: nothing in it says where the bytes come
from that `Add` is about to write. `Balance` does: what is charged, what was
read and is about to be written, and what the kernel shows beyond the reading
the next delta is taken against do not exceed what the kernel counted. `Read`
moves bytes from the third term to the second, `Add` from the second to the
first; a flush, a crash or a refused write loses a term and adds none.
`CountersOK` (a counter never shows more than was counted, and nothing without
its rule) is what keeps the third term small after a flush or a restart.
`NothingLost` is the other half: unless a sample was lost, table and reading
under way together equal the last reading (`Exact`), at every step of a tick and
also for the users a failing `nft` makes it skip.

`TermClientProofs` proves, for any number of terminals, ids, retries and events
(`ClientAssumption`):

* `TypeCorrect`: `Spec => []TypeOK`
* `CurrentFollows`: `Spec => []CurrentIsBound`
* `ForgottenTimeouts`: `Spec => []ForgottenNameNone`
* `GivenUpForGood`: `Spec => DroppedForGood`, an action property
* `ServedByLedger`: `Spec => LedgerSpec`, the refinement of `SessionLedger`,
  which needs no run

The invariant has one part per mount (`MountOK`). A timeout that names a session
is pending only while the terminal is closed, it is the youngest and the one
`reconnectTimer` refers to (`OneHeld`); `attach`, the only way out of closed,
clears it. So at most one timeout ever names a session, and when
`scheduleReconnect` forgets timeouts they name none. And what a timeout names is
not given up (`Open`): it comes from the `currentSID` of a terminal that was
attached, whose id the server had named last, and an id is given up only with
the socket that asked for it. Steps that call `attach`, steps of a mount that do
not, and steps of the server and the network have a lemma each. `GivenUpForGood`
then goes through the actions that open a socket: a click, a close and the end
of a Restart ask for no id, a timeout for one that is `Open`, and the answer of
the first list, which may name any id, is the exception the property states: TLC
finds a step of run `client` that needs it. For
`ServedByLedger` only the server's steps matter: `EnsureFresh` opens a slot when
no other is taken, `EnsureNamed` reopens one or stutters, a DELETE closes or
forgets one, and a fault or an exit closes.

`WebAppProofs` proves, for any number of users, clicks and failures
(`AppAssumption`):

* `TypeCorrect`: `Spec => []TypeOK`
* `ChangeComesFirst`: `Spec => []NoAppBeforeChange`
* `TableHolds`: `Spec => []TableCurrent`

An answer to `boot` that lets the application be shown may wait while other
handlers run; the invariant promises that no such answer is out of date
(`Welcome`), which holds because the server clears the flag and never sets it
again. `TableHolds` goes like the list of the file manager: unless the table is
excused, the handler of a change that was made will ask for it (`Settling`), or
the newest list that will be shown has, if it is answered, the users there are
(`TableOK`).

`FileViewProofs` proves, for any names, workspace, depth, operations and number
of handlers, from `ViewAssumption` (the types of the constants) and
`DiskAssumption` (the workspace at the start is a function from paths to kinds,
and `Nowhere` is not a path):

* `TypeCorrect`: `Spec => []TypeOK`, the workspace included
* `HistoryHolds`: `Spec => []HistoryPointsAtCwd`
* `PreviewHolds`: `Spec => []PreviewShowsItsFile`
* `ListHolds`: `Spec => []ShowsDirectory`
* `TreeHolds`: `Spec => []TreeShowsDirectories`

`TypeOK` is not inductive: what is joined to the `cwd` is a path only because
the view never goes to the longest ones, now or by its history, and a rename
keeps the type of the workspace only because its handler has a destination
(`TypeInv`). `PreviewOK` says that a text under way that will be shown belongs
to the overlay on the screen.

The properties of list and tree speak of the view at rest; the invariants say of
every other state who will repair what is shown. `ListOK`: a handler that has
changed the workspace or may still do so, and asks for the list at its end; or
else the newest request, which is for the `cwd` and, if it has been answered,
was answered with what is there. `TreeOK`: a handler that will drop the cache;
or else every directory cached, and every answer under way that is not marked
old, names the directories there are. An upload, a drop or a move changes the
workspace and drops no cache. Where that changes which directories there are, the
property excuses the tree (`treeOld`); otherwise it is right, because what the
tree shows of a listing is its directories, and these depend on the directories
of the workspace alone (`DirsListed`, `DirsKept`). A fetch that failed and a
request served after the page gave it up (`LateServedShow`) are excused until the
cache is dropped: files.js asks again no sooner.

## 5. What is only model-checked, and what is not modelled

Every invariant, every action property and every refinement of a passing run is
proved; no run has to ask what `OneShell` says of `Restart` or `ServedByLedger`
of the terminals' server. Liveness (`StaleReclaimed`, `ExitsReported`,
`GoroutinesEnd`, `EventuallyCharged`, `ComesToRest`, `ExitRestarts`, `Resumes`,
`BlankEnds`, `SignOutEnds`) is out of the prover's reach and stays with TLC.
`NoDrift` is proved of behaviours in which no database write is lost; with lost
writes it is false, and `StaleReclaimed` is what remains.

Not modelled, on the server: the contents of frames, paths, environments and
settings; a WebSocket write that blocks for ever on a slow client (so the stall
of `readLoop` behind it); the keep-alive ping; `Write` and `Resize`, which
change no state of the server; the cgroup of `quota` and its disk check; more
than one month of traffic; the signature, age and role claim of a cookie;
symbolic links and the confinement of paths; metrics, settings, configuration.

Not modelled, in the pages: keystrokes, clipboard, fonts and resizing of the
terminal, and close code 1008, which the server sends nowhere; sorting by size
and time, the filter, the grid and downloads of the file manager, and several
`FileView`s over one `#view`, whose key listeners pile up; the usage cells, the
token field and the Traffic and Audit views of the application, which keep
nothing; `vite.config.js`.

Behaviours that the models contain but no property forbids, because nothing in
the repository does, are listed as hazards with a note: shells that run on
unreachable after a lazy restart, a double revival or `DeleteOrphan`
(`StaysInReach` delimits how a shell that was in reach gets out of it); revived
sessions that are already 24 hours old; output after the exit message; a listing
overtaken by an older one.

## 6. Plan

Done: `Sessions` with its ledger, claim and proofs; `Terminal`, `Accounts`
and `Traffic` with theirs; the pages as `TermClient`, `FileView` and `WebApp`,
each with proofs of all their safety properties; both models of the session
server related by `SessionLedger`.

Left, in this order:

1. A stronger abstract server for `TermClient`, with the answer of
   `ensureSession` in it and not the rows alone, implemented by `Sessions`.
2. Role claims and `requireAdmin` against a users table that changes (deletion,
   recreation under the same name); `Sessions` with the deletion of a user.
3. `Resolve` as an operator over small trees with symbolic links, compared with
   a reference definition of confinement; `CheckDisk` at its limits.
4. Which uids of `Traffic` belong to which rows of `Accounts`: a uid is used
   again after the deletion of the newest user, and its counters and readings
   with it.
