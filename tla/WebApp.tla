------------------------------- MODULE WebApp -------------------------------
(***************************************************************************)
(* The page of an admin: web/src/main.js over api.js, from the sign-in to  *)
(* the table of users, against auth_handler.go and admin_users.go.  A step *)
(* is one callback of the page up to its next await, or one request        *)
(* served.  A handler that awaits goes on whatever was rendered meanwhile: *)
(* it writes into elements it holds, or into what has their id by then.    *)
(*                                                                         *)
(* Users are changed by this page only.  Requests alike in everything      *)
(* count as one.  The Traffic and Audit views write late answers only into *)
(* elements they hold, which no property tells from the Terminal view; the *)
(* usage cells and the token field of the users view are left out.         *)
(***************************************************************************)
EXTENDS Naturals, FiniteSets

CONSTANTS
  User,      \* ids of users; AUTOINCREMENT never gives one out again
  Self,      \* the admin at the page
  MaxActs,   \* bound: clicks
  MaxFails   \* bound: requests the network fails, and sessions that end

ASSUME AppAssumption == Self \in User /\ MaxActs \in Nat /\ MaxFails \in Nat

VARIABLES
  users,        \* the users table
  mustChange,   \* must_change_password of Self
  cookie,       \* the browser holds a session cookie of Self
  screen,       \* what #app shows
  current,      \* the view the sidebar marks
  shown,        \* the view whose elements are in #view
  modal,        \* the New user dialog is open
  rows,         \* the rows of the users table on the screen
  calls,        \* requests and imports under way, and their handlers
  acts, fails,
  overtaken,    \* history: a late or failed list was shown
  unasked       \* history: a change no list was asked after

serverVars == <<users, mustChange>>
pageVars   == <<screen, current, shown, modal, rows, overtaken, unasked>>
vars == <<serverVars, cookie, pageVars, calls, acts, fails>>

View == {"terminal", "files", "users"}
UserOp == {"suspend", "unsuspend", "delete"}
Table == UNION {[S -> {"active", "suspended"}] : S \in SUBSET User}
NoRows == [u \in {} |-> "active"]

(* A request, with the cookie it was sent with.  page: the page was not    *)
(* reloaded since.  live: the elements its handler holds are still in it.  *)
(* newest: no later list was asked for the same table.                     *)
Request(op, u) ==
  [op |-> op, user |-> u, cookie |-> cookie, page |-> TRUE, live |-> TRUE,
   newest |-> TRUE, answer |-> "none", found |-> NoRows]

Call == [op : {"me", "login", "change", "logout", "list", "create", "import"} \cup UserOp,
         user : User, cookie : BOOLEAN, page : BOOLEAN, live : BOOLEAN,
         newest : BOOLEAN, answer : {"none", "ok", "must", "failed"}, found : Table]

TypeOK ==
  /\ users \in [User -> {"none", "active", "suspended", "deleted"}]
  /\ mustChange \in BOOLEAN /\ cookie \in BOOLEAN
  /\ screen \in {"blank", "login", "change", "app"}
  /\ current \in View /\ shown \in View \cup {"none"}
  /\ modal \in BOOLEAN /\ rows \in Table
  /\ calls \subseteq Call
  /\ overtaken \in BOOLEAN /\ unasked \in BOOLEAN

Init ==
  /\ users = [u \in User |-> IF u = Self THEN "active" ELSE "none"]
  /\ mustChange \in BOOLEAN /\ cookie \in BOOLEAN
  /\ screen = "blank" /\ current = "terminal" /\ shown = "none"
  /\ modal = FALSE /\ rows = NoRows
  /\ calls = {Request("me", Self)}
  /\ acts = 0 /\ fails = 0
  /\ overtaken = FALSE /\ unasked = FALSE

-----------------------------------------------------------------------------
(* The pieces of the page.                                                 *)

(* The elements handlers of these operations hold are removed.             *)
Removed(C, ops) == {[c EXCEPT !.live = @ /\ c.op \notin ops] : c \in C}

(* Another list for the same table.                                        *)
Asked(C) ==
  {IF c.op = "list" THEN [c EXCEPT !.newest = FALSE] ELSE c : c \in C}
    \cup {Request("list", Self)}

(* boot() asks who is signed in.                                           *)
Boot(C) == C \cup {Request("me", Self)}

(* shell(): a card instead of all the page had.                            *)
Card(which, C) ==
  /\ screen' = which
  /\ shown' = "none" /\ modal' = FALSE /\ rows' = NoRows
  /\ calls' = Removed(C, {"list", "import", "create"})
  /\ UNCHANGED <<current, overtaken, unasked>>

(* nav(view), which empties #view and calls the view's function.           *)
nav(view, C) ==
  /\ current' = view
  /\ rows' = NoRows
  /\ CASE view = "users" ->
            shown' = "users" /\ calls' = Asked(Removed(C, {"list"}))
              /\ overtaken' = FALSE /\ unasked' = FALSE
       [] view = "files" ->
            shown' = "none" /\ calls' = Removed(C, {"list"}) \cup {Request("import", Self)}
              /\ UNCHANGED <<overtaken, unasked>>
       [] OTHER ->
            shown' = view /\ calls' = Removed(C, {"list"})
              /\ UNCHANGED <<overtaken, unasked>>

(* renderApp(): a new page, with a new #view.                              *)
renderApp(C) ==
  /\ screen' = "app" /\ modal' = FALSE
  /\ nav(current, Removed(C, {"list", "import", "create"}))

(* refreshUsers(), where there is a table.                                 *)
refreshUsers(C) ==
  /\ IF shown = "users" THEN calls' = Asked(C) /\ unasked' = FALSE
                        ELSE calls' = C /\ UNCHANGED unasked
  /\ UNCHANGED <<screen, current, shown, rows, overtaken>>

-----------------------------------------------------------------------------
(* The server.                                                             *)

(* authMiddleware: the cookie, and a live user who is not suspended.       *)
Authed(c) == c.cookie /\ users[Self] = "active"

(* Mutation: deleted users are kept in the listing.                        *)
ListedForEver == {u \in User : users[u] # "none"}

Listed == {u \in User : users[u] \in {"active", "suspended"}}

Answered(c, a) == calls' = (calls \ {c}) \cup {[c EXCEPT !.answer = a]}

ServeMe(c) ==
  /\ c.op = "me"
  /\ Answered(c, IF ~Authed(c) THEN "failed" ELSE IF mustChange THEN "must" ELSE "ok")
  /\ UNCHANGED serverVars

(* handleAdminListUsers.                                                   *)
ServeList(c) ==
  /\ c.op = "list"
  /\ calls' = (calls \ {c}) \cup
       {IF Authed(c) THEN [c EXCEPT !.answer = "ok", !.found = [u \in Listed |-> users[u]]]
                     ELSE [c EXCEPT !.answer = "failed"]}
  /\ UNCHANGED serverVars

(* Every other request may be refused: a wrong password, a name that is    *)
(* taken, an account that cannot be locked or removed.                     *)
ServeRefused(c) ==
  /\ c.op \in {"login", "change", "create"} \cup UserOp
  /\ Answered(c, "failed")
  /\ UNCHANGED serverVars

ServeLogin(c) ==
  /\ c.op = "login" /\ users[Self] = "active"
  /\ Answered(c, "ok")
  /\ UNCHANGED serverVars

ServeLogout(c) ==
  /\ c.op = "logout"
  /\ Answered(c, "ok")
  /\ UNCHANGED serverVars

ServeChange(c) ==
  /\ c.op = "change" /\ Authed(c)
  /\ mustChange' = FALSE
  /\ Answered(c, "ok")
  /\ UNCHANGED users

Becomes(op) ==
  CASE op = "suspend" -> "suspended" [] op = "unsuspend" -> "active"
    [] op = "delete" -> "deleted"

ServeUserOp(c) ==
  /\ c.op \in UserOp /\ Authed(c) /\ c.user \in Listed
  /\ users' = [users EXCEPT ![c.user] = Becomes(c.op)]
  /\ Answered(c, "ok")
  /\ UNCHANGED mustChange

FreshId == CHOOSE u \in User : users[u] = "none"

ServeCreate(c) ==
  /\ c.op = "create" /\ Authed(c)
  /\ \E u \in User : users[u] = "none"
  /\ users' = [users EXCEPT ![FreshId] = "active"]
  /\ Answered(c, "ok")
  /\ UNCHANGED mustChange

Serve(c) ==
  /\ c \in calls /\ c.answer = "none"
  /\ \/ ServeMe(c) \/ ServeList(c) \/ ServeRefused(c) \/ ServeLogin(c)
     \/ ServeLogout(c) \/ ServeChange(c) \/ ServeUserOp(c) \/ ServeCreate(c)
  /\ UNCHANGED <<cookie, screen, current, shown, modal, rows, acts, fails, overtaken>>
  /\ unasked' = (unasked \/ (users' # users /\ ~c.page))

-----------------------------------------------------------------------------
(* Handlers going on with an answer.                                       *)

Arrived(c, op) == c \in calls /\ c.op = op /\ c.answer # "none" /\ c.page

(* Mutation: a failure is not caught.                                      *)
BootUncaught(c) ==
  /\ Arrived(c, "me")
  /\ CASE c.answer = "failed" -> calls' = calls \ {c} /\ UNCHANGED pageVars
       [] c.answer = "must" -> Card("change", calls \ {c})
       [] c.answer = "ok" -> renderApp(calls \ {c})
  /\ UNCHANGED <<serverVars, cookie, acts, fails>>

(* boot(): any failure to learn who is signed in shows the login.          *)
BootGoesOn(c) ==
  /\ Arrived(c, "me")
  /\ CASE c.answer = "failed" -> Card("login", calls \ {c})
       [] c.answer = "must" -> Card("change", calls \ {c})
       [] c.answer = "ok" -> renderApp(calls \ {c})
  /\ UNCHANGED <<serverVars, cookie, acts, fails>>

(* Mutation: the application is rendered without asking who signed in.     *)
LoginRenders(c) ==
  /\ Arrived(c, "login")
  /\ IF c.answer = "ok"
     THEN cookie' = TRUE /\ renderApp(calls \ {c})
     ELSE calls' = calls \ {c} /\ UNCHANGED <<cookie, pageVars>>
  /\ UNCHANGED <<serverVars, acts, fails>>

LoginGoesOn(c) ==
  /\ Arrived(c, "login")
  /\ IF c.answer = "ok"
     THEN cookie' = TRUE
          /\ calls' = (calls \ {c}) \cup {[Request("me", Self) EXCEPT !.cookie = TRUE]}
     ELSE calls' = calls \ {c} /\ UNCHANGED cookie
  /\ UNCHANGED <<serverVars, pageVars, acts, fails>>

ChangeGoesOn(c) ==
  /\ Arrived(c, "change")
  /\ calls' = IF c.answer = "ok" THEN Boot(calls \ {c}) ELSE calls \ {c}
  /\ UNCHANGED <<serverVars, cookie, pageVars, acts, fails>>

(* Mutation: the cookie is cleared and the page stays.                     *)
LogoutStays(c) ==
  /\ Arrived(c, "logout")
  /\ cookie' = FALSE
  /\ calls' = calls \ {c}
  /\ UNCHANGED <<serverVars, pageVars, acts, fails>>

(* Sign out reloads the page; requests of the old one that were sent are   *)
(* served all the same, for nobody.                                        *)
LogoutGoesOn(c) ==
  /\ Arrived(c, "logout")
  /\ cookie' = FALSE
  /\ screen' = "blank" /\ current' = "terminal" /\ shown' = "none"
  /\ modal' = FALSE /\ rows' = NoRows
  /\ calls' = {[x EXCEPT !.page = FALSE] :
                 x \in {y \in calls : y.op \in UserOp \cup {"create"} /\ y.answer = "none"}}
                \cup {[Request("me", Self) EXCEPT !.cookie = FALSE]}
  /\ overtaken' = FALSE /\ unasked' = FALSE
  /\ UNCHANGED <<serverVars, acts, fails>>

(* refreshUsers() goes on: the rows of the table it holds are replaced.    *)
ListGoesOn(c) ==
  /\ Arrived(c, "list")
  /\ calls' = calls \ {c}
  /\ IF c.live THEN rows' = c.found /\ overtaken' = (~c.newest \/ c.answer = "failed")
               ELSE UNCHANGED <<rows, overtaken>>
  /\ UNCHANGED <<serverVars, cookie, screen, current, shown, modal, acts, fails, unasked>>

(* Suspend, Unsuspend and Delete, whatever the status.                     *)
UserOpGoesOn(c) ==
  /\ c.op \in UserOp /\ Arrived(c, c.op)
  /\ refreshUsers(calls \ {c})
  /\ UNCHANGED <<serverVars, cookie, modal, acts, fails>>

(* Mutation: the dialog closes over a table that is not asked for again.   *)
CreateCloses(c) ==
  /\ Arrived(c, "create")
  /\ calls' = calls \ {c}
  /\ modal' = (modal /\ ~(c.live /\ c.answer = "ok"))
  /\ UNCHANGED <<serverVars, cookie, screen, current, shown, rows, overtaken, unasked,
                 acts, fails>>

(* Create closes its own dialog, which may be closed already and another   *)
(* be open, or shows the status.                                           *)
CreateGoesOn(c) ==
  /\ Arrived(c, "create")
  /\ IF c.answer = "ok"
     THEN /\ modal' = (modal /\ ~c.live)
          /\ refreshUsers(Removed(calls \ {c}, IF c.live THEN {"create"} ELSE {}))
     ELSE /\ calls' = calls \ {c}
          /\ UNCHANGED <<screen, current, shown, modal, rows, overtaken, unasked>>
  /\ UNCHANGED <<serverVars, cookie, acts, fails>>

(* The module files.js is there: it takes #view, whatever is in it.        *)
ImportGoesOn(c) ==
  /\ c \in calls /\ c.op = "import"
  /\ IF c.live
     THEN shown' = "files" /\ rows' = NoRows /\ calls' = Removed(calls \ {c}, {"list"})
     ELSE calls' = calls \ {c} /\ UNCHANGED <<shown, rows>>
  /\ UNCHANGED <<serverVars, cookie, screen, current, modal, overtaken, unasked, acts, fails>>

(* A request of an old page is served and forgotten.                       *)
Forgotten(c) ==
  /\ c \in calls /\ ~c.page /\ c.answer # "none"
  /\ calls' = calls \ {c}
  /\ UNCHANGED <<serverVars, cookie, pageVars, acts, fails>>

(* The network rejects a request, before or after the server acted.  boot  *)
(* shows the login, refreshUsers an empty table; other handlers die.       *)
Rejected(c) ==
  /\ c \in calls /\ c.page /\ (c.live \/ c.op = "create") /\ fails < MaxFails
  /\ fails' = fails + 1
  /\ CASE c.op = "me" -> Card("login", calls \ {c})
       [] c.op = "list" ->
            /\ calls' = calls \ {c} /\ rows' = NoRows /\ overtaken' = TRUE
            /\ UNCHANGED <<screen, current, shown, modal, unasked>>
       [] OTHER ->
            /\ calls' = calls \ {c}
            /\ unasked' = (unasked \/ c.op \in UserOp \cup {"create"})
            /\ UNCHANGED <<screen, current, shown, modal, rows, overtaken>>
  /\ UNCHANGED <<serverVars, cookie, acts>>

-----------------------------------------------------------------------------
(* The user.                                                               *)

Click == acts < MaxActs /\ acts' = acts + 1 /\ UNCHANGED <<serverVars, cookie, fails>>

Send(op, u) == calls' = calls \cup {Request(op, u)} /\ UNCHANGED pageVars

SignIn == Click /\ screen = "login" /\ Send("login", Self)
SetPassword == Click /\ screen = "change" /\ Send("change", Self)
SignOut == Click /\ screen = "app" /\ ~modal /\ Send("logout", Self)

(* A button of the sidebar; the dialog covers them.                        *)
Navigate ==
  /\ Click /\ screen = "app" /\ ~modal
  /\ \E v \in View : nav(v, calls)
  /\ UNCHANGED <<screen, modal>>

(* The buttons of a row are those of the listing it was rendered from.     *)
RowButton ==
  /\ Click /\ shown = "users" /\ ~modal
  /\ \E u \in DOMAIN rows :
       Send("delete", u)
         \/ Send(IF rows[u] = "suspended" THEN "unsuspend" ELSE "suspend", u)

NewUser ==
  /\ Click /\ shown = "users" /\ ~modal
  /\ modal' = TRUE
  /\ UNCHANGED <<calls, screen, current, shown, rows, overtaken, unasked>>

Create == Click /\ modal /\ Send("create", Self)

Cancel ==
  /\ Click /\ modal
  /\ modal' = FALSE
  /\ calls' = Removed(calls, {"create"})
  /\ UNCHANGED <<screen, current, shown, rows, overtaken, unasked>>

(* The cookie expires, or another tab of the browser signs out.            *)
SessionEnds ==
  /\ cookie /\ fails < MaxFails
  /\ cookie' = FALSE /\ fails' = fails + 1
  /\ UNCHANGED <<serverVars, pageVars, calls, acts>>

-----------------------------------------------------------------------------
GoesOn(c) ==
  \/ BootGoesOn(c) \/ LoginGoesOn(c) \/ ChangeGoesOn(c) \/ LogoutGoesOn(c)
  \/ ListGoesOn(c) \/ UserOpGoesOn(c) \/ CreateGoesOn(c) \/ ImportGoesOn(c)
  \/ Forgotten(c)

Acts ==
  \/ SignIn \/ SetPassword \/ SignOut \/ Navigate \/ RowButton \/ NewUser
  \/ Create \/ Cancel

Next ==
  \/ \E c \in calls : Serve(c) \/ GoesOn(c) \/ Rejected(c)
  \/ Acts \/ SessionEnds

Spec == Init /\ [][Next]_vars

(* Requests are answered and callbacks run, whatever their number; nobody  *)
(* has to click and no session has to end.                                 *)
FairSpec == Spec /\ WF_vars(\E c \in calls : Serve(c) \/ GoesOn(c))

-----------------------------------------------------------------------------
(* Correctness.                                                            *)

(* Whoever must set a password sees no application before the server has   *)
(* it: whichever of several sign-ins, changes and boots under way at once  *)
(* are answered in whichever order.                                        *)
NoAppBeforeChange == screen = "app" => ~mustChange

(* When no list and no change is under way the table shows the users there *)
(* are: every change asks for the table that is on the screen by the time  *)
(* it is answered, also across navigation, a second sign-in or the late    *)
(* import of the file manager.  Excused: an older list shown over a newer, *)
(* a request the network or a lost session failed, and changes under way   *)
(* when the page was reloaded.                                             *)
Changing == {c \in calls : c.op \in UserOp \cup {"create", "list"}}

TableCurrent ==
  screen = "app" /\ shown = "users" /\ Changing = {} /\ ~overtaken /\ ~unasked
    => rows = [u \in Listed |-> users[u]]

(* The page does not stay blank: every boot ends in the login, the         *)
(* password form or the application, whatever its request meets.           *)
BlankEnds == screen = "blank" ~> screen # "blank"

(* Who signs out comes to the login, unless the network fails the request. *)
SignOutEnds ==
  (\E c \in calls : c.op = "logout") ~> (screen = "login" \/ fails > 0)
=============================================================================
