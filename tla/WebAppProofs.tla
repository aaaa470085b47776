---------------------------- MODULE WebAppProofs ----------------------------
(***************************************************************************)
(* Proofs about WebApp, for any number of users, clicks and failures.      *)
(*                                                                         *)
(* NoAppBeforeChange is not inductive: an answer to boot that lets the     *)
(* application be shown may wait while other handlers run.  It becomes so  *)
(* with the promise that such an answer is never out of date: the flag is  *)
(* cleared and never set again (IInv).                                     *)
(*                                                                         *)
(* TableCurrent speaks of a page with no request under way.  TableOK says  *)
(* of the others who will repair the table: the handler of a change that   *)
(* was made, or else the newest list, which was answered with the users    *)
(* there are if it was answered at all.                                    *)
(***************************************************************************)
EXTENDS WebApp, TLAPS

(* C holds an answer upon which the application will be shown.             *)
Welcome(C) == \E c \in C : c.op = "me" /\ c.answer = "ok"

IInv == TypeOK /\ (screen = "app" \/ Welcome(calls) => ~mustChange)

(* The table as the server would send it now.                              *)
Listing == [u \in Listed |-> users[u]]

(* Among C is a change that was made and whose handler will ask for the    *)
(* table.                                                                  *)
Settling(C) == \E c \in C : c.op \in UserOp \cup {"create"} /\ c.page /\ c.answer = "ok"

(* The list that is to be shown and will not count as overtaken.           *)
Awaited(C) == {c \in C : c.op = "list" /\ c.page /\ c.live /\ c.newest}

TableOK ==
  shown = "users" /\ ~unasked =>
    \/ Settling(calls)
    \/ /\ \A c \in Awaited(calls) :
            c.answer \notin {"none", "failed"} => c.found = Listing
       /\ overtaken \/ rows = Listing \/ Awaited(calls) # {}

PageType ==
  /\ screen \in {"blank", "login", "change", "app"}
  /\ current \in View /\ shown \in View \cup {"none"}
  /\ modal \in BOOLEAN /\ rows \in Table
  /\ overtaken \in BOOLEAN /\ unasked \in BOOLEAN

-----------------------------------------------------------------------------
(* What the helpers that rewrite calls return.                             *)

(* The empty table is a table.                                             *)
LEMMA EmptyTable == NoRows \in Table
BY DEF NoRows, Table

(* A request is a call, and no answer.                                     *)
LEMMA RequestIsCall ==
  ASSUME cookie \in BOOLEAN, NEW u \in User,
         NEW op \in {"me", "login", "change", "logout", "list", "create", "import"} \cup UserOp
  PROVE  Request(op, u) \in Call /\ Request(op, u).answer = "none"
BY EmptyTable DEF Request, Call

(* Removing elements from the page answers nothing.                        *)
LEMMA RemovedCalls ==
  ASSUME NEW C, C \subseteq Call, NEW ops
  PROVE  /\ Removed(C, ops) \subseteq Call
         /\ Welcome(Removed(C, ops)) => Welcome(C)
<1>1. ASSUME NEW c \in C
      PROVE  /\ [c EXCEPT !.live = @ /\ c.op \notin ops] \in Call
             /\ [c EXCEPT !.live = @ /\ c.op \notin ops].op = c.op
             /\ [c EXCEPT !.live = @ /\ c.op \notin ops].answer = c.answer
  BY <1>1 DEF Call
<1>2. Removed(C, ops) \subseteq Call
  BY <1>1 DEF Removed
<1>3. ASSUME NEW d \in Removed(C, ops), d.op = "me", d.answer = "ok" PROVE Welcome(C)
  <2>1. PICK c \in C : d = [c EXCEPT !.live = @ /\ c.op \notin ops]
    BY DEF Removed
  <2> QED BY <1>1, <1>3, <2>1 DEF Welcome
<1> QED
  BY <1>2, <1>3 DEF Welcome

(* Nor does asking for another list.                                       *)
LEMMA AskedCalls ==
  ASSUME NEW C, C \subseteq Call, cookie \in BOOLEAN
  PROVE  /\ Asked(C) \subseteq Call
         /\ Welcome(Asked(C)) => Welcome(C)
<1>1. ASSUME NEW c \in C
      PROVE  /\ [c EXCEPT !.newest = FALSE] \in Call
             /\ [c EXCEPT !.newest = FALSE].op = c.op
             /\ [c EXCEPT !.newest = FALSE].answer = c.answer
  BY <1>1 DEF Call
<1>2. Request("list", Self) \in Call /\ Request("list", Self).answer = "none"
  BY RequestIsCall, AppAssumption
<1> QED
  BY <1>1, <1>2 DEF Asked, Welcome

(* What the four pieces of the page leave behind, for any calls C.         *)
Kept(C) == calls' \subseteq Call /\ (Welcome(calls') => Welcome(C))

LEMMA CardKeeps ==
  ASSUME NEW C, C \subseteq Call, TypeOK, NEW which \in {"login", "change"},
         Card(which, C)
  PROVE  PageType' /\ Kept(C) /\ screen' # "app"
<1>1. Kept(C)
  BY RemovedCalls DEF Card, Kept
<1> QED
  BY <1>1, EmptyTable DEF Card, TypeOK, PageType

LEMMA NavKeeps ==
  ASSUME NEW C, C \subseteq Call, TypeOK, NEW view \in View, nav(view, C)
  PROVE  /\ Kept(C)
         /\ current' \in View /\ shown' \in View \cup {"none"} /\ rows' \in Table
         /\ overtaken' \in BOOLEAN /\ unasked' \in BOOLEAN
<1> DEFINE D == Removed(C, {"list"})
<1>1. D \subseteq Call /\ (Welcome(D) => Welcome(C))
  BY RemovedCalls
<1>2. Request("import", Self) \in Call /\ Request("import", Self).answer = "none"
  BY RequestIsCall, AppAssumption DEF TypeOK
<1>3. current' = view /\ rows' \in Table
  BY EmptyTable DEF nav
<1>4. CASE view = "users"
  <2>1. shown' = "users" /\ calls' = Asked(D) /\ overtaken' = FALSE /\ unasked' = FALSE
    BY <1>4 DEF nav
  <2>2. cookie \in BOOLEAN
    BY DEF TypeOK
  <2>3. calls' \subseteq Call /\ (Welcome(calls') => Welcome(D))
    <3> HIDE DEF D
    <3> QED BY <1>1, <2>1, <2>2, AskedCalls
  <2> QED BY <1>1, <1>3, <2>1, <2>3 DEF Kept, View
<1>5. CASE view = "files"
  <2>1. shown' = "none" /\ calls' = D \cup {Request("import", Self)}
        /\ UNCHANGED <<overtaken, unasked>>
    BY <1>5 DEF nav
  <2> HIDE DEF D
  <2> QED BY <1>1, <1>2, <1>3, <2>1 DEF Kept, View, Welcome, TypeOK
<1>6. CASE view = "terminal"
  <2>1. shown' = view /\ calls' = D /\ UNCHANGED <<overtaken, unasked>>
    BY <1>6 DEF nav
  <2> HIDE DEF D
  <2> QED BY <1>1, <1>3, <2>1 DEF Kept, View, TypeOK
<1> QED BY <1>4, <1>5, <1>6 DEF View

LEMMA RenderAppKeeps ==
  ASSUME NEW C, C \subseteq Call, TypeOK, renderApp(C)
  PROVE  PageType' /\ Kept(C)
<1> DEFINE D == Removed(C, {"list", "import", "create"})
<1>1. D \subseteq Call /\ (Welcome(D) => Welcome(C))
  BY RemovedCalls
<1>2. nav(current, D) /\ screen' = "app" /\ modal' = FALSE /\ current \in View
  BY DEF renderApp, TypeOK
<1> HIDE DEF D
<1>3. Kept(D)
      /\ current' \in View /\ shown' \in View \cup {"none"} /\ rows' \in Table
      /\ overtaken' \in BOOLEAN /\ unasked' \in BOOLEAN
  BY <1>1, <1>2, NavKeeps
<1> QED BY <1>1, <1>2, <1>3 DEF Kept, PageType

LEMMA RefreshKeeps ==
  ASSUME NEW C, C \subseteq Call, TypeOK, refreshUsers(C), modal' \in BOOLEAN
  PROVE  PageType' /\ Kept(C) /\ screen' = screen
<1>1. CASE shown = "users"
  <2>1. calls' = Asked(C) /\ unasked' = FALSE
        /\ UNCHANGED <<screen, current, shown, rows, overtaken>>
    BY <1>1 DEF refreshUsers
  <2>2. cookie \in BOOLEAN
    BY DEF TypeOK
  <2>3. Kept(C)
    BY <2>1, <2>2, AskedCalls DEF Kept
  <2> QED BY <2>1, <2>3 DEF TypeOK, PageType
<1>2. CASE shown # "users"
  BY <1>2 DEF refreshUsers, Kept, TypeOK, PageType
<1> QED BY <1>1, <1>2

-----------------------------------------------------------------------------
(* The inductive invariant.                                                *)

LEMMA InitIInv == Init => IInv
<1> SUFFICES ASSUME Init PROVE IInv
  OBVIOUS
<1>1. Request("me", Self) \in Call /\ Request("me", Self).answer = "none"
  BY RequestIsCall, AppAssumption DEF Init
<1>2. TypeOK
  BY <1>1, EmptyTable DEF Init, TypeOK, View
<1>3. ~Welcome(calls) /\ screen # "app"
  BY <1>1 DEF Init, Welcome
<1> QED BY <1>2, <1>3 DEF IInv

(* What is shown of the users table is a table.                            *)
LEMMA ListingIsTable == TypeOK => [u \in Listed |-> users[u]] \in Table
<1> SUFFICES ASSUME TypeOK PROVE [u \in Listed |-> users[u]] \in Table
  OBVIOUS
<1>1. Listed \in SUBSET User /\ \A u \in Listed : users[u] \in {"active", "suspended"}
  BY DEF Listed
<1>2. [u \in Listed |-> users[u]] \in [Listed -> {"active", "suspended"}]
  BY <1>1
<1> QED BY <1>1, <1>2 DEF Table

(* An answer changes nothing else of the call, and lets the application be *)
(* shown only if it is the answer "ok" to boot.                            *)
LEMMA AnswerKeeps ==
  ASSUME NEW c \in calls, TypeOK, NEW a \in {"ok", "must", "failed"}, Answered(c, a)
  PROVE  /\ calls' \subseteq Call
         /\ Welcome(calls') => Welcome(calls) \/ (c.op = "me" /\ a = "ok")
<1>1. c \in Call /\ calls \subseteq Call
  BY DEF TypeOK
<1>2. [c EXCEPT !.answer = a] \in Call
      /\ [c EXCEPT !.answer = a].op = c.op /\ [c EXCEPT !.answer = a].answer = a
  BY <1>1 DEF Call
<1> QED BY <1>1, <1>2 DEF Answered, Welcome

LEMMA ServeIInv ==
  ASSUME IInv, NEW c \in calls, Serve(c)
  PROVE  IInv'
<1> USE DEF IInv
<1>1. /\ PageType' /\ UNCHANGED <<cookie, screen>> /\ cookie \in BOOLEAN
  BY DEF Serve, TypeOK, PageType
<1>2. SUFFICES
        /\ users' \in [User -> {"none", "active", "suspended", "deleted"}]
        /\ mustChange' \in BOOLEAN /\ (mustChange' => mustChange)
        /\ calls' \subseteq Call /\ (Welcome(calls') => Welcome(calls) \/ ~mustChange)
  BY <1>1 DEF TypeOK, PageType
<1>3. c \in Call /\ calls \subseteq Call
  BY DEF TypeOK
<1>4. CASE ServeMe(c)
  <2> DEFINE a == IF ~Authed(c) THEN "failed" ELSE IF mustChange THEN "must" ELSE "ok"
  <2>1. a \in {"ok", "must", "failed"} /\ (a = "ok" => ~mustChange) /\ Answered(c, a)
    BY <1>4 DEF ServeMe
  <2> HIDE DEF a
  <2> QED BY <1>4, <2>1, AnswerKeeps DEF ServeMe, serverVars, TypeOK
<1>5. CASE ServeList(c)
  <2>1. [u \in Listed |-> users[u]] \in Table
    BY ListingIsTable
  <2>2. PICK d : d \in {[c EXCEPT !.answer = "ok", !.found = [u \in Listed |-> users[u]]],
                        [c EXCEPT !.answer = "failed"]}
                 /\ calls' = (calls \ {c}) \cup {d}
    BY <1>5 DEF ServeList
  <2>3. d \in Call /\ d.op = "list"
    BY <1>3, <1>5, <2>1, <2>2 DEF Call, ServeList
  <2> QED BY <1>3, <1>5, <2>2, <2>3 DEF ServeList, Welcome, serverVars, TypeOK
<1>6. CASE ServeRefused(c)
  BY <1>6, AnswerKeeps DEF ServeRefused, serverVars, TypeOK
<1>7. CASE ServeLogin(c) \/ ServeLogout(c)
  BY <1>7, AnswerKeeps DEF ServeLogin, ServeLogout, serverVars, TypeOK
<1>8. CASE ServeChange(c)
  BY <1>8, AnswerKeeps DEF ServeChange, TypeOK
<1>9. CASE ServeUserOp(c)
  <2>1. Becomes(c.op) \in {"suspended", "active", "deleted"}
    BY <1>9 DEF ServeUserOp, UserOp, Becomes
  <2> QED BY <1>9, <2>1, AnswerKeeps DEF ServeUserOp, UserOp, TypeOK
<1>10. CASE ServeCreate(c)
  BY <1>10, AnswerKeeps DEF ServeCreate, TypeOK
<1> QED
  BY <1>4, <1>5, <1>6, <1>7, <1>8, <1>9, <1>10 DEF Serve

(* A handler that goes on with an answer.                                  *)
LEMMA GoesOnIInv ==
  ASSUME IInv, NEW c \in calls, GoesOn(c)
  PROVE  IInv'
<1> DEFINE rest == calls \ {c}
<1>1. TypeOK /\ rest \subseteq Call /\ (Welcome(rest) => Welcome(calls)) /\ c \in Call
  BY DEF IInv, TypeOK, Welcome
<1>2. UNCHANGED serverVars /\ cookie' \in BOOLEAN
  BY <1>1 DEF GoesOn, BootGoesOn, LoginGoesOn, ChangeGoesOn, LogoutGoesOn, ListGoesOn,
              UserOpGoesOn, CreateGoesOn, ImportGoesOn, Forgotten, TypeOK
<1>3. SUFFICES PageType' /\ calls' \subseteq Call
               /\ (screen' = "app" \/ Welcome(calls') => screen = "app" \/ Welcome(calls))
  BY <1>1, <1>2 DEF IInv, TypeOK, PageType, serverVars
<1>4. Request("me", Self) \in Call /\ Request("me", Self).answer = "none"
  BY <1>1, RequestIsCall, AppAssumption DEF TypeOK
<1>5. \A b \in BOOLEAN : [Request("me", Self) EXCEPT !.cookie = b] \in Call
                       /\ [Request("me", Self) EXCEPT !.cookie = b].answer = "none"
  BY <1>4 DEF Call, Request
<1>6. CASE BootGoesOn(c)
  <2>1. CASE c.answer = "failed"
    <3>1. Card("login", rest)
      BY <1>6, <2>1 DEF BootGoesOn
    <3> HIDE DEF rest
    <3> QED BY <1>1, <3>1, CardKeeps DEF Kept
  <2>2. CASE c.answer = "must"
    <3>1. Card("change", rest)
      BY <1>6, <2>2 DEF BootGoesOn
    <3> HIDE DEF rest
    <3> QED BY <1>1, <3>1, CardKeeps DEF Kept
  <2>3. CASE c.answer = "ok"
    <3>1. renderApp(rest)
      BY <1>6, <2>3 DEF BootGoesOn
    <3>2. Welcome(calls)
      BY <1>6, <2>3 DEF BootGoesOn, Arrived, Welcome
    <3> HIDE DEF rest
    <3> QED BY <1>1, <3>1, <3>2, RenderAppKeeps DEF Kept
  <2> QED BY <1>1, <1>6, <2>1, <2>2, <2>3 DEF BootGoesOn, Arrived, Call
<1>7. CASE LoginGoesOn(c)
  <2>1. UNCHANGED pageVars
        /\ (calls' = rest \cup {[Request("me", Self) EXCEPT !.cookie = TRUE]} \/ calls' = rest)
    BY <1>7 DEF LoginGoesOn
  <2> HIDE DEF rest
  <2> QED BY <1>1, <1>5, <2>1 DEF pageVars, PageType, TypeOK, Welcome
<1>8. CASE ChangeGoesOn(c)
  <2>1. UNCHANGED pageVars /\ (calls' = rest \cup {Request("me", Self)} \/ calls' = rest)
    BY <1>8 DEF ChangeGoesOn, Boot
  <2> HIDE DEF rest
  <2> QED BY <1>1, <1>4, <2>1 DEF pageVars, PageType, TypeOK, Welcome
<1>9. CASE LogoutGoesOn(c)
  <2> DEFINE sent == {y \in calls : y.op \in UserOp \cup {"create"} /\ y.answer = "none"}
             away == {[x EXCEPT !.page = FALSE] : x \in sent}
             me == [Request("me", Self) EXCEPT !.cookie = FALSE]
  <2>1. calls' = away \cup {me} /\ screen' = "blank" /\ PageType'
    BY <1>9, EmptyTable DEF LogoutGoesOn, PageType, View
  <2>2. ASSUME NEW x \in sent
        PROVE  [x EXCEPT !.page = FALSE] \in Call /\ [x EXCEPT !.page = FALSE].answer = "none"
    BY <1>1, <2>2 DEF Call, TypeOK
  <2>3. away \subseteq Call /\ \A x \in away : x.answer = "none"
    BY <2>2
  <2>4. me \in Call /\ me.answer = "none"
    BY <1>5
  <2> HIDE DEF away, me
  <2> QED BY <2>1, <2>3, <2>4 DEF Welcome
<1>10. CASE ListGoesOn(c)
  BY <1>1, <1>10 DEF ListGoesOn, PageType, TypeOK, Call
<1>11. CASE UserOpGoesOn(c)
  <2>1. refreshUsers(rest) /\ modal' \in BOOLEAN
    BY <1>1, <1>11 DEF UserOpGoesOn, TypeOK
  <2> HIDE DEF rest
  <2> QED BY <1>1, <2>1, RefreshKeeps DEF Kept
<1>12. CASE CreateGoesOn(c)
  <2>1. CASE c.answer = "ok"
    <3> DEFINE left == Removed(rest, IF c.live THEN {"create"} ELSE {})
    <3>1. refreshUsers(left) /\ modal' \in BOOLEAN
      BY <1>1, <1>12, <2>1 DEF CreateGoesOn, TypeOK
    <3>2. left \subseteq Call /\ (Welcome(left) => Welcome(calls))
      <4> HIDE DEF rest
      <4> QED BY <1>1, RemovedCalls
    <3> HIDE DEF left
    <3> QED BY <1>1, <3>1, <3>2, RefreshKeeps DEF Kept
  <2>2. CASE c.answer # "ok"
    BY <1>1, <1>12, <2>2 DEF CreateGoesOn, PageType, TypeOK
  <2> QED BY <2>1, <2>2
<1>13. CASE ImportGoesOn(c)
  <2>1. CASE c.live
    <3>1. shown' = "files" /\ rows' = NoRows /\ calls' = Removed(rest, {"list"})
          /\ UNCHANGED <<screen, current, modal, overtaken, unasked>>
      BY <1>13, <2>1 DEF ImportGoesOn
    <3> HIDE DEF rest
    <3> QED BY <1>1, <3>1, RemovedCalls, EmptyTable DEF PageType, TypeOK, View
  <2>2. CASE ~c.live
    BY <1>1, <1>13, <2>2 DEF ImportGoesOn, PageType, TypeOK
  <2> QED BY <2>1, <2>2
<1>14. CASE Forgotten(c)
  BY <1>1, <1>14 DEF Forgotten, pageVars, PageType, TypeOK
<1> QED
  BY <1>6, <1>7, <1>8, <1>9, <1>10, <1>11, <1>12, <1>13, <1>14 DEF GoesOn

LEMMA RejectedIInv ==
  ASSUME IInv, NEW c \in calls, Rejected(c)
  PROVE  IInv'
<1> DEFINE rest == calls \ {c}
<1>1. TypeOK /\ rest \subseteq Call /\ (Welcome(rest) => Welcome(calls))
  BY DEF IInv, TypeOK, Welcome
<1>2. SUFFICES PageType' /\ calls' \subseteq Call
               /\ (screen' = "app" \/ Welcome(calls') => screen = "app" \/ Welcome(calls))
  BY <1>1 DEF IInv, TypeOK, PageType, serverVars, Rejected
<1>3. CASE c.op = "me"
  <2>1. Card("login", rest)
    BY <1>3 DEF Rejected
  <2> HIDE DEF rest
  <2> QED BY <1>1, <2>1, CardKeeps DEF Kept
<1>4. CASE c.op = "list"
  BY <1>1, <1>4, EmptyTable DEF Rejected, PageType, TypeOK
<1>5. CASE c.op \notin {"me", "list"}
  <2>1. calls' = rest /\ UNCHANGED <<screen, current, shown, modal, rows, overtaken>>
        /\ unasked' \in BOOLEAN
    BY <1>1, <1>5 DEF Rejected, TypeOK
  <2> QED BY <1>1, <2>1 DEF PageType, TypeOK
<1> QED BY <1>3, <1>4, <1>5

LEMMA ActsIInv ==
  ASSUME IInv, Acts
  PROVE  IInv'
<1>1. TypeOK /\ cookie \in BOOLEAN
  BY DEF IInv, TypeOK
<1>2. UNCHANGED <<serverVars, cookie>>
  BY DEF Acts, Click, SignIn, SetPassword, SignOut, Navigate, RowButton, NewUser,
         Create, Cancel
<1>3. SUFFICES PageType' /\ calls' \subseteq Call
               /\ (screen' = "app" \/ Welcome(calls') => screen = "app" \/ Welcome(calls))
  BY <1>1, <1>2 DEF IInv, TypeOK, PageType, serverVars
<1>4. ASSUME NEW op \in {"login", "change", "logout", "create"} \cup UserOp,
             NEW u \in User, Send(op, u)
      PROVE  PageType' /\ calls' \subseteq Call /\ screen' = screen
             /\ (Welcome(calls') => Welcome(calls))
  <2>1. Request(op, u) \in Call /\ Request(op, u).answer = "none"
    BY <1>1, RequestIsCall
  <2> QED BY <1>1, <1>4, <2>1 DEF Send, Welcome, pageVars, PageType, TypeOK
<1>5. CASE SignIn \/ SetPassword \/ SignOut \/ Create
  BY <1>4, <1>5, AppAssumption DEF SignIn, SetPassword, SignOut, Create
<1>6. CASE Navigate
  <2>1. PICK v \in View : nav(v, calls)
    BY <1>6 DEF Navigate
  <2>2. calls \subseteq Call
    BY <1>1 DEF TypeOK
  <2>3. UNCHANGED <<screen, modal>>
    BY <1>6 DEF Navigate
  <2> QED BY <1>1, <2>1, <2>2, <2>3, NavKeeps DEF Kept, PageType, TypeOK
<1>7. CASE RowButton
  <2>1. PICK u \in DOMAIN rows :
          Send("delete", u)
            \/ Send(IF rows[u] = "suspended" THEN "unsuspend" ELSE "suspend", u)
    BY <1>7 DEF RowButton
  <2>2. u \in User
    BY <1>1 DEF TypeOK, Table
  <2>3. "delete" \in UserOp
        /\ (IF rows[u] = "suspended" THEN "unsuspend" ELSE "suspend") \in UserOp
    BY DEF UserOp
  <2> QED BY <1>4, <2>1, <2>2, <2>3
<1>8. CASE NewUser
  BY <1>1, <1>8 DEF NewUser, PageType, TypeOK
<1>9. CASE Cancel
  <2>1. calls' = Removed(calls, {"create"}) /\ calls \subseteq Call
    BY <1>1, <1>9 DEF Cancel, TypeOK
  <2>2. modal' = FALSE /\ UNCHANGED <<screen, current, shown, rows, overtaken, unasked>>
    BY <1>9 DEF Cancel
  <2> QED BY <1>1, <2>1, <2>2, RemovedCalls DEF PageType, TypeOK
<1> QED BY <1>5, <1>6, <1>7, <1>8, <1>9 DEF Acts

LEMMA NextIInv == IInv /\ [Next]_vars => IInv'
<1> SUFFICES ASSUME IInv, [Next]_vars PROVE IInv'
  OBVIOUS
<1>1. ASSUME NEW c \in calls, Serve(c) \/ GoesOn(c) \/ Rejected(c) PROVE IInv'
  BY <1>1, ServeIInv, GoesOnIInv, RejectedIInv
<1>2. CASE Acts
  BY <1>2, ActsIInv
<1>3. CASE SessionEnds
  BY <1>3 DEF SessionEnds, IInv, TypeOK, pageVars, serverVars, Welcome
<1>4. CASE UNCHANGED vars
  BY <1>4 DEF vars, IInv, TypeOK, pageVars, serverVars, Welcome
<1> QED BY <1>1, <1>2, <1>3, <1>4 DEF Next

-----------------------------------------------------------------------------
(* The table.                                                              *)

(* Asking for the table awaits the list asked for and no other.            *)
LEMMA AskedTable == ASSUME NEW C, C \subseteq Call, calls' = Asked(C) PROVE TableOK'
<1> DEFINE new == Request("list", Self)
<1>1. new.op = "list" /\ new.page /\ new.live /\ new.newest /\ new.answer = "none"
  BY DEF Request
<1>2. ASSUME NEW c \in C
      PROVE  c.op # "list" \/ ~[c EXCEPT !.newest = FALSE].newest
  BY <1>2 DEF Call
<1>3. calls' = {IF c.op = "list" THEN [c EXCEPT !.newest = FALSE] ELSE c : c \in C} \cup {new}
  BY DEF Asked
<1> HIDE DEF new
<1>4. Awaited(calls') = {new}
  BY <1>1, <1>2, <1>3 DEF Awaited
<1> QED BY <1>1, <1>4 DEF TableOK

(* Elements removed from the page that are no table's concern no list.     *)
LEMMA RemovedTable ==
  ASSUME NEW C, C \subseteq Call, NEW ops, "list" \notin ops
  PROVE  /\ Awaited(Removed(C, ops)) = Awaited(C)
         /\ Settling(C) => Settling(Removed(C, ops))
<1> DEFINE r(c) == [c EXCEPT !.live = @ /\ c.op \notin ops]
<1>1. ASSUME NEW c \in C
      PROVE  /\ r(c).op = c.op /\ r(c).page = c.page /\ r(c).answer = c.answer
             /\ c.op = "list" => r(c) = c
  BY <1>1 DEF Call
<1>2. Removed(C, ops) = {r(c) : c \in C}
  BY DEF Removed
<1> HIDE DEF r
<1>3. Awaited(Removed(C, ops)) = Awaited(C)
  BY <1>1, <1>2 DEF Awaited
<1>4. Settling(C) => Settling(Removed(C, ops))
  BY <1>1, <1>2 DEF Settling
<1> QED BY <1>3, <1>4

(* What the table is judged by stays.                                      *)
LEMMA TableKept ==
  ASSUME TableOK, UNCHANGED <<users, shown, rows>>, unasked => unasked',
         UNCHANGED overtaken, Awaited(calls') = Awaited(calls),
         Settling(calls) => unasked' \/ Settling(calls')
  PROVE  TableOK'
BY DEF TableOK, Listing, Listed

(* A view that is shown has asked for its table, or has none.              *)
LEMMA NavTable ==
  ASSUME NEW C, C \subseteq Call, NEW view \in View, nav(view, C)
  PROVE  TableOK'
<1>1. CASE view = "users"
  <2>1. calls' = Asked(Removed(C, {"list"}))
    BY <1>1 DEF nav
  <2>2. Removed(C, {"list"}) \subseteq Call
    BY RemovedCalls
  <2> QED BY <2>1, <2>2, AskedTable
<1>2. CASE view # "users"
  <2>1. shown' # "users"
    BY <1>2 DEF nav, View
  <2> QED BY <2>1 DEF TableOK
<1> QED BY <1>1, <1>2

LEMMA RefreshTable == ASSUME NEW C, C \subseteq Call, refreshUsers(C) PROVE TableOK'
<1>1. CASE shown = "users"
  BY <1>1, AskedTable DEF refreshUsers
<1>2. CASE shown # "users"
  BY <1>2 DEF refreshUsers, TableOK
<1> QED BY <1>1, <1>2

(* A change that is served has a handler that will ask, or no page.        *)
LEMMA ServeTable ==
  ASSUME TypeOK, TableOK, NEW c \in calls, Serve(c)
  PROVE  TableOK'
<1>1. c \in Call /\ c.answer = "none" /\ UNCHANGED <<shown, rows, overtaken>>
      /\ unasked' = (unasked \/ (users' # users /\ ~c.page))
  BY DEF TypeOK, Serve
<1>2. ASSUME NEW a, Answered(c, a), c.op # "list",
             users' = users \/ (c.op \in UserOp \cup {"create"} /\ a = "ok")
      PROVE  TableOK'
  <2> DEFINE d == [c EXCEPT !.answer = a]
  <2>1. d.op = c.op /\ d.page = c.page /\ d.answer = a
    BY <1>1 DEF Call
  <2>2. calls' = (calls \ {c}) \cup {d}
    BY <1>2 DEF Answered
  <2> HIDE DEF d
  <2>3. Awaited(calls') = Awaited(calls)
    BY <1>2, <2>1, <2>2 DEF Awaited
  <2>4. Settling(calls) => Settling(calls')
    BY <1>1, <2>2 DEF Settling
  <2>5. CASE users' = users
    BY <1>1, <2>3, <2>4, <2>5, TableKept
  <2>6. CASE users' # users
    <3>1. unasked' \/ Settling(calls')
      BY <1>1, <1>2, <2>1, <2>2, <2>6 DEF Settling, Call
    <3> QED BY <3>1 DEF TableOK
  <2> QED BY <2>5, <2>6
<1>3. CASE ServeList(c)
  <2>1. PICK d : /\ d = [c EXCEPT !.answer = "ok", !.found = Listing]
                      \/ d = [c EXCEPT !.answer = "failed"]
                 /\ calls' = (calls \ {c}) \cup {d}
    BY <1>3 DEF ServeList, Listing
  <2>2. d.op = "list" /\ d.page = c.page /\ d.live = c.live /\ d.newest = c.newest
        /\ (d.answer = "failed" \/ d.found = Listing)
    BY <1>1, <1>3, <2>1 DEF Call, ServeList
  <2>3. c.op = "list" /\ users' = users
    BY <1>3 DEF ServeList, serverVars
  <2>4. Listing' = Listing
    BY <2>3 DEF Listing, Listed
  <2>5. /\ \A y \in Awaited(calls') : y \in Awaited(calls) \/ y = d
        /\ Awaited(calls) # {} => Awaited(calls') # {}
    BY <2>1, <2>2, <2>3 DEF Awaited
  <2>6. Settling(calls) => Settling(calls')
    BY <2>1, <2>3 DEF Settling, UserOp
  <2> QED BY <1>1, <2>2, <2>3, <2>4, <2>5, <2>6 DEF TableOK
<1>4. CASE ServeMe(c) \/ ServeLogin(c) \/ ServeLogout(c)
  <2>1. \E a : Answered(c, a)
    BY <1>4 DEF ServeMe, ServeLogin, ServeLogout
  <2>2. c.op # "list" /\ users' = users
    BY <1>4 DEF ServeMe, ServeLogin, ServeLogout, serverVars
  <2> QED BY <1>2, <2>1, <2>2
<1>5. CASE ServeRefused(c)
  BY <1>2, <1>5 DEF ServeRefused, serverVars, UserOp
<1>6. CASE ServeChange(c)
  BY <1>2, <1>6 DEF ServeChange
<1>7. CASE ServeUserOp(c) \/ ServeCreate(c)
  BY <1>2, <1>7 DEF ServeUserOp, ServeCreate, UserOp
<1> QED BY <1>3, <1>4, <1>5, <1>6, <1>7 DEF Serve

(* The table is replaced by the newest answer, or counts as overtaken; the *)
(* handler of a change asks for the table that is shown by then.           *)
LEMMA GoesOnTable ==
  ASSUME TypeOK, TableOK, NEW c \in calls, GoesOn(c)
  PROVE  TableOK'
<1> DEFINE rest == calls \ {c}
<1>1. rest \subseteq Call /\ c \in Call
  BY DEF TypeOK
<1>2. ASSUME c.op # "list" \/ ~c.page \/ ~c.live,
             c.op \notin UserOp \cup {"create"} \/ ~c.page \/ c.answer # "ok",
             rest \subseteq calls', \A d \in calls' : d \in calls \/ d.op = "me",
             UNCHANGED <<users, shown, rows, overtaken, unasked>>
      PROVE  TableOK'
  <2>1. Awaited(calls') = Awaited(calls)
    BY <1>2 DEF Awaited
  <2>2. Settling(calls) => Settling(calls')
    BY <1>2 DEF Settling
  <2> QED BY <1>2, <2>1, <2>2, TableKept
<1>3. CASE BootGoesOn(c)
  <2>1. CASE c.answer \in {"failed", "must"}
    <3>1. shown' = "none"
      BY <1>3, <2>1 DEF BootGoesOn, Card
    <3> QED BY <3>1 DEF TableOK
  <2>2. CASE c.answer = "ok"
    <3>1. nav(current, Removed(rest, {"list", "import", "create"}))
      BY <1>3, <2>2 DEF BootGoesOn, renderApp
    <3>2. Removed(rest, {"list", "import", "create"}) \subseteq Call /\ current \in View
      BY <1>1, RemovedCalls DEF TypeOK
    <3> QED BY <3>1, <3>2, NavTable
  <2> QED BY <1>1, <1>3, <2>1, <2>2 DEF BootGoesOn, Arrived, Call
<1>4. CASE LoginGoesOn(c) \/ ChangeGoesOn(c)
  <2>1. c.op \in {"login", "change"} /\ UNCHANGED <<users, shown, rows, overtaken, unasked>>
    BY <1>4 DEF LoginGoesOn, ChangeGoesOn, Arrived, pageVars, serverVars
  <2>2. \A d \in {Request("me", Self), [Request("me", Self) EXCEPT !.cookie = TRUE]} : d.op = "me"
    BY DEF Request
  <2>3. calls' = rest \/ calls' = rest \cup {Request("me", Self)}
        \/ calls' = rest \cup {[Request("me", Self) EXCEPT !.cookie = TRUE]}
    BY <1>4 DEF LoginGoesOn, ChangeGoesOn, Boot
  <2>4. rest \subseteq calls' /\ \A d \in calls' : d \in calls \/ d.op = "me"
    BY <2>2, <2>3
  <2> QED BY <1>2, <2>1, <2>4 DEF UserOp
<1>5. CASE LogoutGoesOn(c)
  <2>1. shown' = "none"
    BY <1>5 DEF LogoutGoesOn
  <2> QED BY <2>1 DEF TableOK
<1>6. CASE ListGoesOn(c)
  <2>1. c.op = "list" /\ c.page /\ c.answer # "none" /\ calls' = rest
        /\ UNCHANGED <<users, shown, unasked>>
    BY <1>6 DEF ListGoesOn, Arrived, serverVars
  <2>2. CASE c.live
    <3>1. rows' = c.found /\ overtaken' = (~c.newest \/ c.answer = "failed")
      BY <1>6, <2>2 DEF ListGoesOn
    <3>2. Awaited(calls') \subseteq Awaited(calls) /\ (c.newest => c \in Awaited(calls))
      BY <2>1, <2>2 DEF Awaited
    <3>3. Settling(calls) => Settling(calls')
      BY <2>1 DEF Settling, UserOp
    <3>4. Listing' = Listing
      BY <2>1 DEF Listing, Listed
    <3> QED BY <2>1, <3>1, <3>2, <3>3, <3>4 DEF TableOK
  <2>3. CASE ~c.live
    <3>1. calls' = rest /\ UNCHANGED <<rows, overtaken>>
      BY <1>6, <2>1, <2>3 DEF ListGoesOn
    <3> QED BY <1>2, <2>1, <2>3, <3>1 DEF UserOp
  <2> QED BY <2>2, <2>3
<1>7. CASE UserOpGoesOn(c)
  BY <1>1, <1>7, RefreshTable DEF UserOpGoesOn
<1>8. CASE CreateGoesOn(c)
  <2>1. CASE c.answer = "ok"
    <3>1. refreshUsers(Removed(rest, IF c.live THEN {"create"} ELSE {}))
      BY <1>8, <2>1 DEF CreateGoesOn
    <3> QED BY <1>1, <3>1, RemovedCalls, RefreshTable
  <2>2. CASE c.answer # "ok"
    <3>1. c.op = "create" /\ calls' = rest
          /\ UNCHANGED <<users, shown, rows, overtaken, unasked>>
      BY <1>8, <2>2 DEF CreateGoesOn, Arrived, serverVars
    <3> QED BY <1>2, <2>2, <3>1
  <2> QED BY <2>1, <2>2
<1>9. CASE ImportGoesOn(c)
  <2>1. CASE c.live
    <3>1. shown' = "files"
      BY <1>9, <2>1 DEF ImportGoesOn
    <3> QED BY <3>1 DEF TableOK
  <2>2. CASE ~c.live
    <3>1. c.op = "import" /\ calls' = rest
          /\ UNCHANGED <<users, shown, rows, overtaken, unasked>>
      BY <1>9, <2>2 DEF ImportGoesOn, serverVars
    <3> QED BY <1>2, <3>1 DEF UserOp
  <2> QED BY <2>1, <2>2
<1>10. CASE Forgotten(c)
  <2>1. ~c.page /\ calls' = rest /\ UNCHANGED <<users, shown, rows, overtaken, unasked>>
    BY <1>10 DEF Forgotten, pageVars, serverVars
  <2> QED BY <1>2, <2>1
<1> QED
  BY <1>3, <1>4, <1>5, <1>6, <1>7, <1>8, <1>9, <1>10 DEF GoesOn

LEMMA RejectedTable ==
  ASSUME TypeOK, TableOK, NEW c \in calls, Rejected(c)
  PROVE  TableOK'
<1>1. users' = users
  BY DEF Rejected, serverVars
<1>2. CASE c.op = "me"
  <2>1. shown' = "none"
    BY <1>2 DEF Rejected, Card
  <2> QED BY <2>1 DEF TableOK
<1>3. CASE c.op = "list"
  <2>1. calls' = calls \ {c} /\ overtaken' = TRUE /\ UNCHANGED <<shown, unasked>>
    BY <1>3 DEF Rejected
  <2>2. Awaited(calls') \subseteq Awaited(calls)
    BY <2>1 DEF Awaited
  <2>3. Settling(calls) => Settling(calls')
    BY <1>3, <2>1 DEF Settling, UserOp
  <2>4. Listing' = Listing
    BY <1>1 DEF Listing, Listed
  <2> QED BY <2>1, <2>2, <2>3, <2>4 DEF TableOK
<1>4. CASE c.op \notin {"me", "list"}
  <2>1. calls' = calls \ {c} /\ unasked' = (unasked \/ c.op \in UserOp \cup {"create"})
        /\ UNCHANGED <<shown, rows, overtaken>>
    BY <1>4 DEF Rejected
  <2>2. Awaited(calls') = Awaited(calls)
    BY <1>4, <2>1 DEF Awaited
  <2>3. Settling(calls) => unasked' \/ Settling(calls')
    BY <2>1 DEF Settling
  <2> QED BY <1>1, <2>1, <2>2, <2>3, TableKept
<1> QED BY <1>2, <1>3, <1>4

LEMMA ActsTable ==
  ASSUME TypeOK, TableOK, Acts
  PROVE  TableOK'
<1>1. calls \subseteq Call
  BY DEF TypeOK
<1>2. UNCHANGED users
  BY DEF Acts, Click, SignIn, SetPassword, SignOut, Navigate, RowButton, NewUser,
         Create, Cancel, serverVars
<1>3. ASSUME NEW op, NEW u, op # "list", Send(op, u) PROVE TableOK'
  <2>1. calls' = calls \cup {Request(op, u)} /\ Request(op, u).op # "list"
        /\ UNCHANGED <<shown, rows, overtaken, unasked>>
    BY <1>3 DEF Send, Request, pageVars
  <2>2. Awaited(calls') = Awaited(calls) /\ (Settling(calls) => Settling(calls'))
    BY <2>1 DEF Awaited, Settling
  <2> QED BY <1>2, <2>1, <2>2, TableKept
<1>4. CASE SignIn \/ SetPassword \/ SignOut \/ Create
  BY <1>3, <1>4 DEF SignIn, SetPassword, SignOut, Create
<1>5. CASE Navigate
  BY <1>1, <1>5, NavTable DEF Navigate
<1>6. CASE RowButton
  BY <1>3, <1>6 DEF RowButton
<1>7. CASE NewUser
  BY <1>2, <1>7, TableKept DEF NewUser
<1>8. CASE Cancel
  <2>1. calls' = Removed(calls, {"create"}) /\ UNCHANGED <<shown, rows, overtaken, unasked>>
    BY <1>8 DEF Cancel
  <2> QED BY <1>1, <1>2, <2>1, RemovedTable, TableKept
<1> QED BY <1>4, <1>5, <1>6, <1>7, <1>8 DEF Acts

LEMMA NextTable == ASSUME TypeOK, TableOK, [Next]_vars PROVE TableOK'
<1>1. ASSUME NEW c \in calls, Serve(c) \/ GoesOn(c) \/ Rejected(c) PROVE TableOK'
  BY <1>1, ServeTable, GoesOnTable, RejectedTable
<1>2. CASE Acts
  BY <1>2, ActsTable
<1>3. CASE SessionEnds
  BY <1>3, TableKept DEF SessionEnds, pageVars, serverVars
<1>4. CASE UNCHANGED vars
  BY <1>4, TableKept DEF vars, pageVars, serverVars
<1> QED BY <1>1, <1>2, <1>3, <1>4 DEF Next

-----------------------------------------------------------------------------
THEOREM IInvHolds == Spec => []IInv
BY InitIInv, NextIInv, PTL DEF Spec

(* Every variable keeps its type, for any number of users, clicks and      *)
(* failures.                                                               *)
THEOREM TypeCorrect == Spec => []TypeOK
<1>1. IInv => TypeOK BY DEF IInv
<1> QED BY <1>1, IInvHolds, PTL

(* Whoever must set a password never sees the application before the       *)
(* server has the password (boot() of main.js and handleChangePassword).   *)
THEOREM ChangeComesFirst == Spec => []NoAppBeforeChange
<1>1. IInv => NoAppBeforeChange BY DEF IInv, NoAppBeforeChange
<1> QED BY <1>1, IInvHolds, PTL

(* Every change that is made asks for the table that is on the screen by   *)
(* the time it is answered (refreshUsers() of main.js), and the table ends *)
(* up showing the users there are.                                         *)
THEOREM TableHolds == Spec => []TableCurrent
<1>1. Init => TableOK
  BY DEF Init, TableOK
<1>2. TypeOK /\ TableOK /\ [Next]_vars => TableOK'
  BY NextTable
<1>3. TableOK => TableCurrent
  BY DEF TableOK, TableCurrent, Settling, Awaited, Changing, Listing
<1> QED BY <1>1, <1>2, <1>3, TypeCorrect, PTL DEF Spec
=============================================================================
