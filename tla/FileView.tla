------------------------------ MODULE FileView ------------------------------
(***************************************************************************)
(* The file manager: class FileView of web/src/files.js over the handlers  *)
(* of server/files_api.go.  A step is one callback of the browser, up to   *)
(* its next await, or one request served.  Several handlers may be waiting *)
(* for answers at once, answers come in any order, and after an await a    *)
(* handler reads this.cwd and this.selected as they are by then.           *)
(*                                                                         *)
(* A path is the sequence of its names; a name is a number, so that        *)
(* listings can be sorted.  The workspace is changed by this view only.    *)
(* Requests alike in everything count as one.                              *)
(***************************************************************************)
EXTENDS Naturals, FiniteSets, SequencesExt

CONSTANTS
  Name,      \* names of files and directories, numbers
  MaxDepth,  \* bound: length of a path; the view goes to shorter ones
  Disk0,     \* the workspace at first: a function from paths to kinds
  Ops,       \* the operations of this instance
  MaxActs,   \* bound: actions of the user
  MaxJobs,   \* bound: handlers at work at once
  MaxFails,  \* bound: requests the network fails
  Nowhere    \* no path

ASSUME ViewAssumption ==
  /\ Name \subseteq Nat /\ MaxDepth \in Nat \ {0}
  /\ MaxActs \in Nat /\ MaxJobs \in Nat /\ MaxFails \in Nat

VARIABLES
  disk,                     \* the user's workspace
  cwd, history, histIdx,    \* histIdx counts from 1
  entries, rowsIn,          \* the list, and the cwd its rows were rendered in
  selected, lastAnchor,
  tree, treeOpen,           \* the cached directories of the left pane
  overlay,                  \* the preview on the screen
  lists, fetches, loads,    \* requests under way: listings, tree, previews
  jobs,                     \* handlers waiting for answers
  late,                     \* requests the page gave up, that may yet be served
  acts, fails,
  overtaken,                \* history: a late or failed listing was shown
  unasked,                  \* history: a change no listing was asked after
  treeOld                   \* history: the tree kept something outdated

navVars     == <<cwd, history, histIdx>>
selVars     == <<selected, lastAnchor>>
treeVars    == <<tree, treeOpen, fetches, treeOld>>
previewVars == <<overlay, loads>>
listVars    == <<entries, rowsIn, lists, overtaken>>
jobVars     == <<jobs, late>>
vars == <<disk, navVars, listVars, selVars, treeVars, previewVars, jobVars,
          acts, fails, unasked>>

Path == UNION {[1..n -> Name] : n \in 0..MaxDepth}
Root == <<>>
Entry == [name : Name, isDir : BOOLEAN]
Asked == {"asked", "listed", "failed"}   \* how far a listing request is

(* The workspace holds what can be made in it.  A file dropped on a        *)
(* directory may be a directory by then, and what is in it comes to lie    *)
(* deeper than MaxDepth.                                                   *)
DiskType(d) ==
  \A p \in DOMAIN d : p \in Seq(Name) \ {Root} /\ d[p] \in {"dir", "file"}

ASSUME DiskAssumption == DiskType(Disk0) /\ Nowhere \notin Seq(Name) \cup Name

Destination == Path \cup {Nowhere}
Operation == {"delete", "rename", "mkdir", "upload", "drop", "move"}

JobRecord ==
  [op : Operation, from : Path \ {Root}, to : Destination, todo : SUBSET Name,
   confirmed : SUBSET Path, answer : {"none", "ok", "failed"}]

TypeOK ==
  /\ DiskType(disk)
  /\ cwd \in Path /\ history \in Seq(Path) /\ histIdx \in 1..Len(history)
  /\ entries \subseteq Entry /\ rowsIn \in Path
  /\ selected \subseteq Name /\ lastAnchor \in Name \cup {Nowhere}
  /\ \A p \in DOMAIN tree : p \in Path /\ tree[p] \subseteq Name
  /\ treeOpen \subseteq Path
  /\ overlay \in [path : Destination, text : Destination]
  /\ lists \subseteq [path : Path, newest : BOOLEAN, at : Asked, found : SUBSET Entry]
  /\ fetches \subseteq [path : Path, old : BOOLEAN, at : Asked, found : SUBSET Entry]
  /\ loads \subseteq [path : Path, shown : BOOLEAN]
  /\ jobs \subseteq JobRecord /\ late \subseteq JobRecord
  /\ overtaken \in BOOLEAN /\ unasked \in BOOLEAN /\ treeOld \in BOOLEAN

-----------------------------------------------------------------------------
(* The workspace, as files/ops.go treats it.                               *)

join(dir, name) == Append(dir, name)
parent(dir) == IF dir = Root THEN Root ELSE Front(dir)

IsDirectory(p) == p = Root \/ (p \in DOMAIN disk /\ disk[p] = "dir")
Below(p) == {q \in DOMAIN disk : IsPrefix(p, q)}
Children(p) == {q \in DOMAIN disk : q # Root /\ Front(q) = p}

(* List, which fails where there is no directory.                          *)
Listing(p) ==
  IF IsDirectory(p)
  THEN {[name |-> Last(q), isDir |-> IsDirectory(q)] : q \in Children(p)} ELSE {}
Listed(x) ==
  [x EXCEPT !.at = IF IsDirectory(x.path) THEN "listed" ELSE "failed",
            !.found = Listing(x.path)]
Dirs(E) == {e.name : e \in {x \in E : x.isDir}}

(* Delete: os.RemoveAll has nothing against a path that is not there.      *)
Removed(p) == [q \in DOMAIN disk \ Below(p) |-> disk[q]]

(* Mkdir: os.MkdirAll.                                                     *)
Ancestors(p) == {q \in Path \ {Root} : IsPrefix(q, p)}
CanMkdir(p) == \A q \in Ancestors(p) \cap DOMAIN disk : disk[q] = "dir"
Made(p) == [q \in DOMAIN disk \cup Ancestors(p) |->
              IF q \in Ancestors(p) THEN "dir" ELSE disk[q]]

(* Rename: os.Rename, which replaces a file by a file and an empty         *)
(* directory by a directory, without asking.                               *)
CanRename(from, to) ==
  /\ from \in DOMAIN disk /\ IsDirectory(parent(to))
  /\ ~IsStrictPrefix(from, to)
  /\ to \in DOMAIN disk => disk[to] = disk[from] /\ (to = from \/ Children(to) = {})
Moved(from, to) ==
  LET new(q) == to \o SubSeq(q, Len(from) + 1, Len(q))
      left == DOMAIN disk \ (Below(from) \cup {to})
      moved == {new(q) : q \in Below(from)}
  IN [x \in left \cup moved |->
        IF x \in moved THEN disk[CHOOSE q \in Below(from) : new(q) = x] ELSE disk[x]]

(* Upload: CopyToStream makes the parents and truncates the file.          *)
CanUpload(p) == CanMkdir(Front(p)) /\ (p \in DOMAIN disk => disk[p] = "file")
Uploaded(p) ==
  LET parents == Ancestors(Front(p))
  IN [q \in DOMAIN disk \cup parents \cup {p} |->
        IF q = p THEN "file" ELSE IF q \in parents THEN "dir" ELSE disk[q]]

-----------------------------------------------------------------------------
(* The view.                                                               *)

(* sort(): directories first, then by name.                                *)
Before(a, b) == IF a.isDir # b.isDir THEN a.isDir ELSE a.name < b.name

(* The entries from a to b, or from b to a, in that order.                 *)
Run(a, b) ==
  {x \in entries : \/ ~Before(x, a) /\ ~Before(b, x)
                   \/ ~Before(x, b) /\ ~Before(a, x)}

(* renderList(): a row for each entry; what a row drags and where it takes *)
(* a drop is joined to the cwd of the rendering, once and for all.         *)
renderList == rowsIn' = cwd

(* The tree rows on the screen, and those renderTree fetches: open, and    *)
(* not in the cache.                                                       *)
Open(p) == p = Root \/ p \in treeOpen
Displayed(cache) ==
  {p \in Path : \A i \in 1..Len(p) :
     LET q == SubSeq(p, 1, i - 1)
     IN Open(q) /\ q \in DOMAIN cache /\ p[i] \in cache[q]}
Missing(cache) == {p \in Displayed(cache) : Open(p) /\ p \notin DOMAIN cache}
Fetch(P) == {[path |-> p, old |-> FALSE, at |-> "asked", found |-> {}] : p \in P}
NoTree == [p \in {} |-> {}]

(* The synchronous part of go(path): the listing is on its way, the        *)
(* selection and the preview are gone.  lists, newest last.                *)
Unshown(L) == {[x EXCEPT !.shown = FALSE] : x \in L}
Go(path) ==
  /\ cwd' = path
  /\ selected' = {} /\ lastAnchor' = Nowhere
  /\ treeOpen' = treeOpen \cup {path}
  /\ overlay' = [path |-> Nowhere, text |-> Nowhere] /\ loads' = Unshown(loads)
  /\ lists' = {[x EXCEPT !.newest = FALSE] : x \in lists}
                \cup {[path |-> path, newest |-> TRUE, at |-> "asked", found |-> {}]}
  /\ unasked' = FALSE
  /\ UNCHANGED <<entries, rowsIn, overtaken>>

(* Mutation: what lay ahead in the history is kept.                        *)
GoPushKeepsFuture(path) ==
  /\ Go(path)
  /\ history' = Append(history, path)
  /\ histIdx' = histIdx + 1

(* Mutation: the index is the length of the history, one too far.          *)
GoPushPastEnd(path) ==
  /\ Go(path)
  /\ history' = Append(SubSeq(history, 1, histIdx), path)
  /\ histIdx' = Len(history') + 1

(* go with pushHist: what lay ahead in the history is forgotten.           *)
GoPush(path) ==
  /\ Go(path)
  /\ history' = Append(SubSeq(history, 1, histIdx), path)
  /\ histIdx' = histIdx + 1

(* go(this.cwd, false), how the handlers refresh the list.                 *)
Refresh == Go(cwd) /\ UNCHANGED <<history, histIdx>>

(* Mutation: the cache is rendered again, not dropped.                     *)
RefreshTreeFromCache ==
  /\ tree' = tree
  /\ fetches' = fetches \cup Fetch(Missing(tree))
  /\ treeOld' = FALSE

(* refreshTreeAncestors: the whole cache is dropped and fetched anew; a    *)
(* fetch already under way will store what it was answered all the same.   *)
RefreshTree ==
  /\ tree' = NoTree
  /\ fetches' = {[x EXCEPT !.old = TRUE] : x \in fetches} \cup Fetch({Root})
  /\ treeOld' = FALSE

Init ==
  /\ disk = Disk0
  /\ cwd = Root /\ history = <<Root, Root>> /\ histIdx = 2   \* mount() calls go("")
  /\ entries = {} /\ rowsIn = Root /\ selected = {} /\ lastAnchor = Nowhere
  /\ tree = NoTree /\ treeOpen = {Root}
  /\ overlay = [path |-> Nowhere, text |-> Nowhere] /\ loads = {}
  /\ lists = {[path |-> Root, newest |-> TRUE, at |-> "asked", found |-> {}]}
  /\ fetches = {} /\ jobs = {} /\ late = {} /\ acts = 0 /\ fails = 0
  /\ overtaken = FALSE /\ unasked = FALSE /\ treeOld = FALSE

Act(op) == op \in Ops /\ acts < MaxActs /\ acts' = acts + 1 /\ UNCHANGED fails

Fails == fails < MaxFails /\ fails' = fails + 1

-----------------------------------------------------------------------------
(* Navigation.                                                             *)

Navigate(path) ==
  /\ Act("nav") /\ Len(path) < MaxDepth
  /\ GoPush(path)
  /\ UNCHANGED <<disk, tree, fetches, treeOld, jobVars>>

back ==
  /\ Act("nav") /\ histIdx > 1
  /\ histIdx' = histIdx - 1 /\ Go(history[histIdx'])
  /\ UNCHANGED <<disk, history, tree, fetches, treeOld, jobVars>>

fwd ==
  /\ Act("nav") /\ histIdx < Len(history)
  /\ histIdx' = histIdx + 1 /\ Go(history[histIdx'])
  /\ UNCHANGED <<disk, history, tree, fetches, treeOld, jobVars>>

up == cwd # Root /\ Navigate(parent(cwd))

Crumb == \E i \in 0..Len(cwd) : Navigate(SubSeq(cwd, 1, i))

(* A row of the list is opened: its name is joined to the cwd of now.      *)
open == \E e \in entries : e.isDir /\ Navigate(join(cwd, e.name))

(* A row of the tree: the toggle of treeOpen is undone by go, which opens. *)
TreeRow == \E p \in Displayed(tree) : Navigate(p)

-----------------------------------------------------------------------------
(* Answers.                                                                *)

ServeList(x) ==
  /\ x \in lists /\ x.at = "asked"
  /\ lists' = (lists \ {x}) \cup {Listed(x)}
  /\ UNCHANGED <<disk, navVars, entries, rowsIn, overtaken, selVars, treeVars,
                 previewVars, jobVars, acts, fails, unasked>>

(* go goes on: the answer is shown whatever the cwd is by now, a failure   *)
(* as an empty directory, and the tree is rendered.                        *)
ListArrives(x) ==
  /\ x \in lists /\ x.at # "asked"
  /\ lists' = lists \ {x}
  /\ entries' = x.found /\ renderList
  /\ overtaken' = ~x.newest
  /\ fetches' = fetches \cup Fetch(Missing(tree))
  /\ UNCHANGED <<disk, navVars, selVars, tree, treeOpen, treeOld, previewVars,
                 jobVars, acts, fails, unasked>>

(* The network fails a listing.                                            *)
ListFails(x) ==
  /\ Fails /\ x \in lists /\ x.at = "asked"
  /\ lists' = lists \ {x}
  /\ entries' = {} /\ renderList
  /\ overtaken' = TRUE
  /\ fetches' = fetches \cup Fetch(Missing(tree))
  /\ UNCHANGED <<disk, navVars, selVars, tree, treeOpen, treeOld, previewVars,
                 jobVars, acts, unasked>>

ServeFetch(x) ==
  /\ x \in fetches /\ x.at = "asked"
  /\ fetches' = (fetches \ {x}) \cup {Listed(x)}
  /\ UNCHANGED <<disk, navVars, listVars, selVars, tree, treeOpen, treeOld,
                 previewVars, jobVars, acts, fails, unasked>>

(* treeEntries goes on: the directories are cached under the path they     *)
(* were asked for, and the open ones below are fetched.                    *)
Cache(x, dirs) ==
  LET cache == [p \in DOMAIN tree \cup {x.path} |->
                  IF p = x.path THEN dirs ELSE tree[p]]
  IN /\ tree' = cache
     /\ fetches' = (fetches \ {x})
          \cup Fetch({p \in Missing(cache) : IsPrefix(x.path, p)})

FetchArrives(x) ==
  /\ x \in fetches /\ x.at # "asked"
  /\ Cache(x, Dirs(x.found))
  /\ treeOld' = (treeOld \/ x.old)
  /\ UNCHANGED <<disk, navVars, listVars, selVars, treeOpen, previewVars, jobVars,
                 acts, fails, unasked>>

(* The network fails a fetch of the tree: the path is cached without       *)
(* directories, and not fetched again until the cache is dropped.          *)
FetchFails(x) ==
  /\ Fails /\ x \in fetches /\ x.at = "asked"
  /\ Cache(x, {})
  /\ treeOld' = TRUE
  /\ UNCHANGED <<disk, navVars, listVars, selVars, treeOpen, previewVars, jobVars,
                 acts, unasked>>

-----------------------------------------------------------------------------
(* Selection, by clicks on the rows; the list is rendered again.           *)

Select(S, anchor) ==
  /\ Act("select")
  /\ selected' = S /\ lastAnchor' = anchor /\ renderList
  /\ UNCHANGED <<disk, navVars, entries, lists, overtaken, treeVars, previewVars,
                 jobVars, unasked>>

onItemClick ==
  \E e \in entries :
    \/ Select({e.name}, e.name)
    \/ Select(IF e.name \in selected THEN selected \ {e.name} ELSE selected \cup {e.name},
              e.name)
    \/ /\ lastAnchor # Nowhere
       /\ LET anchors == {a \in entries : a.name = lastAnchor}
              run == UNION {Run(a, e) : a \in anchors}
          IN Select(selected \cup {x.name : x \in run}, lastAnchor)

selectAll == Select(selected \cup {e.name : e \in entries}, lastAnchor)
Escape == Select({}, Nowhere)

(* The context menu selects its row, unless the row is selected already;   *)
(* its items are the actions below.                                        *)
openMenu == \E e \in entries : e.name \notin selected /\ Select({e.name}, e.name)

(* The filter and the view mode render the rows again.                     *)
Rerender == Select(selected, lastAnchor)

-----------------------------------------------------------------------------
(* Previews.                                                               *)

openPreview ==
  /\ Act("preview")
  /\ \E e \in entries :
       /\ ~e.isDir
       /\ overlay' = [path |-> join(cwd, e.name), text |-> Nowhere]
       /\ loads' = Unshown(loads) \cup {[path |-> join(cwd, e.name), shown |-> TRUE]}
  /\ UNCHANGED <<disk, navVars, listVars, selVars, treeVars, jobVars, unasked>>

ClosePreview ==
  /\ Act("preview") /\ overlay.path # Nowhere
  /\ overlay' = [path |-> Nowhere, text |-> Nowhere] /\ loads' = Unshown(loads)
  /\ UNCHANGED <<disk, navVars, listVars, selVars, treeVars, jobVars, unasked>>

(* Mutation: the text goes into whatever overlay is open.                  *)
PreviewArrivesAnywhere(x) ==
  /\ x \in loads
  /\ loads' = loads \ {x}
  /\ overlay' = IF overlay.path # Nowhere THEN [overlay EXCEPT !.text = x.path] ELSE overlay
  /\ UNCHANGED <<disk, navVars, listVars, selVars, treeVars, jobVars, acts,
                 fails, unasked>>

(* The text goes into the overlay the request was made for, even if that   *)
(* one is no longer on the screen.                                         *)
PreviewArrives(x) ==
  /\ x \in loads
  /\ loads' = loads \ {x}
  /\ overlay' = IF x.shown THEN [overlay EXCEPT !.text = x.path] ELSE overlay
  /\ UNCHANGED <<disk, navVars, listVars, selVars, treeVars, jobVars, acts,
                 fails, unasked>>

-----------------------------------------------------------------------------
(* Handlers that change the workspace.  A job is one of them, waiting for  *)
(* the answer to its request; todo holds the names it has yet to send.     *)

Job(op, from, to, todo, confirmed) ==
  [op |-> op, from |-> from, to |-> to, todo |-> todo, confirmed |-> confirmed,
   answer |-> "none"]

Begin(j) ==
  /\ Act(j.op)
  /\ Cardinality(jobs) < MaxJobs
  /\ jobs' = jobs \cup {j}
  /\ UNCHANGED <<disk, navVars, listVars, selVars, treeVars, previewVars, late,
                 unasked>>

(* deleteSelected: the names are those of the confirmation, the directory  *)
(* is this.cwd at each request.                                            *)
deleteSelected ==
  \E n \in selected :
    Begin(Job("delete", join(cwd, n), Nowhere, selected \ {n},
              {join(cwd, m) : m \in selected}))

(* renameSelected: the first selected name.                                *)
renameSelected ==
  \E n \in selected, to \in Name :
    to # n /\ Begin(Job("rename", join(cwd, n), join(cwd, to), {}, {}))

Mkdir == \E n \in Name : Begin(Job("mkdir", join(cwd, n), Nowhere, {}, {}))

(* Files chosen in the dialog ("upload") or dropped on the list ("drop").  *)
Upload(op) ==
  \E F \in SUBSET Name : \E n \in F :
    Begin(Job(op, join(cwd, n), Nowhere, F \ {n}, {}))

Choose == Upload("upload")
Drop == Upload("drop")

(* A file row dropped on a directory row; both paths were joined when the  *)
(* rows were rendered, under the cwd of then.                              *)
Move ==
  /\ Len(rowsIn) + 2 <= MaxDepth
  /\ \E e, d \in entries :
       /\ ~e.isDir /\ d.isDir
       /\ Begin(Job("move", join(rowsIn, e.name), join(join(rowsIn, d.name), e.name), {}, {}))

(* The server serves a request; it may refuse an upload for its size and   *)
(* fail to remove a path.                                                  *)
Accepts(j) ==
  CASE j.op = "delete" -> TRUE
    [] j.op = "mkdir" -> CanMkdir(j.from)
    [] j.op \in {"upload", "drop"} -> CanUpload(j.from)
    [] j.op \in {"rename", "move"} -> CanRename(j.from, j.to)

Effect(j) ==
  CASE j.op = "delete" -> Removed(j.from)
    [] j.op = "mkdir" -> Made(j.from)
    [] j.op \in {"upload", "drop"} -> Uploaded(j.from)
    [] j.op \in {"rename", "move"} -> Moved(j.from, j.to)

Directories(d) == {p \in DOMAIN d : d[p] = "dir"}

ServeJob(j) ==
  /\ j \in jobs /\ j.answer = "none"
  /\ \/ /\ Accepts(j)
        /\ disk' = Effect(j)
        /\ treeOld' = (treeOld \/ (j.op \in {"upload", "drop", "move"}
                                     /\ Directories(disk') # Directories(disk)))
        /\ jobs' = (jobs \ {j}) \cup {[j EXCEPT !.answer = "ok"]}
     \/ /\ ~Accepts(j) \/ j.op \in {"delete", "upload", "drop"}
        /\ jobs' = (jobs \ {j}) \cup {[j EXCEPT !.answer = "failed"]}
        /\ UNCHANGED <<disk, treeOld>>
  /\ UNCHANGED <<navVars, listVars, selVars, tree, treeOpen, fetches, previewVars,
                 late, acts, fails, unasked>>

(* The loops go on: the next name, under the cwd of now.  A deletion and   *)
(* an upload stop at the first failure, a drop does not.                   *)
GoesOn(j) ==
  j.answer = "ok" \/ (j.answer = "failed" /\ j.op = "drop")

NextName(j) ==
  /\ j \in jobs /\ GoesOn(j)
  /\ \E n \in j.todo :
       jobs' = (jobs \ {j}) \cup
                 {[j EXCEPT !.from = join(cwd, n), !.todo = @ \ {n}, !.answer = "none"]}
  /\ UNCHANGED <<disk, navVars, listVars, selVars, treeVars, previewVars, late,
                 acts, fails, unasked>>

Over(j) == j \in jobs /\ j.answer # "none" /\ (j.todo = {} \/ ~GoesOn(j))

(* The end of deleteSelected, renameSelected, and mkdir when it succeeded: *)
(* list and tree are asked for again.                                      *)
RefreshesTree(j) == j.op \in {"delete", "rename"} \/ (j.op = "mkdir" /\ j.answer = "ok")

EndsInTree(j) ==
  /\ Over(j) /\ RefreshesTree(j)
  /\ Refresh /\ RefreshTree
  /\ jobs' = jobs \ {j}
  /\ UNCHANGED <<disk, late, acts, fails>>

(* Mutation: drops and moves leave the list as it was.                     *)
RefreshesUploads(j) == j.op = "upload" /\ j.answer = "ok"

(* The end of a drop, a move, and an upload that succeeded: the list is.   *)
RefreshesList(j) == j.op \in {"drop", "move"} \/ (j.op = "upload" /\ j.answer = "ok")

EndsInList(j) ==
  /\ Over(j) /\ RefreshesList(j)
  /\ Refresh
  /\ jobs' = jobs \ {j}
  /\ UNCHANGED <<disk, tree, fetches, treeOld, late, acts, fails>>

(* A failed mkdir or upload ends in an alert; what an upload had sent by   *)
(* then is on the disk and not on the screen.                              *)
EndsInAlert(j) ==
  /\ Over(j) /\ ~RefreshesTree(j) /\ ~RefreshesList(j)
  /\ jobs' = jobs \ {j}
  /\ unasked' = (unasked \/ j.op = "upload")
  /\ UNCHANGED <<disk, navVars, listVars, selVars, treeVars, previewVars, late,
                 acts, fails>>

(* The network fails a request: the page learns no answer, but the server  *)
(* may have served it, or serve it later.  A rejected fetch kills its      *)
(* handler, without a refresh; uploadFile makes an answer of the failure.  *)
MaybeLate(j) ==
  late' \in {late, IF j.answer = "none" THEN late \cup {j} ELSE late}

JobLost(j) ==
  /\ Fails /\ j \in jobs
  /\ j.op \notin {"upload", "drop"}
  /\ jobs' = jobs \ {j} /\ MaybeLate(j)
  /\ unasked' = TRUE /\ treeOld' = TRUE
  /\ UNCHANGED <<disk, navVars, listVars, selVars, tree, treeOpen, fetches,
                 previewVars, acts>>

UploadLost(j) ==
  /\ Fails /\ j \in jobs
  /\ j.op \in {"upload", "drop"} /\ j.answer # "failed"
  /\ jobs' = (jobs \ {j}) \cup {[j EXCEPT !.answer = "failed"]} /\ MaybeLate(j)
  /\ UNCHANGED <<disk, navVars, listVars, selVars, treeVars, previewVars, acts,
                 unasked>>

LateServed(j) ==
  /\ j \in late /\ late' = late \ {j}
  /\ Accepts(j)
  /\ disk' = Effect(j)
  /\ unasked' = TRUE /\ treeOld' = TRUE
  /\ UNCHANGED <<navVars, listVars, selVars, tree, treeOpen, fetches, previewVars,
                 jobs, acts, fails>>

-----------------------------------------------------------------------------
User ==
  \/ back \/ fwd \/ up \/ Crumb \/ open \/ TreeRow
  \/ onItemClick \/ selectAll \/ Escape \/ openMenu \/ Rerender
  \/ openPreview \/ ClosePreview
  \/ deleteSelected \/ renameSelected \/ Mkdir \/ Choose \/ Drop \/ Move

Answers ==
  \/ \E x \in lists : ServeList(x) \/ ListArrives(x)
  \/ \E x \in fetches : ServeFetch(x) \/ FetchArrives(x)
  \/ \E x \in loads : PreviewArrives(x)
  \/ \E j \in jobs :
       ServeJob(j) \/ NextName(j) \/ EndsInTree(j) \/ EndsInList(j) \/ EndsInAlert(j)

NetworkFails ==
  \/ \E x \in lists : ListFails(x)
  \/ \E x \in fetches : FetchFails(x)
  \/ \E j \in jobs : JobLost(j) \/ UploadLost(j)
  \/ \E j \in late : LateServed(j)

Next == User \/ Answers \/ NetworkFails

Spec == Init /\ [][Next]_vars

-----------------------------------------------------------------------------
(* Correctness.                                                            *)

(* Back and forward know where the view is: through pushes that cut off    *)
(* the future, refreshes by handlers that end late, and moves both ways.   *)
HistoryPointsAtCwd == histIdx \in 1..Len(history) /\ history[histIdx] = cwd

AtRest == lists = {} /\ fetches = {} /\ jobs = {}

(* When nothing is under way the list shows what is in the directory the   *)
(* crumbs name: every handler that changes the workspace asks again after  *)
(* its change, whatever other handlers and navigations came between.       *)
(* Excused: an older listing shown over a newer one, a listing or handler  *)
(* the network failed, a request served after it was given up, and an      *)
(* upload that stopped half way.                                           *)
ShowsDirectory ==
  AtRest /\ ~overtaken /\ ~unasked
    => entries = Listing(cwd)

(* And the tree shows the directories there are: no handler that makes,    *)
(* moves or removes directories forgets the cache.  Excused, until the     *)
(* cache is dropped: a fetch that was under way when it was dropped last,  *)
(* a fetch that failed (files.js:396 caches no directories for good), a    *)
(* rejected handler, a request served after it was given up, and an upload *)
(* into a directory that is gone, which the server makes again.            *)
TreeShowsDirectories ==
  AtRest /\ ~treeOld
    => \A p \in Displayed(tree) \cap DOMAIN tree : tree[p] = Dirs(Listing(p))

(* A preview shows the file its title names: texts that arrive after their *)
(* overlay was closed or replaced go nowhere.                              *)
PreviewShowsItsFile == overlay.text \in {Nowhere, overlay.path}

(* DEPLOY-TEST.md:52: "Delete the file via Files -> it disappears from     *)
(* terminal listing."  When a deletion ends without an alert, what the     *)
(* user saw selected when confirming it is gone.                           *)
DeletedDisappear ==
  [][\A j \in jobs \ jobs' :
       j.op = "delete" /\ Over(j) /\ j.answer = "ok"
         => j.confirmed \cap DOMAIN disk = {}]_vars
=============================================================================
