--------------------------- MODULE FileViewProofs ---------------------------
(***************************************************************************)
(* Proofs about FileView, for any names, workspace, depth and number of    *)
(* actions: every variable keeps its type, back and forward keep pointing  *)
(* at the directory shown, a preview never shows another file's text, and  *)
(* list and tree show what is there when the view is at rest.              *)
(*                                                                         *)
(* None of this is inductive as it stands.                                 *)
(*   TypeOK: what is joined to the cwd is a path only because the view     *)
(*     never goes to the longest ones, now or by its history; and a rename *)
(*     keeps the type of the workspace only because its job has a          *)
(*     destination.  TypeInv adds both.                                    *)
(*   PreviewShowsItsFile: a text under way must be known to belong to the  *)
(*     overlay it will be written into (PreviewOK).                        *)
(*   ShowsDirectory and TreeShowsDirectories speak of the view at rest.    *)
(*     ListOK and TreeOK say of every other state who will repair what is  *)
(*     shown: a handler that has changed the workspace or may still do so, *)
(*     or else the newest request, which has been answered with what is    *)
(*     there if it has been answered at all.                               *)
(***************************************************************************)
EXTENDS FileView, SequenceTheorems, TLAPS

(* The directories the view goes to: what is made in one is still a Path.  *)
Short == {p \in Path : Len(p) < MaxDepth}

NavType == cwd \in Short /\ history \in Seq(Short) /\ histIdx \in 1..Len(history)
ListType ==
  /\ entries \subseteq Entry /\ rowsIn \in Path
  /\ lists \subseteq [path : Path, newest : BOOLEAN, at : Asked, found : SUBSET Entry]
  /\ overtaken \in BOOLEAN
SelType == selected \subseteq Name /\ lastAnchor \in Name \cup {Nowhere}
TreeType ==
  /\ \A p \in DOMAIN tree : p \in Path /\ tree[p] \subseteq Name
  /\ fetches \subseteq [path : Path, old : BOOLEAN, at : Asked, found : SUBSET Entry]
PreviewType ==
  /\ overlay \in [path : Destination, text : Destination]
  /\ loads \subseteq [path : Path, shown : BOOLEAN]

(* A job names a destination where its operation has one, and a mkdir is   *)
(* one request.                                                            *)
JobsOK ==
  \A j \in jobs \cup late :
    /\ j.op \in {"rename", "move"} => j.to \in Path \ {Root}
    /\ j.op = "mkdir" => j.todo = {}

JobType == jobs \subseteq JobRecord /\ late \subseteq JobRecord /\ JobsOK

TypeInv ==
  /\ DiskType(disk) /\ NavType /\ ListType /\ SelType /\ TreeType /\ treeOpen \subseteq Path
  /\ PreviewType /\ JobType /\ treeOld \in BOOLEAN /\ unasked \in BOOLEAN

PreviewOK ==
  /\ PreviewShowsItsFile
  /\ \A x \in loads : x.shown => overlay.path = x.path

(* Job j will ask for the list, or leave a change that counts as unasked;  *)
(* a mkdir only when it was done.                                          *)
WillAsk(j) == j.op # "mkdir" \/ j.answer = "ok"

(* Job j will drop the cache of the tree.                                  *)
WillRedraw(j) == j.op \in {"delete", "rename"} \/ (j.op = "mkdir" /\ j.answer = "ok")

ListOK ==
  ~unasked =>
    \/ \E j \in jobs : WillAsk(j)
    \/ /\ \A x \in lists :
            x.newest => x.path = cwd /\ (x.at # "asked" => x.found = Listing(cwd))
       /\ overtaken \/ entries = Listing(cwd) \/ \E x \in lists : x.newest

TreeOK ==
  ~treeOld =>
    \/ \E j \in jobs : WillRedraw(j)
    \/ /\ \A p \in DOMAIN tree : tree[p] = Dirs(Listing(p))
       /\ \A x \in fetches :
            ~x.old /\ x.at # "asked" => Dirs(x.found) = Dirs(Listing(x.path))

ShowInv == ListOK /\ TreeOK

IInv == TypeInv /\ HistoryPointsAtCwd /\ PreviewOK /\ ShowInv

-----------------------------------------------------------------------------
(* Paths.                                                                  *)

(* A path is a sequence of names that is not too long.                     *)
LEMMA PathIs == \A p : p \in Path <=> p \in Seq(Name) /\ Len(p) <= MaxDepth
<1>1. ASSUME NEW p \in Path PROVE p \in Seq(Name) /\ Len(p) <= MaxDepth
  <2>1. PICK n \in 0..MaxDepth : p \in [1..n -> Name]
    BY DEF Path
  <2>2. n \in Nat
    BY ViewAssumption
  <2>3. p \in Seq(Name) /\ Len(p) = n
    BY <2>1, <2>2, SeqDef
  <2> QED BY <2>1, <2>2, <2>3, ViewAssumption
<1>2. ASSUME NEW p \in Seq(Name), Len(p) <= MaxDepth PROVE p \in Path
  <2>1. Len(p) \in 0..MaxDepth /\ p \in [1..Len(p) -> Name]
    BY <1>2, ViewAssumption, LenProperties
  <2> QED BY <2>1 DEF Path
<1> QED BY <1>1, <1>2

(* Short paths: the root is one, a name added makes a path, and what is    *)
(* left of one is one.                                                     *)
LEMMA ShortIs ==
  /\ Root \in Short /\ Short \subseteq Path
  /\ \A p \in Short, n \in Name : join(p, n) \in Path \ {Root}
  /\ \A p \in Short : parent(p) \in Short /\ \A i \in 0..Len(p) : SubSeq(p, 1, i) \in Short
<1>1. Root \in Short
  <2>1. Root \in Seq(Name) /\ Len(Root) = 0
    BY EmptySeq DEF Root
  <2>2. 0 < MaxDepth /\ 0 <= MaxDepth
    BY ViewAssumption
  <2> QED BY <2>1, <2>2, PathIs DEF Short
<1>2. ASSUME NEW p \in Short, NEW n \in Name PROVE join(p, n) \in Path \ {Root}
  <2>1. p \in Seq(Name) /\ Len(p) \in Nat /\ Len(p) < MaxDepth
    BY PathIs DEF Short
  <2>2. join(p, n) \in Seq(Name) /\ Len(join(p, n)) = Len(p) + 1
    BY <2>1 DEF join
  <2>3. Len(join(p, n)) <= MaxDepth /\ join(p, n) # Root
    BY <2>1, <2>2, ViewAssumption DEF Root
  <2> QED BY <2>2, <2>3, PathIs
<1>3. ASSUME NEW p \in Short, NEW i \in 0..Len(p) PROVE SubSeq(p, 1, i) \in Short
  <2>1. p \in Seq(Name) /\ Len(p) \in Nat /\ Len(p) < MaxDepth
    BY PathIs DEF Short
  <2>2. SubSeq(p, 1, i) \in Seq(Name) /\ Len(SubSeq(p, 1, i)) = i
    BY <2>1
  <2>3. i < MaxDepth /\ i <= MaxDepth
    BY <2>1, ViewAssumption
  <2> QED BY <2>2, <2>3, PathIs DEF Short
<1>4. ASSUME NEW p \in Short PROVE parent(p) \in Short
  <2>1. CASE p = Root
    BY <1>1, <2>1 DEF parent
  <2>2. CASE p # Root
    <3>1. p \in Seq(Name) /\ Len(p) \in Nat
      BY PathIs DEF Short
    <3>2. Len(p) - 1 \in 0..Len(p)
      BY <2>2, <3>1, EmptySeq DEF Root
    <3> QED BY <1>3, <2>2, <3>2 DEF parent, Front
  <2> QED BY <2>1, <2>2
<1> QED BY <1>1, <1>2, <1>3, <1>4 DEF Short

-----------------------------------------------------------------------------
(* What the server answers, and what it does to the workspace.             *)

(* A listing consists of entries.                                          *)
LEMMA ListingType == DiskType(disk) => \A p : Listing(p) \subseteq Entry
<1> SUFFICES ASSUME DiskType(disk), NEW p, NEW q \in Children(p)
             PROVE  [name |-> Last(q), isDir |-> IsDirectory(q)] \in Entry
  BY DEF Listing
<1>1. q \in Seq(Name) /\ q # <<>>
  BY DEF DiskType, Children, Root
<1>2. Last(q) \in Name
  BY <1>1, EmptySeq DEF Last
<1>3. IsDirectory(q) \in BOOLEAN
  BY DEF IsDirectory
<1> QED BY <1>2, <1>3 DEF Entry

LEMMA DirsType == ASSUME NEW E, E \subseteq Entry PROVE Dirs(E) \subseteq Name
BY DEF Dirs, Entry

(* Whatever is done to the workspace, it holds named files and directories *)
(* only.                                                                   *)
LEMMA EffectType ==
  ASSUME DiskType(disk), NEW j \in JobRecord,
         j.op \in {"rename", "move"} => j.to \in Path \ {Root}, Accepts(j)
  PROVE  DiskType(Effect(j))
<1>1. j.from \in Seq(Name) \ {Root} /\ j.from \in Path
  BY PathIs DEF JobRecord
<1>2. \A p \in DOMAIN disk : p \in Seq(Name) \ {Root} /\ disk[p] \in {"dir", "file"}
  BY DEF DiskType
<1>3. \A p : Ancestors(p) \subseteq Seq(Name) \ {Root}
  BY PathIs DEF Ancestors
<1>4. CASE j.op = "delete"
  <2>1. DiskType(Removed(j.from))
    BY <1>2 DEF Removed, DiskType
  <2> QED BY <1>4, <2>1 DEF Effect
<1>5. CASE j.op = "mkdir"
  <2>1. DiskType(Made(j.from))
    BY <1>2, <1>3 DEF Made, DiskType
  <2> QED BY <1>5, <2>1 DEF Effect
<1>6. CASE j.op \in {"upload", "drop"}
  <2>1. DiskType(Uploaded(j.from))
    BY <1>1, <1>2, <1>3 DEF Uploaded, DiskType
  <2> QED BY <1>6, <2>1 DEF Effect
<1>7. CASE j.op \in {"rename", "move"}
  <2>1. j.to \in Seq(Name) /\ j.to # <<>> /\ j.from \in Seq(Name)
    BY <1>1, <1>7, PathIs DEF Root
  <2>2. ASSUME NEW q \in Below(j.from)
        PROVE  /\ q \in DOMAIN disk
               /\ j.to \o SubSeq(q, Len(j.from) + 1, Len(q)) \in Seq(Name) \ {Root}
    <3>1. q \in Seq(Name) /\ q \in DOMAIN disk
      BY <1>2 DEF Below
    <3>2. SubSeq(q, Len(j.from) + 1, Len(q)) \in Seq(Name)
      <4>1. Len(j.from) \in Nat /\ Len(q) \in Nat
        BY <2>1, <3>1
      <4> QED BY <3>1, <4>1
    <3> DEFINE rest == SubSeq(q, Len(j.from) + 1, Len(q))
    <3> HIDE DEF rest
    <3>3. j.to \o rest \in Seq(Name) /\ Len(j.to \o rest) = Len(j.to) + Len(rest)
      BY <2>1, <3>2 DEF rest
    <3>4. Len(j.to) \in Nat \ {0} /\ Len(rest) \in Nat
      BY <2>1, <3>2, EmptySeq DEF rest
    <3>5. Len(j.to \o rest) # 0 /\ Len(Root) = 0
      BY <3>3, <3>4, EmptySeq DEF Root
    <3>6. j.to \o rest \in Seq(Name) \ {Root}
      BY <3>3, <3>5
    <3> QED BY <3>1, <3>6 DEF rest
  <2>3. DiskType(Moved(j.from, j.to))
    <3> DEFINE new(q) == j.to \o SubSeq(q, Len(j.from) + 1, Len(q))
               left == DOMAIN disk \ (Below(j.from) \cup {j.to})
               moved == {new(q) : q \in Below(j.from)}
    <3> HIDE DEF new
    <3>1. Moved(j.from, j.to) =
            [x \in left \cup moved |->
               IF x \in moved THEN disk[CHOOSE q \in Below(j.from) : new(q) = x] ELSE disk[x]]
      BY DEF Moved, new
    <3>2. \A x \in left \cup moved : x \in Seq(Name) \ {Root}
      BY <1>2, <2>2 DEF new
    <3>3. ASSUME NEW x \in moved
          PROVE  disk[CHOOSE q \in Below(j.from) : new(q) = x] \in {"dir", "file"}
      <4>1. \E q \in Below(j.from) : new(q) = x
        OBVIOUS
      <4>2. (CHOOSE q \in Below(j.from) : new(q) = x) \in Below(j.from)
        BY <4>1
      <4> QED BY <1>2, <2>2, <4>2
    <3>4. \A x \in left : disk[x] \in {"dir", "file"}
      BY <1>2
    <3> HIDE DEF left, moved
    <3> QED BY <3>1, <3>2, <3>3, <3>4 DEF DiskType
  <2> QED BY <1>7, <2>3 DEF Effect
<1> QED BY <1>4, <1>5, <1>6, <1>7 DEF JobRecord, Operation

-----------------------------------------------------------------------------
(* The pieces of the view.                                                 *)

LEMMA MissingType == \A cache : Displayed(cache) \subseteq Path /\ Missing(cache) \subseteq Path
BY DEF Displayed, Missing

LEMMA FetchType ==
  ASSUME NEW P, P \subseteq Path
  PROVE  Fetch(P) \subseteq [path : Path, old : BOOLEAN, at : Asked, found : SUBSET Entry]
<1>1. {} \in SUBSET Entry /\ "asked" \in Asked
  BY DEF Asked
<1>2. \A p \in P : [path |-> p, old |-> FALSE, at |-> "asked", found |-> {}]
        \in [path : Path, old : BOOLEAN, at : Asked, found : SUBSET Entry]
  BY <1>1
<1> QED BY <1>2 DEF Fetch

LEMMA UnshownType ==
  ASSUME loads \subseteq [path : Path, shown : BOOLEAN]
  PROVE  Unshown(loads) \subseteq [path : Path, shown : BOOLEAN]
BY DEF Unshown

LEMMA GoType ==
  ASSUME TypeInv, NEW path \in Short, Go(path)
  PROVE  /\ cwd' \in Short /\ ListType' /\ SelType' /\ PreviewType'
         /\ treeOpen' \subseteq Path /\ unasked' \in BOOLEAN
<1>1. path \in Path
  BY ShortIs
<1>2. cwd' \in Short /\ unasked' \in BOOLEAN /\ SelType' /\ treeOpen' \subseteq Path
  BY <1>1 DEF Go, SelType, TypeInv
<1>3. ListType'
  <2>1. [path |-> path, newest |-> TRUE, at |-> "asked", found |-> {}]
          \in [path : Path, newest : BOOLEAN, at : Asked, found : SUBSET Entry]
    BY <1>1 DEF Asked
  <2>2. \A x \in lists : [x EXCEPT !.newest = FALSE]
          \in [path : Path, newest : BOOLEAN, at : Asked, found : SUBSET Entry]
    BY DEF TypeInv, ListType
  <2> QED BY <2>1, <2>2 DEF Go, TypeInv, ListType
<1>4. PreviewType'
  BY UnshownType DEF Go, TypeInv, PreviewType, Destination
<1> QED BY <1>2, <1>3, <1>4

LEMMA GoPushType ==
  ASSUME TypeInv, NEW path \in Short, GoPush(path)
  PROVE  NavType'
<1> DEFINE past == SubSeq(history, 1, histIdx)
<1>1. history \in Seq(Short) /\ histIdx \in 1..Len(history) /\ Len(history) \in Nat
  BY DEF TypeInv, NavType
<1>2. past \in Seq(Short) /\ Len(past) = histIdx
  BY <1>1
<1>3. history' = Append(past, path) /\ histIdx' = histIdx + 1 /\ cwd' = path
  BY DEF GoPush, Go
<1> HIDE DEF past
<1>4. history' \in Seq(Short) /\ Len(history') = histIdx + 1
  BY <1>2, <1>3
<1>5. histIdx' \in 1..Len(history')
  BY <1>1, <1>3, <1>4
<1> QED BY <1>3, <1>4, <1>5 DEF NavType

-----------------------------------------------------------------------------
(* The steps.                                                              *)

LEMMA InitType == Init => TypeInv
<1> SUFFICES ASSUME Init PROVE TypeInv
  OBVIOUS
<1>1. Root \in Short /\ Root \in Path
  BY ShortIs
<1>2. DiskType(disk)
  BY DiskAssumption DEF Init
<1>3. NavType
  <2>1. history = <<Root, Root>> /\ histIdx = 2 /\ cwd = Root
    BY DEF Init
  <2> QED BY <1>1, <2>1 DEF NavType
<1>4. ListType /\ SelType /\ treeOpen \subseteq Path
  <2>1. {} \in SUBSET Entry /\ "asked" \in Asked
    BY DEF Asked
  <2>2. [path |-> Root, newest |-> TRUE, at |-> "asked", found |-> {}]
          \in [path : Path, newest : BOOLEAN, at : Asked, found : SUBSET Entry]
    BY <1>1, <2>1
  <2> QED BY <1>1, <2>2 DEF Init, ListType, SelType
<1>5. TreeType
  BY DEF Init, TreeType, NoTree
<1>6. PreviewType /\ JobType
  BY DEF Init, PreviewType, Destination, JobType, JobsOK
<1> QED BY <1>2, <1>3, <1>4, <1>5, <1>6 DEF TypeInv, Init

LEMMA NavigateType ==
  ASSUME TypeInv, back \/ fwd \/ up \/ Crumb \/ open \/ TreeRow
  PROVE  TypeInv'
<1>1. cwd \in Short /\ history \in Seq(Short) /\ histIdx \in 1..Len(history)
      /\ Len(history) \in Nat
  BY DEF TypeInv, NavType
<1>2. ASSUME NEW path \in Path, Navigate(path) PROVE TypeInv'
  <2>1. path \in Short
    BY <1>2 DEF Navigate, Short
  <2>2. GoPush(path) /\ Go(path) /\ UNCHANGED <<disk, tree, fetches, treeOld, jobVars>>
    BY <1>2 DEF Navigate, GoPush
  <2>3. NavType'
    BY <2>1, <2>2, GoPushType
  <2> QED BY <2>1, <2>2, <2>3, GoType DEF TypeInv, TreeType, JobType, JobsOK, jobVars
<1>3. ASSUME NEW i \in 1..Len(history), histIdx' = i, Go(history[i]),
             UNCHANGED <<disk, history, tree, fetches, treeOld, jobVars>>
      PROVE  TypeInv'
  <2>1. history[i] \in Short
    BY <1>1
  <2>2. NavType'
    BY <1>1, <1>3, <2>1, GoType DEF NavType
  <2> QED BY <1>3, <2>1, <2>2, GoType DEF TypeInv, TreeType, JobType, JobsOK, jobVars
<1>4. CASE back
  <2>1. histIdx' = histIdx - 1 /\ histIdx' \in 1..Len(history)
    BY <1>1, <1>4 DEF back
  <2> QED BY <1>3, <1>4, <2>1 DEF back
<1>5. CASE fwd
  <2>1. histIdx' = histIdx + 1 /\ histIdx' \in 1..Len(history)
    BY <1>1, <1>5 DEF fwd
  <2> QED BY <1>3, <1>5, <2>1 DEF fwd
<1>6. CASE up
  BY <1>1, <1>2, <1>6, ShortIs DEF up
<1>7. CASE Crumb
  BY <1>1, <1>2, <1>7, ShortIs DEF Crumb
<1>8. CASE open
  <2>1. PICK e \in entries : Navigate(join(cwd, e.name))
    BY <1>8 DEF open
  <2>2. e.name \in Name
    BY DEF TypeInv, ListType, Entry
  <2> QED BY <1>1, <1>2, <2>1, <2>2, ShortIs
<1>9. CASE TreeRow
  BY <1>2, <1>9, MissingType DEF TreeRow
<1> QED BY <1>4, <1>5, <1>6, <1>7, <1>8, <1>9

LEMMA SelectionType ==
  ASSUME TypeInv, onItemClick \/ selectAll \/ Escape \/ openMenu \/ Rerender
  PROVE  TypeInv'
<1>1. \A e \in entries : e.name \in Name
  BY DEF TypeInv, ListType, Entry
<1>2. selected \subseteq Name /\ lastAnchor \in Name \cup {Nowhere} /\ cwd \in Path
  BY ShortIs DEF TypeInv, SelType, NavType
<1>3. ASSUME NEW S, NEW anchor, Select(S, anchor), S \subseteq Name,
             anchor \in Name \cup {Nowhere}
      PROVE  TypeInv'
  <2>1. SelType' /\ ListType'
    BY <1>2, <1>3 DEF Select, SelType, ListType, TypeInv, renderList
  <2> QED BY <1>3, <2>1 DEF Select, TypeInv, NavType, TreeType, PreviewType, JobType, JobsOK,
                            jobVars, navVars, treeVars, previewVars
<1>4. CASE onItemClick
  <2>1. PICK e \in entries :
          \/ Select({e.name}, e.name)
          \/ Select(IF e.name \in selected THEN selected \ {e.name}
                    ELSE selected \cup {e.name}, e.name)
          \/ LET anchors == {a \in entries : a.name = lastAnchor}
                 run == UNION {Run(a, e) : a \in anchors}
             IN Select(selected \cup {x.name : x \in run}, lastAnchor)
    BY <1>4 DEF onItemClick
  <2>2. CASE Select({e.name}, e.name)
    BY <1>1, <1>3, <2>2
  <2>3. CASE Select(IF e.name \in selected THEN selected \ {e.name}
                    ELSE selected \cup {e.name}, e.name)
    BY <1>1, <1>2, <1>3, <2>3
  <2>4. CASE LET anchors == {a \in entries : a.name = lastAnchor}
                 run == UNION {Run(a, e) : a \in anchors}
             IN Select(selected \cup {x.name : x \in run}, lastAnchor)
    <3> DEFINE run == UNION {Run(a, e) : a \in {a \in entries : a.name = lastAnchor}}
    <3>1. Select(selected \cup {x.name : x \in run}, lastAnchor)
      BY <2>4
    <3>2. run \subseteq entries
      BY DEF Run
    <3> HIDE DEF run
    <3>3. selected \cup {x.name : x \in run} \subseteq Name
      BY <1>1, <1>2, <3>2
    <3> QED BY <1>2, <1>3, <3>1, <3>3
  <2> QED BY <2>1, <2>2, <2>3, <2>4
<1>5. CASE selectAll
  <2>1. selected \cup {e.name : e \in entries} \subseteq Name
    BY <1>1, <1>2
  <2> QED BY <1>2, <1>3, <1>5, <2>1 DEF selectAll
<1>6. CASE Escape
  BY <1>3, <1>6 DEF Escape
<1>7. CASE openMenu
  BY <1>1, <1>3, <1>7 DEF openMenu
<1>8. CASE Rerender
  BY <1>2, <1>3, <1>8 DEF Rerender
<1> QED BY <1>4, <1>5, <1>6, <1>7, <1>8

LEMMA PreviewStepsType ==
  ASSUME TypeInv, openPreview \/ ClosePreview \/ \E x \in loads : PreviewArrives(x)
  PROVE  TypeInv'
<1>1. loads \subseteq [path : Path, shown : BOOLEAN]
      /\ overlay \in [path : Destination, text : Destination]
  BY DEF TypeInv, PreviewType
<1>2. Unshown(loads) \subseteq [path : Path, shown : BOOLEAN]
  BY <1>1, UnshownType
<1>3. UNCHANGED <<disk, navVars, listVars, selVars, treeVars, jobVars, unasked>>
  BY DEF openPreview, ClosePreview, PreviewArrives
<1>4. SUFFICES PreviewType'
  BY <1>3 DEF TypeInv, NavType, ListType, SelType, TreeType, JobType, JobsOK,
              jobVars, navVars, listVars, selVars, treeVars
<1>5. CASE openPreview
  <2>1. PICK e \in entries :
          /\ overlay' = [path |-> join(cwd, e.name), text |-> Nowhere]
          /\ loads' = Unshown(loads) \cup {[path |-> join(cwd, e.name), shown |-> TRUE]}
    BY <1>5 DEF openPreview
  <2>2. join(cwd, e.name) \in Path
    BY ShortIs DEF TypeInv, NavType, ListType, Entry
  <2> DEFINE p == join(cwd, e.name)
  <2> HIDE DEF p
  <2>3. [path |-> p, text |-> Nowhere] \in [path : Destination, text : Destination]
        /\ [path |-> p, shown |-> TRUE] \in [path : Path, shown : BOOLEAN]
    BY <2>2 DEF Destination, p
  <2> QED BY <1>2, <2>1, <2>3 DEF PreviewType, p
<1>6. CASE ClosePreview
  BY <1>2, <1>6 DEF ClosePreview, PreviewType, Destination
<1>7. CASE \E x \in loads : PreviewArrives(x)
  <2>1. PICK x \in loads : PreviewArrives(x)
    BY <1>7
  <2>2. x.path \in Destination
    BY <1>1 DEF Destination
  <2> QED BY <1>1, <2>1, <2>2 DEF PreviewArrives, PreviewType
<1> QED BY <1>5, <1>6, <1>7

LEMMA BeginType ==
  ASSUME TypeInv, deleteSelected \/ renameSelected \/ Mkdir \/ Choose \/ Drop \/ Move
  PROVE  TypeInv'
<1>1. cwd \in Short /\ selected \subseteq Name
  BY DEF TypeInv, NavType, SelType
<1>2. \A n \in Name : join(cwd, n) \in Path \ {Root}
  BY <1>1, ShortIs
<1>3. ASSUME NEW j \in JobRecord, Begin(j),
             j.op \in {"rename", "move"} => j.to \in Path \ {Root},
             j.op = "mkdir" => j.todo = {}
      PROVE  TypeInv'
  <2>1. JobType'
    BY <1>3 DEF Begin, TypeInv, JobType, JobsOK
  <2> QED BY <1>3, <2>1 DEF Begin, TypeInv, NavType, ListType, SelType, TreeType, PreviewType,
                            navVars, listVars, selVars, treeVars, previewVars
<1>4. CASE deleteSelected
  <2>1. PICK n \in selected :
          Begin(Job("delete", join(cwd, n), Nowhere, selected \ {n},
                    {join(cwd, m) : m \in selected}))
    BY <1>4 DEF deleteSelected
  <2>2. join(cwd, n) \in Path \ {Root} /\ selected \ {n} \subseteq Name
        /\ {join(cwd, m) : m \in selected} \subseteq Path
    BY <1>1, <1>2
  <2> DEFINE j == Job("delete", join(cwd, n), Nowhere, selected \ {n},
                      {join(cwd, m) : m \in selected})
  <2>3. j \in JobRecord /\ j.op = "delete"
    BY <2>2 DEF Job, JobRecord, Operation, Destination
  <2> HIDE DEF j
  <2> QED BY <1>3, <2>1, <2>3 DEF j
<1>5. CASE renameSelected
  <2>1. PICK n \in selected, to \in Name :
          Begin(Job("rename", join(cwd, n), join(cwd, to), {}, {}))
    BY <1>5 DEF renameSelected
  <2>2. join(cwd, n) \in Path \ {Root} /\ join(cwd, to) \in Path \ {Root}
    BY <1>1, <1>2
  <2> DEFINE j == Job("rename", join(cwd, n), join(cwd, to), {}, {})
  <2>3. j \in JobRecord /\ j.op = "rename" /\ j.to \in Path \ {Root}
    BY <2>2 DEF Job, JobRecord, Operation, Destination
  <2> HIDE DEF j
  <2> QED BY <1>3, <2>1, <2>3 DEF j
<1>6. CASE Mkdir
  <2>1. PICK n \in Name : Begin(Job("mkdir", join(cwd, n), Nowhere, {}, {}))
    BY <1>6 DEF Mkdir
  <2> DEFINE j == Job("mkdir", join(cwd, n), Nowhere, {}, {})
  <2>2. j \in JobRecord /\ j.op = "mkdir" /\ j.todo = {}
    BY <1>2 DEF Job, JobRecord, Operation, Destination
  <2> HIDE DEF j
  <2> QED BY <1>3, <2>1, <2>2 DEF j
<1>7. CASE Choose \/ Drop
  <2>1. PICK op \in {"upload", "drop"} : Upload(op)
    BY <1>7 DEF Choose, Drop
  <2>2. PICK F \in SUBSET Name :
          \E n \in F : Begin(Job(op, join(cwd, n), Nowhere, F \ {n}, {}))
    BY <2>1 DEF Upload
  <2>3. PICK n \in F : Begin(Job(op, join(cwd, n), Nowhere, F \ {n}, {}))
    BY <2>2
  <2> DEFINE j == Job(op, join(cwd, n), Nowhere, F \ {n}, {})
  <2>4. j \in JobRecord /\ j.op = op
    BY <1>2 DEF Job, JobRecord, Operation, Destination
  <2> HIDE DEF j
  <2> QED BY <1>3, <2>3, <2>4 DEF j
<1>8. CASE Move
  <2>1. PICK e \in entries, d \in entries :
          Begin(Job("move", join(rowsIn, e.name), join(join(rowsIn, d.name), e.name), {}, {}))
    BY <1>8 DEF Move
  <2>2. Len(rowsIn) + 2 <= MaxDepth /\ rowsIn \in Path /\ e.name \in Name /\ d.name \in Name
    BY <1>8 DEF Move, TypeInv, ListType, Entry
  <2>3. Len(rowsIn) \in Nat /\ rowsIn \in Seq(Name)
    BY <2>2, PathIs
  <2>4. rowsIn \in Short
    BY <2>2, <2>3, ViewAssumption DEF Short
  <2>5. join(rowsIn, d.name) \in Short
    <3>1. join(rowsIn, d.name) \in Path /\ Len(join(rowsIn, d.name)) = Len(rowsIn) + 1
      BY <2>2, <2>3, <2>4, ShortIs DEF join
    <3>2. Len(rowsIn) + 1 < MaxDepth
      BY <2>2, <2>3, ViewAssumption
    <3> QED BY <3>1, <3>2 DEF Short
  <2>6. join(rowsIn, e.name) \in Path \ {Root}
        /\ join(join(rowsIn, d.name), e.name) \in Path \ {Root}
    BY <2>2, <2>4, <2>5, ShortIs
  <2> DEFINE j == Job("move", join(rowsIn, e.name), join(join(rowsIn, d.name), e.name), {}, {})
  <2>7. j \in JobRecord /\ j.op = "move" /\ j.to \in Path \ {Root}
    BY <2>6 DEF Job, JobRecord, Operation, Destination
  <2> HIDE DEF j
  <2> QED BY <1>3, <2>1, <2>7 DEF j
<1> QED BY <1>4, <1>5, <1>6, <1>7, <1>8

LEMMA ListStepsType ==
  ASSUME TypeInv, NEW x \in lists, ServeList(x) \/ ListArrives(x) \/ ListFails(x)
  PROVE  TypeInv'
<1> DEFINE Request == [path : Path, newest : BOOLEAN, at : Asked, found : SUBSET Entry]
<1>1. x \in Request /\ lists \subseteq Request
  BY DEF TypeInv, ListType
<1>2. cwd \in Path /\ fetches \subseteq [path : Path, old : BOOLEAN, at : Asked, found : SUBSET Entry]
  BY ShortIs DEF TypeInv, NavType, TreeType
<1>3. /\ UNCHANGED <<disk, navVars, selVars, tree, treeOpen, treeOld, previewVars, jobVars, unasked>>
      /\ fetches' = fetches \/ fetches' = fetches \cup Fetch(Missing(tree))
  BY DEF ServeList, ListArrives, ListFails, treeVars
<1>4. Fetch(Missing(tree)) \subseteq [path : Path, old : BOOLEAN, at : Asked, found : SUBSET Entry]
  BY FetchType, MissingType
<1>5. SUFFICES ListType'
  BY <1>2, <1>3, <1>4 DEF TypeInv, NavType, SelType, TreeType, PreviewType, JobType, JobsOK,
                          jobVars, navVars, selVars, previewVars
<1>6. CASE ServeList(x)
  <2>1. Listing(x.path) \subseteq Entry
    BY ListingType DEF TypeInv
  <2>2. Listed(x) \in Request
    BY <1>1, <2>1 DEF Listed, Asked
  <2> HIDE DEF Request
  <2>3. lists' \subseteq Request /\ UNCHANGED <<entries, rowsIn, overtaken>>
    BY <1>1, <1>6, <2>2 DEF ServeList
  <2> QED BY <2>3 DEF TypeInv, ListType, Request
<1>7. CASE ListArrives(x)
  BY <1>1, <1>2, <1>7 DEF ListArrives, ListType, renderList, TypeInv
<1>8. CASE ListFails(x)
  BY <1>1, <1>2, <1>8 DEF ListFails, ListType, renderList, TypeInv
<1> QED BY <1>6, <1>7, <1>8

LEMMA FetchStepsType ==
  ASSUME TypeInv, NEW x \in fetches, ServeFetch(x) \/ FetchArrives(x) \/ FetchFails(x)
  PROVE  TypeInv'
<1> DEFINE Request == [path : Path, old : BOOLEAN, at : Asked, found : SUBSET Entry]
<1>1. x \in Request /\ fetches \subseteq Request
      /\ \A p \in DOMAIN tree : p \in Path /\ tree[p] \subseteq Name
  BY DEF TypeInv, TreeType
<1>2. UNCHANGED <<disk, navVars, listVars, selVars, treeOpen, previewVars, jobVars, unasked>>
      /\ treeOld' \in BOOLEAN
  BY <1>1 DEF ServeFetch, FetchArrives, FetchFails, treeVars, TypeInv
<1>3. SUFFICES TreeType'
  BY <1>2 DEF TypeInv, NavType, ListType, SelType, PreviewType, JobType, JobsOK,
              jobVars, navVars, listVars, selVars, previewVars
<1>4. CASE ServeFetch(x)
  <2>1. Listing(x.path) \subseteq Entry
    BY ListingType DEF TypeInv
  <2>2. Listed(x) \in Request
    BY <1>1, <2>1 DEF Listed, Asked
  <2> HIDE DEF Request
  <2>3. fetches' \subseteq Request /\ UNCHANGED tree
    BY <1>1, <1>4, <2>2 DEF ServeFetch
  <2> QED BY <1>1, <2>3 DEF TreeType, Request
<1>5. CASE FetchArrives(x) \/ FetchFails(x)
  <2>2. PICK dirs \in {Dirs(x.found), {}} : Cache(x, dirs)
    BY <1>5 DEF FetchArrives, FetchFails
  <2>7. dirs \subseteq Name /\ x.path \in Path
    BY <1>1, DirsType
  <2> DEFINE cache == [p \in DOMAIN tree \cup {x.path} |->
                         IF p = x.path THEN dirs ELSE tree[p]]
             missing == {p \in Missing(cache) : IsPrefix(x.path, p)}
  <2>1. tree' = cache /\ fetches' = (fetches \ {x}) \cup Fetch(missing)
    BY <2>2 DEF Cache
  <2>3. \A p \in DOMAIN cache : p \in Path /\ cache[p] \subseteq Name
    BY <1>1, <2>7
  <2>4. missing \subseteq Path
    BY MissingType
  <2> HIDE DEF cache, missing
  <2>5. Fetch(missing) \subseteq Request
    BY <2>4, FetchType
  <2> HIDE DEF Request
  <2>6. fetches' \subseteq Request
    BY <1>1, <2>1, <2>5
  <2> QED BY <2>1, <2>3, <2>6 DEF TreeType, Request
<1> QED BY <1>4, <1>5

LEMMA JobIs ==
  ASSUME TypeInv, NEW j \in jobs \cup late
  PROVE  /\ j \in JobRecord /\ (j.op \in {"rename", "move"} => j.to \in Path \ {Root})
         /\ j.op = "mkdir" => j.todo = {}
<1>1. j \in JobRecord
  BY DEF TypeInv, JobType
<1>2. JobsOK
  BY DEF TypeInv, JobType
<1> QED BY <1>1, <1>2 DEF JobsOK

LEMMA JobStepsType ==
  ASSUME TypeInv, NEW j \in jobs,
         ServeJob(j) \/ NextName(j) \/ EndsInAlert(j) \/ JobLost(j) \/ UploadLost(j)
  PROVE  TypeInv'
<1>1. j \in JobRecord /\ (j.op \in {"rename", "move"} => j.to \in Path \ {Root})
      /\ (j.op = "mkdir" => j.todo = {})
  BY JobIs
<1>2. /\ UNCHANGED <<navVars, listVars, selVars, tree, treeOpen, fetches, previewVars>>
      /\ treeOld' \in BOOLEAN /\ unasked' \in BOOLEAN
  BY DEF ServeJob, NextName, EndsInAlert, JobLost, UploadLost, treeVars, TypeInv
<1>3. SUFFICES DiskType(disk)' /\ JobType'
  BY <1>2 DEF TypeInv, NavType, ListType, SelType, TreeType, PreviewType,
              navVars, listVars, selVars, previewVars
<1>4. ASSUME NEW d \in JobRecord, jobs' = (jobs \ {j}) \cup {d}, d.op = j.op, d.to = j.to,
             d.todo \subseteq j.todo, late' \subseteq late \cup {j}
      PROVE  JobType'
  BY <1>1, <1>4 DEF TypeInv, JobType, JobsOK
<1>5. CASE ServeJob(j)
  <2>1. \A a \in {"ok", "failed"} :
          LET d == [j EXCEPT !.answer = a]
          IN d \in JobRecord /\ d.op = j.op /\ d.to = j.to /\ d.todo = j.todo
    BY <1>1 DEF JobRecord
  <2>2. \E a \in {"ok", "failed"} : jobs' = (jobs \ {j}) \cup {[j EXCEPT !.answer = a]}
    BY <1>5 DEF ServeJob
  <2>7. UNCHANGED late
    BY <1>5 DEF ServeJob
  <2>3. JobType'
    BY <1>4, <2>1, <2>2, <2>7
  <2>4. (Accepts(j) /\ disk' = Effect(j)) \/ UNCHANGED disk
    BY <1>5 DEF ServeJob
  <2>5. DiskType(disk)
    BY DEF TypeInv
  <2>6. DiskType(disk)'
    <3>1. CASE Accepts(j) /\ disk' = Effect(j)
      <4>1. DiskType(Effect(j))
        BY <1>1, <2>5, <3>1, EffectType
      <4> QED BY <3>1, <4>1 DEF DiskType
    <3> QED BY <2>4, <2>5, <3>1 DEF DiskType
  <2> QED BY <2>3, <2>6
<1>6. CASE NextName(j)
  <2>1. PICK n \in j.todo :
          jobs' = (jobs \ {j}) \cup
                    {[j EXCEPT !.from = join(cwd, n), !.todo = @ \ {n}, !.answer = "none"]}
    BY <1>6 DEF NextName
  <2> DEFINE d == [j EXCEPT !.from = join(cwd, n), !.todo = @ \ {n}, !.answer = "none"]
  <2>2. join(cwd, n) \in Path \ {Root}
    <3>1. n \in Name /\ cwd \in Short
      BY <1>1 DEF JobRecord, TypeInv, NavType
    <3> QED BY <3>1, ShortIs
  <2>3. d \in JobRecord /\ d.op = j.op /\ d.to = j.to /\ d.todo \subseteq j.todo
    BY <1>1, <2>2 DEF JobRecord
  <2>5. UNCHANGED late
    BY <1>6 DEF NextName
  <2> HIDE DEF d
  <2>4. JobType'
    BY <1>4, <2>1, <2>3, <2>5 DEF d
  <2> QED BY <1>6, <2>4 DEF NextName, TypeInv, DiskType
<1>7. CASE EndsInAlert(j) \/ JobLost(j)
  <2>1. jobs' = jobs \ {j} /\ late' \subseteq late \cup {j} /\ UNCHANGED disk
    BY <1>7 DEF EndsInAlert, JobLost, MaybeLate
  <2> QED BY <1>1, <2>1 DEF TypeInv, JobType, JobsOK, DiskType
<1>8. CASE UploadLost(j)
  <2> DEFINE d == [j EXCEPT !.answer = "failed"]
  <2>1. d \in JobRecord /\ d.op = j.op /\ d.to = j.to /\ d.todo = j.todo
    BY <1>1 DEF JobRecord
  <2>2. jobs' = (jobs \ {j}) \cup {d} /\ late' \subseteq late \cup {j} /\ UNCHANGED disk
    BY <1>8 DEF UploadLost, MaybeLate
  <2> HIDE DEF d
  <2>3. JobType'
    BY <1>4, <2>1, <2>2
  <2> QED BY <2>2, <2>3 DEF TypeInv, DiskType
<1> QED BY <1>5, <1>6, <1>7, <1>8

LEMMA LateServedType == ASSUME TypeInv, NEW j \in late, LateServed(j) PROVE TypeInv'
<1>1. j \in JobRecord /\ (j.op \in {"rename", "move"} => j.to \in Path \ {Root})
  BY JobIs
<1>2. DiskType(Effect(j))
  BY <1>1, EffectType DEF TypeInv, LateServed
<1>3. DiskType(disk)' /\ JobType'
  BY <1>2 DEF LateServed, DiskType, TypeInv, JobType, JobsOK
<1> QED BY <1>3 DEF LateServed, TypeInv, NavType, ListType, SelType, TreeType, PreviewType,
                    navVars, listVars, selVars, previewVars

LEMMA JobEndsType ==
  ASSUME TypeInv, NEW j \in jobs, EndsInTree(j) \/ EndsInList(j)
  PROVE  TypeInv'
<1>1. Refresh /\ jobs' = jobs \ {j} /\ UNCHANGED <<disk, late>>
  BY DEF EndsInTree, EndsInList
<1>2. cwd \in Short
  BY DEF TypeInv, NavType
<1>3. /\ cwd' \in Short /\ ListType' /\ SelType' /\ PreviewType'
      /\ treeOpen' \subseteq Path /\ unasked' \in BOOLEAN
  BY <1>1, <1>2, GoType DEF Refresh
<1>4. NavType' /\ JobType' /\ DiskType(disk)'
  BY <1>1, <1>3 DEF Refresh, TypeInv, NavType, JobType, JobsOK, DiskType
<1>5. TreeType' /\ treeOld' \in BOOLEAN
  <2>1. CASE EndsInTree(j)
    <3>1. /\ fetches' = {[y EXCEPT !.old = TRUE] : y \in fetches} \cup Fetch({Root})
          /\ tree' = NoTree /\ treeOld' = FALSE
      BY <2>1 DEF EndsInTree, RefreshTree
    <3>2. \A y \in fetches : [y EXCEPT !.old = TRUE]
            \in [path : Path, old : BOOLEAN, at : Asked, found : SUBSET Entry]
      BY DEF TypeInv, TreeType
    <3>3. Fetch({Root}) \subseteq [path : Path, old : BOOLEAN, at : Asked, found : SUBSET Entry]
      BY ShortIs, FetchType
    <3>4. fetches' \subseteq [path : Path, old : BOOLEAN, at : Asked, found : SUBSET Entry]
      BY <3>1, <3>2, <3>3
    <3> QED BY <3>1, <3>4 DEF TreeType, NoTree
  <2>2. CASE EndsInList(j)
    BY <2>2 DEF EndsInList, TypeInv, TreeType
  <2> QED BY <2>1, <2>2
<1> QED BY <1>3, <1>4, <1>5 DEF TypeInv

LEMMA NextType == ASSUME TypeInv, [Next]_vars PROVE TypeInv'
<1>1. CASE UNCHANGED vars
  BY <1>1 DEF vars, navVars, listVars, selVars, treeVars, previewVars, TypeInv, DiskType,
              NavType, ListType, SelType, TreeType, PreviewType, JobType, JobsOK, jobVars
<1>2. CASE User
  BY <1>2, NavigateType, SelectionType, PreviewStepsType, BeginType DEF User
<1>3. CASE Answers
  BY <1>3, ListStepsType, FetchStepsType, PreviewStepsType, JobStepsType, JobEndsType
     DEF Answers
<1>4. CASE NetworkFails
  BY <1>4, ListStepsType, FetchStepsType, JobStepsType, LateServedType DEF NetworkFails
<1> QED BY <1>1, <1>2, <1>3, <1>4 DEF Next

-----------------------------------------------------------------------------
(* History and preview.                                                    *)

(* The synchronous part of go leaves no overlay, and no load for one.      *)
LEMMA GoPreview == ASSUME TypeInv, NEW path, Go(path) PROVE PreviewOK'
<1>1. overlay' = [path |-> Nowhere, text |-> Nowhere] /\ loads' = Unshown(loads)
  BY DEF Go
<1>2. \A x \in loads : ~[x EXCEPT !.shown = FALSE].shown
  BY DEF TypeInv, PreviewType
<1>3. \A x \in loads' : ~x.shown
  BY <1>1, <1>2 DEF Unshown
<1> QED BY <1>1, <1>3 DEF PreviewOK, PreviewShowsItsFile

(* A push cuts off what lay ahead and points at the path it adds.          *)
LEMMA GoPushHistory ==
  ASSUME TypeInv, NEW path \in Short, GoPush(path)
  PROVE  HistoryPointsAtCwd'
<1> DEFINE past == SubSeq(history, 1, histIdx)
<1>1. history \in Seq(Short) /\ histIdx \in 1..Len(history) /\ Len(history) \in Nat
  BY DEF TypeInv, NavType
<1>2. past \in Seq(Short) /\ Len(past) = histIdx
  BY <1>1
<1>3. history' = Append(past, path) /\ histIdx' = histIdx + 1 /\ cwd' = path
  BY DEF GoPush, Go
<1> HIDE DEF past
<1>4. Len(history') = histIdx + 1 /\ history'[histIdx + 1] = path
  BY <1>2, <1>3
<1> QED BY <1>1, <1>3, <1>4 DEF HistoryPointsAtCwd

LEMMA NavigateNav ==
  ASSUME TypeInv, back \/ fwd \/ up \/ Crumb \/ open \/ TreeRow
  PROVE  HistoryPointsAtCwd' /\ PreviewOK'
<1>1. ASSUME NEW path \in Path, Navigate(path) PROVE HistoryPointsAtCwd' /\ PreviewOK'
  <2>1. path \in Short
    BY <1>1 DEF Navigate, Short
  <2> QED BY <1>1, <2>1, GoPushHistory, GoPreview DEF Navigate, GoPush
<1>2. history \in Seq(Short) /\ histIdx \in 1..Len(history) /\ Len(history) \in Nat
      /\ cwd \in Short
  BY DEF TypeInv, NavType
<1>3. CASE back \/ fwd
  <2>1. /\ Go(history[histIdx']) /\ UNCHANGED history
        /\ \/ histIdx' = histIdx - 1 /\ histIdx > 1
           \/ histIdx' = histIdx + 1 /\ histIdx < Len(history)
    BY <1>3 DEF back, fwd
  <2>2. histIdx' \in 1..Len(history')
    BY <1>2, <2>1
  <2>3. cwd' = history'[histIdx']
    BY <2>1 DEF Go
  <2> QED BY <2>1, <2>2, <2>3, GoPreview DEF HistoryPointsAtCwd
<1>4. CASE up
  BY <1>1, <1>2, <1>4, ShortIs DEF up
<1>5. CASE Crumb
  BY <1>1, <1>2, <1>5, ShortIs DEF Crumb
<1>6. CASE open
  <2>1. PICK e \in entries : Navigate(join(cwd, e.name))
    BY <1>6 DEF open
  <2>2. e.name \in Name
    BY DEF TypeInv, ListType, Entry
  <2> QED BY <1>1, <1>2, <2>1, <2>2, ShortIs
<1>7. CASE TreeRow
  BY <1>1, <1>7, MissingType DEF TreeRow
<1> QED BY <1>3, <1>4, <1>5, <1>6, <1>7

LEMMA PreviewNav ==
  ASSUME TypeInv, PreviewOK, openPreview \/ ClosePreview \/ \E x \in loads : PreviewArrives(x)
  PROVE  PreviewOK'
<1>1. loads \subseteq [path : Path, shown : BOOLEAN]
      /\ overlay \in [path : Destination, text : Destination]
  BY DEF TypeInv, PreviewType
<1>2. \A x \in Unshown(loads) : ~x.shown
  <2>1. \A x \in loads : ~[x EXCEPT !.shown = FALSE].shown
    BY <1>1
  <2> QED BY <2>1 DEF Unshown
<1>3. CASE openPreview
  <2>1. PICK e \in entries :
          /\ overlay' = [path |-> join(cwd, e.name), text |-> Nowhere]
          /\ loads' = Unshown(loads) \cup {[path |-> join(cwd, e.name), shown |-> TRUE]}
    BY <1>3 DEF openPreview
  <2> QED BY <1>2, <2>1 DEF PreviewOK, PreviewShowsItsFile
<1>4. CASE ClosePreview
  BY <1>2, <1>4 DEF ClosePreview, PreviewOK, PreviewShowsItsFile
<1>5. CASE \E x \in loads : PreviewArrives(x)
  <2>1. PICK x \in loads :
          /\ loads' = loads \ {x}
          /\ overlay' = IF x.shown THEN [overlay EXCEPT !.text = x.path] ELSE overlay
    BY <1>5 DEF PreviewArrives
  <2>2. overlay'.path = overlay.path
        /\ overlay'.text = IF x.shown THEN x.path ELSE overlay.text
    BY <1>1, <2>1
  <2> QED BY <2>1, <2>2 DEF PreviewOK, PreviewShowsItsFile
<1> QED BY <1>3, <1>4, <1>5

LEMMA NavKept ==
  ASSUME HistoryPointsAtCwd, PreviewOK, UNCHANGED <<navVars, previewVars>>
  PROVE  HistoryPointsAtCwd' /\ PreviewOK'
BY DEF HistoryPointsAtCwd, PreviewOK, PreviewShowsItsFile, navVars, previewVars

(* A step navigates, refreshes, previews, or does none of these.           *)
LEMMA NextNav ==
  ASSUME TypeInv, HistoryPointsAtCwd, PreviewOK, [Next]_vars
  PROVE  HistoryPointsAtCwd' /\ PreviewOK'
<1>1. CASE UNCHANGED vars
  BY <1>1, NavKept DEF vars, navVars, previewVars
<1>2. CASE User
  <2>1. CASE back \/ fwd \/ up \/ Crumb \/ open \/ TreeRow
    BY <2>1, NavigateNav
  <2>2. CASE onItemClick \/ selectAll \/ Escape \/ openMenu \/ Rerender
    BY <2>2, NavKept DEF onItemClick, selectAll, Escape, openMenu, Rerender, Select
  <2>3. CASE openPreview \/ ClosePreview
    BY <2>3, PreviewNav DEF openPreview, ClosePreview, HistoryPointsAtCwd, navVars
  <2>4. CASE deleteSelected \/ renameSelected \/ Mkdir \/ Choose \/ Drop \/ Move
    BY <2>4, NavKept DEF deleteSelected, renameSelected, Mkdir, Choose, Drop, Upload,
                         Move, Begin
  <2> QED BY <1>2, <2>1, <2>2, <2>3, <2>4 DEF User
<1>3. CASE Answers
  <2>1. CASE \E x \in lists : ServeList(x) \/ ListArrives(x)
    BY <2>1, NavKept DEF ServeList, ListArrives
  <2>2. CASE \E x \in fetches : ServeFetch(x) \/ FetchArrives(x)
    BY <2>2, NavKept DEF ServeFetch, FetchArrives
  <2>3. CASE \E x \in loads : PreviewArrives(x)
    BY <2>3, PreviewNav DEF PreviewArrives, HistoryPointsAtCwd, navVars
  <2>4. CASE \E j \in jobs : ServeJob(j) \/ NextName(j) \/ EndsInAlert(j)
    BY <2>4, NavKept DEF ServeJob, NextName, EndsInAlert
  <2>5. CASE \E j \in jobs : EndsInTree(j) \/ EndsInList(j)
    <3>1. Go(cwd) /\ UNCHANGED <<history, histIdx>>
      BY <2>5 DEF EndsInTree, EndsInList, Refresh
    <3>2. cwd' = cwd
      BY <3>1 DEF Go
    <3> QED BY <3>1, <3>2, GoPreview DEF HistoryPointsAtCwd
  <2> QED BY <1>3, <2>1, <2>2, <2>3, <2>4, <2>5 DEF Answers
<1>4. CASE NetworkFails
  BY <1>4, NavKept DEF NetworkFails, ListFails, FetchFails, JobLost, UploadLost, LateServed
<1> QED BY <1>1, <1>2, <1>3, <1>4 DEF Next

-----------------------------------------------------------------------------
(* A listing depends on nothing but the workspace.                         *)
LEMMA ListingKept == ASSUME UNCHANGED disk PROVE \A p : Listing(p)' = Listing(p)
BY DEF Listing, IsDirectory, Children

LEMMA ListedFound ==
  /\ \A x \in [path : Path, newest : BOOLEAN, at : Asked, found : SUBSET Entry] :
       /\ Listed(x).found = Listing(x.path) /\ Listed(x).path = x.path
       /\ Listed(x).newest = x.newest
  /\ \A x \in [path : Path, old : BOOLEAN, at : Asked, found : SUBSET Entry] :
       /\ Listed(x).found = Listing(x.path) /\ Listed(x).path = x.path
       /\ Listed(x).old = x.old
BY DEF Listed

(* The directories a listing names are known from the directories there    *)
(* are, whatever files lie beside them.                                    *)
Subdirectories(p) ==
  IF p = Root \/ p \in Directories(disk)
  THEN {Last(q) : q \in {r \in Directories(disk) : r # Root /\ Front(r) = p}} ELSE {}

LEMMA DirsListed == \A p : Dirs(Listing(p)) = Subdirectories(p)
<1> SUFFICES ASSUME NEW p PROVE Dirs(Listing(p)) = Subdirectories(p)
  OBVIOUS
<1> DEFINE sub == {r \in Directories(disk) : r # Root /\ Front(r) = p}
<1>1. IsDirectory(p) <=> p = Root \/ p \in Directories(disk)
  BY DEF IsDirectory, Directories
<1>2. CASE ~IsDirectory(p)
  BY <1>1, <1>2 DEF Dirs, Listing, Subdirectories
<1>3. CASE IsDirectory(p)
  <2>1. Listing(p) = {[name |-> Last(q), isDir |-> IsDirectory(q)] : q \in Children(p)}
    BY <1>3 DEF Listing
  <2>2. /\ sub \subseteq Children(p)
        /\ \A q \in Children(p) : IsDirectory(q) <=> q \in sub
    BY DEF Children, IsDirectory, Directories
  <2>3. Subdirectories(p) = {Last(q) : q \in sub}
    BY <1>1, <1>3 DEF Subdirectories
  <2> HIDE DEF sub
  <2>4. ASSUME NEW n \in Dirs(Listing(p)) PROVE n \in {Last(q) : q \in sub}
    <3>1. PICK e \in Listing(p) : e.isDir /\ n = e.name
      BY DEF Dirs
    <3>2. PICK q \in Children(p) : e = [name |-> Last(q), isDir |-> IsDirectory(q)]
      BY <2>1
    <3> QED BY <2>2, <3>1, <3>2
  <2>5. ASSUME NEW q \in sub PROVE Last(q) \in Dirs(Listing(p))
    <3>1. [name |-> Last(q), isDir |-> IsDirectory(q)] \in Listing(p) /\ IsDirectory(q)
      BY <2>1, <2>2
    <3> QED BY <3>1 DEF Dirs
  <2> QED BY <2>3, <2>4, <2>5
<1> QED BY <1>2, <1>3

LEMMA DirsKept ==
  ASSUME Directories(disk') = Directories(disk)
  PROVE  \A p : Dirs(Listing(p))' = Dirs(Listing(p))
<1>1. \A p : Dirs(Listing(p)) = Subdirectories(p)
  BY DirsListed
<1>2. (\A p : Dirs(Listing(p)) = Subdirectories(p))'
  BY DirsListed, PTL
<1>3. \A p : Subdirectories(p)' = Subdirectories(p)
  BY DEF Subdirectories
<1> QED BY <1>1, <1>2, <1>3

-----------------------------------------------------------------------------
(* After go the newest listing is of the directory shown and not answered. *)
LEMMA GoListOK == ASSUME TypeInv, NEW path, Go(path) PROVE ListOK'
<1> DEFINE new == [path |-> path, newest |-> TRUE, at |-> "asked", found |-> {}]
<1>1. lists' = {[x EXCEPT !.newest = FALSE] : x \in lists} \cup {new} /\ cwd' = path
  BY DEF Go
<1>2. \A x \in lists : ~[x EXCEPT !.newest = FALSE].newest
  BY DEF TypeInv, ListType
<1>3. new.newest /\ new.path = path /\ new.at = "asked"
  OBVIOUS
<1> HIDE DEF new
<1>4. \A x \in lists' : x.newest => x = new
  BY <1>1, <1>2
<1> QED BY <1>1, <1>3, <1>4 DEF ListOK

(* What the list is judged by stays, and who will ask still does.          *)
LEMMA ListOKKept ==
  ASSUME ListOK, UNCHANGED <<disk, cwd, entries, lists, overtaken>>, unasked => unasked',
         (\E j \in jobs : WillAsk(j)) => unasked' \/ \E j \in jobs' : WillAsk(j)
  PROVE  ListOK'
<1>1. Listing(cwd)' = Listing(cwd)
  BY ListingKept
<1> QED BY <1>1 DEF ListOK

LEMMA TreeOKKept ==
  ASSUME TreeOK, UNCHANGED tree, treeOld => treeOld',
         \A x \in fetches' : x \in fetches \/ x.at = "asked",
         treeOld' \/ (\E j \in jobs' : WillRedraw(j)) \/ Directories(disk') = Directories(disk),
         (\E j \in jobs : WillRedraw(j)) => treeOld' \/ \E j \in jobs' : WillRedraw(j)
  PROVE  TreeOK'
<1>1. CASE Directories(disk') = Directories(disk)
  <2>1. \A p : Dirs(Listing(p))' = Dirs(Listing(p))
    BY <1>1, DirsKept
  <2> QED BY <2>1 DEF TreeOK
<1> QED BY <1>1 DEF TreeOK

(* refreshTreeAncestors: nothing is cached, and what is still to be        *)
(* answered and was asked before counts as old.                            *)
LEMMA RefreshTreeOK == ASSUME TypeInv, RefreshTree PROVE TreeOK'
<1> DEFINE new == [path |-> Root, old |-> FALSE, at |-> "asked", found |-> {}]
<1>1. fetches' = {[x EXCEPT !.old = TRUE] : x \in fetches} \cup {new} /\ tree' = NoTree
  BY DEF RefreshTree, Fetch
<1>2. \A x \in fetches : [x EXCEPT !.old = TRUE].old
  BY DEF TypeInv, TreeType
<1>3. new.at = "asked"
  OBVIOUS
<1> HIDE DEF new
<1>4. \A x \in fetches' : x.old \/ x.at = "asked"
  BY <1>1, <1>2, <1>3
<1>5. DOMAIN tree' = {}
  BY <1>1 DEF NoTree
<1> QED BY <1>4, <1>5 DEF TreeOK

LEMMA FetchAsks == ASSUME NEW P PROVE \A x \in Fetch(P) : x.at = "asked"
BY DEF Fetch

-----------------------------------------------------------------------------
(* The steps.                                                              *)

LEMMA InitShow == Init => ShowInv
<1> SUFFICES ASSUME Init PROVE ShowInv
  OBVIOUS
<1>1. ListOK
  BY DEF Init, ListOK
<1>2. TreeOK
  BY DEF Init, TreeOK, NoTree
<1> QED BY <1>1, <1>2 DEF ShowInv

(* Every navigation asks for the list, and none touches the tree.          *)
LEMMA NavigateShow ==
  ASSUME TypeInv, ShowInv, back \/ fwd \/ up \/ Crumb \/ open \/ TreeRow
  PROVE  ShowInv'
<1>1. ASSUME NEW path, Navigate(path) PROVE ShowInv'
  <2>1. Go(path) /\ UNCHANGED <<disk, tree, fetches, treeOld, jobs>>
    BY <1>1 DEF Navigate, GoPush, jobVars
  <2>2. ListOK'
    BY <2>1, GoListOK
  <2>3. TreeOK'
    BY <2>1, TreeOKKept DEF ShowInv
  <2> QED BY <2>2, <2>3 DEF ShowInv
<1>2. CASE back \/ fwd
  <2>1. PICK path : Go(path)
    BY <1>2 DEF back, fwd
  <2>2. UNCHANGED <<disk, tree, fetches, treeOld, jobs>>
    BY <1>2 DEF back, fwd, jobVars
  <2>3. ListOK'
    BY <2>1, GoListOK
  <2>4. TreeOK'
    BY <2>2, TreeOKKept DEF ShowInv
  <2> QED BY <2>3, <2>4 DEF ShowInv
<1>3. CASE up \/ Crumb \/ open \/ TreeRow
  BY <1>1, <1>3 DEF up, Crumb, open, TreeRow
<1> QED BY <1>2, <1>3

(* Selections, previews and the start of a handler leave list and tree.    *)
LEMMA QuietShow ==
  ASSUME ShowInv, UNCHANGED <<disk, cwd, entries, lists, overtaken, unasked, tree, fetches, treeOld>>,
         jobs \subseteq jobs'
  PROVE  ShowInv'
BY ListOKKept, TreeOKKept DEF ShowInv

LEMMA UserShow == ASSUME TypeInv, ShowInv, User PROVE ShowInv'
<1>1. CASE back \/ fwd \/ up \/ Crumb \/ open \/ TreeRow
  BY <1>1, NavigateShow
<1>2. CASE onItemClick \/ selectAll \/ Escape \/ openMenu \/ Rerender
  BY <1>2, QuietShow DEF onItemClick, selectAll, Escape, openMenu, Rerender, Select,
                         navVars, treeVars, jobVars
<1>3. CASE openPreview \/ ClosePreview
  BY <1>3, QuietShow DEF openPreview, ClosePreview, navVars, listVars, treeVars, jobVars
<1>4. CASE deleteSelected \/ renameSelected \/ Mkdir \/ Choose \/ Drop \/ Move
  <2>1. PICK j : Begin(j)
    BY <1>4 DEF deleteSelected, renameSelected, Mkdir, Choose, Drop, Upload, Move
  <2> QED BY <2>1, QuietShow DEF Begin, navVars, listVars, treeVars
<1> QED BY <1>1, <1>2, <1>3, <1>4 DEF User

(* A listing is answered with what is there, and shown.                    *)
LEMMA ListStepsShow ==
  ASSUME TypeInv, ShowInv, NEW x \in lists, ServeList(x) \/ ListArrives(x) \/ ListFails(x)
  PROVE  ShowInv'
<1>1. x \in [path : Path, newest : BOOLEAN, at : Asked, found : SUBSET Entry]
  BY DEF TypeInv, ListType
<1>2. \A p : Listing(p)' = Listing(p)
  BY ListingKept DEF ServeList, ListArrives, ListFails
<1>3. \A y \in fetches' : y \in fetches \/ y.at = "asked"
  BY FetchAsks DEF ServeList, ListArrives, ListFails, treeVars
<1>4. UNCHANGED <<disk, tree, treeOld, jobs, cwd, unasked>>
  BY DEF ServeList, ListArrives, ListFails, treeVars, navVars, jobVars
<1>5. TreeOK'
  BY <1>3, <1>4, TreeOKKept DEF ShowInv
<1>6. CASE ServeList(x)
  <2>1. lists' = (lists \ {x}) \cup {Listed(x)} /\ UNCHANGED <<entries, overtaken>>
    BY <1>6 DEF ServeList
  <2>2. Listed(x).found = Listing(x.path) /\ Listed(x).path = x.path
        /\ Listed(x).newest = x.newest
    BY <1>1, ListedFound
  <2>3. ListOK'
    BY <1>2, <1>4, <2>1, <2>2 DEF ShowInv, ListOK
  <2> QED BY <1>5, <2>3 DEF ShowInv
<1>7. CASE ListArrives(x)
  <2>1. lists' = lists \ {x} /\ entries' = x.found /\ overtaken' = ~x.newest
        /\ x.at # "asked"
    BY <1>7 DEF ListArrives
  <2>2. ListOK'
    BY <1>2, <1>4, <2>1 DEF ShowInv, ListOK
  <2> QED BY <1>5, <2>2 DEF ShowInv
<1>8. CASE ListFails(x)
  <2>1. lists' = lists \ {x} /\ overtaken' = TRUE
    BY <1>8 DEF ListFails
  <2>2. ListOK'
    BY <1>2, <1>4, <2>1 DEF ShowInv, ListOK
  <2> QED BY <1>5, <2>2 DEF ShowInv
<1> QED BY <1>6, <1>7, <1>8

(* A fetch is answered with what is there, and cached.                     *)
LEMMA FetchStepsShow ==
  ASSUME TypeInv, ShowInv, NEW x \in fetches, ServeFetch(x) \/ FetchArrives(x) \/ FetchFails(x)
  PROVE  ShowInv'
<1>1. x \in [path : Path, old : BOOLEAN, at : Asked, found : SUBSET Entry]
  BY DEF TypeInv, TreeType
<1>2. \A p : Listing(p)' = Listing(p)
  BY ListingKept DEF ServeFetch, FetchArrives, FetchFails
<1>3. UNCHANGED <<disk, cwd, entries, lists, overtaken, unasked, jobs>>
  BY DEF ServeFetch, FetchArrives, FetchFails, navVars, listVars, jobVars
<1>4. ListOK'
  BY <1>3, ListOKKept DEF ShowInv
<1>5. CASE ServeFetch(x)
  <2>1. fetches' = (fetches \ {x}) \cup {Listed(x)} /\ UNCHANGED <<tree, treeOld>>
    BY <1>5 DEF ServeFetch
  <2>2. Listed(x).found = Listing(x.path) /\ Listed(x).path = x.path /\ Listed(x).old = x.old
    BY <1>1, ListedFound
  <2>3. TreeOK'
    BY <1>2, <1>3, <2>1, <2>2 DEF ShowInv, TreeOK, Dirs
  <2> QED BY <1>4, <2>3 DEF ShowInv
<1>6. CASE FetchArrives(x)
  <2> DEFINE cache == [p \in DOMAIN tree \cup {x.path} |->
                         IF p = x.path THEN Dirs(x.found) ELSE tree[p]]
             missing == {p \in Missing(cache) : IsPrefix(x.path, p)}
  <2>1. tree' = cache /\ fetches' = (fetches \ {x}) \cup Fetch(missing)
        /\ treeOld' = (treeOld \/ x.old) /\ x.at # "asked"
    BY <1>6 DEF FetchArrives, Cache
  <2>2. \A y \in fetches' : y \in fetches \/ y.at = "asked"
    <3> HIDE DEF missing
    <3> QED BY <2>1, FetchAsks
  <2>3. \A p \in DOMAIN tree' : tree'[p] = IF p = x.path THEN Dirs(x.found) ELSE tree[p]
    BY <2>1
  <2>4. DOMAIN tree' = DOMAIN tree \cup {x.path}
    BY <2>1
  <2>5. \A p : Dirs(Listing(p))' = Dirs(Listing(p))
    BY <1>2 DEF Dirs
  <2> HIDE DEF cache, missing
  <2>6. TreeOK'
    <3>1. SUFFICES ASSUME ~treeOld', ~ \E j \in jobs : WillRedraw(j)
                   PROVE  /\ \A p \in DOMAIN tree' : tree'[p] = Dirs(Listing(p))
                          /\ \A y \in fetches' :
                               ~y.old /\ y.at # "asked" => Dirs(y.found) = Dirs(Listing(y.path))
      BY <1>3, <2>5 DEF TreeOK
    <3>2. ~treeOld /\ ~x.old
      BY <2>1, <3>1
    <3>3. /\ \A p \in DOMAIN tree : tree[p] = Dirs(Listing(p))
          /\ \A y \in fetches : ~y.old /\ y.at # "asked" => Dirs(y.found) = Dirs(Listing(y.path))
      BY <3>1, <3>2 DEF ShowInv, TreeOK
    <3> QED BY <2>1, <2>2, <2>3, <2>4, <3>2, <3>3
  <2> QED BY <1>4, <2>6 DEF ShowInv
<1>7. CASE FetchFails(x)
  BY <1>4, <1>7 DEF FetchFails, ShowInv, TreeOK
<1> QED BY <1>5, <1>6, <1>7

(* Whoever changes the workspace will ask afterwards.                      *)
LEMMA ServeJobShow ==
  ASSUME TypeInv, ShowInv, NEW j \in jobs, ServeJob(j)
  PROVE  ShowInv'
<1>1. UNCHANGED <<cwd, entries, lists, overtaken, tree, fetches, unasked>>
  BY DEF ServeJob, navVars, listVars
<1>2. j.op \in Operation /\ j.answer = "none"
  BY DEF TypeInv, JobType, JobRecord, ServeJob
<1>3. CASE jobs' = (jobs \ {j}) \cup {[j EXCEPT !.answer = "ok"]}
           /\ treeOld' = (treeOld \/ (j.op \in {"upload", "drop", "move"}
                                        /\ Directories(disk') # Directories(disk)))
  <2> DEFINE d == [j EXCEPT !.answer = "ok"]
  <2>1. d \in jobs' /\ d.op = j.op /\ d.answer = "ok"
    BY <1>3 DEF TypeInv, JobType, JobRecord
  <2>2. WillAsk(d) /\ (j.op \in {"delete", "rename", "mkdir"} => WillRedraw(d))
    BY <2>1 DEF WillAsk, WillRedraw
  <2>3. ListOK'
    BY <2>1, <2>2 DEF ListOK
  <2>4. (\E y \in jobs : WillRedraw(y)) => \E y \in jobs' : WillRedraw(y)
    <3> SUFFICES ASSUME NEW y \in jobs, WillRedraw(y) PROVE \E z \in jobs' : WillRedraw(z)
      OBVIOUS
    <3>1. CASE y = j
      BY <2>1, <2>2, <3>1, <1>2 DEF WillRedraw
    <3> QED BY <1>3, <3>1
  <2>5. treeOld' \/ WillRedraw(d) \/ Directories(disk') = Directories(disk)
    BY <1>2, <1>3, <2>2 DEF Operation
  <2>6. TreeOK'
    <3> HIDE DEF d
    <3> QED BY <1>1, <1>3, <2>1, <2>4, <2>5, TreeOKKept DEF ShowInv
  <2> QED BY <2>3, <2>6 DEF ShowInv
<1>4. CASE jobs' = (jobs \ {j}) \cup {[j EXCEPT !.answer = "failed"]}
           /\ UNCHANGED <<disk, treeOld>>
  <2> DEFINE d == [j EXCEPT !.answer = "failed"]
  <2>1. d \in jobs' /\ d.op = j.op
    BY <1>4 DEF TypeInv, JobType, JobRecord
  <2>2. (WillAsk(j) => WillAsk(d)) /\ (WillRedraw(j) => WillRedraw(d))
    BY <1>2, <2>1 DEF WillAsk, WillRedraw
  <2> HIDE DEF d
  <2>3. \A y \in jobs : y \in jobs' \/ y = j
    BY <1>4
  <2>4. ListOK'
    BY <1>1, <1>4, <2>1, <2>2, <2>3, ListOKKept DEF ShowInv
  <2>5. TreeOK'
    BY <1>1, <1>4, <2>1, <2>2, <2>3, TreeOKKept DEF ShowInv
  <2> QED BY <2>4, <2>5 DEF ShowInv
<1> QED BY <1>3, <1>4 DEF ServeJob

(* A loop that goes on asks in the end as before; a handler that ends has  *)
(* asked, or had nothing to ask for, or is excused.                        *)
LEMMA JobGoesOnShow ==
  ASSUME TypeInv, ShowInv, NEW j \in jobs,
         NextName(j) \/ EndsInTree(j) \/ EndsInList(j) \/ EndsInAlert(j) \/ JobLost(j)
         \/ UploadLost(j)
  PROVE  ShowInv'
<1>1. j.op \in Operation /\ j.answer \in {"none", "ok", "failed"}
  BY DEF TypeInv, JobType, JobRecord
<1>2. CASE NextName(j)
  <2>1. PICK n \in j.todo :
          jobs' = (jobs \ {j}) \cup
                    {[j EXCEPT !.from = join(cwd, n), !.todo = @ \ {n}, !.answer = "none"]}
    BY <1>2 DEF NextName
  <2> DEFINE d == [j EXCEPT !.from = join(cwd, n), !.todo = @ \ {n}, !.answer = "none"]
  <2>2. d \in jobs' /\ d.op = j.op /\ j.op # "mkdir"
    BY <2>1 DEF TypeInv, JobType, JobRecord, JobsOK
  <2>3. (WillAsk(j) => WillAsk(d)) /\ (WillRedraw(j) => WillRedraw(d))
    BY <2>2 DEF WillAsk, WillRedraw
  <2>4. \A y \in jobs : y \in jobs' \/ y = j
    BY <2>1
  <2>5. UNCHANGED <<disk, cwd, entries, lists, overtaken, tree, fetches, unasked, treeOld>>
    BY <1>2 DEF NextName, navVars, listVars, treeVars
  <2> HIDE DEF d
  <2>6. ListOK'
    BY <2>2, <2>3, <2>4, <2>5, ListOKKept DEF ShowInv
  <2>7. TreeOK'
    BY <2>2, <2>3, <2>4, <2>5, TreeOKKept DEF ShowInv
  <2> QED BY <2>6, <2>7 DEF ShowInv
<1>3. CASE EndsInTree(j)
  BY <1>3, GoListOK, RefreshTreeOK DEF EndsInTree, Refresh, ShowInv
<1>4. CASE EndsInList(j)
  <2>1. Go(cwd) /\ jobs' = jobs \ {j} /\ UNCHANGED <<disk, tree, fetches, treeOld>>
    BY <1>4 DEF EndsInList, Refresh
  <2>2. ~WillRedraw(j)
    BY <1>4 DEF EndsInList, RefreshesList, WillRedraw
  <2>3. TreeOK'
    BY <2>1, <2>2, TreeOKKept DEF ShowInv
  <2> QED BY <2>1, <2>3, GoListOK DEF ShowInv
<1>5. CASE EndsInAlert(j)
  <2>1. /\ jobs' = jobs \ {j} /\ unasked' = (unasked \/ j.op = "upload")
        /\ UNCHANGED <<disk, cwd, entries, lists, overtaken, tree, fetches, treeOld>>
    BY <1>5 DEF EndsInAlert, navVars, listVars, treeVars
  <2>2. ~WillRedraw(j) /\ (WillAsk(j) => j.op = "upload")
    BY <1>1, <1>5 DEF EndsInAlert, RefreshesTree, RefreshesList, WillRedraw, WillAsk, Operation
  <2>3. ListOK'
    BY <2>1, <2>2, ListOKKept DEF ShowInv
  <2>4. TreeOK'
    BY <2>1, <2>2, TreeOKKept DEF ShowInv
  <2> QED BY <2>3, <2>4 DEF ShowInv
<1>6. CASE JobLost(j)
  BY <1>6 DEF JobLost, ShowInv, ListOK, TreeOK
<1>7. CASE UploadLost(j)
  <2> DEFINE d == [j EXCEPT !.answer = "failed"]
  <2>1. d \in jobs' /\ d.op = j.op /\ jobs' = (jobs \ {j}) \cup {d}
    BY <1>7 DEF UploadLost, TypeInv, JobType, JobRecord
  <2>2. WillAsk(d) /\ ~WillRedraw(j)
    BY <1>7, <2>1 DEF UploadLost, WillAsk, WillRedraw
  <2>3. UNCHANGED <<disk, cwd, entries, lists, overtaken, tree, fetches, unasked, treeOld>>
    BY <1>7 DEF UploadLost, navVars, listVars, treeVars
  <2> HIDE DEF d
  <2>4. ListOK'
    BY <2>1, <2>2, <2>3, ListOKKept DEF ShowInv
  <2>5. TreeOK'
    BY <2>1, <2>2, <2>3, TreeOKKept DEF ShowInv
  <2> QED BY <2>4, <2>5 DEF ShowInv
<1> QED BY <1>2, <1>3, <1>4, <1>5, <1>6, <1>7

(* A request served after it was given up is excused.                      *)
LEMMA LateServedShow == ASSUME NEW j \in late, LateServed(j) PROVE ShowInv'
BY DEF LateServed, ShowInv, ListOK, TreeOK

LEMMA NextShow == ASSUME TypeInv, ShowInv, [Next]_vars PROVE ShowInv'
<1>1. CASE UNCHANGED vars
  BY <1>1, QuietShow DEF vars, navVars, listVars, treeVars, jobVars
<1>2. CASE User
  BY <1>2, UserShow
<1>3. CASE Answers
  <2>1. CASE \E x \in lists : ServeList(x) \/ ListArrives(x)
    BY <2>1, ListStepsShow
  <2>2. CASE \E x \in fetches : ServeFetch(x) \/ FetchArrives(x)
    BY <2>2, FetchStepsShow
  <2>3. CASE \E x \in loads : PreviewArrives(x)
    BY <2>3, QuietShow DEF PreviewArrives, navVars, listVars, treeVars, jobVars
  <2>4. CASE \E j \in jobs :
          ServeJob(j) \/ NextName(j) \/ EndsInTree(j) \/ EndsInList(j) \/ EndsInAlert(j)
    BY <2>4, ServeJobShow, JobGoesOnShow
  <2> QED BY <1>3, <2>1, <2>2, <2>3, <2>4 DEF Answers
<1>4. CASE NetworkFails
  BY <1>4, ListStepsShow, FetchStepsShow, JobGoesOnShow, LateServedShow DEF NetworkFails
<1> QED BY <1>1, <1>2, <1>3, <1>4 DEF Next

-----------------------------------------------------------------------------
THEOREM IInvHolds == Spec => []IInv
<1>1. Init => IInv
  <2>1. Init => HistoryPointsAtCwd /\ PreviewOK
    BY DEF Init, HistoryPointsAtCwd, PreviewOK, PreviewShowsItsFile
  <2> QED BY <2>1, InitType, InitShow DEF IInv
<1>2. IInv /\ [Next]_vars => IInv'
  BY NextType, NextNav, NextShow DEF IInv
<1> QED BY <1>1, <1>2, PTL DEF Spec

(* Every variable keeps its type, whatever the user does and however late  *)
(* the answers come: no handler makes a path out of anything but a         *)
(* directory of the view and a name, and the server keeps the workspace    *)
(* one of named files and directories.                                     *)
THEOREM TypeCorrect == Spec => []TypeOK
<1>1. IInv => TypeOK
  <2> SUFFICES ASSUME TypeInv PROVE TypeOK
    BY DEF IInv
  <2>1. cwd \in Path /\ history \in Seq(Path) /\ histIdx \in 1..Len(history)
    BY ShortIs, SeqMonotonic DEF TypeInv, NavType
  <2> QED BY <2>1 DEF TypeInv, TypeOK, ListType, SelType, TreeType, PreviewType, JobType, JobRecord
<1> QED BY IInvHolds, <1>1, PTL

(* Whatever handlers end late and whatever the user does between, back and *)
(* forward start from the directory the crumbs name.                       *)
THEOREM HistoryHolds == Spec => []HistoryPointsAtCwd
<1>1. IInv => HistoryPointsAtCwd
  BY DEF IInv
<1> QED BY IInvHolds, <1>1, PTL

(* However late the texts arrive, the preview shows the file of its title. *)
THEOREM PreviewHolds == Spec => []PreviewShowsItsFile
<1>1. IInv => PreviewShowsItsFile
  BY DEF IInv, PreviewOK
<1> QED BY IInvHolds, <1>1, PTL

(* At rest the list shows the directory the crumbs name, for any number of *)
(* handlers and navigations and any order of answers: every handler that   *)
(* changes the workspace calls go(this.cwd, false) after its change.       *)
THEOREM ListHolds == Spec => []ShowsDirectory
<1>1. IInv => ShowsDirectory
  BY DEF IInv, ShowInv, ListOK, ShowsDirectory, AtRest
<1> QED BY IInvHolds, <1>1, PTL

(* At rest the tree shows the directories there are, and so does all that  *)
(* is cached and not displayed: who makes, moves or removes a directory    *)
(* calls refreshTreeAncestors.  Until that call the tree is excused when a *)
(* fetch of it failed (treeEntries then caches []), or a request was       *)
(* served after its handler had died.                                      *)
THEOREM TreeHolds == Spec => []TreeShowsDirectories
<1>1. IInv => TreeShowsDirectories
  BY DEF IInv, ShowInv, TreeOK, TreeShowsDirectories, AtRest
<1> QED BY IInvHolds, <1>1, PTL
=============================================================================
