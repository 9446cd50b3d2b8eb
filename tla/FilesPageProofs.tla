-------------------------- MODULE FilesPageProofs --------------------------
(***************************************************************************)
(* What FilesPage keeps for any number of directories, uploads and files.  *)
(***************************************************************************)
EXTENDS FilesPage, FiniteSetTheorems, TLAPS

\* The page has a directory, and an open dialog the page and its entry's directory,
\* if it has an entry.  The upload that has a panel has a page.
Placed ==
    /\ shown = "files" => dir \in Dirs
    /\ dialog.kind # "none" => shown = "files"
    /\ dialog.kind \notin {"none", "mkdir"} => dialog.of \in Dirs
    /\ \A b \in Batches : batch[b].seen => shown = "files"

PageIInv == PageTypeOK /\ Placed

\* The actions that only the query cache takes part in.
LEMMA FetchType ==
    ASSUME PageIInv, Enable \/ Fetch
    PROVE  PageIInv'
<1> USE DEF PageIInv, Placed, PageTypeOK, Listing, Uncounted, dialogVars, uploadVars, pageVars
<1>1. CASE Enable
  <2>1. Mount(list[dir]) \in Listing
    BY <1>1 DEF Enable, Mount
  <2> QED  BY <1>1, <2>1 DEF Enable
<1>2. ASSUME NEW d \in Dirs, ListServed(d) PROVE PageIInv'
  <2>0. list[d] \in Listing /\ remote[d] \in Nat
    BY <1>2
  <2>1. [list[d] EXCEPT !.fetch = "served", !.got = remote[d]] \in Listing
    BY ONLY <2>0 DEF Listing
  <2>2. list' \in [Dirs -> Listing]
    BY <1>2, <2>1 DEF ListServed
  <2> QED  BY <1>2, <2>2 DEF ListServed
<1>3. ASSUME NEW d \in Dirs, ListDelivered(d) PROVE PageIInv'
  BY <1>3 DEF ListDelivered, NoListing
<1>4. ASSUME NEW d \in Dirs, ListFailed(d) PROVE PageIInv'
  BY <1>4 DEF ListFailed, NoListing
<1> QED  BY <1>1, <1>2, <1>3, <1>4 DEF Fetch

\* Moving about.
LEMMA UnmountType ==
    ASSUME PageIInv, shown = "files", Unmount
    PROVE  /\ dialog' = NoDialog
           /\ change' \in [Kinds -> Requests]
           /\ batch' \in [Batches -> Uploads]
           /\ \A b \in Batches : ~batch'[b].seen
           /\ panel' = {} /\ nextId' = 0
<1>1. change' \in [Kinds -> Requests]
  <2>1. dir \in Dirs \cup {NoDir} /\ change \in [Kinds -> Requests]
    BY DEF PageIInv, PageTypeOK
  <2>2. \A k \in Kinds : [change[k] EXCEPT !.seen = FALSE, !.last = dir] \in Requests
    BY <2>1 DEF Requests
  <2> QED  BY <2>1, <2>2 DEF Unmount
<1>2. batch' \in [Batches -> Uploads] /\ \A b \in Batches : ~batch'[b].seen
  BY DEF Uploads, PageIInv, PageTypeOK, Unmount
<1>3. dialog' = NoDialog /\ panel' = {} /\ nextId' = 0
  BY DEF Unmount
<1> QED  BY <1>1, <1>2, <1>3

LEMMA MoveType ==
    ASSUME PageIInv, PageAssumption,
           (\E t \in Dirs : Go(t)) \/ Leave \/ Return
    PROVE  PageIInv'
<1> USE DEF PageIInv, Placed, PageTypeOK, Uncounted, CountMove, dialogVars, uploadVars, pageVars
<1>1. ASSUME NEW t \in Dirs, Go(t) PROVE PageIInv'
  <2>1. Lands[t] \in Dirs \cup {NoDir}
    BY DEF PageAssumption
  <2>2. moves' \in 0..MaxMoves
    BY <1>1 DEF Go, PageAssumption
  <2>3. CASE Lands[t] = NoDir
    <3>1. shown' = "broken" /\ Unmount /\ UNCHANGED <<list, remote, told, clicks>>
          /\ dir' = NoDir /\ enabled' = FALSE
      BY <1>1, <2>3 DEF Go
    <3>2. shown = "files"
      BY <1>1 DEF Go
    <3>3. /\ dialog' = NoDialog
          /\ change' \in [Kinds -> Requests]
          /\ batch' \in [Batches -> Uploads]
          /\ \A b \in Batches : ~batch'[b].seen
          /\ panel' = {} /\ nextId' = 0
      BY <3>1, <3>2, UnmountType
    <3> QED  BY <3>1, <3>3, <2>2 DEF NoDialog
  <2>4. CASE Lands[t] # NoDir
    <3>1. /\ dir' = Lands[t] /\ shown = "files"
          /\ list' = IF enabled THEN [list EXCEPT ![dir'] = Mount(@)] ELSE list
          /\ UNCHANGED <<shown, enabled, dialogVars, uploadVars, remote, told, clicks>>
      BY <1>1, <2>4 DEF Go
    <3>2. \A d \in Dirs : Mount(list[d]) \in Listing
      BY DEF Mount, Listing
    <3>3. list' \in [Dirs -> Listing]
      BY <3>1, <3>2, <2>1, <2>4
    <3>4. Placed'
      BY <3>1, <2>1, <2>4
    <3> QED  BY <3>1, <3>3, <3>4, <2>2
  <2> QED  BY <2>3, <2>4
<1>2. CASE Leave
  <2>1. moves' \in 0..MaxMoves
    BY <1>2 DEF Leave, PageAssumption
  <2>2. list' \in [Dirs -> Listing] /\ told' \in [Dirs -> Nat]
    <3>1. NoListing \in Listing
      BY DEF NoListing, Listing
    <3>2. CASE UNCHANGED <<list, told>>
      BY <3>2
    <3>3. CASE list' = [d \in Dirs |-> NoListing] /\ told' = [d \in Dirs |-> 0]
      BY <3>1, <3>3
    <3> QED  BY <1>2, <3>2, <3>3 DEF Leave
  <2>3. shown = "files" /\ shown' = "away" /\ Unmount /\ UNCHANGED <<remote, clicks>>
        /\ dir' = NoDir /\ enabled' = FALSE
    BY <1>2 DEF Leave
  <2>4. /\ dialog' = NoDialog
        /\ change' \in [Kinds -> Requests]
        /\ batch' \in [Batches -> Uploads]
        /\ \A b \in Batches : ~batch'[b].seen
        /\ panel' = {} /\ nextId' = 0
    BY <2>3, UnmountType
  <2> QED  BY <2>1, <2>2, <2>3, <2>4 DEF NoDialog
<1>3. CASE Return
  <2>1. shown = "away" /\ shown' = "files" /\ dir' \in Dirs /\ dialog.kind = "none"
    BY <1>3 DEF Return, Pages
  <2>2. UNCHANGED <<remote, enabled, list, told, dialogVars, uploadVars, clicks, moves>>
    BY <1>3 DEF Return
  <2> QED  BY <2>1, <2>2
<1> QED  BY <1>1, <1>2, <1>3

\* Dialogs and the requests they send.
LEMMA RefreshType ==
    ASSUME PageIInv, NEW d \in Dirs \cup {NoDir}, Refresh(d)
    PROVE  list' \in [Dirs -> Listing]
<1>1. \A e \in Dirs : Refetch(list[e]) \in Listing
  BY DEF Refetch, Mount, Listing, PageIInv, PageTypeOK
<1> QED  BY <1>1 DEF Refresh, Active, PageIInv, PageTypeOK

LEMMA TellType ==
    ASSUME PageIInv, NEW ds, Tell(ds)
    PROVE  told' \in [Dirs -> Nat]
BY DEF Tell, PageIInv, PageTypeOK

LEMMA DialogType ==
    ASSUME PageIInv, PageAssumption,
           RefreshClick \/ Cancel \/ \E k \in Kinds : Open(k) \/ Submit(k)
    PROVE  PageIInv'
<1> USE DEF PageIInv, Placed, PageTypeOK, Uncounted, Count, dialogVars, uploadVars, pageVars
<1>1. CASE RefreshClick
  <2>1. clicks' \in 0..MaxClicks
    BY <1>1 DEF RefreshClick, PageAssumption
  <2>2. list' \in [Dirs -> Listing] /\ told' \in [Dirs -> Nat]
    BY <1>1, RefreshType, TellType DEF RefreshClick
  <2> QED  BY <1>1, <2>1, <2>2 DEF RefreshClick
<1>2. CASE Cancel
  BY <1>2 DEF Cancel, NoDialog
<1>3. ASSUME NEW k \in Kinds, Open(k) PROVE PageIInv'
  <2>1. dialog' \in [kind : Kinds \cup {"none"}, of : Dirs \cup {NoDir}]
    BY <1>3 DEF Open
  <2>2. dialog'.kind \notin {"none", "mkdir"} => dialog'.of \in Dirs
    BY <1>3 DEF Open
  <2> QED  BY <1>3, <2>1, <2>2 DEF Open
<1>4. ASSUME NEW k \in Kinds, Submit(k) PROVE PageIInv'
  <2>1. clicks' \in 0..MaxClicks
    BY <1>4 DEF Submit, PageAssumption
  <2>2. dialog.kind = k /\ (k # "mkdir" => dialog.of \in Dirs)
    BY <1>4 DEF Submit, Kinds
  <2>3. \A ds \in Concerns(k) : ds \in SUBSET Dirs
    BY <2>2 DEF Concerns, Kinds, Pages
  <2>4. change' \in [Kinds -> Requests]
    BY <1>4, <2>2, <2>3 DEF Submit, Requests
  <2> QED  BY <1>4, <2>1, <2>4 DEF Submit
<1> QED  BY <1>1, <1>2, <1>3, <1>4

LEMMA BumpType ==
    ASSUME PageIInv, NEW ds PROVE Bump(ds) \in [Dirs -> Nat]
BY DEF Bump, PageIInv, PageTypeOK

LEMMA ChangeType ==
    ASSUME PageIInv, Change PROVE PageIInv'
<1> USE DEF PageIInv, Placed, PageTypeOK, Uncounted, dialogVars, uploadVars, pageVars
<1>1. ASSUME NEW k \in Kinds, ChangeServed(k) PROVE PageIInv'
  <2>1. remote' \in [Dirs -> Nat]
    BY <1>1, BumpType DEF ChangeServed
  <2>2. change' \in [Kinds -> Requests]
    BY <1>1 DEF ChangeServed, Requests
  <2> QED  BY <1>1, <2>1, <2>2 DEF ChangeServed
<1>2. ASSUME NEW k \in Kinds, ChangeAnswered(k) PROVE PageIInv'
  <2>1. (IF change[k].seen THEN dir ELSE change[k].last) \in Dirs \cup {NoDir}
    BY DEF Requests
  <2>2. list' \in [Dirs -> Listing] /\ told' \in [Dirs -> Nat]
    BY <1>2, <2>1, RefreshType, TellType DEF ChangeAnswered
  <2>3. change' \in [Kinds -> Requests]
    BY <1>2 DEF ChangeAnswered, Requests, NoRequest
  <2>4. dialog' = dialog \/ dialog' = NoDialog
    BY <1>2 DEF ChangeAnswered
  <2> QED  BY <1>2, <2>2, <2>3, <2>4 DEF ChangeAnswered, NoDialog
<1>3. ASSUME NEW k \in Kinds, ChangeFailed(k) PROVE PageIInv'
  <2>1. change' \in [Kinds -> Requests]
    BY <1>3 DEF ChangeFailed, Requests, NoRequest
  <2> QED  BY <1>3, <2>1 DEF ChangeFailed
<1> QED  BY <1>1, <1>2, <1>3 DEF Change

\* Uploads and the panel.
LEMMA SettleType ==
    ASSUME PageIInv, NEW b \in Batches, batch[b].at # "idle",
           NEW s \in {"done", "error"}, Settle(b, s)
    PROVE  /\ batch' \in [Batches -> Uploads]
           /\ panel' \subseteq [id : Nat, state : {"uploading", "done", "error"}]
           /\ nextId' \in Nat
           /\ ~batch[b].seen => panel' = panel
           /\ \A c \in Batches : batch'[c].seen => batch[c].seen
<1> DEFINE r == batch[b]
           more == r.left > 0
           patched == IF r.seen
                      THEN (panel \ {Item(r.item, "uploading")}) \cup {Item(r.item, s)}
                      ELSE panel
           Items == [id : Nat, state : {"uploading", "done", "error"}]
<1>1. r \in Uploads /\ nextId \in Nat /\ panel \subseteq Items
  BY DEF PageIInv, PageTypeOK
<1>2. patched \subseteq Items
  BY <1>1 DEF Item, Uploads
<1>3. Item(nextId, "uploading") \in Items
  BY <1>1 DEF Item
<1>4. panel' \subseteq Items /\ nextId' \in Nat /\ (~r.seen => panel' = panel)
  BY <1>1, <1>2, <1>3 DEF Settle
<1>5. more => r.left - 1 \in Nat
  BY <1>1 DEF Uploads
<1>6. more => [r EXCEPT !.at = "asked", !.left = @ - 1,
                        !.item = IF r.seen THEN nextId ELSE @] \in Uploads
  BY <1>1, <1>5 DEF Uploads
<1>7. NoBatch \in Uploads
  BY DEF NoBatch, Uploads
<1>8. batch' \in [Batches -> Uploads]
  BY <1>6, <1>7 DEF Settle, PageIInv, PageTypeOK
<1>9. \A c \in Batches : batch'[c].seen => batch[c].seen
  BY <1>1, <1>6 DEF Settle, NoBatch, Uploads, PageIInv, PageTypeOK
<1> QED  BY <1>4, <1>8, <1>9

LEMMA UploadType ==
    ASSUME PageIInv, PageAssumption,
           \/ Upload \/ Expire
           \/ \E b \in Batches, n \in 1..MaxClicks : Pick(b, n) \/ Drop(b, n)
    PROVE  PageIInv'
<1> USE DEF PageIInv, Placed, PageTypeOK, Uncounted, dialogVars, uploadVars, pageVars
<1>1. ASSUME NEW b \in Batches, UploadServed(b) PROVE PageIInv'
  <2>1. remote' \in [Dirs -> Nat]
    BY <1>1, BumpType DEF UploadServed
  <2>2. batch' \in [Batches -> Uploads] /\ \A c \in Batches : batch'[c].seen = batch[c].seen
    BY <1>1 DEF UploadServed, Uploads
  <2> QED  BY <1>1, <2>1, <2>2 DEF UploadServed
<1>2. ASSUME NEW b \in Batches, UploadAnswered(b) PROVE PageIInv'
  <2>1. batch[b].to \in Dirs \cup {NoDir}
    BY DEF Uploads
  <2>2. list' \in [Dirs -> Listing] /\ told' \in [Dirs -> Nat]
    BY <1>2, <2>1, RefreshType, TellType DEF UploadAnswered
  <2>3. batch[b].at # "idle" /\ Settle(b, "done")
    BY <1>2 DEF UploadAnswered
  <2>4. /\ batch' \in [Batches -> Uploads]
        /\ panel' \subseteq [id : Nat, state : {"uploading", "done", "error"}]
        /\ nextId' \in Nat
        /\ ~batch[b].seen => panel' = panel
        /\ \A c \in Batches : batch'[c].seen => batch[c].seen
    BY <2>3, SettleType
  <2>5. UNCHANGED <<remote, pageVars, dialogVars, clicks, moves>>
    BY <1>2 DEF UploadAnswered
  <2> QED  BY <2>2, <2>4, <2>5
<1>3. ASSUME NEW b \in Batches, UploadFailed(b) PROVE PageIInv'
  <2>1. batch[b].at # "idle" /\ Settle(b, "error")
    BY <1>3 DEF UploadFailed
  <2>2. /\ batch' \in [Batches -> Uploads]
        /\ panel' \subseteq [id : Nat, state : {"uploading", "done", "error"}]
        /\ nextId' \in Nat
        /\ ~batch[b].seen => panel' = panel
        /\ \A c \in Batches : batch'[c].seen => batch[c].seen
    BY <2>1, SettleType
  <2>3. UNCHANGED <<remote, pageVars, list, told, dialogVars, clicks, moves>>
    BY <1>3 DEF UploadFailed
  <2> QED  BY <2>2, <2>3
<1>4. CASE Expire
  BY <1>4 DEF Expire
<1>5. ASSUME NEW b \in Batches, NEW n \in 1..MaxClicks, StartUploads(b, n), shown = "files"
      PROVE  PageIInv'
  <2>1. clicks' \in 0..MaxClicks
    BY <1>5 DEF StartUploads, Count, PageAssumption
  <2>2. [at |-> "asked", to |-> dir, left |-> n - 1, item |-> nextId, seen |-> TRUE] \in Uploads
    BY <1>5, PageAssumption DEF Uploads
  <2>3. batch' \in [Batches -> Uploads]
    BY <1>5, <2>2 DEF StartUploads
  <2>4. panel' \subseteq [id : Nat, state : {"uploading", "done", "error"}]
    BY <1>5 DEF StartUploads, Item
  <2> QED  BY <1>5, <2>1, <2>3, <2>4 DEF StartUploads, Count
<1> QED  BY <1>1, <1>2, <1>3, <1>4, <1>5 DEF Upload, Pick, Drop

LEMMA StutterType ==
    ASSUME PageIInv, UNCHANGED vars PROVE PageIInv'
BY DEF PageIInv, Placed, PageTypeOK, vars, pageVars, dialogVars, uploadVars

\* The types, and that dialogs and panels have their page, are an invariant.
LEMMA PageInvariant == PageSpec => []PageIInv
<1> USE PageAssumption
<1>1. PageInit => PageIInv
  <2> SUFFICES ASSUME PageInit PROVE PageIInv
    OBVIOUS
  <2>1. NoListing \in Listing /\ NoRequest \in Requests /\ NoBatch \in Uploads
    BY DEF NoListing, Listing, NoRequest, Requests, NoBatch, Uploads
  <2>2. dir \in Dirs
    BY DEF PageInit, Pages
  <2>3. NoDialog \in [kind : Kinds \cup {"none"}, of : Dirs \cup {NoDir}]
    BY DEF NoDialog
  <2>4. PageTypeOK
    <3>1. /\ list \in [Dirs -> Listing]
          /\ change \in [Kinds -> Requests]
          /\ batch \in [Batches -> Uploads]
      BY <2>1 DEF PageInit
    <3>2. remote \in [Dirs -> Nat] /\ told \in [Dirs -> Nat]
      BY DEF PageInit
    <3>3. clicks \in 0..MaxClicks /\ moves \in 0..MaxMoves /\ nextId \in Nat
      BY DEF PageInit, PageAssumption
    <3>4. shown = "files" /\ enabled = FALSE /\ dialog = NoDialog /\ panel = {}
      BY DEF PageInit
    <3> QED  BY <2>2, <2>3, <3>1, <3>2, <3>3, <3>4 DEF PageTypeOK
  <2>5. Placed
    BY <2>2 DEF PageInit, Placed, NoDialog, NoBatch
  <2> QED  BY <2>4, <2>5 DEF PageIInv
<1>2. PageIInv /\ [PageNext]_vars => PageIInv'
  <2> SUFFICES ASSUME PageIInv, [PageNext]_vars PROVE PageIInv'
    OBVIOUS
  <2>1. CASE Enable \/ Fetch
    BY <2>1, FetchType
  <2>2. CASE Change
    BY <2>2, ChangeType
  <2>3. CASE Upload \/ Expire
    BY <2>3, UploadType
  <2>4. CASE User
    BY <2>4, MoveType, DialogType, UploadType DEF User, Follow, Climb, History, Pages
  <2>5. CASE UNCHANGED vars
    BY <2>5, StutterType
  <2> QED  BY <2>1, <2>2, <2>3, <2>4, <2>5 DEF PageNext
<1> QED  BY <1>1, <1>2, PTL DEF PageSpec

\* The page's variables keep their types, and a dialog or a panel its page, for
\* any number of directories, uploads and files (Files.tsx).
THEOREM PageTypeCorrect == PageSpec => []PageTypeOK
<1>1. PageIInv => PageTypeOK
  BY DEF PageIInv
<1> QED  BY <1>1, PageInvariant, PTL

-----------------------------------------------------------------------------
(***************************************************************************)
(* EveryFileTried.                                                         *)
(***************************************************************************)
\* What an upload does in its own steps.
Steps(b) ==
    batch[b].at # "idle" =>
       \/ batch'[b].at = "idle" /\ batch[b].left = 0
       \/ /\ batch'[b].at # "idle"
          /\ batch'[b].to = batch[b].to
          /\ \/ batch'[b].left = batch[b].left
             \/ batch'[b].left = batch[b].left - 1 /\ batch'[b].at = "asked"

LEMMA SettleSteps ==
    ASSUME PageIInv, NEW b \in Batches, NEW c \in Batches, NEW s, Settle(b, s)
    PROVE  Steps(c)
<1>1. batch \in [Batches -> Uploads]
  BY DEF PageIInv, PageTypeOK
<1>2. CASE c # b
  BY <1>1, <1>2 DEF Settle, Steps
<1>3. CASE c = b /\ batch[b].left > 0
  BY <1>1, <1>3 DEF Settle, Steps, Uploads
<1>4. CASE c = b /\ ~(batch[b].left > 0)
  BY <1>1, <1>4 DEF Settle, Steps, Uploads, NoBatch
<1> QED  BY <1>2, <1>3, <1>4

LEMMA BatchSteps ==
    ASSUME PageIInv, [PageNext]_vars, NEW c \in Batches
    PROVE  Steps(c)
<1>0. batch \in [Batches -> Uploads]
  BY DEF PageIInv, PageTypeOK
<1>1. CASE UNCHANGED batch
  BY <1>1 DEF Steps
<1>2. CASE Unmount
  BY <1>0, <1>2 DEF Unmount, Steps, Uploads
<1>3. ASSUME NEW b \in Batches, UploadServed(b) PROVE Steps(c)
  BY <1>0, <1>3 DEF UploadServed, Steps, Uploads
<1>4. ASSUME NEW b \in Batches, UploadAnswered(b) \/ UploadFailed(b) PROVE Steps(c)
  BY <1>4, SettleSteps DEF UploadAnswered, UploadFailed
<1>5. ASSUME NEW b \in Batches, NEW n \in 1..MaxClicks, StartUploads(b, n) PROVE Steps(c)
  BY <1>0, <1>5 DEF StartUploads, Steps
<1>6. ASSUME NEW t \in Dirs, Go(t) PROVE Steps(c)
  <2>1. Unmount \/ UNCHANGED batch
    BY <1>6 DEF Go, uploadVars
  <2> QED  BY <1>1, <1>2, <2>1
<1>7. CASE Leave
  BY <1>2, <1>7 DEF Leave
<1>8. CASE \/ Enable \/ Fetch \/ Change \/ Expire \/ Return \/ RefreshClick \/ Cancel
           \/ \E k \in Kinds : Open(k) \/ Submit(k)
           \/ UNCHANGED vars
  <2>1. UNCHANGED batch
    BY <1>8 DEF Enable, Fetch, ListServed, ListDelivered, ListFailed, Change, ChangeServed,
       ChangeAnswered, ChangeFailed, Expire, Return, RefreshClick, Cancel, Open, Submit,
       uploadVars, vars
  <2> QED  BY <1>1, <2>1
<1> QED
  BY <1>3, <1>4, <1>5, <1>6, <1>7, <1>8
     DEF PageNext, Upload, User, Follow, Climb, History, Pages, Pick, Drop

\* An upload of any number of files ends after its last file and not before,
\* whatever became of the others, and in one directory (Files.tsx:104-122).
THEOREM UploadsGoOn == PageSpec => EveryFileTried
<1>1. PageIInv /\ [PageNext]_vars => [\A b \in Batches : Steps(b)]_vars
  BY BatchSteps
<1> QED  BY <1>1, PageInvariant, PTL DEF PageSpec, EveryFileTried, Steps
-----------------------------------------------------------------------------
(***************************************************************************)
(* ShownFresh.                                                             *)
(***************************************************************************)
\* A listing q where the page was told of version t: an answer on its way brings
\* it, and data that is older is being fetched again.
CatchesUp(q, t) ==
    /\ q.fetch = "served" => q.got >= t
    /\ q.has /\ q.ok => q.data >= t \/ q.fetch # "idle"

Fresh ==
    /\ \A d \in Dirs : told[d] <= remote[d]
    /\ \A d \in Dirs : CatchesUp(list[d], told[d])

\* Asking again keeps the promise, and makes a new one.
LEMMA AskedAgain ==
    ASSUME NEW q \in Listing, NEW t \in Nat, CatchesUp(q, t)
    PROVE  CatchesUp(Mount(q), t) /\ CatchesUp(Refetch(q), t)
BY DEF CatchesUp, Mount, Refetch, Listing

LEMMA AskedNow ==
    ASSUME NEW q \in Listing, NEW t \in Nat, q.has \/ q.fetch # "served"
    PROVE  CatchesUp(Refetch(q), t)
BY DEF CatchesUp, Mount, Refetch, Listing

LEMMA UntoldFresh ==
    ASSUME PageIInv, Fresh, NEW d \in Dirs \cup {NoDir}, Refresh(d), UNCHANGED <<remote, told>>
    PROVE  Fresh'
<1>1. list \in [Dirs -> Listing] /\ told \in [Dirs -> Nat]
  BY DEF PageIInv, PageTypeOK
<1>2. \A e \in Dirs : list'[e] \in {list[e], Refetch(list[e])}
  BY <1>1 DEF Refresh
<1> QED  BY <1>1, <1>2, AskedAgain DEF Fresh

\* The page is told of ds and fetches the one of them that it shows.
LEMMA ToldFresh ==
    ASSUME PageIInv, Fresh, NEW d \in Dirs \cup {NoDir}, NEW ds, Refresh(d), UNCHANGED remote,
           Tell(ds), \A e \in ds : Active(e) => Active(d)
    PROVE  Fresh'
<1>0. /\ list \in [Dirs -> Listing] /\ told \in [Dirs -> Nat] /\ remote \in [Dirs -> Nat]
      /\ told' \in [Dirs -> Nat]
  BY TellType DEF PageIInv, PageTypeOK
<1>1. \A e \in Dirs : told'[e] <= remote'[e]
  BY <1>0 DEF Fresh, Tell
<1>2. ASSUME NEW e \in Dirs PROVE CatchesUp(list'[e], told'[e])
  <2>1. list'[e] \in {list[e], Refetch(list[e])} /\ CatchesUp(list[e], told[e])
    BY <1>0 DEF Refresh, Fresh
  <2>2. CASE told'[e] = told[e]
    BY <1>0, <2>1, <2>2, AskedAgain
  <2>3. CASE told'[e] # told[e]
    <3>1. Active(e) /\ Active(d) /\ (list[e].has \/ list[e].fetch # "served")
      BY <1>0, <2>3 DEF Tell
    <3>2. e = d
      BY <3>1 DEF Active
    <3>3. list'[e] = Refetch(list[e])
      BY <1>0, <3>1, <3>2 DEF Refresh
    <3> QED  BY <1>0, <3>1, <3>3, AskedNow
  <2> QED  BY <2>2, <2>3
<1> QED  BY <1>1, <1>2 DEF Fresh

\* Requests that the server carries out make the directories newer.
LEMMA BumpFresh ==
    ASSUME PageIInv, Fresh, NEW ds, remote' = Bump(ds), UNCHANGED <<list, told>>
    PROVE  Fresh'
BY DEF PageIInv, PageTypeOK, Fresh, Bump

LEMMA FetchFresh ==
    ASSUME PageIInv, Fresh, Enable \/ Fetch PROVE Fresh'
<1> USE DEF dialogVars, uploadVars, pageVars
<1>0. list \in [Dirs -> Listing] /\ told \in [Dirs -> Nat] /\ remote \in [Dirs -> Nat]
  BY DEF PageIInv, PageTypeOK
<1>1. CASE Enable
  <2>1. \A d \in Dirs : list'[d] \in {list[d], Mount(list[d])}
    BY <1>0, <1>1 DEF Enable
  <2> QED  BY <1>0, <1>1, <2>1, AskedAgain DEF Enable, Fresh
<1>2. ASSUME NEW d \in Dirs, ListServed(d) PROVE Fresh'
  BY <1>0, <1>2 DEF ListServed, Fresh, CatchesUp, Listing
<1>3. ASSUME NEW d \in Dirs, ListDelivered(d) PROVE Fresh'
  BY <1>0, <1>3 DEF ListDelivered, NoListing, Fresh, CatchesUp, Listing
<1>4. ASSUME NEW d \in Dirs, ListFailed(d) PROVE Fresh'
  BY <1>0, <1>4 DEF ListFailed, NoListing, Fresh, CatchesUp, Listing
<1> QED  BY <1>1, <1>2, <1>3, <1>4 DEF Fetch

LEMMA MoveFresh ==
    ASSUME PageIInv, Fresh, (\E t \in Dirs : Go(t)) \/ Leave PROVE Fresh'
<1>0. list \in [Dirs -> Listing] /\ told \in [Dirs -> Nat] /\ remote \in [Dirs -> Nat]
  BY DEF PageIInv, PageTypeOK
<1>1. ASSUME NEW t \in Dirs, Go(t) PROVE Fresh'
  <2>1. \A d \in Dirs : list'[d] \in {list[d], Mount(list[d])}
    BY <1>0, <1>1 DEF Go
  <2> QED  BY <1>0, <1>1, <2>1, AskedAgain DEF Go, Fresh
<1>2. CASE Leave
  <2>1. CASE UNCHANGED <<list, told>>
    BY <1>2, <2>1 DEF Leave, Fresh
  <2>2. CASE list' = [d \in Dirs |-> NoListing] /\ told' = [d \in Dirs |-> 0]
    BY <1>0, <1>2, <2>2 DEF Leave, Fresh, CatchesUp, NoListing
  <2> QED  BY <1>2, <2>1, <2>2 DEF Leave
<1> QED  BY <1>1, <1>2

LEMMA AnswerFresh ==
    ASSUME PageIInv, Fresh,
           \/ RefreshClick
           \/ \E k \in Kinds : ChangeAnswered(k)
           \/ \E b \in Batches : UploadAnswered(b)
    PROVE  Fresh'
<1>1. CASE RefreshClick
  BY <1>1, ToldFresh DEF RefreshClick, PageIInv, PageTypeOK
<1>2. ASSUME NEW k \in Kinds, ChangeAnswered(k) PROVE Fresh'
  <2>1. change[k].last \in Dirs \cup {NoDir} /\ dir \in Dirs \cup {NoDir}
    BY DEF PageIInv, PageTypeOK, Requests
  <2>2. UNCHANGED remote
    BY <1>2 DEF ChangeAnswered
  <2>3. CASE change[k].seen
    <3>1. Refresh(dir) /\ Tell(change[k].dirs)
      BY <1>2, <2>3 DEF ChangeAnswered
    <3>2. \A e \in change[k].dirs : Active(e) => Active(dir)
      BY DEF Active
    <3> QED  BY <2>1, <2>2, <3>1, <3>2, ToldFresh
  <2>4. CASE ~change[k].seen
    <3>1. Refresh(change[k].last) /\ UNCHANGED told
      BY <1>2, <2>4 DEF ChangeAnswered
    <3> QED  BY <2>1, <2>2, <3>1, UntoldFresh
  <2> QED  BY <2>3, <2>4
<1>3. ASSUME NEW b \in Batches, UploadAnswered(b) PROVE Fresh'
  <2>1. batch[b].to \in Dirs \cup {NoDir}
    BY DEF PageIInv, PageTypeOK, Uploads
  <2>2. Refresh(batch[b].to) /\ UNCHANGED remote /\ (Tell({batch[b].to}) \/ UNCHANGED told)
    BY <1>3 DEF UploadAnswered
  <2> QED  BY <2>1, <2>2, ToldFresh, UntoldFresh
<1> QED  BY <1>1, <1>2, <1>3

LEMMA FreshStep ==
    ASSUME PageIInv, Fresh, [PageNext]_vars PROVE Fresh'
<1> USE DEF dialogVars, uploadVars, pageVars
<1>1. CASE Enable \/ Fetch
  BY <1>1, FetchFresh
<1>2. CASE (\E t \in Dirs : Go(t)) \/ Leave
  BY <1>2, MoveFresh
<1>3. CASE RefreshClick \/ (\E k \in Kinds : ChangeAnswered(k))
           \/ (\E b \in Batches : UploadAnswered(b))
  BY <1>3, AnswerFresh
<1>4. CASE (\E k \in Kinds : ChangeServed(k)) \/ (\E b \in Batches : UploadServed(b))
  BY <1>4, BumpFresh DEF ChangeServed, UploadServed
<1>5. CASE UNCHANGED <<remote, list, told>>
  BY <1>5 DEF Fresh
<1> QED
  BY <1>1, <1>2, <1>3, <1>4, <1>5 DEF PageNext, Change, ChangeFailed, Upload, UploadFailed,
     Expire, User, Follow, Climb, History, Pages, Return, Cancel, Open, Submit, Pick, Drop,
     StartUploads, vars

\* No listing is shown as the end that is older than what the page was told, for
\* any number of directories and changes (Files.tsx:72-86).
THEOREM ShowsNothingStale == PageSpec => []ShownFresh
<1>1. PageInit => Fresh
  BY DEF PageInit, Fresh, CatchesUp, NoListing
<1>2. PageIInv /\ Fresh /\ [PageNext]_vars => Fresh'
  BY FreshStep
<1>3. PageIInv /\ Fresh => ShownFresh
  <2> SUFFICES ASSUME PageIInv, Fresh, NEW d \in Dirs
               PROVE  LET q == list[d]
                      IN  \/ ~q.has \/ ~q.ok
                          \/ q.data >= told[d]
                          \/ q.fetch = "asked"
                          \/ q.fetch = "served" /\ q.got >= told[d]
    BY DEF ShownFresh
  <2> QED  BY DEF PageIInv, PageTypeOK, Fresh, CatchesUp, Listing
<1> QED  BY <1>1, <1>2, <1>3, PageInvariant, PTL DEF PageSpec
-----------------------------------------------------------------------------
(***************************************************************************)
(* PanelTells.                                                             *)
(***************************************************************************)
\* A new item gets an id that no item has.
PanelIInv == PanelTells /\ \A i \in panel : i.id < nextId

\* PanelTells, item by item.
LEMMA PanelParts ==
    ASSUME PageIInv, PanelTells
    PROVE  /\ \A b \in Visible : Item(batch[b].item, "uploading") \in panel
           /\ \A i \in panel : i.state = "uploading" =>
                \E b \in Visible : i = Item(batch[b].item, "uploading")
<1>1. panel \subseteq [id : Nat, state : {"uploading", "done", "error"}]
  BY DEF PageIInv, PageTypeOK
<1>2. \A i \in panel : i = Item(i.id, i.state)
  BY <1>1 DEF Item
<1>3. ASSUME NEW b \in Visible PROVE Item(batch[b].item, "uploading") \in panel
  <2>1. PICK i \in panel : i.state = "uploading" /\ i.id = batch[b].item
    BY DEF PanelTells
  <2> QED  BY <1>2, <2>1
<1>4. ASSUME NEW i \in panel, i.state = "uploading"
      PROVE  \E b \in Visible : i = Item(batch[b].item, "uploading")
  <2>1. PICK b \in Visible : i.id = batch[b].item
    BY <1>4 DEF PanelTells
  <2> QED  BY <1>2, <1>4, <2>1
<1> QED  BY <1>3, <1>4

\* And back, for the panel that a step leaves.
LEMMA PanelWhole ==
    ASSUME \A i, j \in panel' : i.id = j.id => i = j,
           \A b, c \in Visible' : batch'[b].item = batch'[c].item => b = c,
           \A b \in Visible' : Item(batch'[b].item, "uploading") \in panel',
           \A i \in panel' : i.state = "uploading" =>
                \E b \in Visible' : i = Item(batch'[b].item, "uploading"),
           \A i \in panel' : i.id < nextId'
    PROVE  PanelIInv'
<1>1. \A b \in Visible' :
        Item(batch'[b].item, "uploading").id = batch'[b].item
        /\ Item(batch'[b].item, "uploading").state = "uploading"
  BY DEF Item
<1>2. {i.id : i \in {j \in panel' : j.state = "uploading"}} = {batch'[b].item : b \in Visible'}
  BY <1>1
<1> QED  BY <1>2 DEF PanelIInv, PanelTells

LEMMA StartPanel ==
    ASSUME PageIInv, PanelIInv, NEW b \in Batches, NEW n \in 1..MaxClicks, StartUploads(b, n)
    PROVE  PanelIInv'
<1>0. /\ batch \in [Batches -> Uploads] /\ nextId \in Nat
      /\ panel \subseteq [id : Nat, state : {"uploading", "done", "error"}]
  BY DEF PageIInv, PageTypeOK
<1>1. /\ batch'[b].item = nextId /\ batch'[b].seen /\ batch'[b].at = "asked"
      /\ \A c \in Batches \ {b} : batch'[c] = batch[c]
      /\ panel' = panel \cup {Item(nextId, "uploading")} /\ nextId' = nextId + 1
      /\ b \notin Visible
  BY <1>0 DEF StartUploads, Visible
<1>2. Visible' = Visible \cup {b}
  BY <1>0, <1>1 DEF Visible
<1>3. Item(nextId, "uploading").id = nextId /\ \A i \in panel : i.id < nextId /\ i.id \in Nat
  BY <1>0 DEF Item, PanelIInv
<1>4. \A c \in Visible : Item(batch[c].item, "uploading") \in panel /\ batch'[c] = batch[c]
  BY <1>1, PanelParts DEF PanelIInv, Visible
<1>5. \A c \in Visible : batch[c].item < nextId /\ batch[c].item \in Nat
  BY <1>0, <1>3, <1>4 DEF Item, Visible, Uploads
<1>6. \A i, j \in panel' : i.id = j.id => i = j
  BY <1>0, <1>1, <1>3 DEF PanelIInv, PanelTells
<1>7. \A c, d \in Visible' : batch'[c].item = batch'[d].item => c = d
  BY <1>0, <1>1, <1>2, <1>4, <1>5 DEF PanelIInv, PanelTells
<1>8. \A c \in Visible' : Item(batch'[c].item, "uploading") \in panel'
  BY <1>1, <1>2, <1>4
<1>9. \A i \in panel' : i.state = "uploading" =>
        \E c \in Visible' : i = Item(batch'[c].item, "uploading")
  BY <1>1, <1>2, <1>4, PanelParts DEF PanelIInv
<1>10. \A i \in panel' : i.id < nextId'
  BY <1>0, <1>1, <1>3
<1> QED  BY <1>6, <1>7, <1>8, <1>9, <1>10, PanelWhole

LEMMA SettlePanel ==
    ASSUME PageIInv, PanelIInv, NEW b \in Batches, batch[b].at # "idle",
           NEW s \in {"done", "error"}, Settle(b, s)
    PROVE  PanelIInv'
<1>0. /\ batch \in [Batches -> Uploads] /\ nextId \in Nat
      /\ panel \subseteq [id : Nat, state : {"uploading", "done", "error"}]
  BY DEF PageIInv, PageTypeOK
<1>1. \A c \in Batches \ {b} : batch'[c] = batch[c]
  BY <1>0 DEF Settle
<1>2. \A c \in Visible : Item(batch[c].item, "uploading") \in panel
  BY PanelParts DEF PanelIInv
<1>3. \A i \in panel : i.state = "uploading" =>
        \E c \in Visible : i = Item(batch[c].item, "uploading")
  BY PanelParts DEF PanelIInv
<1>4. \A i \in panel : i.id < nextId /\ i.id \in Nat
  BY <1>0 DEF PanelIInv
<1>5. \A i, j \in panel : i.id = j.id => i = j
  BY DEF PanelIInv, PanelTells
<1>6. \A c, d \in Visible : batch[c].item = batch[d].item => c = d
  BY DEF PanelIInv, PanelTells
<1>7. \A x, y : Item(x, y).id = x /\ Item(x, y).state = y
  BY DEF Item
<1>8. CASE ~batch[b].seen
  <2>1. panel' = panel /\ nextId' = nextId /\ ~batch'[b].seen
    BY <1>0, <1>8 DEF Settle, NoBatch, Uploads
  <2>2. Visible' = Visible /\ b \notin Visible
    BY <1>0, <1>1, <1>8, <2>1 DEF Visible
  <2>3. \A c \in Visible : batch'[c] = batch[c]
    BY <1>1, <2>2 DEF Visible
  <2> QED  BY <1>2, <1>3, <1>4, <1>5, <1>6, <2>1, <2>2, <2>3, PanelWhole
<1>9. CASE batch[b].seen
  <2> DEFINE old == Item(batch[b].item, "uploading")
             new == Item(batch[b].item, s)
             next == Item(nextId, "uploading")
             rest == panel \ {old}
  <2>1. b \in Visible /\ old \in panel
    BY <1>2, <1>9 DEF Visible
  <2>2. \A i \in rest : i.id # batch[b].item
    BY <1>5, <1>7, <2>1
  <2>3. batch[b].item < nextId /\ batch[b].item \in Nat
    BY <1>4, <1>7, <2>1
  <2>4. \A c \in Visible \ {b} : Item(batch[c].item, "uploading") \in rest
    BY <1>2, <1>6, <1>7, <2>1
  <2>5. \A i \in rest : i.state = "uploading" =>
          \E c \in Visible \ {b} : i = Item(batch[c].item, "uploading")
    BY <1>3
  <2>6. \A c \in Visible \ {b} : batch'[c] = batch[c] /\ batch[c].item < nextId
    BY <1>1, <1>4, <1>7, <2>4 DEF Visible
  <2>7. CASE batch[b].left > 0
    <3>1. /\ batch'[b].item = nextId /\ batch'[b].seen /\ batch'[b].at = "asked"
          /\ panel' = rest \cup {new, next} /\ nextId' = nextId + 1
      BY <1>0, <1>9, <2>7 DEF Settle, Uploads
    <3>2. Visible' = Visible
      BY <1>0, <1>1, <2>1, <3>1 DEF Visible
    <3>3. \A i, j \in panel' : i.id = j.id => i = j
      BY <1>0, <1>4, <1>5, <1>7, <2>2, <2>3, <3>1
    <3>4. \A c, d \in Visible' : batch'[c].item = batch'[d].item => c = d
      BY <1>0, <1>6, <2>6, <3>1, <3>2
    <3>5. \A c \in Visible' : Item(batch'[c].item, "uploading") \in panel'
      BY <2>4, <2>6, <3>1, <3>2
    <3>6. \A i \in panel' : i.state = "uploading" =>
            \E c \in Visible' : i = Item(batch'[c].item, "uploading")
      BY <1>7, <2>1, <2>5, <2>6, <3>1, <3>2
    <3>7. \A i \in panel' : i.id < nextId'
      BY <1>0, <1>4, <1>7, <2>3, <3>1
    <3> QED  BY <3>3, <3>4, <3>5, <3>6, <3>7, PanelWhole
  <2>8. CASE ~(batch[b].left > 0)
    <3>1. /\ batch'[b] = NoBatch /\ panel' = rest \cup {new} /\ nextId' = nextId
      BY <1>0, <1>9, <2>8 DEF Settle
    <3>2. Visible' = Visible \ {b}
      BY <1>0, <1>1, <3>1 DEF Visible, NoBatch
    <3>3. \A i, j \in panel' : i.id = j.id => i = j
      BY <1>5, <1>7, <2>2, <3>1
    <3>4. \A c, d \in Visible' : batch'[c].item = batch'[d].item => c = d
      BY <1>6, <2>6, <3>2
    <3>5. \A c \in Visible' : Item(batch'[c].item, "uploading") \in panel'
      BY <2>4, <2>6, <3>1, <3>2
    <3>6. \A i \in panel' : i.state = "uploading" =>
            \E c \in Visible' : i = Item(batch'[c].item, "uploading")
      BY <1>7, <2>5, <2>6, <3>1, <3>2
    <3>7. \A i \in panel' : i.id < nextId'
      BY <1>4, <1>7, <2>3, <3>1
    <3> QED  BY <3>3, <3>4, <3>5, <3>6, <3>7, PanelWhole
  <2> QED  BY <2>7, <2>8
<1> QED  BY <1>8, <1>9

\* Steps that are not the panel's.
LEMMA OtherPanel ==
    ASSUME PageIInv, PanelIInv,
           \/ UNCHANGED uploadVars \/ Unmount \/ Expire
           \/ \E b \in Batches : UploadServed(b)
    PROVE  PanelIInv'
<1>0. batch \in [Batches -> Uploads]
  BY DEF PageIInv, PageTypeOK
<1>1. CASE UNCHANGED uploadVars
  BY <1>1 DEF uploadVars, PanelIInv, PanelTells, Visible
<1>2. CASE Unmount
  <2>1. panel' = {} /\ Visible' = {}
    BY <1>0, <1>2 DEF Unmount, Visible, Uploads
  <2> QED  BY <2>1, PanelWhole
<1>3. CASE Expire \/ \E b \in Batches : UploadServed(b)
  <2>1. /\ panel' \subseteq panel /\ nextId' = nextId
        /\ \A i \in panel : i.state = "uploading" => i \in panel'
    BY <1>3 DEF Expire, UploadServed
  <2>2. Visible' = Visible /\ \A c \in Visible : batch'[c].item = batch[c].item
    <3>1. \A c \in Batches : /\ batch'[c].seen = batch[c].seen /\ batch'[c].item = batch[c].item
                             /\ (batch'[c].at # "idle") = (batch[c].at # "idle")
      <4>1. CASE Expire
        BY <4>1 DEF Expire
      <4>2. ASSUME NEW b \in Batches, UploadServed(b), NEW c \in Batches
            PROVE  /\ batch'[c].seen = batch[c].seen /\ batch'[c].item = batch[c].item
                   /\ (batch'[c].at # "idle") = (batch[c].at # "idle")
        BY <1>0, <4>2 DEF UploadServed, Uploads
      <4> QED  BY <1>3, <4>1, <4>2
    <3> QED  BY <3>1 DEF Visible
  <2>3. /\ \A c \in Visible : Item(batch[c].item, "uploading") \in panel
        /\ \A i \in panel : i.state = "uploading" =>
             \E c \in Visible : i = Item(batch[c].item, "uploading")
    BY PanelParts DEF PanelIInv
  <2>4. \A c \in Visible' : Item(batch'[c].item, "uploading") \in panel'
    BY <2>1, <2>2, <2>3 DEF Item
  <2>5. \A c, d \in Visible' : batch'[c].item = batch'[d].item => c = d
    BY <2>2 DEF PanelIInv, PanelTells
  <2> QED  BY <2>1, <2>2, <2>3, <2>4, <2>5, PanelWhole DEF PanelIInv, PanelTells
<1> QED  BY <1>1, <1>2, <1>3

LEMMA PanelStep ==
    ASSUME PageIInv, PanelIInv, [PageNext]_vars PROVE PanelIInv'
<1>1. ASSUME NEW b \in Batches, UploadAnswered(b) \/ UploadFailed(b) PROVE PanelIInv'
  BY <1>1, SettlePanel DEF UploadAnswered, UploadFailed
<1>2. ASSUME NEW b \in Batches, NEW n \in 1..MaxClicks, StartUploads(b, n) PROVE PanelIInv'
  BY <1>2, StartPanel
<1>3. CASE Expire \/ \E b \in Batches : UploadServed(b)
  BY <1>3, OtherPanel
<1>4. CASE (\E t \in Dirs : Go(t)) \/ Leave
  <2>1. Unmount \/ UNCHANGED uploadVars
    BY <1>4 DEF Go, Leave
  <2> QED  BY <2>1, OtherPanel
<1>5. CASE \/ Enable \/ Fetch \/ Change \/ Return \/ RefreshClick \/ Cancel
           \/ \E k \in Kinds : Open(k) \/ Submit(k)
           \/ UNCHANGED vars
  <2>1. UNCHANGED uploadVars
    BY <1>5 DEF Enable, Fetch, ListServed, ListDelivered, ListFailed, Change, ChangeServed,
       ChangeAnswered, ChangeFailed, Return, RefreshClick, Cancel, Open, Submit, uploadVars, vars
  <2> QED  BY <2>1, OtherPanel
<1> QED
  BY <1>1, <1>2, <1>3, <1>4, <1>5
     DEF PageNext, Upload, User, Follow, Climb, History, Pages, Pick, Drop

\* The panel shows each file under way once and nothing else as under way, for any
\* number of uploads side by side (Files.tsx:104-122).
THEOREM PanelTellsUploads == PageSpec => []PanelTells
<1>1. PageInit => PanelIInv
  BY DEF PageInit, PanelIInv, PanelTells, Visible, NoBatch
<1>2. PageIInv /\ PanelIInv /\ [PageNext]_vars => PanelIInv'
  BY PanelStep
<1>3. PanelIInv => PanelTells
  BY DEF PanelIInv
<1> QED  BY <1>1, <1>2, <1>3, PageInvariant, PTL DEF PageSpec
=============================================================================
