----------------------------- MODULE FilesPage -----------------------------
(***************************************************************************)
(* The page /files of the browser client: the listing of a directory in    *)
(* the query cache, the changes made through its dialogs, and uploads.     *)
(* Every one of them is a request that the server serves at one moment and *)
(* the page hears of at a later one, when the user may have moved on to    *)
(* another directory, changed something else, or left the page.            *)
(*                                                                         *)
(* What a directory contains is a version, one more with every change.     *)
(***************************************************************************)
EXTENDS Integers, FiniteSets

CONSTANTS
    Dirs,       \* paths of directories
    Lands,      \* the directory whose page a link to each of them opens
    NoDir,      \* ... or that it opens none, and no directory in general
    Batches,    \* bound: uploads at a time
    MaxClicks,  \* bound: changes, files and refreshes asked for
    MaxMoves    \* bound: moves to another directory or page

ASSUME PageAssumption ==
    /\ Lands \in [Dirs -> Dirs \cup {NoDir}]
    /\ NoDir \notin Dirs
    /\ MaxClicks \in Nat
    /\ MaxMoves \in Nat

VARIABLES
    remote,   \* on the server: the version of each directory
    shown,    \* whether the page is mounted; a page can be broken
    dir,      \* the directory in the route
    enabled,  \* the status says that there is a connection
    list,     \* the query cache: the listing of each directory
    dialog,   \* the dialog that is open, and where its entry is
    change,   \* mkdir, rename and remove: the request under way
    batch,    \* each call of startUploads
    panel,    \* the items of the upload panel
    nextId,   \* uploadId
    told,     \* history: the version each listing shown has to catch up with
    clicks,   \* how much was asked for, up to MaxClicks
    moves     \* how often the user moved, up to MaxMoves

pageVars == <<shown, dir, enabled>>
dialogVars == <<dialog, change>>
uploadVars == <<batch, panel, nextId>>
vars == <<remote, pageVars, list, told, dialogVars, uploadVars, clicks, moves>>

Kinds == {"mkdir", "rename", "remove"}
Pages == {d \in Dirs : \E t \in Dirs : Lands[t] = d}

\* A query: the version in data, whether the last fetch succeeded, the fetch
\* under way and, once it is served, the version it brings.
Listing == [has : BOOLEAN, data : Nat, ok : BOOLEAN,
            fetch : {"idle", "asked", "served"}, got : Nat]
NoListing == [has |-> FALSE, data |-> 0, ok |-> FALSE, fetch |-> "idle", got |-> 0]

\* A request of a dialog: the directories it is about, whether the page that
\* sent it is still mounted, and the directory that page showed last if not.
Requests == [at : {"idle", "asked", "served"}, dirs : SUBSET Dirs,
             seen : BOOLEAN, last : Dirs \cup {NoDir}]

\* An upload: the directory, the files after the present one, the present one's
\* item in the panel, and whether the panel it belongs to is still there.
Uploads == [at : {"idle", "asked", "served"}, to : Dirs \cup {NoDir}, left : Nat,
            item : Nat, seen : BOOLEAN]

NoDialog == [kind |-> "none", of |-> NoDir]
NoRequest == [at |-> "idle", dirs |-> {}, seen |-> FALSE, last |-> NoDir]
NoBatch == [at |-> "idle", to |-> NoDir, left |-> 0, item |-> 0, seen |-> FALSE]

\* The types; an open dialog and a panel need the page.
PageTypeOK ==
    /\ remote \in [Dirs -> Nat]
    /\ shown \in {"files", "away", "broken"}
    /\ dir \in Dirs \cup {NoDir}
    /\ enabled \in BOOLEAN
    /\ list \in [Dirs -> Listing]
    /\ dialog \in [kind : Kinds \cup {"none"}, of : Dirs \cup {NoDir}]
    /\ change \in [Kinds -> Requests]
    /\ batch \in [Batches -> Uploads]
    /\ panel \subseteq [id : Nat, state : {"uploading", "done", "error"}]
    /\ nextId \in Nat
    /\ told \in [Dirs -> Nat]
    /\ clicks \in 0..MaxClicks
    /\ moves \in 0..MaxMoves
    /\ shown # "files" => dialog.kind = "none" /\ panel = {}

-----------------------------------------------------------------------------
(***************************************************************************)
(* The query of a directory's listing.                                     *)
(***************************************************************************)
Active(d) == shown = "files" /\ enabled /\ dir = d

\* A query that gets its first observer: nothing is ever fresh enough, but a
\* fetch that is under way is shared.
Mount(q) == IF q.fetch = "idle" THEN [q EXCEPT !.fetch = "asked"] ELSE q

\* Mutant: a fetch under way is always shared.
RefetchShared(q) == Mount(q)

\* invalidateQueries fetches what is being looked at.  A fetch under way is
\* given up for it, unless it is the first.
Refetch(q) == IF q.has THEN [q EXCEPT !.fetch = "asked", !.got = 0] ELSE Mount(q)

\* refresh() for directory d.
Refresh(d) ==
    list' = IF Active(d) THEN [list EXCEPT ![d] = Refetch(@)] ELSE list

\* The page is told that the directories ds have changed.  The listing it shows
\* is to catch up, unless its first fetch is under way and already served.
Tell(ds) ==
    told' = [d \in Dirs |->
        IF d \in ds /\ Active(d) /\ (list[d].has \/ list[d].fetch # "served")
        THEN remote[d] ELSE told[d]]

Bump(ds) == [d \in Dirs |-> IF d \in ds THEN remote[d] + 1 ELSE remote[d]]

PageInit ==
    /\ remote = [d \in Dirs |-> 0]
    /\ shown = "files"
    /\ dir \in Pages
    /\ enabled = FALSE
    /\ list = [d \in Dirs |-> NoListing]
    /\ dialog = NoDialog
    /\ change = [k \in Kinds |-> NoRequest]
    /\ batch = [b \in Batches |-> NoBatch]
    /\ panel = {}
    /\ nextId = 0
    /\ told = [d \in Dirs |-> 0]
    /\ clicks = 0
    /\ moves = 0

Count(n) == clicks + n <= MaxClicks /\ clicks' = clicks + n /\ UNCHANGED moves
CountMove == moves < MaxMoves /\ moves' = moves + 1 /\ UNCHANGED clicks
Uncounted == UNCHANGED <<clicks, moves>>

\* The status arrives, and with it the query is enabled.
Enable ==
    /\ shown = "files" /\ ~enabled
    /\ enabled' = TRUE
    /\ list' = [list EXCEPT ![dir] = Mount(@)]
    /\ Uncounted
    /\ UNCHANGED <<remote, shown, dir, told, dialogVars, uploadVars>>

ListServed(d) ==
    /\ list[d].fetch = "asked"
    /\ list' = [list EXCEPT ![d].fetch = "served", ![d].got = remote[d]]
    /\ Uncounted
    /\ UNCHANGED <<remote, pageVars, told, dialogVars, uploadVars>>

ListDelivered(d) ==
    /\ list[d].fetch = "served"
    /\ list' = [list EXCEPT ![d] =
         [NoListing EXCEPT !.has = TRUE, !.data = list[d].got, !.ok = TRUE]]
    /\ Uncounted
    /\ UNCHANGED <<remote, pageVars, told, dialogVars, uploadVars>>

\* An error, before the server did anything or after.  The page shows it instead
\* of the data of the last fetch that succeeded, which nothing shows again.
ListFailed(d) ==
    /\ list[d].fetch # "idle"
    /\ list' = [list EXCEPT ![d] = [NoListing EXCEPT !.has = list[d].has]]
    /\ Uncounted
    /\ UNCHANGED <<remote, pageVars, told, dialogVars, uploadVars>>

(***************************************************************************)
(* Moving between directories, leaving the page and coming back.           *)
(***************************************************************************)
\* Mutant: the panel outlives the page.
UnmountPanel ==
    /\ dialog' = NoDialog
    /\ change' = [k \in Kinds |->
         IF change[k].seen THEN [change[k] EXCEPT !.seen = FALSE, !.last = dir] ELSE change[k]]
    /\ UNCHANGED uploadVars

\* What dies with the page: its dialogs and its panel.  Requests and uploads
\* go on unseen.
Unmount ==
    /\ dialog' = NoDialog
    /\ change' = [k \in Kinds |->
         IF change[k].seen THEN [change[k] EXCEPT !.seen = FALSE, !.last = dir] ELSE change[k]]
    /\ panel' = {}
    /\ nextId' = 0
    /\ batch' = [b \in Batches |-> [batch[b] EXCEPT !.seen = FALSE, !.item = 0]]

\* The path goes into the URL as it is, and decodeURIComponent reads what the
\* URL kept of it: it throws at a single percent sign, and a question mark or a
\* hash has ended the path before.
Go(t) ==
    LET d == Lands[t]
    IN  /\ CountMove
        /\ shown = "files" /\ d # dir
        /\ \/ /\ d = NoDir
              /\ shown' = "broken"
              /\ dir' = NoDir
              /\ enabled' = FALSE
              /\ Unmount
              /\ UNCHANGED list
           \/ /\ d # NoDir
              /\ dir' = d
              /\ list' = IF enabled THEN [list EXCEPT ![d] = Mount(@)] ELSE list
              /\ UNCHANGED <<shown, enabled, dialogVars, uploadVars>>
        /\ UNCHANGED <<remote, told>>

\* A link in the rows of the listing.
Follow(t) == shown = "files" /\ dialog.kind = "none" /\ list[dir].ok /\ Go(t)

\* A link of the breadcrumbs, which are there without a listing.  (Which of the
\* directories are above the one shown is left open.)
Climb(t) == dialog.kind = "none" /\ Go(t)

\* Back and Forward, which an open dialog does not stop.
History(t) == t \in Pages /\ Go(t)

\* The status says that the connection is gone, or the user has disconnected,
\* which clears the cache.
Leave ==
    /\ CountMove
    /\ shown = "files"
    /\ shown' = "away"
    /\ dir' = NoDir
    /\ enabled' = FALSE
    /\ Unmount
    /\ \/ UNCHANGED <<list, told>>
       \/ /\ list' = [d \in Dirs |-> NoListing]
          /\ told' = [d \in Dirs |-> 0]
    /\ UNCHANGED remote

\* When the status is in the cache, Enable follows at once.
Return ==
    /\ shown = "away"
    /\ shown' = "files"
    /\ dir' \in Pages
    /\ Uncounted
    /\ UNCHANGED <<remote, enabled, list, told, dialogVars, uploadVars>>

\* The button of the toolbar, and Try again under an error.
RefreshClick ==
    /\ Count(1)
    /\ shown = "files"
    /\ dialog.kind = "none"
    /\ Refresh(dir)
    /\ Tell({dir})
    /\ UNCHANGED <<remote, pageVars, dialogVars, uploadVars>>

(***************************************************************************)
(* The dialogs.  Each is modal, so one is open at a time.                  *)
(***************************************************************************)
\* Rename and delete are in the menu of an entry of the listing.  (Bound: a
\* dialog is not opened when its request could not be sent.)
Open(k) ==
    /\ clicks < MaxClicks
    /\ shown = "files"
    /\ dialog.kind = "none"
    /\ k # "mkdir" => list[dir].ok
    /\ dialog' = [kind |-> k, of |-> IF k = "mkdir" THEN NoDir ELSE dir]
    /\ Uncounted
    /\ UNCHANGED <<remote, pageVars, list, told, change, uploadVars>>

Cancel ==
    /\ dialog.kind # "none"
    /\ dialog' = NoDialog
    /\ Uncounted
    /\ UNCHANGED <<remote, pageVars, list, told, change, uploadVars>>

\* The directories a request may be about.  The entry's path is that of when the
\* dialog was opened; the typed name is joined to the directory shown now, and as
\* nobody checks it, with a slash or ".." in it it leads to any other.  (One that
\* has no page is left out: nothing of it is ever shown.)
Concerns(k) ==
    CASE k = "mkdir" -> {{d} : d \in Pages}
      [] k = "rename" -> {{dialog.of, d} : d \in Pages}
      [] k = "remove" -> {{dialog.of}}

\* The button is disabled while a request of its kind is pending.  (Bound: also
\* when that one was sent by a page that is gone.)
Submit(k) ==
    /\ Count(1)
    /\ dialog.kind = k
    /\ change[k].at = "idle"
    /\ \E ds \in Concerns(k) :
         change' = [change EXCEPT ![k] =
           [at |-> "asked", dirs |-> ds, seen |-> TRUE, last |-> NoDir]]
    /\ UNCHANGED <<remote, pageVars, list, told, dialog, uploadVars>>

ChangeServed(k) ==
    /\ change[k].at = "asked"
    /\ remote' = Bump(change[k].dirs)
    /\ change' = [change EXCEPT ![k].at = "served"]
    /\ Uncounted
    /\ UNCHANGED <<pageVars, list, told, dialog, uploadVars>>

\* onSuccess closes the dialog of its kind, whichever entry it is open for by
\* now, and refreshes the directory shown by now, or when the page was left.
ChangeAnswered(k) ==
    LET c == change[k]
    IN  /\ c.at = "served"
        /\ change' = [change EXCEPT ![k] = NoRequest]
        /\ dialog' = IF c.seen /\ dialog.kind = k THEN NoDialog ELSE dialog
        /\ Refresh(IF c.seen THEN dir ELSE c.last)
        /\ IF c.seen THEN Tell(c.dirs) ELSE UNCHANGED told
        /\ Uncounted
        /\ UNCHANGED <<remote, pageVars, uploadVars>>

\* onError, whether the server did it or not: the dialog stays open.
ChangeFailed(k) ==
    /\ change[k].at # "idle"
    /\ change' = [change EXCEPT ![k] = NoRequest]
    /\ Uncounted
    /\ UNCHANGED <<remote, pageVars, list, told, dialog, uploadVars>>

(***************************************************************************)
(* Uploads.  The files of one call go one after another, into the          *)
(* directory shown when they were chosen; calls run side by side.          *)
(***************************************************************************)
\* A line of the upload panel.
Item(id, s) == [id |-> id, state |-> s]

\* Mutant: an item's id is its place in the panel.
StartCounting(b, n) ==
    /\ Count(n)
    /\ batch[b].at = "idle"
    /\ batch' = [batch EXCEPT ![b] =
         [at |-> "asked", to |-> dir, left |-> n - 1, item |-> Cardinality(panel), seen |-> TRUE]]
    /\ panel' = panel \cup {Item(Cardinality(panel), "uploading")}
    /\ nextId' = nextId + 1
    /\ UNCHANGED <<remote, pageVars, list, told, dialogVars>>

\* Of n files, the first.
StartUploads(b, n) ==
    /\ Count(n)
    /\ batch[b].at = "idle"
    /\ batch' = [batch EXCEPT ![b] =
         [at |-> "asked", to |-> dir, left |-> n - 1, item |-> nextId, seen |-> TRUE]]
    /\ panel' = panel \cup {Item(nextId, "uploading")}
    /\ nextId' = nextId + 1
    /\ UNCHANGED <<remote, pageVars, list, told, dialogVars>>

Pick(b, n) == shown = "files" /\ dialog.kind = "none" /\ StartUploads(b, n)

\* A dialog does not stop this one: what is dropped on it bubbles to the page.
Drop(b, n) == shown = "files" /\ StartUploads(b, n)

UploadServed(b) ==
    /\ batch[b].at = "asked"
    /\ remote' = Bump({batch[b].to})
    /\ batch' = [batch EXCEPT ![b].at = "served"]
    /\ Uncounted
    /\ UNCHANGED <<pageVars, list, told, dialogVars, panel, nextId>>

\* Mutant: an error ends the upload.
SettleOrStop(b, s) ==
    LET r == batch[b]
        more == r.left > 0 /\ s = "done"
        patched == IF r.seen THEN (panel \ {Item(r.item, "uploading")}) \cup {Item(r.item, s)}
                   ELSE panel
    IN  /\ batch' = [batch EXCEPT ![b] =
             IF more
             THEN [r EXCEPT !.at = "asked", !.left = @ - 1, !.item = IF r.seen THEN nextId ELSE @]
             ELSE NoBatch]
        /\ panel' = IF more /\ r.seen THEN patched \cup {Item(nextId, "uploading")} ELSE patched
        /\ nextId' = IF more /\ r.seen THEN nextId + 1 ELSE nextId

\* The answer is patched into the item, if its panel is still there, and the
\* loop goes on with the next file.
Settle(b, s) ==
    LET r == batch[b]
        more == r.left > 0
        patched == IF r.seen THEN (panel \ {Item(r.item, "uploading")}) \cup {Item(r.item, s)}
                   ELSE panel
    IN  /\ batch' = [batch EXCEPT ![b] =
             IF more
             THEN [r EXCEPT !.at = "asked", !.left = @ - 1, !.item = IF r.seen THEN nextId ELSE @]
             ELSE NoBatch]
        /\ panel' = IF more /\ r.seen THEN patched \cup {Item(nextId, "uploading")} ELSE patched
        /\ nextId' = IF more /\ r.seen THEN nextId + 1 ELSE nextId

UploadAnswered(b) ==
    /\ batch[b].at = "served"
    /\ Settle(b, "done")
    /\ Refresh(batch[b].to)
    /\ IF batch[b].seen THEN Tell({batch[b].to}) ELSE UNCHANGED told
    /\ Uncounted
    /\ UNCHANGED <<remote, pageVars, dialogVars>>

UploadFailed(b) ==
    /\ batch[b].at # "idle"
    /\ Settle(b, "error")
    /\ Uncounted
    /\ UNCHANGED <<remote, pageVars, list, told, dialogVars>>

\* The timer of an item that is done.
Expire ==
    /\ \E i \in panel : i.state = "done" /\ panel' = panel \ {i}
    /\ Uncounted
    /\ UNCHANGED <<remote, pageVars, list, told, dialogVars, batch, nextId>>

-----------------------------------------------------------------------------
Fetch == \E d \in Dirs : ListServed(d) \/ ListDelivered(d) \/ ListFailed(d)
Change == \E k \in Kinds : ChangeServed(k) \/ ChangeAnswered(k) \/ ChangeFailed(k)
Upload == \E b \in Batches : UploadServed(b) \/ UploadAnswered(b) \/ UploadFailed(b)

User ==
    \/ \E t \in Dirs : Follow(t) \/ Climb(t) \/ History(t)
    \/ Leave \/ Return \/ RefreshClick \/ Cancel
    \/ \E k \in Kinds : Open(k) \/ Submit(k)
    \/ \E b \in Batches, n \in 1..MaxClicks : Pick(b, n) \/ Drop(b, n)

PageNext == Enable \/ Fetch \/ Change \/ Upload \/ Expire \/ User

PageSpec == PageInit /\ [][PageNext]_vars

-----------------------------------------------------------------------------
\* Once the page was told of a change to the directory it shows, or was asked to
\* refresh it, the listing is as new as that, or a fetch that will be is under
\* way, or the page shows an error: no answer from before is shown as the end.
ShownFresh ==
    \A d \in Dirs :
      LET q == list[d]
      IN  \/ ~q.has \/ ~q.ok
          \/ q.data >= told[d]
          \/ q.fetch = "asked"
          \/ q.fetch = "served" /\ q.got >= told[d]

Visible == {b \in Batches : batch[b].seen /\ batch[b].at # "idle"}

\* The panel shows each file under way once, and nothing else as under way, also
\* when several uploads run and items of others come and go.
PanelTells ==
    /\ \A i, j \in panel : i.id = j.id => i = j
    /\ \A b, c \in Visible : batch[b].item = batch[c].item => b = c
    /\ {i.id : i \in {j \in panel : j.state = "uploading"}} = {batch[b].item : b \in Visible}

\* No file of an upload is skipped and none strays, whatever becomes of those
\* before it and of the page: an upload goes file by file, in one directory, and
\* ends after its last.
EveryFileTried ==
    [][\A b \in Batches :
         batch[b].at # "idle" =>
           \/ batch'[b].at = "idle" /\ batch[b].left = 0
           \/ /\ batch'[b].at # "idle"
              /\ batch'[b].to = batch[b].to
              /\ \/ batch'[b].left = batch[b].left
                 \/ batch'[b].left = batch[b].left - 1 /\ batch'[b].at = "asked"]_vars
=============================================================================
