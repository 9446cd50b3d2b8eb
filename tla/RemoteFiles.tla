---------------------------- MODULE RemoteFiles ----------------------------
(***************************************************************************)
(* What the /sftp handlers do to the files of an SFTP server, one exchange *)
(* with the server at a time.  A job is one request that has found its     *)
(* connection; Server says how.  A handler takes the connection's lock     *)
(* right before its first exchange and releases it right after the last,   *)
(* so the lock is held exactly at the places Locked.  Other connections,   *)
(* other sessions' or other users', do not wait for it.                    *)
(*                                                                         *)
(* A file is a sequence of blocks, a block is whoever wrote it.            *)
(***************************************************************************)
EXTENDS Integers, Sequences

CONSTANTS
    Jobs,       \* requests; each serves once, which bounds the behaviours
    Conns,      \* connections to the same SFTP server
    NoConn,
    Names,      \* paths on the server
    NoName,
    Files,      \* bound: files the server can hold, named or open
    NoFile,
    MaxUpload,  \* --max-upload-size, in blocks
    MaxSource   \* bound: the longest file a browser sends

ASSUME FilesAssumption ==
    /\ NoConn \notin Conns
    /\ NoName \notin Names
    /\ NoFile \notin Files
    /\ MaxUpload \in Nat
    /\ MaxSource \in Nat
    /\ {"old", "hole"} \cap Jobs = {}
    /\ {"none", "dir", "link"} \cap Files = {}

VARIABLES
    entry,  \* what each name is: nothing, a directory, a dangling link, a file
    data,   \* the blocks of each file
    job     \* what each request is doing

filesVars == <<entry, data, job>>

Blocks == Jobs \cup {"old", "hole"}
Places == {"idle", "copy", "oversize", "parts", "open", "read", "make", "move",
           "unlink", "done"}
Locked == {"copy", "open", "read", "make", "move", "unlink"}
Answers == {"none", "ok", "too_large", "bad_request", "exists", "not_found",
            "is_directory", "cut", "sftp_error"}

\* at: where the handler is.  name: the path it works on; to: a rename's
\* target.  src: the length of the part it uploads.  file, pos: what it has
\* open and how far it got.  size: the length Stat gave a download.  saw: what
\* the download has sent.  stat: what Stat said.  stored: the list "uploaded".
NewJob == [at |-> "idle", conn |-> NoConn, name |-> NoName, to |-> NoName,
           src |-> 0, file |-> NoFile, pos |-> 0, size |-> 0, saw |-> <<>>,
           stat |-> "none", stored |-> {}, answer |-> "none"]

\* Mutant: LimitReader(part, maxUpload).
CutLow(k) == IF k > MaxUpload THEN MaxUpload ELSE k

\* LimitReader(part, maxUpload + 1): how much of a part of k blocks is copied.
Cut(k) == IF k > MaxUpload THEN MaxUpload + 1 ELSE k

JobType ==
    [at : Places, conn : Conns \cup {NoConn}, name : Names \cup {NoName},
     to : Names \cup {NoName}, src : 0..MaxSource, file : Files \cup {NoFile},
     pos : Nat, size : Nat, saw : Seq(Blocks),
     stat : {"none", "missing", "dir", "file", "failed"},
     stored : SUBSET Names, answer : Answers]

\* A request that is at a place has what it needs there.
Placed(r) ==
    /\ r.at # "idle" => r.conn \in Conns
    /\ r.at \in Locked \cup {"oversize"} => r.name \in Names
    /\ r.at = "move" => r.to \in Names
    /\ r.at \in {"copy", "read"} => r.file \in Files
    /\ r.at \in {"copy", "parts"} => r.pos <= Cut(r.src)

FilesTypeOK ==
    /\ entry \in [Names -> Files \cup {"none", "dir", "link"}]
    /\ data \in [Files -> Seq(Blocks)]
    /\ job \in [Jobs -> JobType]
    /\ \A j \in Jobs : Placed(job[j])

\* Each file of before has one name and fits under the cap.
FilesInit ==
    /\ entry \in [Names -> Files \cup {"none", "dir", "link"}]
    /\ \A m, n \in Names : m # n /\ entry[m] \in Files => entry[m] # entry[n]
    /\ data = [f \in Files |->
                 IF \E n \in Names : entry[n] = f THEN [i \in 1..MaxUpload |-> "old"]
                                                  ELSE <<>>]
    /\ job = [j \in Jobs |-> NewJob]

-----------------------------------------------------------------------------
Held(c) == \E j \in Jobs : job[j].conn = c /\ job[j].at \in Locked

\* Mutant: an upload's lock covers Create only.
FreeEarly(c) == ~ \E j \in Jobs : job[j].conn = c /\ job[j].at \in Locked \ {"copy"}

Free(c) == ~Held(c)

Step(j, j2) == job' = [job EXCEPT ![j] = j2]
Answer(j, a) == Step(j, [job[j] EXCEPT !.at = "done", !.answer = a])

\* A request whose first exchange fails: the connection is gone, the server
\* denies it, or it cannot do it.
Refuse(j, c) ==
    Step(j, [NewJob EXCEPT !.at = "done", !.conn = c, !.answer = "sftp_error"])

\* What Stat says of a name: it follows links.  It may also fail.
StatOf(n) ==
    {"failed", CASE entry[n] \in Files -> "file"
                 [] entry[n] = "dir" -> "dir"
                 [] OTHER -> "missing"}

\* writeSFTPErr, for an error that only says what Stat said.
StatAnswer(stat) == IF stat = "missing" THEN "not_found" ELSE "sftp_error"

Open(f) == \E j \in Jobs : job[j].file = f /\ job[j].at \in {"copy", "read"}
Unused == {f \in Files : ~Open(f) /\ \A n \in Names : entry[n] # f}

\* The files Create may open for a name, truncated: the one that is there, a
\* new one, none for a directory.  Servers that follow a dangling link create
\* the file it leads to, at a path outside Names, and the name is then one of
\* that file; the others refuse, as UploadRefused may.
Target(n) ==
    CASE entry[n] \in Files -> {entry[n]}
      [] entry[n] \in {"none", "link"} -> Unused
      [] OTHER -> {}

\* Block i of a file becomes b; what lay beyond the end is a hole.
Put(s, i, b) ==
    [k \in 1..(IF i > Len(s) THEN i ELSE Len(s)) |->
        IF k = i THEN b ELSE IF k > Len(s) THEN "hole" ELSE s[k]]

-----------------------------------------------------------------------------
(***************************************************************************)
(* handleUpload.                                                           *)
(***************************************************************************)
\* The first part with a file, or the next one.  Bound: a request sends a name
\* at most once.
NextPart(j, c, n) ==
    /\ \/ job[j].at = "idle"
       \/ job[j].at = "parts" /\ job[j].conn = c /\ n \notin job[j].stored
    /\ Free(c)

\* Mutant: an existing file is opened without O_TRUNC.
CreateOver(j, c, n, k) ==
    /\ NextPart(j, c, n)
    /\ \E f \in Target(n) :
         /\ entry' = [entry EXCEPT ![n] = f]
         /\ data' = [data EXCEPT ![f] = IF entry[n] = f THEN @ ELSE <<>>]
         /\ Step(j, [NewJob EXCEPT !.at = "copy", !.conn = c, !.name = n, !.src = k,
                                   !.file = f, !.stored = job[j].stored])

\* Client.Create, with the length k of the part it is for.  The file may be
\* created or truncated and the answer lost.
UploadCreate(j, c, n, k) ==
    /\ NextPart(j, c, n)
    /\ \E f \in Target(n) :
         /\ entry' = [entry EXCEPT ![n] = f]
         /\ data' = [data EXCEPT ![f] = <<>>]
         /\ \/ Step(j, [NewJob EXCEPT !.at = "copy", !.conn = c, !.name = n, !.src = k,
                                      !.file = f, !.stored = job[j].stored])
            \/ Refuse(j, c)

UploadRefused(j, c, n) ==
    /\ NextPart(j, c, n)
    /\ Refuse(j, c)
    /\ UNCHANGED <<entry, data>>

\* Mutant: the copy is not limited.
WriteAll(j) ==
    LET f == job[j].file
        i == job[j].pos + 1
    IN  /\ job[j].at = "copy"
        /\ i <= job[j].src
        /\ data' = [data EXCEPT ![f] = Put(@, i, j)]
        /\ Step(j, [job[j] EXCEPT !.pos = i])
        /\ UNCHANGED entry

\* One block of io.Copy.
UploadWrite(j) ==
    LET f == job[j].file
        i == job[j].pos + 1
    IN  /\ job[j].at = "copy"
        /\ i <= Cut(job[j].src)
        /\ data' = [data EXCEPT ![f] = Put(@, i, j)]
        /\ Step(j, [job[j] EXCEPT !.pos = i])
        /\ UNCHANGED entry

\* copyErr: the browser or the SFTP server is gone.  What was written stays.
UploadBreak(j) ==
    /\ job[j].at = "copy"
    /\ Answer(j, "sftp_error")
    /\ UNCHANGED <<entry, data>>

Copied(j) == job[j].at = "copy" /\ job[j].pos = Cut(job[j].src)

\* More than the cap was copied; closeErr is not looked at.
UploadTooLong(j) ==
    /\ Copied(j)
    /\ job[j].pos > MaxUpload
    /\ Step(j, [job[j] EXCEPT !.at = "oversize"])
    /\ UNCHANGED <<entry, data>>

UploadStored(j) ==
    /\ Copied(j)
    /\ job[j].pos <= MaxUpload
    /\ \/ Step(j, [job[j] EXCEPT !.at = "parts", !.stored = @ \cup {job[j].name}])
       \/ Answer(j, "sftp_error")
    /\ UNCHANGED <<entry, data>>

\* The lock is taken once more; an error of Remove is not looked at.
UploadRemove(j) ==
    /\ job[j].at = "oversize"
    /\ Free(job[j].conn)
    /\ entry' \in {entry, [entry EXCEPT ![job[j].name] = "none"]}
    /\ Answer(j, "too_large")
    /\ UNCHANGED data

\* The end of the multipart body, or of what can be read of it.
UploadEnd(j) ==
    /\ job[j].at = "parts"
    /\ Answer(j, "ok") \/ Answer(j, "bad_request")
    /\ UNCHANGED <<entry, data>>

(***************************************************************************)
(* handleDownload.                                                         *)
(***************************************************************************)
Begin(j, c) == job[j].at = "idle" /\ Free(c)

\* Mutant: the lock is taken after Stat.
StatUnlocked(j, c, n) ==
    /\ job[j].at = "idle"
    /\ \E stat \in StatOf(n) :
         Step(j, [NewJob EXCEPT
                   !.conn = c, !.name = n, !.stat = stat,
                   !.at = IF stat = "file" THEN "open" ELSE "done",
                   !.size = IF stat = "file" THEN Len(data[entry[n]]) ELSE 0,
                   !.answer = CASE stat = "file" -> "none"
                                [] stat = "dir" -> "is_directory"
                                [] OTHER -> StatAnswer(stat)])
    /\ UNCHANGED <<entry, data>>

DownloadStat(j, c, n) ==
    /\ Begin(j, c)
    /\ \E stat \in StatOf(n) :
         Step(j, [NewJob EXCEPT
                   !.conn = c, !.name = n, !.stat = stat,
                   !.at = IF stat = "file" THEN "open" ELSE "done",
                   !.size = IF stat = "file" THEN Len(data[entry[n]]) ELSE 0,
                   !.answer = CASE stat = "file" -> "none"
                                [] stat = "dir" -> "is_directory"
                                [] OTHER -> StatAnswer(stat)])
    /\ UNCHANGED <<entry, data>>

DownloadOpen(j) ==
    LET e == entry[job[j].name]
    IN  /\ job[j].at = "open"
        /\ \/ e \in Files /\ Step(j, [job[j] EXCEPT !.at = "read", !.file = e])
           \/ e \in {"none", "link"} /\ Answer(j, "not_found")
           \/ Answer(j, "sftp_error")
        /\ UNCHANGED <<entry, data>>

\* One block of io.Copy to the browser, which takes no more than Content-Length.
DownloadRead(j) ==
    LET i == job[j].pos + 1
    IN  /\ job[j].at = "read"
        /\ i <= Len(data[job[j].file]) /\ i <= job[j].size
        /\ Step(j, [job[j] EXCEPT !.pos = i, !.saw = Append(@, data[job[j].file][i])])
        /\ UNCHANGED <<entry, data>>

\* The end of the file, of what the browser takes, or of either peer.  The
\* browser knows the body is whole by its length only.
DownloadEnd(j) ==
    /\ job[j].at = "read"
    /\ Answer(j, IF job[j].pos = job[j].size THEN "ok" ELSE "cut")
    /\ UNCHANGED <<entry, data>>

(***************************************************************************)
(* handleMkdir, handleRename and handleRemove: a Stat, and after it the    *)
(* change.  An error of the Stat does not stop them, whatever it says.     *)
(***************************************************************************)
\* The first exchange of each: Stat of n decides between "exists" and next.
Check(j, c, n, started) ==
    /\ Begin(j, c)
    /\ \E stat \in StatOf(n) :
         Step(j, IF stat \in {"file", "dir"}
                 THEN [started EXCEPT !.at = "done", !.stat = stat, !.answer = "exists"]
                 ELSE [started EXCEPT !.stat = stat])
    /\ UNCHANGED <<entry, data>>

\* The last exchange, which makes the entries e.  The answer to it may be lost.
Change(j, e) ==
    /\ \/ entry' = e /\ Answer(j, "ok")
       \/ entry' \in {entry, e} /\ Answer(j, "sftp_error")
    /\ UNCHANGED data

MkdirStat(j, c, n) ==
    Check(j, c, n, [NewJob EXCEPT !.at = "make", !.conn = c, !.name = n])

\* SFTP makes no directory over anything.
MkdirMake(j) ==
    LET n == job[j].name
    IN  /\ job[j].at = "make"
        /\ Change(j, [entry EXCEPT ![n] = IF @ = "none" THEN "dir" ELSE @])

\* Mutant: nothing looks whether the target is there.
RenameUnchecked(j, c, n, m) ==
    /\ Begin(j, c)
    /\ Step(j, [NewJob EXCEPT !.at = "move", !.conn = c, !.name = n, !.to = m,
                              !.stat = "missing"])
    /\ UNCHANGED <<entry, data>>

RenameStat(j, c, n, m) ==
    Check(j, c, m, [NewJob EXCEPT !.at = "move", !.conn = c, !.name = n, !.to = m])

\* Some servers refuse to rename over a file, some replace it.
RenameMove(j) ==
    LET n == job[j].name
        m == job[j].to
    IN  /\ job[j].at = "move"
        /\ \/ /\ entry[n] # "none" /\ entry[m] # "dir"
              /\ Change(j, [entry EXCEPT ![n] = "none", ![m] = entry[n]])
           \/ /\ Answer(j, IF entry[n] = "none" THEN "not_found" ELSE "sftp_error")
              /\ UNCHANGED <<entry, data>>

RemoveStat(j, c, n) ==
    /\ Begin(j, c)
    /\ \E stat \in StatOf(n) :
         Step(j, [NewJob EXCEPT !.at = "unlink", !.conn = c, !.name = n, !.stat = stat])
    /\ UNCHANGED <<entry, data>>

\* RemoveDirectory takes a directory, Remove anything.  If Stat failed, its
\* error is the answer; if it did not and the name is gone by now, "not found".
RemoveUnlink(j) ==
    LET n == job[j].name
        e == [entry EXCEPT ![n] = "none"]
        stat == job[j].stat
        fits == entry[n] # "none" /\ (stat = "dir" => entry[n] = "dir")
    IN  /\ job[j].at = "unlink"
        /\ \/ /\ fits
              /\ entry' = e
              /\ \/ stat \in {"file", "dir"} /\ Answer(j, "ok")
                 \/ Answer(j, StatAnswer(stat))
           \/ Answer(j, StatAnswer(stat)) /\ UNCHANGED entry
           \/ /\ entry[n] = "none" /\ stat \in {"file", "dir"}
              /\ Answer(j, "not_found")
              /\ UNCHANGED entry
        /\ UNCHANGED data

-----------------------------------------------------------------------------
JobStep(j) ==
    \/ \E c \in Conns, n \in Names :
         \/ \E k \in 0..MaxSource : UploadCreate(j, c, n, k)
         \/ UploadRefused(j, c, n)
         \/ DownloadStat(j, c, n)
         \/ MkdirStat(j, c, n)
         \/ \E m \in Names : RenameStat(j, c, n, m)
         \/ RemoveStat(j, c, n)
    \/ UploadWrite(j)
    \/ UploadBreak(j)
    \/ UploadTooLong(j)
    \/ UploadStored(j)
    \/ UploadRemove(j)
    \/ UploadEnd(j)
    \/ DownloadOpen(j)
    \/ DownloadRead(j)
    \/ DownloadEnd(j)
    \/ MkdirMake(j)
    \/ RenameMove(j)
    \/ RemoveUnlink(j)

AllServed == (\A j \in Jobs : job[j].at = "done") /\ UNCHANGED filesVars

FilesNext == AllServed \/ \E j \in Jobs : JobStep(j)

FilesSpec == FilesInit /\ [][FilesNext]_filesVars

-----------------------------------------------------------------------------
\* Every request so far came over one connection: the session is the only one
\* at work on the files.
Solo == \A i, j \in Jobs :
          job[i].at # "idle" /\ job[j].at # "idle" => job[i].conn = job[j].conn

Authors(f) == {data[f][b] : b \in 1..Len(data[f])} \cap Jobs

\* Blocks of two uploads only mix in a file when they came over different
\* connections: one connection's lock is held from Create to Close.
UploadsApart ==
    \A f \in Files : \A i, j \in Authors(f) : i # j => job[i].conn # job[j].conn

\* A session alone on the server finds under the name exactly what its upload
\* has sent so far: nothing is left of an older or longer file.
UploadExact ==
    \A j \in Jobs : Solo /\ job[j].at = "copy" =>
        /\ entry[job[j].name] = job[j].file
        /\ data[job[j].file] = [i \in 1..job[j].pos |-> j]

\* Its download sends the file it opened, and Content-Length, which Stat gave
\* before the Open, is that file's length.
DownloadExact ==
    \A j \in Jobs : Solo /\ job[j].at = "read" =>
        LET s == data[job[j].file]
        IN  job[j].size = Len(s) /\ job[j].saw = SubSeq(s, 1, job[j].pos)

\* The cap is met to the block: a part is stored exactly if it was copied whole
\* and fits; longer ones are answered too_large, and what is in a file beyond
\* the cap belongs to an upload that is not answered as stored.
CapExact ==
    /\ \A j \in Jobs :
         /\ job[j].at = "parts" => job[j].pos = job[j].src /\ job[j].src <= MaxUpload
         /\ job[j].answer = "too_large" => job[j].src > MaxUpload
    /\ \A f \in Files :
         Len(data[f]) > MaxUpload =>
           LET j == data[f][MaxUpload + 1]
           IN  j \in Jobs /\ (job[j].at \in {"copy", "oversize"}
                                \/ job[j].answer \in {"too_large", "sftp_error"})

Named(f) == \E n \in Names : entry[n] = f

\* While one session is alone on the server, a file only goes because someone
\* asked to remove it, because an upload of its name was too large, or because
\* a rename could not find out that its target was there.
FilesKept ==
    [][\A f \in Files : Solo /\ Named(f) /\ ~Named(f)' =>
         \E j \in Jobs :
            /\ job'[j].at = "done"
            /\ \/ job[j].at = "unlink" /\ entry[job[j].name] = f
               \/ job[j].at = "oversize" /\ entry[job[j].name] = f
               \/ job[j].at = "move" /\ entry[job[j].to] = f /\ job[j].stat = "failed"]_filesVars

\* A remove that is answered "no such file or directory" (errors.go:43) has
\* deleted nothing.  The code deletes a dangling link and gives that answer.
RemoveTold ==
    [][\A j \in Jobs :
         job[j].at = "unlink" /\ job'[j].answer = "not_found" => entry' = entry]_filesVars
=============================================================================
