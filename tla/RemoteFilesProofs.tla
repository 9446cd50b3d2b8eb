------------------------- MODULE RemoteFilesProofs -------------------------
(***************************************************************************)
(* RemoteFiles for any number of requests, connections, names and files.   *)
(*                                                                         *)
(* FilesInv adds to the types that one request at a time is in a locked    *)
(* place of a connection (LockAlone), that only started requests have      *)
(* written (Started), and that an upload's file has no block of another    *)
(* request of its connection (OwnFile): UploadsApart follows, because a    *)
(* request that comes later truncates the file first.                      *)
(*                                                                         *)
(* ExactInv adds what a session that is alone on the server relies on: the *)
(* other requests wait for the lock (Quiet), so what a transfer saw holds. *)
(* MoveExact is the same for a rename, and CapIInv says which request may  *)
(* have written beyond the cap.                                            *)
(***************************************************************************)
EXTENDS RemoteFiles, TLAPS

LockAlone ==
    \A i, j \in Jobs :
      /\ job[i].at \in Locked
      /\ job[j].at \in Locked
      /\ job[i].conn = job[j].conn
      => i = j

Started == \A f \in Files : \A i \in Authors(f) : job[i].at # "idle"

OwnFile ==
    \A j \in Jobs : job[j].at = "copy" =>
      \A i \in Authors(job[j].file) : job[i].conn = job[j].conn => i = j

\* The steps that end in the middle of a transfer.
Transfer(j) ==
    \/ \E c \in Conns, n \in Names, k \in 0..MaxSource : UploadCreate(j, c, n, k)
    \/ UploadWrite(j)
    \/ \E c \in Conns, n \in Names : DownloadStat(j, c, n)
    \/ DownloadOpen(j)
    \/ DownloadRead(j)

\* What Stat told a download still holds when it opens the file.
OpenExact ==
    \A j \in Jobs : Solo /\ job[j].at = "open" =>
      LET e == entry[job[j].name]
      IN  /\ e \in Files /\ job[j].size = Len(data[e])
          /\ job[j].pos = 0 /\ job[j].saw = <<>>

FilesInv == FilesTypeOK /\ LockAlone /\ Started /\ OwnFile /\ UploadsApart

ExactInv == FilesInv /\ OpenExact /\ DownloadExact /\ UploadExact

-----------------------------------------------------------------------------
\* What Put returns: a sequence that differs from s in block i and in the hole
\* before it.
LEMMA PutBlocks ==
    ASSUME NEW s \in Seq(Blocks), NEW i \in Nat \ {0}, NEW b \in Blocks
    PROVE  /\ Put(s, i, b) \in Seq(Blocks)
           /\ Len(Put(s, i, b)) = IF i > Len(s) THEN i ELSE Len(s)
           /\ \A k \in 1..Len(Put(s, i, b)) :
                Put(s, i, b)[k] = IF k = i THEN b ELSE IF k > Len(s) THEN "hole" ELSE s[k]
<1> DEFINE n == IF i > Len(s) THEN i ELSE Len(s)
           v(k) == IF k = i THEN b ELSE IF k > Len(s) THEN "hole" ELSE s[k]
<1>1. n \in Nat /\ \A k \in 1..n : v(k) \in Blocks
  BY DEF Blocks
<1>2. Put(s, i, b) = [k \in 1..n |-> v(k)]
  BY DEF Put
<1> HIDE DEF n, v
<1>3. Put(s, i, b) \in Seq(Blocks) /\ Len(Put(s, i, b)) = n
  BY <1>1, <1>2
<1> QED
  BY <1>2, <1>3 DEF n, v

\* The record of a request that has done nothing is of the type.
LEMMA NewJobType ==
    NewJob \in JobType
<1>1. <<>> \in Seq(Blocks)
  OBVIOUS
<1> QED
  BY <1>1, FilesAssumption DEF NewJob, JobType, Places, Answers, FilesAssumption

\* Records of the type stay so when a request is answered or learns what Stat said.
LEMMA JobUpdates ==
    ASSUME NEW q \in JobType
    PROVE  /\ \A c \in Conns :
                [q EXCEPT !.at = "done", !.conn = c, !.answer = "sftp_error"] \in JobType
           /\ \A stat \in {"missing", "dir", "file", "failed"} :
                /\ [q EXCEPT !.at = "done", !.stat = stat, !.answer = "exists"] \in JobType
                /\ [q EXCEPT !.stat = stat] \in JobType
<1>1. \A p \in JobType, at \in Places : [p EXCEPT !.at = at] \in JobType
  BY DEF JobType
<1>2. \A p \in JobType, c \in Conns : [p EXCEPT !.conn = c] \in JobType
  BY DEF JobType
<1>3. \A p \in JobType, stat \in {"missing", "dir", "file", "failed"} :
        [p EXCEPT !.stat = stat] \in JobType
  BY DEF JobType
<1>4. \A p \in JobType, a \in Answers : [p EXCEPT !.answer = a] \in JobType
  BY DEF JobType
<1>5. "done" \in Places /\ {"exists", "sftp_error"} \subseteq Answers
  BY DEF Places, Answers
<1> QED
  BY <1>1, <1>2, <1>3, <1>4, <1>5

\* A step of a request changes that request's record only, and keeps the types.
LEMMA JobMoves ==
    ASSUME FilesAssumption, FilesTypeOK, NEW j \in Jobs, JobStep(j)
    PROVE  /\ job' = [job EXCEPT ![j] = job'[j]]
           /\ job'[j] \in JobType /\ Placed(job'[j])
           /\ entry' \in [Names -> Files \cup {"none", "dir", "link"}]
           /\ data' \in [Files -> Seq(Blocks)]
<1> DEFINE Goal == /\ job' = [job EXCEPT ![j] = job'[j]]
                   /\ job'[j] \in JobType /\ Placed(job'[j])
                   /\ entry' \in [Names -> Files \cup {"none", "dir", "link"}]
                   /\ data' \in [Files -> Seq(Blocks)]
<1> USE DEF FilesAssumption, FilesTypeOK
<1>0. job[j] \in JobType /\ Placed(job[j]) /\ j \in Blocks
  BY DEF Blocks
<1>a. ASSUME NEW r \in JobType, Placed(r), Step(j, r)
      PROVE  job' = [job EXCEPT ![j] = job'[j]] /\ job'[j] \in JobType /\ Placed(job'[j])
  BY <1>a DEF Step
<1>b. ASSUME NEW a \in Answers, Answer(j, a), job[j].at # "idle"
      PROVE  job' = [job EXCEPT ![j] = job'[j]] /\ job'[j] \in JobType /\ Placed(job'[j])
  <2>1. [job[j] EXCEPT !.at = "done", !.answer = a] \in JobType
    BY <1>0 DEF JobType, Places
  <2>2. Placed([job[j] EXCEPT !.at = "done", !.answer = a])
    BY <1>0, <1>b DEF Placed, JobType, Locked
  <2> QED
    BY <1>a, <1>b, <2>1, <2>2 DEF Answer
<1>c. ASSUME NEW c \in Conns, Refuse(j, c)
      PROVE  job' = [job EXCEPT ![j] = job'[j]] /\ job'[j] \in JobType /\ Placed(job'[j])
  <2> DEFINE r == [NewJob EXCEPT !.at = "done", !.conn = c, !.answer = "sftp_error"]
  <2>1. r \in JobType
    BY NewJobType, JobUpdates
  <2>2. Placed(r)
    BY DEF NewJob, Placed, Locked
  <2> QED
    BY <1>a, <1>c, <2>1, <2>2 DEF Refuse
<1>1. ASSUME NEW c \in Conns, NEW n \in Names, NEW k \in 0..MaxSource, UploadCreate(j, c, n, k)
      PROVE  Goal
  <2>1. PICK f \in Target(n) :
          /\ entry' = [entry EXCEPT ![n] = f]
          /\ data' = [data EXCEPT ![f] = <<>>]
          /\ \/ Step(j, [NewJob EXCEPT !.at = "copy", !.conn = c, !.name = n, !.src = k,
                                       !.file = f, !.stored = job[j].stored])
             \/ Refuse(j, c)
    BY <1>1 DEF UploadCreate
  <2>2. f \in Files
    BY DEF Target, Unused
  <2> DEFINE r == [NewJob EXCEPT !.at = "copy", !.conn = c, !.name = n, !.src = k,
                                 !.file = f, !.stored = job[j].stored]
  <2>3. r \in JobType
    BY <1>0, <2>2, NewJobType DEF JobType, Places, Answers
  <2>4. Placed(r)
    BY <2>2 DEF NewJob, Placed, Locked, Cut
  <2> QED
    BY <1>a, <1>c, <2>1, <2>2, <2>3, <2>4
<1>2. ASSUME NEW c \in Conns, NEW n \in Names, UploadRefused(j, c, n)
      PROVE  Goal
  BY <1>c, <1>2 DEF UploadRefused
<1>3. ASSUME UploadWrite(j) PROVE Goal
  <2> DEFINE f == job[j].file
             i == job[j].pos + 1
             r == [job[j] EXCEPT !.pos = i]
  <2>1. f \in Files /\ i \in Nat \ {0} /\ data[f] \in Seq(Blocks)
    BY <1>0, <1>3 DEF UploadWrite, Placed, JobType
  <2>2. r \in JobType
    BY <1>0, <2>1 DEF JobType
  <2>3. Placed(r)
    BY <1>0, <1>3 DEF UploadWrite, Placed, JobType
  <2>4. data' = [data EXCEPT ![f] = Put(data[f], i, j)] /\ entry' = entry /\ Step(j, r)
    BY <1>3 DEF UploadWrite
  <2>5. Put(data[f], i, j) \in Seq(Blocks)
    BY <1>0, <2>1, PutBlocks
  <2> HIDE DEF f, i, r
  <2> QED
    BY <1>a, <2>1, <2>2, <2>3, <2>4, <2>5
<1>4. CASE UploadBreak(j) \/ UploadRemove(j) \/ UploadEnd(j) \/ DownloadEnd(j)
  <2>1. "none" \in {"none", "dir", "link"} /\ entry' \in [Names -> Files \cup {"none", "dir", "link"}]
        /\ data' = data
    BY <1>4 DEF UploadBreak, UploadRemove, UploadEnd, DownloadEnd
  <2>2. \E a \in Answers : Answer(j, a) /\ job[j].at # "idle"
    BY <1>4 DEF UploadBreak, UploadRemove, UploadEnd, DownloadEnd, Answers
  <2> QED
    BY <1>b, <2>1, <2>2
<1>5. CASE UploadTooLong(j)
  <2> DEFINE r == [job[j] EXCEPT !.at = "oversize"]
  <2>1. r \in JobType /\ Placed(r)
    BY <1>0, <1>5 DEF UploadTooLong, Copied, JobType, Places, Placed, Locked
  <2> QED
    BY <1>a, <1>5, <2>1 DEF UploadTooLong
<1>6. CASE UploadStored(j)
  <2> DEFINE r == [job[j] EXCEPT !.at = "parts", !.stored = @ \cup {job[j].name}]
  <2>1. job[j].at = "copy" /\ job[j].name \in Names
    BY <1>0, <1>6 DEF UploadStored, Copied, Placed, Locked
  <2>2. r \in JobType /\ Placed(r)
    BY <1>0, <2>1 DEF JobType, Places, Placed, Locked
  <2>3. CASE Step(j, r)
    BY <1>a, <1>6, <2>2, <2>3 DEF UploadStored
  <2>4. CASE Answer(j, "sftp_error")
    BY <1>b, <1>6, <2>1, <2>4 DEF UploadStored, Answers
  <2> QED
    BY <1>6, <2>3, <2>4 DEF UploadStored
<1>7. ASSUME NEW c \in Conns, NEW n \in Names, DownloadStat(j, c, n)
      PROVE  Goal
  <2>1. PICK stat \in StatOf(n) :
          Step(j, [NewJob EXCEPT
                    !.conn = c, !.name = n, !.stat = stat,
                    !.at = IF stat = "file" THEN "open" ELSE "done",
                    !.size = IF stat = "file" THEN Len(data[entry[n]]) ELSE 0,
                    !.answer = CASE stat = "file" -> "none"
                                 [] stat = "dir" -> "is_directory"
                                 [] OTHER -> StatAnswer(stat)])
    BY <1>7 DEF DownloadStat
  <2> DEFINE size == IF stat = "file" THEN Len(data[entry[n]]) ELSE 0
             answer == CASE stat = "file" -> "none"
                         [] stat = "dir" -> "is_directory"
                         [] OTHER -> StatAnswer(stat)
             r == [NewJob EXCEPT
                    !.conn = c, !.name = n, !.stat = stat,
                    !.at = IF stat = "file" THEN "open" ELSE "done",
                    !.size = size, !.answer = answer]
  <2>2. stat \in {"missing", "dir", "file", "failed"} /\ (stat = "file" => entry[n] \in Files)
    BY <2>1 DEF StatOf
  <2>3. size \in Nat /\ answer \in Answers
    BY <2>2 DEF Answers, StatAnswer
  <2>4. r \in JobType
    <3> DEFINE at == IF stat = "file" THEN "open" ELSE "done"
    <3>1. at \in Places
      BY DEF Places
    <3> HIDE DEF size, answer, at
    <3>2. \A q \in JobType :
            [q EXCEPT !.conn = c, !.name = n, !.stat = stat, !.at = at, !.size = size,
                      !.answer = answer] \in JobType
      BY <2>2, <2>3, <3>1 DEF JobType
    <3> QED
      BY <3>2, NewJobType DEF at
  <2>5. Placed(r)
    <3> HIDE DEF size, answer
    <3> QED
      BY <2>2 DEF NewJob, Placed, Locked
  <2> QED
    BY <1>a, <1>7, <2>1, <2>4, <2>5 DEF DownloadStat
<1>8. CASE DownloadOpen(j)
  <2> DEFINE e == entry[job[j].name]
             r == [job[j] EXCEPT !.at = "read", !.file = e]
  <2>1. job[j].at = "open" /\ job[j].name \in Names
    BY <1>0, <1>8 DEF DownloadOpen, Placed, Locked
  <2>2. ASSUME e \in Files, Step(j, r) PROVE Goal
    <3>1. r \in JobType /\ Placed(r)
      BY <1>0, <2>1, <2>2 DEF JobType, Places, Placed, Locked
    <3> QED
      BY <1>a, <1>8, <2>2, <3>1 DEF DownloadOpen
  <2>3. ASSUME NEW a \in {"not_found", "sftp_error"}, Answer(j, a) PROVE Goal
    BY <1>b, <1>8, <2>1, <2>3 DEF DownloadOpen, Answers
  <2> QED
    BY <1>8, <2>2, <2>3 DEF DownloadOpen
<1>9. CASE DownloadRead(j)
  <2> DEFINE i == job[j].pos + 1
             d == data[job[j].file]
             r == [job[j] EXCEPT !.pos = i, !.saw = Append(@, d[i])]
  <2>1. job[j].file \in Files /\ d \in Seq(Blocks) /\ i \in 1..Len(d) /\ job[j].at = "read"
    BY <1>0, <1>9 DEF DownloadRead, Placed, JobType
  <2>2. Append(job[j].saw, d[i]) \in Seq(Blocks)
    BY <1>0, <2>1 DEF JobType
  <2> DEFINE w == Append(job[j].saw, d[i])
  <2>3. r \in JobType
    <3>1. job[j] \in JobType /\ i \in Nat /\ w \in Seq(Blocks)
      BY <1>0, <2>1, <2>2
    <3> HIDE DEF d, i, w
    <3>2. [job[j] EXCEPT !.pos = i, !.saw = w] \in JobType
      BY <3>1 DEF JobType
    <3> QED
      BY <3>2 DEF w
  <2>4. Placed(r)
    <3> HIDE DEF d
    <3> QED
      BY <1>0, <2>1 DEF JobType, Placed, Locked
  <2> QED
    BY <1>a, <1>9, <2>3, <2>4 DEF DownloadRead
<1>d. ASSUME NEW c \in Conns, NEW n \in Names, NEW r \in JobType,
             r.conn = c, r.at \in {"make", "move"}, r.name \in Names,
             r.at = "move" => r.to \in Names, Check(j, c, n, r)
      PROVE  Goal
  <2>1. PICK stat \in StatOf(n) :
          Step(j, IF stat \in {"file", "dir"}
                  THEN [r EXCEPT !.at = "done", !.stat = stat, !.answer = "exists"]
                  ELSE [r EXCEPT !.stat = stat])
    BY <1>d DEF Check
  <2>2. stat \in {"missing", "dir", "file", "failed"}
    BY DEF StatOf
  <2>3. /\ [r EXCEPT !.at = "done", !.stat = stat, !.answer = "exists"] \in JobType
        /\ [r EXCEPT !.stat = stat] \in JobType
    BY <2>2, JobUpdates
  <2>4. /\ Placed([r EXCEPT !.at = "done", !.stat = stat, !.answer = "exists"])
        /\ Placed([r EXCEPT !.stat = stat])
    BY <1>d, <2>2 DEF JobType, Placed, Locked
  <2> QED
    BY <1>a, <1>d, <2>1, <2>3, <2>4 DEF Check
<1>e. ASSUME NEW e \in [Names -> Files \cup {"none", "dir", "link"}],
             job[j].at # "idle", Change(j, e)
      PROVE  Goal
  BY <1>b, <1>e DEF Change, Answers
<1>10. ASSUME NEW c \in Conns, NEW n \in Names, MkdirStat(j, c, n)
       PROVE  Goal
  <2> DEFINE r == [NewJob EXCEPT !.at = "make", !.conn = c, !.name = n]
  <2>1. r \in JobType /\ r.conn = c /\ r.at = "make" /\ r.name \in Names
    BY NewJobType DEF JobType, Places, Answers
  <2> QED
    BY <1>d, <1>10, <2>1 DEF MkdirStat
<1>11. CASE MkdirMake(j)
  <2>1. job[j].at = "make" /\ job[j].name \in Names
    BY <1>0, <1>11 DEF MkdirMake, Placed, Locked
  <2> QED
    BY <1>e, <1>11, <2>1 DEF MkdirMake
<1>12. ASSUME NEW c \in Conns, NEW n \in Names, NEW m \in Names, RenameStat(j, c, n, m)
       PROVE  Goal
  <2> DEFINE r == [NewJob EXCEPT !.at = "move", !.conn = c, !.name = n, !.to = m]
  <2>1. r \in JobType /\ r.conn = c /\ r.at = "move" /\ r.name \in Names /\ r.to \in Names
    BY NewJobType DEF JobType, Places, Answers
  <2> QED
    BY <1>d, <1>12, <2>1 DEF RenameStat
<1>13. CASE RenameMove(j)
  <2> DEFINE n == job[j].name
             m == job[j].to
             e == [entry EXCEPT ![n] = "none", ![m] = entry[n]]
  <2>1. job[j].at = "move" /\ n \in Names /\ m \in Names
    BY <1>0, <1>13 DEF RenameMove, Placed, Locked
  <2>2. e \in [Names -> Files \cup {"none", "dir", "link"}]
    BY <2>1
  <2>3. CASE Change(j, e)
    BY <1>e, <2>1, <2>2, <2>3
  <2>4. CASE (\E a \in {"not_found", "sftp_error"} : Answer(j, a)) /\ UNCHANGED <<entry, data>>
    BY <1>b, <2>1, <2>4 DEF Answers
  <2> QED
    BY <1>13, <2>3, <2>4 DEF RenameMove
<1>14. ASSUME NEW c \in Conns, NEW n \in Names, RemoveStat(j, c, n)
       PROVE  Goal
  <2>1. PICK stat \in StatOf(n) :
          Step(j, [NewJob EXCEPT !.at = "unlink", !.conn = c, !.name = n, !.stat = stat])
    BY <1>14 DEF RemoveStat
  <2> DEFINE r == [NewJob EXCEPT !.at = "unlink", !.conn = c, !.name = n, !.stat = stat]
  <2>2. stat \in {"missing", "dir", "file", "failed"}
    BY DEF StatOf
  <2>3. r \in JobType /\ Placed(r)
    BY <2>2, NewJobType DEF JobType, Places, Answers, Placed, Locked
  <2> QED
    BY <1>a, <1>14, <2>1, <2>3 DEF RemoveStat
<1>15. CASE RemoveUnlink(j)
  <2> DEFINE n == job[j].name
  <2>1. job[j].at = "unlink" /\ n \in Names
    BY <1>0, <1>15 DEF RemoveUnlink, Placed, Locked
  <2>2. /\ entry' = entry \/ entry' = [entry EXCEPT ![n] = "none"]
        /\ data' = data
        /\ \E a \in {"ok", "not_found", "sftp_error"} : Answer(j, a)
    BY <1>15 DEF RemoveUnlink, StatAnswer
  <2> QED
    BY <1>b, <2>1, <2>2 DEF Answers
<1> QED
  BY <1>1, <1>2, <1>3, <1>4, <1>5, <1>6, <1>7, <1>8, <1>9, <1>10, <1>11, <1>12, <1>13,
     <1>14, <1>15 DEF JobStep

\* What a step does to the lock and to the files.  A request that does not hold
\* its connection's lock takes it or changes nothing, and only an upload
\* changes blocks: it truncates a file or writes its next block.
LEMMA LockMoves ==
    ASSUME FilesAssumption, FilesTypeOK, NEW j \in Jobs, JobStep(j)
    PROVE  /\ job'[j].at # "idle"
           /\ job[j].at # "idle" => job'[j].conn = job[j].conn
           /\ job'[j].at \in {"copy", "open", "read"} => Transfer(j)
           /\ \/ job[j].at \in Locked
              \/ Free(job'[j].conn)
              \/ UNCHANGED <<entry, data>> /\ job'[j].at \notin Locked
           /\ \/ UNCHANGED data /\ job'[j].at # "copy"
              \/ /\ job[j].at \notin Locked
                 /\ \E f \in Files : /\ data' = [data EXCEPT ![f] = <<>>]
                                     /\ job'[j].at = "copy" => job'[j].file = f
              \/ /\ job[j].at = "copy" /\ job'[j].at = "copy"
                 /\ job'[j].file = job[j].file
                 /\ data' = [data EXCEPT ![job[j].file] = Put(@, job[j].pos + 1, j)]
<1> DEFINE Goal == /\ job'[j].at # "idle"
                   /\ job[j].at # "idle" => job'[j].conn = job[j].conn
                   /\ job'[j].at \in {"copy", "open", "read"} => Transfer(j)
                   /\ \/ job[j].at \in Locked
                      \/ Free(job'[j].conn)
                      \/ UNCHANGED <<entry, data>> /\ job'[j].at \notin Locked
                   /\ \/ UNCHANGED data /\ job'[j].at # "copy"
                      \/ /\ job[j].at \notin Locked
                         /\ \E f \in Files : /\ data' = [data EXCEPT ![f] = <<>>]
                                             /\ job'[j].at = "copy" => job'[j].file = f
                      \/ /\ job[j].at = "copy" /\ job'[j].at = "copy"
                         /\ job'[j].file = job[j].file
                         /\ data' = [data EXCEPT ![job[j].file] = Put(@, job[j].pos + 1, j)]
<1>0. job \in [Jobs -> JobType] /\ job[j] \in JobType /\ Placed(job[j])
  BY DEF FilesTypeOK
<1>a. ASSUME NEW r, Step(j, r) PROVE job'[j] = r
  BY <1>0, <1>a DEF Step
<1>b. ASSUME NEW a, Answer(j, a)
      PROVE  job'[j].at = "done" /\ job'[j].conn = job[j].conn
  BY <1>0, <1>a, <1>b DEF Answer, JobType
<1>c. ASSUME NEW c \in Conns, Refuse(j, c)
      PROVE  job'[j].at = "done" /\ job'[j].conn = c
  BY <1>a, <1>c DEF Refuse, NewJob
<1>1. ASSUME NEW c \in Conns, NEW n \in Names, NEW k \in 0..MaxSource, UploadCreate(j, c, n, k)
      PROVE  Goal
  <2>1. PICK f \in Target(n) :
          /\ data' = [data EXCEPT ![f] = <<>>]
          /\ \/ Step(j, [NewJob EXCEPT !.at = "copy", !.conn = c, !.name = n, !.src = k,
                                       !.file = f, !.stored = job[j].stored])
             \/ Refuse(j, c)
    BY <1>1 DEF UploadCreate
  <2>2. f \in Files
    BY <2>1 DEF Target, Unused
  <2>3. job'[j].conn = c /\ job'[j].at \in {"copy", "done"} /\ (job'[j].at = "copy" => job'[j].file = f)
    BY <1>a, <1>c, <2>1 DEF NewJob
  <2> QED
    BY <1>1, <2>1, <2>2, <2>3 DEF UploadCreate, NextPart, Locked, Transfer
<1>2. ASSUME NEW c \in Conns, NEW n \in Names, UploadRefused(j, c, n)
      PROVE  Goal
  BY <1>c, <1>2 DEF UploadRefused, NextPart, Locked
<1>3. CASE UploadWrite(j)
  <2>1. job'[j].at = "copy" /\ job'[j].conn = job[j].conn /\ job'[j].file = job[j].file
    BY <1>0, <1>a, <1>3 DEF UploadWrite, JobType
  <2> QED
    BY <1>3, <2>1 DEF UploadWrite, Locked, Transfer
<1>4. CASE UploadBreak(j) \/ UploadRemove(j) \/ UploadEnd(j) \/ DownloadEnd(j) \/ RemoveUnlink(j)
           \/ MkdirMake(j) \/ RenameMove(j)
  <2>1. /\ data' = data
        /\ \E a \in Answers : Answer(j, a)
        /\ job[j].at \in Locked \cup {"oversize", "parts"}
    BY <1>4 DEF UploadBreak, UploadRemove, UploadEnd, DownloadEnd, RemoveUnlink, StatAnswer,
                MkdirMake, RenameMove, Change, Answers, Locked
  <2>2. job[j].at \in Locked \/ UNCHANGED entry \/ Free(job[j].conn)
    BY <1>4 DEF UploadBreak, UploadRemove, UploadEnd, DownloadEnd, RemoveUnlink, MkdirMake,
                RenameMove, Locked
  <2> QED
    BY <1>b, <2>1, <2>2 DEF Locked
<1>5. CASE UploadTooLong(j)
  <2>1. job'[j].at = "oversize" /\ job'[j].conn = job[j].conn
    BY <1>0, <1>a, <1>5 DEF UploadTooLong, JobType
  <2> QED
    BY <1>5, <2>1 DEF UploadTooLong, Copied, Locked
<1>6. CASE UploadStored(j)
  <2>1. CASE Step(j, [job[j] EXCEPT !.at = "parts", !.stored = @ \cup {job[j].name}])
    <3>1. job'[j].at = "parts" /\ job'[j].conn = job[j].conn
      BY <1>0, <1>a, <2>1 DEF JobType
    <3> QED
      BY <1>6, <3>1 DEF UploadStored, Copied, Locked
  <2>2. CASE Answer(j, "sftp_error")
    BY <1>b, <1>6, <2>2 DEF UploadStored, Copied, Locked
  <2> QED
    BY <1>6, <2>1, <2>2 DEF UploadStored
<1>7. ASSUME NEW c \in Conns, NEW n \in Names, DownloadStat(j, c, n) \/ RemoveStat(j, c, n)
      PROVE  Goal
  <2>1. ASSUME DownloadStat(j, c, n)
        PROVE  job'[j].conn = c /\ job'[j].at \in {"open", "done"}
    <3>1. PICK stat, size, answer :
            Step(j, [NewJob EXCEPT
                      !.conn = c, !.name = n, !.stat = stat,
                      !.at = IF stat = "file" THEN "open" ELSE "done",
                      !.size = size, !.answer = answer])
      BY <2>1 DEF DownloadStat
    <3>2. job'[j] = [NewJob EXCEPT
                      !.conn = c, !.name = n, !.stat = stat,
                      !.at = IF stat = "file" THEN "open" ELSE "done",
                      !.size = size, !.answer = answer]
      BY <1>a, <3>1
    <3> QED
      BY <3>2 DEF NewJob
  <2>2. ASSUME RemoveStat(j, c, n) PROVE job'[j].conn = c /\ job'[j].at = "unlink"
    BY <1>a, <2>2 DEF RemoveStat, NewJob
  <2> QED
    BY <1>7, <2>1, <2>2 DEF DownloadStat, RemoveStat, Begin, Transfer
<1>8. CASE DownloadOpen(j)
  <2>1. CASE \E a \in {"not_found", "sftp_error"} : Answer(j, a)
    BY <1>b, <1>8, <2>1 DEF DownloadOpen, Locked
  <2>2. CASE Step(j, [job[j] EXCEPT !.at = "read", !.file = entry[job[j].name]])
    <3>1. job'[j].at = "read" /\ job'[j].conn = job[j].conn
      BY <1>0, <1>a, <2>2 DEF JobType
    <3> QED
      BY <1>8, <3>1 DEF DownloadOpen, Locked, Transfer
  <2> QED
    BY <1>8, <2>1, <2>2 DEF DownloadOpen
<1>9. CASE DownloadRead(j)
  <2>1. job'[j].at = "read" /\ job'[j].conn = job[j].conn
    BY <1>0, <1>a, <1>9 DEF DownloadRead, JobType
  <2> QED
    BY <1>9, <2>1 DEF DownloadRead, Locked, Transfer
<1>10. ASSUME NEW c \in Conns, NEW n \in Names, NEW m \in Names,
              MkdirStat(j, c, n) \/ RenameStat(j, c, n, m)
       PROVE  Goal
  <2>1. ASSUME NEW r, r.conn = c, r.at \in {"make", "move"},
               {"conn", "at", "stat", "answer"} \subseteq DOMAIN r,
               NEW p, Check(j, c, p, r)
        PROVE  job'[j].conn = c /\ job'[j].at \in {"make", "move", "done"}
    <3>1. PICK stat : Step(j, IF stat \in {"file", "dir"}
                              THEN [r EXCEPT !.at = "done", !.stat = stat, !.answer = "exists"]
                              ELSE [r EXCEPT !.stat = stat])
      BY <2>1 DEF Check
    <3>2. CASE stat \in {"file", "dir"}
      BY <1>a, <2>1, <3>1, <3>2
    <3>3. CASE stat \notin {"file", "dir"}
      BY <1>a, <2>1, <3>1, <3>3
    <3> QED
      BY <3>2, <3>3
  <2>2. CASE MkdirStat(j, c, n)
    <3> DEFINE r == [NewJob EXCEPT !.at = "make", !.conn = c, !.name = n]
    <3>1. r.conn = c /\ r.at = "make" /\ {"conn", "at", "stat", "answer"} \subseteq DOMAIN r
      BY DEF NewJob
    <3>2. Check(j, c, n, r)
      BY <2>2 DEF MkdirStat
    <3> HIDE DEF r
    <3>3. job'[j].conn = c /\ job'[j].at \in {"make", "move", "done"}
      BY <2>1, <3>1, <3>2
    <3> QED
      BY <3>2, <3>3 DEF Check, Begin
  <2>3. CASE RenameStat(j, c, n, m)
    <3> DEFINE r == [NewJob EXCEPT !.at = "move", !.conn = c, !.name = n, !.to = m]
    <3>1. r.conn = c /\ r.at = "move" /\ {"conn", "at", "stat", "answer"} \subseteq DOMAIN r
      BY DEF NewJob
    <3>2. Check(j, c, m, r)
      BY <2>3 DEF RenameStat
    <3> HIDE DEF r
    <3>3. job'[j].conn = c /\ job'[j].at \in {"make", "move", "done"}
      BY <2>1, <3>1, <3>2
    <3> QED
      BY <3>2, <3>3 DEF Check, Begin
  <2> QED
    BY <1>10, <2>2, <2>3
<1> QED
  BY <1>1, <1>2, <1>3, <1>4, <1>5, <1>6, <1>7, <1>8, <1>9, <1>10 DEF JobStep

-----------------------------------------------------------------------------
\* The invariant about the lock and the authors holds before any request.
LEMMA FilesInvStarts ==
    ASSUME FilesAssumption, FilesInit
    PROVE  FilesInv
<1> USE DEF FilesAssumption, FilesInit
<1>1. \A j \in Jobs : job[j].at = "idle"
  BY DEF NewJob
<1>2. [i \in 1..MaxUpload |-> "old"] \in Seq(Blocks) /\ <<>> \in Seq(Blocks)
  BY DEF Blocks
<1>3. data \in [Files -> Seq(Blocks)]
  BY <1>2
<1>4. Placed(NewJob)
  BY DEF Placed, NewJob, Locked
<1>5. FilesTypeOK
  BY <1>3, <1>4, NewJobType DEF FilesTypeOK
<1>6. \A f \in Files : Authors(f) = {}
  <2>1. SUFFICES ASSUME NEW f \in Files, NEW b \in 1..Len(data[f])
                 PROVE  data[f][b] \notin Jobs
    BY DEF Authors
  <2>2. data[f] = [i \in 1..MaxUpload |-> "old"] \/ data[f] = <<>>
    OBVIOUS
  <2>3. data[f] # <<>>
    OBVIOUS
  <2>4. Len([i \in 1..MaxUpload |-> "old"]) = MaxUpload
    OBVIOUS
  <2>5. data[f][b] = "old"
    BY <2>2, <2>3, <2>4
  <2> QED
    BY <2>5
<1> QED
  BY <1>1, <1>5, <1>6 DEF FilesInv, LockAlone, Started, OwnFile, UploadsApart, Locked

\* What was there before has no author.
LEMMA AuthorsInJobs == \A f : Authors(f) \subseteq Jobs
BY DEF Authors

\* Truncating a file leaves it without authors; writing a block adds at most one.
LEMMA AuthorsMove ==
    ASSUME FilesAssumption, data \in [Files -> Seq(Blocks)], NEW f \in Files
    PROVE  /\ data' = [data EXCEPT ![f] = <<>>] =>
                Authors(f)' = {} /\ \A g \in Files : g # f => Authors(g)' = Authors(g)
           /\ \A j \in Jobs, i \in Nat \ {0} :
                data' = [data EXCEPT ![f] = Put(data[f], i, j)] =>
                  /\ Authors(f)' \subseteq Authors(f) \cup {j}
                  /\ \A g \in Files : g # f => Authors(g)' = Authors(g)
<1>1. ASSUME NEW s, data' = [data EXCEPT ![f] = s]
      PROVE  data'[f] = s /\ \A g \in Files : g # f => Authors(g)' = Authors(g)
  BY <1>1 DEF Authors
<1>2. ASSUME data' = [data EXCEPT ![f] = <<>>] PROVE Authors(f)' = {}
  BY <1>1, <1>2 DEF Authors
<1>3. ASSUME NEW j \in Jobs, NEW i \in Nat \ {0},
             data' = [data EXCEPT ![f] = Put(data[f], i, j)]
      PROVE  Authors(f)' \subseteq Authors(f) \cup {j}
  <2> DEFINE s == data[f]
             t == Put(s, i, j)
  <2>1. s \in Seq(Blocks) /\ j \in Blocks /\ "hole" \notin Jobs
    BY DEF Blocks, FilesAssumption
  <2>2. data'[f] = t
    BY <1>1, <1>3
  <2> HIDE DEF s
  <2>3. \A k \in 1..Len(t) : t[k] = IF k = i THEN j ELSE IF k > Len(s) THEN "hole" ELSE s[k]
    BY <2>1, PutBlocks
  <2>4. Len(t) \in Nat /\ Len(s) \in Nat
    BY <2>1, PutBlocks
  <2> HIDE DEF t
  <2>5. \A k \in 1..Len(t) : t[k] \in Jobs => t[k] = j \/ (k \in 1..Len(s) /\ t[k] = s[k])
    BY <2>1, <2>3, <2>4
  <2> QED
    BY <2>2, <2>5 DEF Authors, s
<1> QED
  BY <1>1, <1>2, <1>3

\* Every step of a request keeps the invariant.
LEMMA FilesInvKeeps ==
    ASSUME FilesAssumption, FilesInv, [FilesNext]_filesVars
    PROVE  FilesInv'
<1>1. CASE UNCHANGED filesVars
  BY <1>1 DEF filesVars, FilesInv, FilesTypeOK, LockAlone, Started, OwnFile, UploadsApart,
              Authors
<1>2. ASSUME NEW j \in Jobs, JobStep(j) PROVE FilesInv'
  <2> USE DEF FilesInv
  <2>0. FilesTypeOK /\ job \in [Jobs -> JobType] /\ data \in [Files -> Seq(Blocks)]
    BY DEF FilesTypeOK
  <2>1. job' = [job EXCEPT ![j] = job'[j]]
    BY <1>2, JobMoves
  <2>2. \A i \in Jobs : i # j => job'[i] = job[i]
    BY <2>0, <2>1
  <2>3. FilesTypeOK'
    BY <1>2, <2>0, <2>1, JobMoves DEF FilesTypeOK
  <2>4. \A i \in Jobs : job[i].at # "idle" => job'[i].at # "idle" /\ job'[i].conn = job[i].conn
    BY <1>2, <2>2, LockMoves
  <2>5. LockAlone'
    <3>1. ASSUME NEW i \in Jobs, i # j, job'[i].at \in Locked, job'[j].at \in Locked,
                 job'[i].conn = job'[j].conn
          PROVE  FALSE
      <4>1. job[i] = job'[i] /\ ~Free(job'[j].conn)
        BY <2>2, <3>1 DEF Free, Held
      <4>2. job[j].at \in Locked /\ job[j].at # "idle"
        BY <1>2, <3>1, <4>1, LockMoves DEF Locked
      <4> QED
        BY <2>4, <3>1, <4>1, <4>2 DEF LockAlone
    <3> QED
      BY <2>2, <3>1 DEF LockAlone
  <2>6. CASE UNCHANGED data /\ job'[j].at # "copy"
    <3>1. \A f \in Files : Authors(f)' = Authors(f)
      BY <2>6 DEF Authors
    <3>2. \A i \in Jobs : job'[i].at = "copy" =>
            /\ job[i].at = "copy" /\ job'[i].file = job[i].file /\ job[i].file \in Files
            /\ job'[i].conn = job[i].conn
      BY <2>0, <2>2, <2>6 DEF FilesTypeOK, Placed
    <3> QED
      BY <2>3, <2>4, <2>5, <3>1, <3>2, AuthorsInJobs DEF Started, OwnFile, UploadsApart
  <2>7. ASSUME NEW f \in Files, job[j].at \notin Locked, data' = [data EXCEPT ![f] = <<>>],
               job'[j].at = "copy" => job'[j].file = f
        PROVE  FilesInv'
    <3>1. Authors(f)' = {} /\ \A g \in Files : g # f => Authors(g)' = Authors(g)
      BY <2>0, <2>7, AuthorsMove
    <3>2. \A i \in Jobs : job'[i].at = "copy" /\ job'[i].file # f =>
            /\ job[i].at = "copy" /\ job'[i].file = job[i].file /\ job[i].file \in Files
            /\ job'[i].conn = job[i].conn
      BY <2>0, <2>2, <2>7 DEF FilesTypeOK, Placed
    <3> QED
      BY <2>3, <2>4, <2>5, <3>1, <3>2, AuthorsInJobs DEF Started, OwnFile, UploadsApart
  <2>8. CASE /\ job[j].at = "copy" /\ job'[j].at = "copy" /\ job'[j].file = job[j].file
             /\ data' = [data EXCEPT ![job[j].file] = Put(@, job[j].pos + 1, j)]
    <3>1. job[j].file \in Files /\ job[j].pos + 1 \in Nat \ {0}
      BY <2>0, <2>8 DEF FilesTypeOK, Placed, JobType
    <3>f. PICK f \in Files : f = job[j].file
      BY <3>1
    <3>p. PICK pos \in Nat \ {0} : pos = job[j].pos + 1
      BY <3>1
    <3>d. data' = [data EXCEPT ![f] = Put(data[f], pos, j)]
      BY <2>0, <2>8, <3>f, <3>p
    <3>2. /\ Authors(f)' \subseteq Authors(f) \cup {j}
          /\ \A g \in Files : g # f => Authors(g)' = Authors(g)
      BY <2>0, <3>d, AuthorsMove
    <3>3. \A i \in Jobs : job'[i].at = "copy" =>
            /\ job[i].at = "copy" /\ job'[i].file = job[i].file /\ job[i].file \in Files
            /\ job'[i].conn = job[i].conn
      BY <2>0, <2>2, <2>4, <2>8 DEF FilesTypeOK, Placed
    <3>4. \A i \in Jobs : job'[i].at = "copy" /\ job'[i].conn = job'[j].conn => i = j
      BY <2>4, <2>8, <3>3 DEF LockAlone, Locked
    <3>5. Started'
      BY <2>4, <2>8, <3>2, AuthorsInJobs DEF Started, Locked
    <3>6. \A i \in Authors(f) : job[i].conn = job[j].conn => i = j
      BY <2>8, <3>f DEF OwnFile
    <3>7. OwnFile'
      BY <2>4, <2>8, <3>2, <3>3, <3>4, <3>f, AuthorsInJobs DEF OwnFile, Started
    <3>8. UploadsApart'
      BY <2>4, <2>8, <3>1, <3>2, <3>6, AuthorsInJobs DEF UploadsApart, Started
    <3> QED
      BY <2>3, <2>5, <3>5, <3>7, <3>8
  <2> QED
    BY <1>2, <2>6, <2>7, <2>8, LockMoves
<1> QED
  BY <1>1, <1>2 DEF FilesNext, AllServed

\* While one session is alone on the server and one of its requests holds the
\* lock, the others change nothing.
LEMMA Quiet ==
    ASSUME FilesAssumption, FilesInv, NEW i \in Jobs, NEW j \in Jobs, i # j, JobStep(i),
           job[j].at \in Locked, Solo'
    PROVE  UNCHANGED <<entry, data>>
<1> USE DEF FilesInv
<1>1. job'[j] = job[j] /\ job[j].at # "idle"
  BY JobMoves DEF FilesTypeOK, Locked
<1>2. job'[i].conn = job[j].conn
  BY <1>1, LockMoves DEF Solo
<1>3. job[i].at \notin Locked
  <2>1. job[i].at \in Locked => job[i].conn = job[j].conn
    BY <1>2, LockMoves DEF Locked
  <2> QED
    BY <2>1 DEF LockAlone
<1>4. ~Free(job'[i].conn)
  BY <1>2 DEF Free, Held
<1> QED
  BY <1>3, <1>4, LockMoves

\* A session alone on the server after a step was alone before it.
LEMMA SoloBefore ==
    ASSUME FilesAssumption, FilesInv, NEW j \in Jobs, JobStep(j), Solo'
    PROVE  Solo
<1>1. \A i \in Jobs : job[i].at # "idle" => job'[i].at # "idle" /\ job'[i].conn = job[i].conn
  BY JobMoves, LockMoves DEF FilesInv, FilesTypeOK
<1> QED
  BY <1>1 DEF Solo

\* Every step keeps what a session alone on the server relies on.
LEMMA ExactInvKeeps ==
    ASSUME FilesAssumption, ExactInv, [FilesNext]_filesVars
    PROVE  ExactInv'
<1>0. FilesInv /\ FilesInv'
  BY FilesInvKeeps DEF ExactInv
<1>1. CASE UNCHANGED filesVars
  BY <1>0, <1>1 DEF filesVars, ExactInv, OpenExact, DownloadExact, UploadExact, Solo
<1>2. ASSUME NEW i \in Jobs, JobStep(i) PROVE ExactInv'
  <2>1. job' = [job EXCEPT ![i] = job'[i]] /\ job'[i] \in JobType /\ Placed(job'[i])
    BY <1>0, <1>2, JobMoves DEF FilesInv
  <2>2. \A j \in Jobs : j # i => job'[j] = job[j]
    BY <1>0, <2>1 DEF FilesInv, FilesTypeOK
  <2>3. Solo' => Solo
    BY <1>0, <1>2, SoloBefore
  <2>4. ASSUME NEW j \in Jobs, Solo', j # i, job[j].at \in {"open", "read", "copy"}
        PROVE  UNCHANGED <<entry, data>>
    BY <1>0, <1>2, <2>4, Quiet DEF Locked
  <2>5. ASSUME NEW j \in Jobs, Solo', j # i
        PROVE  /\ job'[j].at = "open" =>
                    entry'[job'[j].name] \in Files
                    /\ job'[j].size = Len(data'[entry'[job'[j].name]])
                    /\ job'[j].pos = 0 /\ job'[j].saw = <<>>
               /\ job'[j].at = "read" =>
                    job'[j].size = Len(data'[job'[j].file])
                    /\ job'[j].saw = SubSeq(data'[job'[j].file], 1, job'[j].pos)
               /\ job'[j].at = "copy" =>
                    entry'[job'[j].name] = job'[j].file
                    /\ data'[job'[j].file] = [p \in 1..job'[j].pos |-> j]
    BY <2>2, <2>3, <2>4, <2>5 DEF ExactInv, OpenExact, DownloadExact, UploadExact
  <2>6. ASSUME Solo'
        PROVE  /\ job'[i].at = "open" =>
                    entry'[job'[i].name] \in Files
                    /\ job'[i].size = Len(data'[entry'[job'[i].name]])
                    /\ job'[i].pos = 0 /\ job'[i].saw = <<>>
               /\ job'[i].at = "read" =>
                    job'[i].size = Len(data'[job'[i].file])
                    /\ job'[i].saw = SubSeq(data'[job'[i].file], 1, job'[i].pos)
               /\ job'[i].at = "copy" =>
                    entry'[job'[i].name] = job'[i].file
                    /\ data'[job'[i].file] = [p \in 1..job'[i].pos |-> i]
    <3>0. /\ job \in [Jobs -> JobType] /\ job[i] \in JobType /\ Placed(job[i])
          /\ entry \in [Names -> Files \cup {"none", "dir", "link"}]
          /\ data \in [Files -> Seq(Blocks)]
      BY <1>0 DEF FilesInv, FilesTypeOK
    <3>a. ASSUME NEW r, Step(i, r) PROVE job'[i] = r
      BY <3>0, <3>a DEF Step
    <3>1. ASSUME NEW c \in Conns, NEW n \in Names, NEW k \in 0..MaxSource,
                 UploadCreate(i, c, n, k), job'[i].at \in {"open", "read", "copy"}
          PROVE  /\ job'[i].at = "copy" /\ entry'[job'[i].name] = job'[i].file
                 /\ data'[job'[i].file] = [p \in 1..job'[i].pos |-> i]
      <4>1. PICK f \in Target(n) :
              /\ entry' = [entry EXCEPT ![n] = f]
              /\ data' = [data EXCEPT ![f] = <<>>]
              /\ \/ Step(i, [NewJob EXCEPT !.at = "copy", !.conn = c, !.name = n, !.src = k,
                                           !.file = f, !.stored = job[i].stored])
                 \/ Refuse(i, c)
        BY <3>1 DEF UploadCreate
      <4>2. f \in Files
        BY <4>1 DEF Target, Unused
      <4>3. ~Refuse(i, c)
        BY <3>a, <3>1 DEF Refuse, NewJob
      <4>r. job'[i] = [NewJob EXCEPT !.at = "copy", !.conn = c, !.name = n, !.src = k,
                                     !.file = f, !.stored = job[i].stored]
        BY <3>a, <4>1, <4>3
      <4>4. job'[i].at = "copy" /\ job'[i].name = n /\ job'[i].file = f /\ job'[i].pos = 0
        BY <4>r DEF NewJob
      <4>5. entry'[n] = f /\ data'[f] = <<>>
        BY <3>0, <4>1, <4>2
      <4>6. <<>> = [p \in 1..0 |-> i]
        OBVIOUS
      <4> QED
        BY <4>4, <4>5, <4>6
    <3>2. ASSUME UploadWrite(i)
          PROVE  /\ job'[i].at = "copy" /\ entry'[job'[i].name] = job'[i].file
                 /\ data'[job'[i].file] = [p \in 1..job'[i].pos |-> i]
      <4> DEFINE f == job[i].file
                 n == job[i].pos
      <4>1. /\ job'[i].at = "copy" /\ job'[i].file = f /\ job'[i].pos = n + 1
            /\ job'[i].name = job[i].name /\ entry' = entry
            /\ data' = [data EXCEPT ![f] = Put(data[f], n + 1, i)]
            /\ job[i].at = "copy"
        BY <3>0, <3>a, <3>2 DEF UploadWrite, JobType
      <4>2. f \in Files /\ n \in Nat /\ entry[job[i].name] = f /\ data[f] = [p \in 1..n |-> i]
        BY <2>3, <2>6, <3>0, <4>1 DEF ExactInv, UploadExact, Placed, JobType
      <4> HIDE DEF f, n
      <4>3. Len([p \in 1..n |-> i]) = n
        BY <4>2
      <4>4. Put([p \in 1..n |-> i], n + 1, i) = [p \in 1..(n + 1) |-> i]
        BY <4>2, <4>3 DEF Put
      <4>5. data'[f] = [p \in 1..(n + 1) |-> i]
        BY <3>0, <4>1, <4>2, <4>4
      <4> QED
        BY <4>1, <4>2, <4>5
    <3>3. ASSUME NEW c \in Conns, NEW n \in Names, DownloadStat(i, c, n),
                 job'[i].at \in {"open", "read", "copy"}
          PROVE  /\ job'[i].at = "open" /\ entry'[job'[i].name] \in Files
                 /\ job'[i].size = Len(data'[entry'[job'[i].name]])
                 /\ job'[i].pos = 0 /\ job'[i].saw = <<>>
      <4>1. PICK stat, at, size, answer :
              /\ stat \in StatOf(n)
              /\ at = IF stat = "file" THEN "open" ELSE "done"
              /\ size = IF stat = "file" THEN Len(data[entry[n]]) ELSE 0
              /\ Step(i, [NewJob EXCEPT !.conn = c, !.name = n, !.stat = stat, !.at = at,
                                        !.size = size, !.answer = answer])
        BY <3>3 DEF DownloadStat
      <4>2. job'[i].name = n /\ job'[i].at = at /\ job'[i].size = size
        BY <3>a, <4>1 DEF NewJob
      <4>3. job'[i].pos = 0 /\ job'[i].saw = <<>>
        BY <3>a, <4>1 DEF NewJob
      <4>4. stat = "file" /\ entry[n] \in Files
        BY <3>3, <4>1, <4>2 DEF StatOf
      <4> QED
        BY <3>3, <4>1, <4>2, <4>3, <4>4 DEF DownloadStat
    <3>4. ASSUME DownloadOpen(i), job'[i].at \in {"open", "read", "copy"}
          PROVE  /\ job'[i].at = "read"
                 /\ job'[i].size = Len(data'[job'[i].file])
                 /\ job'[i].saw = SubSeq(data'[job'[i].file], 1, job'[i].pos)
      <4> DEFINE e == entry[job[i].name]
      <4>1. job[i].at = "open" /\ data' = data
        BY <3>4 DEF DownloadOpen
      <4>2. ASSUME NEW a, Answer(i, a) PROVE FALSE
        <5>1. job'[i] = [job[i] EXCEPT !.at = "done", !.answer = a]
          BY <3>a, <4>2 DEF Answer
        <5>2. job'[i].at = "done"
          BY <3>0, <5>1 DEF JobType
        <5> QED
          BY <3>4, <5>2
      <4>3. e \in Files /\ Step(i, [job[i] EXCEPT !.at = "read", !.file = e])
        BY <3>4, <4>2 DEF DownloadOpen
      <4>4. /\ job'[i].at = "read" /\ job'[i].file = e /\ job'[i].size = job[i].size
            /\ job'[i].pos = job[i].pos /\ job'[i].saw = job[i].saw
        <5>1. job'[i] = [job[i] EXCEPT !.at = "read", !.file = e]
          BY <3>a, <4>3
        <5> HIDE DEF e
        <5> QED
          BY <3>0, <5>1 DEF JobType
      <4>5. job[i].size = Len(data[e]) /\ job[i].pos = 0 /\ job[i].saw = <<>>
        BY <2>3, <2>6, <4>1 DEF ExactInv, OpenExact
      <4>6. SubSeq(data[e], 1, 0) = <<>>
        BY <3>0, <4>3
      <4> QED
        BY <4>1, <4>4, <4>5, <4>6
    <3>5. ASSUME DownloadRead(i)
          PROVE  /\ job'[i].at = "read"
                 /\ job'[i].size = Len(data'[job'[i].file])
                 /\ job'[i].saw = SubSeq(data'[job'[i].file], 1, job'[i].pos)
      <4> DEFINE d == data[job[i].file]
                 n == job[i].pos
      <4>1. /\ job'[i].at = "read" /\ job'[i].file = job[i].file /\ job'[i].pos = n + 1
            /\ job'[i].size = job[i].size /\ job'[i].saw = Append(job[i].saw, d[n + 1])
            /\ job[i].at = "read" /\ data' = data /\ n + 1 <= Len(d)
        BY <3>0, <3>a, <3>5 DEF DownloadRead, JobType
      <4>2. d \in Seq(Blocks) /\ n \in Nat /\ job[i].size = Len(d) /\ job[i].saw = SubSeq(d, 1, n)
        BY <2>3, <2>6, <3>0, <4>1 DEF ExactInv, DownloadExact, Placed, JobType
      <4>3. Append(SubSeq(d, 1, n), d[n + 1]) = SubSeq(d, 1, n + 1)
        <5> HIDE DEF d, n
        <5>1. SubSeq(d, 1, n) = [p \in 1..n |-> d[p]] /\ Len(SubSeq(d, 1, n)) = n
          BY <4>1, <4>2
        <5>2. SubSeq(d, 1, n + 1) = [p \in 1..(n + 1) |-> d[p]]
          BY <4>1, <4>2
        <5>3. SubSeq(d, 1, n) \in Seq(Blocks)
          BY <4>1, <4>2
        <5>4. Append(SubSeq(d, 1, n), d[n + 1]) = [p \in 1..(n + 1) |-> IF p = n + 1 THEN d[n + 1] ELSE d[p]]
          BY <4>2, <5>1, <5>3
        <5> QED
          BY <4>2, <5>2, <5>4
      <4> QED
        BY <4>1, <4>2, <4>3
    <3> QED
      BY <1>0, <1>2, <3>1, <3>2, <3>3, <3>4, <3>5, LockMoves DEF Transfer, FilesInv
  <2> QED
    BY <1>0, <2>5, <2>6 DEF ExactInv, OpenExact, DownloadExact, UploadExact
<1> QED
  BY <1>1, <1>2 DEF FilesNext, AllServed

-----------------------------------------------------------------------------
(***************************************************************************)
(* The theorems.                                                           *)
(***************************************************************************)
\* The invariant of the handlers, from which the theorems follow.
LEMMA FilesInvariant == FilesSpec => []ExactInv
<1>1. FilesInit => ExactInv
  <2> SUFFICES ASSUME FilesInit PROVE ExactInv
    OBVIOUS
  <2>1. \A j \in Jobs : job[j].at = "idle"
    BY DEF FilesInit, NewJob
  <2> QED
    BY <2>1, FilesAssumption, FilesInvStarts
       DEF ExactInv, OpenExact, DownloadExact, UploadExact
<1>2. ExactInv /\ [FilesNext]_filesVars => ExactInv'
  BY FilesAssumption, ExactInvKeeps
<1> QED
  BY <1>1, <1>2, PTL DEF FilesSpec

\* The handlers' records, the names and the files keep their types, whatever the
\* cap and however many requests there are.
THEOREM FilesTypeCorrect == FilesSpec => []FilesTypeOK
<1>1. ExactInv => FilesTypeOK
  BY DEF ExactInv, FilesInv
<1> QED
  BY <1>1, FilesInvariant, PTL

\* Uploads over one connection never mix their blocks in a file: what the lock
\* taken before Create and released after Close is for.
THEOREM UploadsStayApart == FilesSpec => []UploadsApart
<1>1. ExactInv => UploadsApart
  BY DEF ExactInv, FilesInv
<1> QED
  BY <1>1, FilesInvariant, PTL

\* A session alone on the server gets under the name what it uploads.
THEOREM UploadsAreExact == FilesSpec => []UploadExact
<1>1. ExactInv => UploadExact
  BY DEF ExactInv
<1> QED
  BY <1>1, FilesInvariant, PTL

\* Its downloads have the length announced and the content of the file.
THEOREM DownloadsAreExact == FilesSpec => []DownloadExact
<1>1. ExactInv => DownloadExact
  BY DEF ExactInv
<1> QED
  BY <1>1, FilesInvariant, PTL
-----------------------------------------------------------------------------
(***************************************************************************)
(* CapExact.                                                               *)
(***************************************************************************)
\* What a request's place and answer say of the length of its part.
Capped(r) ==
    /\ r.at = "parts" => r.pos = r.src /\ r.src <= MaxUpload
    /\ r.at = "oversize" => r.src > MaxUpload
    /\ r.answer = "too_large" => r.at = "done" /\ r.src > MaxUpload

\* A request that has written beyond the cap, or has ended without storing.
Late(r) ==
    \/ r.at = "copy" /\ r.pos > MaxUpload
    \/ r.at = "oversize"
    \/ r.at = "done" /\ r.answer \in {"too_large", "sftp_error"}

CapIInv ==
    /\ \A j \in Jobs : Capped(job[j])
    /\ \A f \in Files :
         /\ Len(data[f]) <= MaxUpload + 1
         /\ Len(data[f]) > MaxUpload =>
              data[f][MaxUpload + 1] \in Jobs /\ Late(job[data[f][MaxUpload + 1]])

\* A request that is too late stays so, and no step makes it answer wrongly.
LEMMA CapMoves ==
    ASSUME FilesAssumption, FilesTypeOK, NEW j \in Jobs, JobStep(j), Capped(job[j])
    PROVE  Capped(job'[j]) /\ (Late(job[j]) => Late(job'[j]))
<1> DEFINE Goal == Capped(job'[j]) /\ (Late(job[j]) => Late(job'[j]))
<1>0. job \in [Jobs -> JobType] /\ job[j] \in JobType /\ Placed(job[j]) /\ MaxUpload \in Nat
  BY DEF FilesTypeOK, FilesAssumption
<1>a. ASSUME NEW r, Step(j, r) PROVE job'[j] = r
  BY <1>0, <1>a DEF Step
<1>b. ASSUME NEW a, Answer(j, a),
             a = "too_large" => job[j].src > MaxUpload,
             Late(job[j]) => a \in {"too_large", "sftp_error"}
      PROVE  Goal
  <2>1. /\ job'[j].at = "done" /\ job'[j].answer = a /\ job'[j].src = job[j].src
    BY <1>0, <1>a, <1>b DEF Answer, JobType
  <2> QED
    BY <1>b, <2>1 DEF Capped, Late
<1>c. ASSUME NEW r, Step(j, r), job[j].at \in {"idle", "parts"}, r.answer # "too_large",
             r.at \notin {"parts", "oversize"}
      PROVE  Goal
  BY <1>a, <1>c DEF Capped, Late
<1>d. ASSUME NEW c \in Conns, Refuse(j, c), job[j].at \in {"idle", "parts"}
      PROVE  Goal
  BY <1>c, <1>d DEF Refuse, NewJob
<1>1. ASSUME NEW c \in Conns, NEW n \in Names, NEW k \in 0..MaxSource, UploadCreate(j, c, n, k)
      PROVE  Goal
  <2>1. job[j].at \in {"idle", "parts"}
    BY <1>1 DEF UploadCreate, NextPart
  <2>2. PICK f \in Target(n) :
          \/ Step(j, [NewJob EXCEPT !.at = "copy", !.conn = c, !.name = n, !.src = k,
                                    !.file = f, !.stored = job[j].stored])
          \/ Refuse(j, c)
    BY <1>1 DEF UploadCreate
  <2> QED
    BY <1>c, <1>d, <2>1, <2>2 DEF NewJob
<1>2. ASSUME NEW c \in Conns, NEW n \in Names, UploadRefused(j, c, n)
      PROVE  Goal
  BY <1>d, <1>2 DEF UploadRefused, NextPart
<1>3. CASE UploadWrite(j)
  <2>1. job'[j] = [job[j] EXCEPT !.pos = job[j].pos + 1] /\ job[j].at = "copy"
    BY <1>a, <1>3 DEF UploadWrite
  <2>2. job'[j].at = "copy" /\ job'[j].answer = job[j].answer /\ job'[j].pos = job[j].pos + 1
    BY <1>0, <2>1 DEF JobType
  <2>3. job[j].pos \in Nat
    BY <1>0 DEF JobType
  <2> QED
    BY <1>0, <2>1, <2>2, <2>3 DEF Capped, Late
<1>4. CASE UploadBreak(j)
  BY <1>b, <1>4 DEF UploadBreak
<1>5. CASE UploadTooLong(j)
  <2>1. job'[j] = [job[j] EXCEPT !.at = "oversize"] /\ job[j].at = "copy"
        /\ job[j].pos > MaxUpload /\ job[j].pos = Cut(job[j].src)
    BY <1>a, <1>5 DEF UploadTooLong, Copied
  <2>2. job'[j].at = "oversize" /\ job'[j].answer = job[j].answer /\ job'[j].src = job[j].src
    BY <1>0, <2>1 DEF JobType
  <2>3. job[j].src \in Int
    BY <1>0, FilesAssumption DEF JobType, FilesAssumption
  <2>4. job[j].src > MaxUpload
    BY <1>0, <2>1, <2>3 DEF Cut
  <2> QED
    BY <2>1, <2>2, <2>4 DEF Capped, Late
<1>6. CASE UploadStored(j)
  <2>1. job[j].at = "copy" /\ job[j].pos <= MaxUpload /\ job[j].pos = Cut(job[j].src)
    BY <1>6 DEF UploadStored, Copied
  <2>2. job[j].src \in Int
    BY <1>0, FilesAssumption DEF JobType, FilesAssumption
  <2>3. job[j].src = job[j].pos /\ ~Late(job[j])
    BY <1>0, <2>1, <2>2 DEF Cut, Late
  <2>4. CASE Answer(j, "sftp_error")
    BY <1>b, <2>4
  <2>5. CASE Step(j, [job[j] EXCEPT !.at = "parts", !.stored = @ \cup {job[j].name}])
    <3> DEFINE r == [job[j] EXCEPT !.at = "parts", !.stored = @ \cup {job[j].name}]
    <3>1. r.at = "parts" /\ r.pos = job[j].pos /\ r.src = job[j].src /\ r.answer = job[j].answer
      BY <1>0 DEF JobType
    <3>2. job'[j] = r
      BY <1>a, <2>5
    <3> QED
      BY <2>1, <2>3, <3>1, <3>2 DEF Capped
  <2> QED
    BY <1>6, <2>4, <2>5 DEF UploadStored
<1>7. CASE UploadRemove(j)
  BY <1>b, <1>7 DEF UploadRemove, Capped
<1>8. CASE UploadEnd(j) \/ DownloadEnd(j)
  <2>1. job[j].at \in {"parts", "read"} /\ \E a \in {"ok", "bad_request", "cut"} : Answer(j, a)
    BY <1>8 DEF UploadEnd, DownloadEnd
  <2> QED
    BY <1>b, <2>1 DEF Late
<1>9. ASSUME NEW c \in Conns, NEW n \in Names, DownloadStat(j, c, n)
      PROVE  Goal
  <2>1. PICK stat, answer, size :
          /\ stat \in StatOf(n)
          /\ answer \in Answers /\ answer # "too_large"
          /\ Step(j, [NewJob EXCEPT
                       !.conn = c, !.name = n, !.stat = stat,
                       !.at = IF stat = "file" THEN "open" ELSE "done",
                       !.size = size, !.answer = answer])
    <3>1. PICK stat \in StatOf(n) :
            Step(j, [NewJob EXCEPT
                      !.conn = c, !.name = n, !.stat = stat,
                      !.at = IF stat = "file" THEN "open" ELSE "done",
                      !.size = IF stat = "file" THEN Len(data[entry[n]]) ELSE 0,
                      !.answer = CASE stat = "file" -> "none"
                                   [] stat = "dir" -> "is_directory"
                                   [] OTHER -> StatAnswer(stat)])
      BY <1>9 DEF DownloadStat
    <3>2. PICK answer : answer = CASE stat = "file" -> "none"
                                   [] stat = "dir" -> "is_directory"
                                   [] OTHER -> StatAnswer(stat)
      OBVIOUS
    <3>3. answer \in Answers /\ answer # "too_large"
      BY <3>2 DEF Answers, StatAnswer
    <3> QED
      BY <3>1, <3>2, <3>3
  <2> DEFINE r == [NewJob EXCEPT
                    !.conn = c, !.name = n, !.stat = stat,
                    !.at = IF stat = "file" THEN "open" ELSE "done",
                    !.size = size, !.answer = answer]
  <2>2. r.answer = answer /\ r.at \in {"open", "done"}
    BY DEF NewJob
  <2>3. job[j].at = "idle"
    BY <1>9 DEF DownloadStat, Begin
  <2> HIDE DEF r
  <2> QED
    BY <1>c, <2>1, <2>2, <2>3 DEF r
<1>10. CASE DownloadOpen(j)
  <2>1. job[j].at = "open"
    BY <1>10 DEF DownloadOpen
  <2>2. CASE \E a \in {"not_found", "sftp_error"} : Answer(j, a)
    BY <1>b, <2>1, <2>2 DEF Late
  <2>3. CASE Step(j, [job[j] EXCEPT !.at = "read", !.file = entry[job[j].name]])
    <3> DEFINE r == [job[j] EXCEPT !.at = "read", !.file = entry[job[j].name]]
    <3>1. r.at = "read" /\ r.answer = job[j].answer
      BY <1>0 DEF JobType
    <3>2. job'[j] = r
      BY <1>a, <2>3
    <3> QED
      BY <2>1, <3>1, <3>2 DEF Capped, Late
  <2> QED
    BY <1>10, <2>2, <2>3 DEF DownloadOpen
<1>11. CASE DownloadRead(j)
  <2> DEFINE r == [job[j] EXCEPT !.pos = job[j].pos + 1,
                                 !.saw = Append(@, data[job[j].file][job[j].pos + 1])]
  <2>1. job[j].at = "read" /\ job'[j] = r
    BY <1>a, <1>11 DEF DownloadRead
  <2>2. r.at = job[j].at /\ r.answer = job[j].answer
    BY <1>0 DEF JobType
  <2> QED
    BY <2>1, <2>2 DEF Capped, Late
<1>e. ASSUME NEW c \in Conns, NEW n \in Names, NEW r \in JobType,
             r.at \in {"make", "move"}, r.answer = "none", Check(j, c, n, r)
      PROVE  Goal
  <2>1. PICK stat \in StatOf(n) :
          Step(j, IF stat \in {"file", "dir"}
                  THEN [r EXCEPT !.at = "done", !.stat = stat, !.answer = "exists"]
                  ELSE [r EXCEPT !.stat = stat])
    BY <1>e DEF Check
  <2>2. /\ [r EXCEPT !.at = "done", !.stat = stat, !.answer = "exists"].at = "done"
        /\ [r EXCEPT !.at = "done", !.stat = stat, !.answer = "exists"].answer = "exists"
        /\ [r EXCEPT !.stat = stat].at = r.at /\ [r EXCEPT !.stat = stat].answer = r.answer
    BY DEF JobType
  <2>3. job[j].at = "idle"
    BY <1>e DEF Check, Begin
  <2> QED
    BY <1>c, <1>e, <2>1, <2>2, <2>3
<1>12. ASSUME NEW c \in Conns, NEW n \in Names, MkdirStat(j, c, n) PROVE Goal
  <2> DEFINE r == [NewJob EXCEPT !.at = "make", !.conn = c, !.name = n]
  <2>1. r \in JobType /\ r.at = "make" /\ r.answer = "none"
    BY NewJobType DEF JobType, Places, Answers, NewJob
  <2> QED
    BY <1>e, <1>12, <2>1 DEF MkdirStat
<1>13. ASSUME NEW c \in Conns, NEW n \in Names, NEW m \in Names, RenameStat(j, c, n, m)
       PROVE  Goal
  <2> DEFINE r == [NewJob EXCEPT !.at = "move", !.conn = c, !.name = n, !.to = m]
  <2>1. r \in JobType /\ r.at = "move" /\ r.answer = "none"
    BY NewJobType DEF JobType, Places, Answers, NewJob
  <2> QED
    BY <1>e, <1>13, <2>1 DEF RenameStat
<1>14. CASE MkdirMake(j) \/ RenameMove(j) \/ RemoveUnlink(j)
  <2>1. /\ job[j].at \in {"make", "move", "unlink"}
        /\ \E a \in {"ok", "not_found", "sftp_error"} : Answer(j, a)
    BY <1>14 DEF MkdirMake, RenameMove, RemoveUnlink, Change, StatAnswer
  <2> QED
    BY <1>b, <2>1 DEF Late
<1>15. ASSUME NEW c \in Conns, NEW n \in Names, RemoveStat(j, c, n) PROVE Goal
  <2>1. PICK stat \in StatOf(n) :
          Step(j, [NewJob EXCEPT !.at = "unlink", !.conn = c, !.name = n, !.stat = stat])
    BY <1>15 DEF RemoveStat
  <2>2. job[j].at = "idle"
    BY <1>15 DEF RemoveStat, Begin
  <2> QED
    BY <1>c, <2>1, <2>2 DEF NewJob
<1> QED
  BY <1>1, <1>2, <1>3, <1>4, <1>5, <1>6, <1>7, <1>8, <1>9, <1>10, <1>11, <1>12, <1>13,
     <1>14, <1>15 DEF JobStep
LEMMA CapKeeps ==
    ASSUME FilesAssumption, FilesTypeOK, CapIInv, [FilesNext]_filesVars
    PROVE  CapIInv'
<1>1. CASE UNCHANGED <<data, job>>
  BY <1>1 DEF CapIInv
<1>2. ASSUME NEW j \in Jobs, JobStep(j) PROVE CapIInv'
  <2>0. /\ job \in [Jobs -> JobType] /\ data \in [Files -> Seq(Blocks)] /\ MaxUpload \in Nat
        /\ job' = [job EXCEPT ![j] = job'[j]] /\ job'[j] \in JobType /\ Placed(job'[j])
    BY <1>2, JobMoves DEF FilesTypeOK, FilesAssumption
  <2>1. \A i \in Jobs : Capped(job'[i]) /\ (Late(job[i]) => Late(job'[i]))
    <3>1. Capped(job'[j]) /\ (Late(job[j]) => Late(job'[j]))
      BY <1>2, CapMoves DEF CapIInv
    <3>2. \A i \in Jobs \ {j} : job'[i] = job[i]
      BY <2>0
    <3> QED
      BY <3>1, <3>2 DEF CapIInv
  <2>2. ASSUME NEW f \in Files, data'[f] \in {data[f], <<>>}
        PROVE  /\ Len(data'[f]) <= MaxUpload + 1
               /\ Len(data'[f]) > MaxUpload =>
                    data'[f][MaxUpload + 1] \in Jobs /\ Late(job'[data'[f][MaxUpload + 1]])
    <3>1. CASE data'[f] = data[f]
      BY <2>1, <3>1 DEF CapIInv
    <3>2. CASE data'[f] = <<>>
      BY <2>0, <3>2
    <3> QED
      BY <2>2, <3>1, <3>2
  <2>3. CASE UNCHANGED data \/ \E f \in Files : data' = [data EXCEPT ![f] = <<>>]
    <3>1. \A f \in Files : data'[f] \in {data[f], <<>>}
      BY <2>0, <2>3
    <3> QED
      BY <2>1, <2>2, <3>1 DEF CapIInv
  <2>4. CASE UploadWrite(j)
    <3> DEFINE f == job[j].file
               i == job[j].pos + 1
               s == data[f]
               t == Put(s, i, j)
    <3>1. /\ job[j].at = "copy" /\ i <= Cut(job[j].src)
          /\ data' = [data EXCEPT ![f] = t] /\ job'[j] = [job[j] EXCEPT !.pos = i]
      BY <2>0, <2>4 DEF UploadWrite, Step
    <3>2. f \in Files /\ i \in Nat \ {0} /\ s \in Seq(Blocks) /\ j \in Blocks
      BY <2>0, <3>1 DEF FilesTypeOK, Placed, JobType, Blocks
    <3>3. job'[j].at = "copy" /\ job'[j].pos = i
      BY <2>0, <3>1 DEF JobType
    <3>4. i <= MaxUpload + 1
      <4>1. job[j].src \in Int
        BY <2>0, FilesAssumption DEF JobType, FilesAssumption
      <4> QED
        BY <2>0, <3>1, <3>2, <4>1 DEF Cut
    <3>5. Len(s) \in Nat /\ Len(s) <= MaxUpload + 1
      BY <3>2 DEF CapIInv
    <3>7. Len(s) > MaxUpload => s[MaxUpload + 1] \in Jobs /\ Late(job[s[MaxUpload + 1]])
      BY <3>2 DEF CapIInv
    <3>8. data'[f] = t /\ \A g \in Files \ {f} : data'[g] = data[g]
      BY <2>0, <3>1, <3>2
    <3> HIDE DEF f, i, s
    <3>6. /\ Len(t) = IF i > Len(s) THEN i ELSE Len(s)
          /\ \A k \in 1..Len(t) : t[k] = IF k = i THEN j ELSE IF k > Len(s) THEN "hole" ELSE s[k]
      BY <3>2, PutBlocks
    <3> HIDE DEF t
    <3>9. Len(t) <= MaxUpload + 1
      BY <2>0, <3>2, <3>4, <3>5, <3>6
    <3>10. ASSUME Len(t) > MaxUpload
           PROVE  t[MaxUpload + 1] \in Jobs /\ Late(job'[t[MaxUpload + 1]])
      <4>1. MaxUpload + 1 \in 1..Len(t) /\ Len(t) = MaxUpload + 1
        BY <2>0, <3>2, <3>5, <3>6, <3>9, <3>10
      <4>2. CASE i = MaxUpload + 1
        <5>1. t[MaxUpload + 1] = j
          BY <3>6, <4>1, <4>2
        <5>2. Late(job'[j])
          BY <2>0, <3>3, <4>2 DEF Late
        <5> QED
          BY <5>1, <5>2
      <4>3. CASE i # MaxUpload + 1
        <5>1. Len(s) = MaxUpload + 1
          BY <2>0, <3>2, <3>4, <3>5, <3>6, <4>1, <4>3
        <5>2. t[MaxUpload + 1] = s[MaxUpload + 1]
          BY <2>0, <3>6, <4>1, <4>3, <5>1
        <5>3. s[MaxUpload + 1] \in Jobs /\ Late(job[s[MaxUpload + 1]])
          BY <2>0, <3>7, <5>1
        <5> QED
          BY <2>1, <5>2, <5>3
      <4> QED
        BY <4>2, <4>3
    <3>11. \A g \in Files \ {f} :
             /\ Len(data'[g]) <= MaxUpload + 1
             /\ Len(data'[g]) > MaxUpload =>
                  data'[g][MaxUpload + 1] \in Jobs /\ Late(job'[data'[g][MaxUpload + 1]])
      BY <2>2, <3>8
    <3> QED
      BY <2>1, <3>8, <3>9, <3>10, <3>11 DEF CapIInv
  <2>5. \/ UNCHANGED data \/ \E f \in Files : data' = [data EXCEPT ![f] = <<>>]
        \/ UploadWrite(j)
    <3>1. ASSUME NEW c \in Conns, NEW n \in Names, NEW k \in 0..MaxSource, UploadCreate(j, c, n, k)
          PROVE  \E f \in Files : data' = [data EXCEPT ![f] = <<>>]
      BY <3>1 DEF UploadCreate, Target, Unused
    <3>2. CASE ~UploadWrite(j) /\ ~\E c \in Conns, n \in Names, k \in 0..MaxSource :
                                      UploadCreate(j, c, n, k)
      BY <1>2, <3>2 DEF JobStep, UploadRefused, DownloadStat, MkdirStat, RenameStat, RemoveStat,
         Check, UploadBreak, UploadTooLong, UploadStored, UploadRemove, UploadEnd, DownloadOpen,
         DownloadRead, DownloadEnd, MkdirMake, RenameMove, RemoveUnlink, Change
    <3> QED
      BY <3>1, <3>2
  <2> QED
    BY <2>3, <2>4, <2>5
<1> QED
  BY <1>1, <1>2 DEF FilesNext, AllServed, filesVars

\* The cap is met to the block, for any cap, any number of requests and of
\* connections that upload to one file (handlers_sftp.go:237-252).
THEOREM CapMetExactly == FilesSpec => []CapExact
<1>1. FilesInit => CapIInv
  <2> SUFFICES ASSUME FilesInit PROVE CapIInv
    OBVIOUS
  <2>1. \A j \in Jobs : Capped(job[j])
    BY DEF FilesInit, NewJob, Capped
  <2>2. \A f \in Files : Len(data[f]) <= MaxUpload
    <3>1. Len([i \in 1..MaxUpload |-> "old"]) = MaxUpload /\ Len(<<>>) = 0
      BY FilesAssumption DEF FilesAssumption
    <3> QED
      BY <3>1, FilesAssumption DEF FilesInit, FilesAssumption
  <2>3. \A f \in Files : Len(data[f]) \in Nat
    <3>1. Len([i \in 1..MaxUpload |-> "old"]) = MaxUpload /\ Len(<<>>) = 0
      BY FilesAssumption DEF FilesAssumption
    <3> QED
      BY <3>1, FilesAssumption DEF FilesInit, FilesAssumption
  <2> QED
    BY <2>1, <2>2, <2>3, FilesAssumption DEF CapIInv, FilesAssumption
<1>2. FilesTypeOK /\ CapIInv /\ [FilesNext]_filesVars => CapIInv'
  BY CapKeeps, FilesAssumption
<1>3. CapIInv => CapExact
  BY DEF CapIInv, Capped, Late, CapExact
<1> QED
  BY <1>1, <1>2, <1>3, FilesTypeCorrect, PTL DEF FilesSpec

-----------------------------------------------------------------------------
(***************************************************************************)
(* FilesKept.                                                              *)
(***************************************************************************)
\* What Stat told a rename of its target still holds when it moves the file.
MoveExact ==
    \A j \in Jobs : Solo /\ job[j].at = "move" =>
      job[j].stat = "failed" \/ entry[job[j].to] \notin Files

\* A request that comes to the move has just looked at its target.
LEMMA MoveLooks ==
    ASSUME FilesAssumption, FilesTypeOK, NEW j \in Jobs, JobStep(j), job'[j].at = "move"
    PROVE  /\ entry' = entry
           /\ job'[j].stat = "failed" \/ entry[job'[j].to] \notin Files
<1> DEFINE Goal == /\ entry' = entry
                   /\ job'[j].stat = "failed" \/ entry[job'[j].to] \notin Files
<1>0. job \in [Jobs -> JobType] /\ job[j] \in JobType
  BY DEF FilesTypeOK
<1>a. ASSUME NEW r, Step(j, r) PROVE job'[j] = r
  BY <1>0, <1>a DEF Step
<1>b. ASSUME NEW a, Answer(j, a) PROVE FALSE
  <2>1. job'[j].at = "done"
    BY <1>0, <1>a, <1>b DEF Answer, JobType
  <2> QED
    BY <2>1
<1>c. ASSUME NEW c, Refuse(j, c) PROVE FALSE
  BY <1>a, <1>c DEF Refuse, NewJob
<1>1. ASSUME NEW c \in Conns, NEW n \in Names, NEW k \in 0..MaxSource, UploadCreate(j, c, n, k)
      PROVE  FALSE
  <2>1. PICK f : Step(j, [NewJob EXCEPT !.at = "copy", !.conn = c, !.name = n, !.src = k,
                                        !.file = f, !.stored = job[j].stored])
    BY <1>c, <1>1 DEF UploadCreate
  <2> QED
    BY <1>a, <2>1 DEF NewJob
<1>2. ASSUME NEW c \in Conns, NEW n \in Names, UploadRefused(j, c, n) PROVE FALSE
  BY <1>c, <1>2 DEF UploadRefused
<1>3. ASSUME NEW c \in Conns, NEW n \in Names, DownloadStat(j, c, n) \/ RemoveStat(j, c, n)
      PROVE  FALSE
  <2>1. ASSUME DownloadStat(j, c, n) PROVE FALSE
    <3>1. PICK stat, size, answer :
            Step(j, [NewJob EXCEPT
                      !.conn = c, !.name = n, !.stat = stat,
                      !.at = IF stat = "file" THEN "open" ELSE "done",
                      !.size = size, !.answer = answer])
      BY <2>1 DEF DownloadStat
    <3> QED
      BY <1>a, <3>1 DEF NewJob
  <2>2. ASSUME RemoveStat(j, c, n) PROVE FALSE
    BY <1>a, <2>2 DEF RemoveStat, NewJob
  <2> QED
    BY <1>3, <2>1, <2>2
<1>4. ASSUME NEW c \in Conns, NEW n \in Names, MkdirStat(j, c, n) PROVE FALSE
  <2>1. PICK stat :
          LET r == [NewJob EXCEPT !.at = "make", !.conn = c, !.name = n]
          IN  Step(j, IF stat \in {"file", "dir"}
                      THEN [r EXCEPT !.at = "done", !.stat = stat, !.answer = "exists"]
                      ELSE [r EXCEPT !.stat = stat])
    BY <1>4 DEF MkdirStat, Check
  <2> QED
    BY <1>a, <2>1 DEF NewJob
<1>5. ASSUME NEW c \in Conns, NEW n \in Names, NEW m \in Names, RenameStat(j, c, n, m)
      PROVE  Goal
  <2> DEFINE r == [NewJob EXCEPT !.at = "move", !.conn = c, !.name = n, !.to = m]
  <2>1. PICK stat \in StatOf(m) :
          Step(j, IF stat \in {"file", "dir"}
                  THEN [r EXCEPT !.at = "done", !.stat = stat, !.answer = "exists"]
                  ELSE [r EXCEPT !.stat = stat])
    BY <1>5 DEF RenameStat, Check
  <2>2. stat \notin {"file", "dir"}
    BY <1>a, <2>1 DEF NewJob
  <2>3. job'[j].stat = stat /\ job'[j].to = m
    BY <1>a, <2>1, <2>2 DEF NewJob
  <2>4. stat = "failed" \/ entry[m] \notin Files
    BY <2>1, <2>2 DEF StatOf
  <2> QED
    BY <1>5, <2>3, <2>4 DEF RenameStat, Check
<1>6. CASE UploadWrite(j) \/ UploadTooLong(j) \/ DownloadRead(j)
  BY <1>0, <1>a, <1>6 DEF UploadWrite, UploadTooLong, Copied, DownloadRead, JobType
<1>7. CASE UploadStored(j)
  <2>1. Step(j, [job[j] EXCEPT !.at = "parts", !.stored = @ \cup {job[j].name}])
    BY <1>b, <1>7 DEF UploadStored
  <2> QED
    BY <1>0, <1>a, <2>1 DEF JobType
<1>8. CASE DownloadOpen(j)
  <2>1. Step(j, [job[j] EXCEPT !.at = "read", !.file = entry[job[j].name]])
    BY <1>b, <1>8 DEF DownloadOpen
  <2> QED
    BY <1>0, <1>a, <2>1 DEF JobType
<1>9. CASE UploadBreak(j) \/ UploadRemove(j) \/ UploadEnd(j) \/ DownloadEnd(j)
  BY <1>b, <1>9 DEF UploadBreak, UploadRemove, UploadEnd, DownloadEnd
<1>10. CASE MkdirMake(j) \/ RenameMove(j) \/ RemoveUnlink(j)
  BY <1>b, <1>10 DEF MkdirMake, RenameMove, RemoveUnlink, Change
<1> QED
  BY <1>1, <1>2, <1>3, <1>4, <1>5, <1>6, <1>7, <1>8, <1>9, <1>10 DEF JobStep

LEMMA MoveExactKeeps ==
    ASSUME FilesAssumption, FilesInv, MoveExact, [FilesNext]_filesVars
    PROVE  MoveExact'
<1>1. CASE UNCHANGED filesVars
  BY <1>1 DEF filesVars, MoveExact, Solo
<1>2. ASSUME NEW i \in Jobs, JobStep(i) PROVE MoveExact'
  <2>1. job' = [job EXCEPT ![i] = job'[i]] /\ FilesTypeOK
    BY <1>2, JobMoves DEF FilesInv
  <2>2. \A j \in Jobs : j # i => job'[j] = job[j]
    BY <2>1 DEF FilesTypeOK
  <2>3. Solo' => Solo
    BY <1>2, SoloBefore
  <2>4. ASSUME NEW j \in Jobs, Solo', job'[j].at = "move"
        PROVE  job'[j].stat = "failed" \/ entry'[job'[j].to] \notin Files
    <3>1. CASE j = i
      BY <1>2, <2>1, <2>4, <3>1, MoveLooks
    <3>2. CASE j # i
      <4>1. job'[j] = job[j] /\ job[j].at = "move"
        BY <2>2, <2>4, <3>2
      <4>2. job[j].at \in Locked
        BY <4>1 DEF Locked
      <4>3. entry' = entry
        BY <1>2, <2>4, <3>2, <4>2, Quiet
      <4> QED
        BY <2>3, <2>4, <4>1, <4>3 DEF MoveExact
    <3> QED
      BY <3>1, <3>2
  <2> QED
    BY <2>4 DEF MoveExact
<1> QED
  BY <1>1, <1>2 DEF FilesNext, AllServed

\* The steps that take a name away from a file.
LEMMA WhoUnnames ==
    ASSUME FilesAssumption, FilesTypeOK, NEW j \in Jobs, JobStep(j),
           NEW f \in Files, Named(f), ~Named(f)'
    PROVE  /\ job'[j].at = "done"
           /\ \/ job[j].at = "unlink" /\ entry[job[j].name] = f
              \/ job[j].at = "oversize" /\ entry[job[j].name] = f
              \/ job[j].at = "move" /\ job[j].to \in Names /\ entry[job[j].to] = f
<1> DEFINE Goal ==
      /\ job'[j].at = "done"
      /\ \/ job[j].at = "unlink" /\ entry[job[j].name] = f
         \/ job[j].at = "oversize" /\ entry[job[j].name] = f
         \/ job[j].at = "move" /\ job[j].to \in Names /\ entry[job[j].to] = f
<1>0. /\ job \in [Jobs -> JobType] /\ job[j] \in JobType /\ Placed(job[j])
      /\ entry \in [Names -> Files \cup {"none", "dir", "link"}]
  BY DEF FilesTypeOK
<1>a. ASSUME NEW a, Answer(j, a) PROVE job'[j].at = "done"
  BY <1>0, <1>a DEF Answer, Step, JobType
<1>b. PICK p \in Names : entry[p] = f
  BY DEF Named
<1>c. entry'[p] # f /\ entry' # entry
  BY <1>b DEF Named
<1>d. \A n \in Names : \A e : entry' = [entry EXCEPT ![n] = e] => n = p /\ e # f
  BY <1>0, <1>b, <1>c
<1>1. ASSUME NEW c \in Conns, NEW n \in Names, NEW k \in 0..MaxSource, UploadCreate(j, c, n, k)
      PROVE  FALSE
  <2>1. PICK g \in Target(n) : entry' = [entry EXCEPT ![n] = g]
    BY <1>1 DEF UploadCreate
  <2>2. n = p /\ g # f
    BY <1>d, <2>1
  <2> QED
    BY <1>b, <2>1, <2>2 DEF Target
<1>2. CASE UploadRemove(j)
  <2>1. job[j].name \in Names /\ entry' = [entry EXCEPT ![job[j].name] = "none"]
    BY <1>0, <1>2, <1>c DEF UploadRemove, Placed
  <2>2. job[j].name = p
    BY <1>d, <2>1
  <2> QED
    BY <1>2, <1>a, <1>b, <2>2 DEF UploadRemove
<1>3. CASE MkdirMake(j)
  <2> DEFINE n == job[j].name
  <2>1. n \in Names
    BY <1>0, <1>3 DEF MkdirMake, Placed, Locked
  <2>2. entry' = [entry EXCEPT ![n] = IF entry[n] = "none" THEN "dir" ELSE entry[n]]
    BY <1>0, <1>3, <1>c, <2>1 DEF MkdirMake, Change
  <2> HIDE DEF n
  <2>3. n = p /\ (IF entry[n] = "none" THEN "dir" ELSE entry[n]) # f
    BY <1>d, <2>1, <2>2
  <2> QED
    BY <1>b, <2>3, FilesAssumption DEF FilesAssumption
<1>4. CASE RenameMove(j)
  <2> DEFINE n == job[j].name
             m == job[j].to
  <2>1. n \in Names /\ m \in Names /\ job[j].at = "move"
    BY <1>0, <1>4 DEF RenameMove, Placed, Locked
  <2>2. Change(j, [entry EXCEPT ![n] = "none", ![m] = entry[n]])
    BY <1>4, <1>c DEF RenameMove
  <2>3. entry' = [entry EXCEPT ![n] = "none", ![m] = entry[n]]
    BY <1>c, <2>2 DEF Change
  <2>4. job'[j].at = "done"
    BY <1>a, <2>2 DEF Change
  <2> HIDE DEF n, m
  <2>5. entry'[m] = entry[n]
    BY <1>0, <2>1, <2>3
  <2>6. \A q \in Names : q # n /\ q # m => entry'[q] = entry[q]
    BY <1>0, <2>1, <2>3
  <2>7. entry'[m] # f
    BY <2>1 DEF Named
  <2>8. p = m
    BY <1>b, <1>c, <2>5, <2>6, <2>7
  <2> QED
    BY <1>b, <2>1, <2>4, <2>8 DEF m
<1>5. CASE RemoveUnlink(j)
  <2>1. job[j].name \in Names /\ job[j].at = "unlink"
    BY <1>0, <1>5 DEF RemoveUnlink, Placed, Locked
  <2>2. entry' = [entry EXCEPT ![job[j].name] = "none"] /\ \E a : Answer(j, a)
    BY <1>5, <1>c DEF RemoveUnlink
  <2>3. job[j].name = p
    BY <1>d, <2>1, <2>2
  <2> QED
    BY <1>a, <1>b, <2>1, <2>2, <2>3
<1> QED
  BY <1>1, <1>2, <1>3, <1>4, <1>5, <1>c DEF JobStep, UploadRefused, DownloadStat, MkdirStat,
     RenameStat, RemoveStat, Check, UploadWrite, UploadBreak, UploadTooLong, UploadStored,
     UploadEnd, DownloadOpen, DownloadRead, DownloadEnd

\* A file of a session alone on the server goes for cause only: Rename's look at
\* its target holds until the move, as the lock is kept between the two
\* (handlers_sftp.go:313-326).
THEOREM FilesGoForCause == FilesSpec => FilesKept
<1>1. FilesInit => MoveExact
  BY DEF FilesInit, NewJob, MoveExact
<1>2. ExactInv /\ MoveExact /\ [FilesNext]_filesVars => MoveExact'
  BY FilesAssumption, MoveExactKeeps DEF ExactInv
<1> DEFINE Cause ==
      \A f \in Files : Solo /\ Named(f) /\ ~Named(f)' =>
        \E j \in Jobs :
          /\ job'[j].at = "done"
          /\ \/ job[j].at = "unlink" /\ entry[job[j].name] = f
             \/ job[j].at = "oversize" /\ entry[job[j].name] = f
             \/ job[j].at = "move" /\ entry[job[j].to] = f /\ job[j].stat = "failed"
<1>3. ExactInv /\ MoveExact /\ [FilesNext]_filesVars => [Cause]_filesVars
  <2> SUFFICES ASSUME ExactInv, MoveExact, FilesNext, NEW f \in Files, Solo, Named(f), ~Named(f)'
               PROVE  \E j \in Jobs :
                        /\ job'[j].at = "done"
                        /\ \/ job[j].at = "unlink" /\ entry[job[j].name] = f
                           \/ job[j].at = "oversize" /\ entry[job[j].name] = f
                           \/ job[j].at = "move" /\ entry[job[j].to] = f /\ job[j].stat = "failed"
    OBVIOUS
  <2>1. ~UNCHANGED filesVars
    BY DEF filesVars, Named
  <2>2. PICK j \in Jobs : JobStep(j)
    BY <2>1 DEF FilesNext, AllServed
  <2>3. job[j].at = "move" /\ entry[job[j].to] = f => job[j].stat = "failed"
    BY DEF MoveExact
  <2>4. FilesTypeOK
    BY DEF ExactInv, FilesInv
  <2> QED
    BY <2>2, <2>3, <2>4, WhoUnnames, FilesAssumption
<1>4. FilesSpec => [][Cause]_filesVars
  BY <1>1, <1>2, <1>3, FilesInvariant, PTL DEF FilesSpec
<1> QED
  BY <1>4 DEF FilesKept
=============================================================================
