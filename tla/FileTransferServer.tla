------------------------- MODULE FileTransferServer -------------------------
(***************************************************************************)
(* The server's side of file transfers in one session: the file system     *)
(* that FileTransferRequestHandler works on, the upload and the download   *)
(* it keeps between requests, and the files it holds open.  A request is   *)
(* handled in one step by the client's thread, which ends with a reply.    *)
(*                                                                         *)
(* A file is opened without sharing, so the files in use are a set.  What  *)
(* can fail for a reason of its own (access withdrawn in the configuration *)
(* or by another desktop, a full disk, a file in use) is a failure taken   *)
(* from a budget, MaxFailures.                                             *)
(***************************************************************************)
EXTENDS Naturals, Sequences

CONSTANTS
  Names,       \* the names of files and folders, in the order of a listing
  Depth,       \* how deep folders are nested under the current one
  Chunks,      \* what a data message may carry
  NoPath,      \* a null pointer to a File
  MaxFailures  \* how many requests may fail by chance

ASSUME ServerAssumption ==
  /\ Names \subseteq Nat
  /\ Depth \in Nat \ {0}
  /\ MaxFailures \in Nat

VARIABLES
  remote,       \* the server's files
  uploadFile,   \* m_uploadFile
  outputStream, \* m_fileOutputStream
  downloadFile, \* m_downloadFile
  inputStream,  \* m_fileInputStream
  openFiles,    \* the files the process holds a handle of
  requests,     \* what the client has sent
  replies,      \* what it has been sent
  failures,     \* how many requests have failed by chance
  crashed       \* a null stream was used

handlerVars == <<uploadFile, outputStream, downloadFile, inputStream, openFiles>>
serverVars == <<remote, handlerVars, requests, replies, failures, crashed>>

-----------------------------------------------------------------------------
(* Files.  <<>> is the folder both sides have chosen; it is never removed. *)

Paths == UNION {[1..d -> Names] : d \in 1..Depth}

ASSUME NullAssumption == NoPath \notin Paths \cup {<<>>}

Parent(p) == SubSeq(p, 1, Len(p) - 1)
NameOf(p) == p[Len(p)]
Under(p) == {q \in Paths : \A i \in DOMAIN p : i \in DOMAIN q /\ q[i] = p[i]}
\* What is below `to` at q, below p instead.
Moved(q, p, to) == p \o SubSeq(q, Len(to) + 1, Len(q))

Absent == [kind |-> "none", data |-> <<>>]
Folder == [kind |-> "folder", data |-> <<>>]
File(data) == [kind |-> "file", data |-> data]
Node == {Absent, Folder} \cup [kind : {"file"}, data : Seq(Chunks)]

Exists(fs, p) == p \in Paths /\ fs[p].kind # "none"
IsFile(fs, p) == p \in Paths /\ fs[p].kind = "file"
IsFolder(fs, p) == p = <<>> \/ (p \in Paths /\ fs[p].kind = "folder")
NamesIn(fs, p) == {n \in Names : Exists(fs, Append(p, n))}

\* What truncate and mkdir need of the file system.
CanCreate(fs, p) == p \in Paths /\ ~Exists(fs, p) /\ IsFolder(fs, Parent(p))
\* A file in use and a folder with files in it are not removed.
CanRemove(fs, used, p) ==
  Exists(fs, p) /\ p \notin used /\ NamesIn(fs, p) = {}
CanTruncate(fs, used, p) ==
  CanCreate(fs, p) \/ (CanRemove(fs, used, p) /\ IsFolder(fs, Parent(p)))

\* Writing one chunk behind the first pos ones.
Write(data, pos, chunk) ==
  IF pos < Len(data) THEN [data EXCEPT ![pos + 1] = chunk]
                     ELSE Append(data, chunk)

NoStream == [path |-> NoPath, pos |-> 0, open |-> FALSE]
OpenStream(p, pos) == [path |-> p, pos |-> pos, open |-> TRUE]
Closed(s) == [s EXCEPT !.open = FALSE]
Held(s) == IF s.open THEN {s.path} ELSE {}

-----------------------------------------------------------------------------
(* Messages.                                                               *)

Request ==
  [kind : {"list", "size", "mkdir", "remove"}, path : Paths \cup {<<>>}]
  \cup [kind : {"rename"}, path : Paths, to : Paths]
  \cup [kind : {"start upload"}, path : Paths, overwrite : BOOLEAN, offset : Nat]
  \cup [kind : {"start download"}, path : Paths, offset : Nat]
  \cup [kind : {"upload"}, chunk : Chunks]
  \cup [kind : {"end upload", "download"}]

Failed == [kind |-> "failed"]

ServerInit ==
  /\ uploadFile = NoPath /\ outputStream = NoStream
  /\ downloadFile = NoPath /\ inputStream = NoStream
  /\ openFiles = {}
  /\ requests = <<>> /\ replies = <<>>
  /\ failures = 0
  /\ crashed = FALSE

\* The thread reads the next request and answers it.
Answer(reply) ==
  /\ requests' = Tail(requests)
  /\ replies' = Append(replies, reply)
  /\ UNCHANGED crashed

Asked(kind) == requests # <<>> /\ Head(requests).kind = kind /\ ~crashed

ByChance == failures < MaxFailures /\ failures' = failures + 1
NotByChance == UNCHANGED failures

\* A request that is refused before it does anything: access is denied, or the
\* file system fails while nothing has been changed yet.
Refuse ==
  /\ requests # <<>> /\ ~crashed
  /\ ByChance
  /\ Answer(Failed)
  /\ UNCHANGED <<remote, handlerVars>>

ListFolder ==
  /\ Asked("list")
  /\ LET p == Head(requests).path IN
     Answer(IF IsFolder(remote, p)
              THEN [kind |-> "list", names |-> NamesIn(remote, p),
                    sizes |-> [n \in NamesIn(remote, p) |->
                                 Len(remote[Append(p, n)].data)],
                    folders |-> {n \in NamesIn(remote, p) :
                                   IsFolder(remote, Append(p, n))}]
              ELSE Failed)
  /\ NotByChance
  /\ UNCHANGED <<remote, handlerVars>>

MakeFolder ==
  /\ Asked("mkdir")
  /\ LET p == Head(requests).path IN
     IF CanCreate(remote, p)
       THEN remote' = [remote EXCEPT ![p] = Folder] /\ Answer([kind |-> "mkdir"])
       ELSE UNCHANGED remote /\ Answer(Failed)
  /\ NotByChance
  /\ UNCHANGED handlerVars

RemoveFile ==
  /\ Asked("remove")
  /\ LET p == Head(requests).path IN
     IF CanRemove(remote, openFiles, p)
       THEN remote' = [remote EXCEPT ![p] = Absent] /\ Answer([kind |-> "remove"])
       ELSE UNCHANGED remote /\ Answer(Failed)
  /\ NotByChance
  /\ UNCHANGED handlerVars

\* A file or a folder with all that is in it goes to another place. It is not moved
\* into itself, nor deeper than a name may be long.
CanRename(p, to) ==
  /\ Exists(remote, p) /\ CanCreate(remote, to) /\ to \notin Under(p)
  /\ \A q \in Under(p) : Exists(remote, q) => Len(to) + Len(q) <= Depth + Len(p)
  /\ openFiles \intersect (Under(p) \cup Under(to)) = {}

Renamed(p, to) ==
  [q \in Paths |-> IF q \in Under(to) /\ Moved(q, p, to) \in Paths
                     THEN remote[Moved(q, p, to)]
                   ELSE IF q \in Under(p) \cup Under(to) THEN Absent ELSE remote[q]]

RenameFile ==
  /\ Asked("rename")
  /\ LET p == Head(requests).path
         to == Head(requests).to
     IN IF CanRename(p, to)
          THEN /\ remote' = Renamed(p, to)
               /\ Answer([kind |-> "rename"])
          ELSE UNCHANGED remote /\ Answer(Failed)
  /\ NotByChance
  /\ UNCHANGED handlerVars

FolderSize ==
  /\ Asked("size")
  /\ Answer(IF IsFolder(remote, Head(requests).path) THEN [kind |-> "size"] ELSE Failed)
  /\ NotByChance
  /\ UNCHANGED <<remote, handlerVars>>

\* The files in use once the previous upload, or download, has been released.
WithoutUpload == openFiles \ Held(outputStream)
WithoutDownload == openFiles \ Held(inputStream)

\* truncate removes the file and creates it anew.
Truncated(fs, p) == [fs EXCEPT ![p] = File(<<>>)]

\* WinFile::seek refuses an offset behind the end of the file: the request fails,
\* and the stream is left open at the beginning.
CanSeek(fs, p) == Head(requests).offset <= Len(fs[p].data)
Sought(fs, p) == OpenStream(p, IF CanSeek(fs, p) THEN Head(requests).offset ELSE 0)

StartUploadFrom(used) ==
  LET p == Head(requests).path
      refused == Head(requests).overwrite /\ ~CanTruncate(remote, used, p)
      fs == IF Head(requests).overwrite /\ ~refused THEN Truncated(remote, p) ELSE remote
      opens == ~refused /\ IsFile(fs, p) /\ p \notin WithoutUpload
  IN /\ Asked("start upload")
     /\ uploadFile' = p
     /\ remote' = fs
     /\ outputStream' = IF opens THEN Sought(fs, p) ELSE NoStream
     /\ openFiles' = IF opens THEN WithoutUpload \cup {p} ELSE WithoutUpload
     /\ Answer(IF opens /\ CanSeek(fs, p) THEN [kind |-> "start upload"] ELSE Failed)
     /\ NotByChance
     /\ UNCHANGED <<downloadFile, inputStream>>

\* A mistake: the file is truncated before the previous upload is released.
StartUploadTruncatingFirst == StartUploadFrom(openFiles)

\* The previous upload is released first; what fails later leaves the File
\* without a stream.
StartUpload == StartUploadFrom(WithoutUpload)

\* Nothing is uploaded to the root folder; removing, creating or opening the file
\* fails by chance.
StartUploadFails ==
  /\ Asked("start upload")
  /\ ByChance
  /\ LET p == Head(requests).path IN
     \/ uploadFile' \in {NoPath, p} /\ UNCHANGED remote
     \/ /\ Head(requests).overwrite /\ CanTruncate(remote, WithoutUpload, p)
        /\ uploadFile' = p
        /\ remote' \in {[remote EXCEPT ![p] = Absent], Truncated(remote, p)}
  /\ outputStream' = NoStream
  /\ openFiles' = WithoutUpload
  /\ Answer(Failed)
  /\ UNCHANGED <<downloadFile, inputStream>>

\* The stream is used without a look at it: the File stands for both.
CrashOnNull(stream) ==
  /\ stream = NoStream
  /\ crashed' = TRUE
  /\ UNCHANGED <<remote, handlerVars, requests, replies, failures>>

\* The data is written in parts: if it fails after some of them, what is in the file
\* is another chunk than the one that was sent (before any, it is like Refuse).
UploadData ==
  /\ Asked("upload")
  /\ \/ /\ uploadFile = NoPath \/ (outputStream # NoStream /\ ~outputStream.open)
        /\ Answer(Failed)
        /\ NotByChance
        /\ UNCHANGED <<remote, handlerVars>>
     \/ /\ uploadFile # NoPath /\ outputStream.open
        /\ \E chunk \in Chunks :
             /\ remote' = [remote EXCEPT ![outputStream.path].data =
                             Write(@, outputStream.pos, chunk)]
             /\ \/ /\ chunk = Head(requests).chunk
                   /\ Answer([kind |-> "upload"]) /\ NotByChance
                \/ Answer(Failed) /\ ByChance
        /\ outputStream' = [outputStream EXCEPT !.pos = @ + 1]
        /\ UNCHANGED <<uploadFile, downloadFile, inputStream, openFiles>>
     \/ uploadFile # NoPath /\ CrashOnNull(outputStream)

\* The stream is closed before anything can fail; the File and the closed
\* stream stay if the time of the last change cannot be set.
EndUpload ==
  /\ Asked("end upload")
  /\ \/ /\ uploadFile = NoPath
        /\ Answer(Failed)
        /\ NotByChance
        /\ UNCHANGED <<remote, handlerVars>>
     \/ /\ uploadFile # NoPath /\ outputStream # NoStream
        /\ openFiles' = WithoutUpload
        /\ \/ /\ NotByChance
              /\ Answer([kind |-> "end upload"])
              /\ uploadFile' = NoPath /\ outputStream' = NoStream
           \/ /\ ByChance
              /\ Answer(Failed)
              /\ outputStream' = Closed(outputStream)
              /\ UNCHANGED uploadFile
        /\ UNCHANGED <<remote, downloadFile, inputStream>>
     \/ uploadFile # NoPath /\ CrashOnNull(outputStream)

\* The previous download, broken or not, is released first.
StartDownload ==
  /\ Asked("start download")
  /\ LET p == Head(requests).path
         opens == IsFile(remote, p) /\ p \notin WithoutDownload
     IN /\ downloadFile' = p
        /\ inputStream' = IF opens THEN Sought(remote, p) ELSE NoStream
        /\ openFiles' = IF opens THEN WithoutDownload \cup {p} ELSE WithoutDownload
        /\ Answer(IF opens /\ CanSeek(remote, p) THEN [kind |-> "start download"]
                                                 ELSE Failed)
  /\ NotByChance
  /\ UNCHANGED <<remote, uploadFile, outputStream>>

StartDownloadFails ==
  /\ Asked("start download")
  /\ ByChance
  /\ downloadFile' = Head(requests).path
  /\ inputStream' = NoStream
  /\ openFiles' = WithoutDownload
  /\ Answer(Failed)
  /\ UNCHANGED <<remote, uploadFile, outputStream>>

\* A mistake: the end is found one chunk early.
AtEndEarly(stream) == stream.pos + 1 >= Len(remote[stream.path].data)

AtEnd(stream) == stream.pos >= Len(remote[stream.path].data)

\* A mistake: the end of the file is answered, but its stream is left open.
DownloadDataLeavingItOpen ==
  /\ Asked("download")
  /\ \/ /\ downloadFile = NoPath
        /\ Answer(Failed)
        /\ UNCHANGED <<downloadFile, inputStream, openFiles>>
     \/ /\ downloadFile # NoPath /\ inputStream.open /\ ~AtEnd(inputStream)
        /\ Answer([kind |-> "download",
                   chunk |-> remote[inputStream.path].data[inputStream.pos + 1]])
        /\ inputStream' = [inputStream EXCEPT !.pos = @ + 1]
        /\ UNCHANGED <<downloadFile, openFiles>>
     \/ /\ downloadFile # NoPath /\ inputStream.open /\ AtEnd(inputStream)
        /\ Answer([kind |-> "end download"])
        /\ downloadFile' = NoPath /\ inputStream' = NoStream
        /\ UNCHANGED openFiles
  /\ NotByChance
  /\ UNCHANGED <<remote, uploadFile, outputStream>>

\* A chunk, or the end of the file, which closes and forgets it.
DownloadData ==
  /\ Asked("download")
  /\ \/ /\ downloadFile = NoPath
        /\ Answer(Failed)
        /\ UNCHANGED <<downloadFile, inputStream, openFiles>>
     \/ /\ downloadFile # NoPath /\ inputStream.open /\ ~AtEnd(inputStream)
        /\ Answer([kind |-> "download",
                   chunk |-> remote[inputStream.path].data[inputStream.pos + 1]])
        /\ inputStream' = [inputStream EXCEPT !.pos = @ + 1]
        /\ UNCHANGED <<downloadFile, openFiles>>
     \/ /\ downloadFile # NoPath /\ inputStream.open /\ AtEnd(inputStream)
        /\ Answer([kind |-> "end download"])
        /\ downloadFile' = NoPath /\ inputStream' = NoStream
        /\ openFiles' = WithoutDownload
     \/ downloadFile # NoPath /\ CrashOnNull(inputStream)
  /\ NotByChance
  /\ UNCHANGED <<remote, uploadFile, outputStream>>

Handle ==
  \/ Refuse
  \/ ListFolder \/ MakeFolder \/ RemoveFile \/ RenameFile \/ FolderSize
  \/ StartUpload \/ StartUploadFails \/ UploadData \/ EndUpload
  \/ StartDownload \/ StartDownloadFails \/ DownloadData

\* The connection is lost: the handler is destroyed with all it holds.
Disconnect ==
  /\ uploadFile' = NoPath /\ outputStream' = NoStream
  /\ downloadFile' = NoPath /\ inputStream' = NoStream
  /\ openFiles' = WithoutUpload \ (openFiles \ WithoutDownload)
  /\ requests' = <<>> /\ replies' = <<>>
  /\ UNCHANGED <<remote, failures, crashed>>

\* A client may send anything at any time, and takes the replies in their order.
ClientActs ==
  /\ requests' \in Seq(Request) /\ Len(requests') >= Len(requests)
  /\ SubSeq(requests', 1, Len(requests)) = requests
  /\ replies' \in {replies, SubSeq(replies, 2, Len(replies))}
  /\ failures' \in {failures, failures + 1}
  /\ UNCHANGED <<remote, handlerVars, crashed>>

\* What the handler promises is promised to every client: the viewer is one.
AnyClient ==
  /\ ServerInit /\ remote \in [Paths -> Node]
  /\ [][ClientActs \/ Handle \/ Disconnect]_serverVars

-----------------------------------------------------------------------------

\* The process holds exactly the files its two streams say are open, and none
\* through both: whatever was started, broken off or started again, no handle is
\* lost (a lost one would keep the file locked for good), and no file is removed,
\* replaced or renamed while it is being copied.
HandlesAreAccounted ==
  /\ openFiles = Held(outputStream) \cup Held(inputStream)
  /\ outputStream.open /\ inputStream.open => outputStream.path # inputStream.path
  /\ uploadFile = NoPath => ~outputStream.open
  /\ downloadFile = NoPath => ~inputStream.open
  /\ \A p \in openFiles : IsFile(remote, p)

\* "Closing previous upload if it was broken" (FileTransferRequestHandler.cpp:525):
\* a file whose upload was broken off can be uploaded again; the request fails
\* only by chance or if the same file is being downloaded.
BrokenUploadRestarts ==
  [][ ( /\ requests # <<>> /\ Head(requests).kind = "start upload"
        /\ Head(requests).overwrite /\ Head(requests).offset = 0
        /\ Head(requests).path = uploadFile
        /\ IsFile(remote, uploadFile) /\ NamesIn(remote, uploadFile) = {}
        /\ IsFolder(remote, Parent(uploadFile))
        /\ uploadFile # inputStream.path
        /\ requests' = Tail(requests) /\ replies' # <<>> /\ failures' = failures )
      => /\ outputStream'.open /\ outputStream'.path = uploadFile
         /\ replies' = Append(replies, [kind |-> "start upload"]) ]_serverVars

=============================================================================
