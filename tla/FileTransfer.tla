---------------------------- MODULE FileTransfer ----------------------------
(***************************************************************************)
(* A viewer's file transfers with the server that answers them.  The user  *)
(* interface's thread starts one operation at a time (FileTransferCore);   *)
(* the operation then lives on the network's thread, where every reply     *)
(* makes it take the next step through the tree of selected files.         *)
(*                                                                         *)
(* Both sides name files relative to the folders shown in the dialog.  The *)
(* tree (FileInfoList) is a position, cur, and the names still listed      *)
(* under each folder, nodes.  startUpload and startDownload call           *)
(* themselves through gotoNext when a file is skipped: one such call is    *)
(* one step, and frames counts those that have not returned.               *)
(***************************************************************************)
EXTENDS FileTransferServer, FiniteSets

CONSTANTS
  Operations,     \* what the user may ask for
  Answers,        \* what he may answer if a file exists
  CancelAfterSkip, \* whether he cancels right after he skipped a file
  AfterBroken,    \* whether a file is skipped, or fails to be opened, while an object
                  \* of a file that was broken off, or did not open, is still there
  MaxOperations,  \* how many operations he starts
  InitialLocal, InitialRemote

ASSUME ClientAssumption ==
  /\ CancelAfterSkip \in BOOLEAN /\ AfterBroken \in BOOLEAN
  /\ MaxOperations \in Nat
  /\ Answers \subseteq {"overwrite", "append", "skip", "cancel"}
  /\ InitialLocal \in [Paths -> Node] /\ InitialRemote \in [Paths -> Node]

\* A file or folder is in a folder, up to the one both sides have chosen.
IsTree(fs) ==
  \A p \in Paths : \A q \in Under(p) : q # p /\ Exists(fs, q) => IsFolder(fs, p)

ASSUME TreesAssumption == IsTree(InitialLocal) /\ IsTree(InitialRemote)

\* A folder lists finitely many files.
ASSUME FinitelyMany == IsFiniteSet(Names)

\* The user selects at least one file, or names the one to make or rename.
ASSUME OperationsAssumption ==
  \A o \in Operations :
    \/ o.kind \in {"upload", "download", "remove"} /\ o.names # {}
    \/ o.kind \in {"mkdir", "rename"} /\ o \in Request

VARIABLES
  local,       \* the viewer's files
  state,       \* FileTransferCore::m_state
  listening,   \* the operation is among the listeners of the replies
  posted,      \* WM_OPERATION_FINISHED is on its way
  started,     \* how many operations have been started
  op,          \* the current operation
  cur,         \* m_toCopy, m_toDelete
  nodes,       \* the names listed under each folder; under <<>>, the selected ones
  goto,        \* m_firstUpload, m_gotoChild, m_gotoParent
  remoteFiles, \* m_remoteFilesInfo: sizes by name
  sizesLeft,   \* m_foldersToCalcSizeLeft
  offset,      \* m_fileOffset
  stream,      \* m_fis, m_fos
  terminating, \* m_isTerminating
  pc, frames,  \* what the thread in the operation does
  broken,      \* a null or freed pointer was used
  excused,     \* the files reported to the user, or skipped or continued at his wish
  asked,       \* the files he was asked about
  unlisted,    \* the folders whose listing failed
  before       \* the target's files when the operation started

walkVars == <<cur, nodes, goto, posted, broken, pc, frames>>
dataVars == <<local, remoteFiles, offset, stream>>
uiVars == <<state, listening, started, op, before>>
historyVars == <<excused, asked, unlisted>>
clientVars == <<walkVars, dataVars, uiVars, historyVars, sizesLeft, terminating>>
vars == <<serverVars, clientVars>>

server == <<remote, handlerVars, replies, failures, crashed>>

\* A stream whose object was deleted and whose pointer was kept.
Dangling == [path |-> <<>>, pos |-> 0, open |-> FALSE]
\* No stream, but the File that could not be opened (m_file of an upload).
FileOnly == [path |-> <<>>, pos |-> 1, open |-> FALSE]

Smallest(S) == CHOOSE n \in S : \A m \in S : n <= m

Init ==
  /\ ServerInit
  /\ remote = InitialRemote /\ local = InitialLocal
  /\ state = "nothing" /\ listening = FALSE /\ posted = 0 /\ started = 0
  /\ op = "none" /\ cur = NoPath /\ nodes = [p \in Paths \cup {<<>>} |-> {}]
  /\ goto = "none" /\ remoteFiles = <<>> /\ sizesLeft = 0 /\ offset = 0
  /\ stream = NoStream /\ terminating = FALSE
  /\ pc = "idle" /\ frames = 0 /\ broken = FALSE
  /\ excused = {} /\ asked = {} /\ unlisted = {} /\ before = InitialRemote

-----------------------------------------------------------------------------
(* The walk through the tree.                                              *)

FirstChild(nds, p) == Append(p, Smallest(nds[p]))
Later(nds, p) == {n \in nds[Parent(p)] : n > NameOf(p)}
NextOf(nds, p) == Append(Parent(p), Smallest(Later(nds, p)))

\* The request that is sent, if any, is the last thing a call does: it returns
\* to the calls of startUpload that are still open.
Leave(f) ==
  /\ frames' = f
  /\ pc' = IF f = 0 THEN "idle" ELSE "unwind"

\* Ask the server and wait for the reply with p as the current file.
Await(r, p, nds) ==
  /\ requests' = Append(requests, r)
  /\ cur' = p /\ nodes' = nds
  /\ UNCHANGED <<posted, broken>>
  /\ Leave(frames)

\* changeFileToUpload and startUpload, or their like for downloads.
Copy(p, nds) ==
  /\ cur' = p /\ nodes' = nds /\ goto' = "none"
  /\ frames' = frames + 1 /\ pc' = "copy"
  /\ UNCHANGED <<requests, posted, broken>>

\* killOp: the list is freed and the listeners are told.
KillOp(f) ==
  /\ cur' = NoPath /\ goto' = "none"
  /\ posted' = posted + 1
  /\ broken' = (broken \/ cur = NoPath)
  /\ UNCHANGED <<nodes, requests>>
  /\ Leave(f)

List(p) == [kind |-> "list", path |-> p]

\* gotoNext of an upload, at p: the folder to go to is listed first.
UploadNext(nds, p) ==
  \/ /\ nds[p] # {}
     /\ Await(List(p), p, nds) /\ goto' = "child"
  \/ /\ nds[p] = {} /\ Later(nds, p) # {}
     /\ Copy(NextOf(nds, p), nds)
  \/ /\ nds[p] = {} /\ Later(nds, p) = {} /\ Len(p) > 1
     /\ Await(List(Parent(Parent(p))), p, nds) /\ goto' = "parent"
  \/ /\ nds[p] = {} /\ Later(nds, p) = {} /\ Len(p) = 1
     /\ KillOp(frames)

\* gotoNext(false): the folder has been listed.
UploadEnter ==
  \/ /\ nodes[cur] # {}
     /\ Copy(FirstChild(nodes, cur), nodes)
  \/ /\ nodes[cur] = {} /\ Later(nodes, cur) # {}
     /\ Copy(NextOf(nodes, cur), nodes)
  \/ /\ nodes[cur] = {} /\ Later(nodes, cur) = {} /\ Len(cur) > 1
     /\ UploadNext([nodes EXCEPT ![Parent(cur)] = {}], Parent(cur))
  \/ /\ nodes[cur] = {} /\ Later(nodes, cur) = {} /\ Len(cur) = 1
     /\ KillOp(frames)

\* What to do once a listing has come, or failed.
SpecialHandler ==
  \/ goto = "first" /\ Copy(cur, nodes)
  \/ goto \in {"child", "parent"} /\ UploadEnter

\* Where gotoNext of a download goes from p: back to the closest folder that
\* has a file after it.
Turns(nds, p) ==
  {q \in {SubSeq(p, 1, n) : n \in 1..Len(p)} : Later(nds, q) # {}}
Turn(nds, p) == CHOOSE q \in Turns(nds, p) : \A r \in Turns(nds, p) : Len(r) <= Len(q)

DownloadNext(nds) ==
  \/ /\ nds[cur] # {}
     /\ Copy(FirstChild(nds, cur), nds)
  \/ /\ nds[cur] = {} /\ Turns(nds, cur) # {}
     /\ LET q == Turn(nds, cur)
            left == {SubSeq(cur, 1, n) : n \in Len(q)..(Len(cur) - 1)}
        IN Copy(NextOf(nds, q), [p \in DOMAIN nds |-> IF p \in left THEN {} ELSE nds[p]])
  \/ /\ nds[cur] = {} /\ Turns(nds, cur) = {}
     /\ KillOp(frames)

\* A mistake: the files of a folder that has been removed stay listed.
RemoveKeepingChildren(p, nds, forced) ==
  \/ terminating /\ KillOp(frames)
  \/ /\ ~terminating /\ (forced \/ ~IsFolder(remote, p))
     /\ Await([kind |-> "remove", path |-> p], p, nds)
     /\ UNCHANGED goto
  \/ /\ ~terminating /\ ~forced /\ IsFolder(remote, p)
     /\ Await(List(p), p, nds)
     /\ UNCHANGED goto

\* remove: a folder is listed before it is removed, unless forced.
RemoveUnlessFolder(p, nds, forced) ==
  \/ terminating /\ KillOp(frames)
  \/ /\ ~terminating /\ (forced \/ ~IsFolder(remote, p))
     /\ Await([kind |-> "remove", path |-> p], p,
              IF IsFolder(remote, p) THEN [nds EXCEPT ![p] = {}] ELSE nds)
     /\ UNCHANGED goto
  \/ /\ ~terminating /\ ~forced /\ IsFolder(remote, p)
     /\ Await(List(p), p, nds)
     /\ UNCHANGED goto

DeleteNext ==
  \/ /\ nodes[cur] # {}
     /\ RemoveUnlessFolder(FirstChild(nodes, cur), nodes, FALSE)
  \/ /\ nodes[cur] = {} /\ Later(nodes, cur) # {}
     /\ RemoveUnlessFolder(NextOf(nodes, cur), nodes, FALSE)
  \/ /\ nodes[cur] = {} /\ Later(nodes, cur) = {} /\ Len(cur) > 1
     /\ RemoveUnlessFolder(Parent(cur), nodes, TRUE)
  \/ /\ nodes[cur] = {} /\ Later(nodes, cur) = {} /\ Len(cur) = 1
     /\ KillOp(frames)

GotoNext ==
  \/ op = "upload" /\ UploadNext(nodes, cur)
  \/ op = "download" /\ DownloadNext(nodes)
  \/ op = "remove" /\ DeleteNext

-----------------------------------------------------------------------------
(* The user interface's thread.                                            *)

Walks == {"upload", "download", "remove"}

Source == IF op = "upload" THEN local ELSE remote
Target == IF op = "download" THEN local ELSE remote

\* executeOperation: the previous operation is deleted, with its stream.
Execute(kind) ==
  /\ state' = kind /\ op' = kind /\ listening' = TRUE
  /\ broken' = (broken \/ stream = Dangling)
  /\ stream' = NoStream
  /\ terminating' = FALSE
  /\ UNCHANGED <<posted, local, offset, server>>

Select(names) ==
  /\ cur' = <<Smallest(names)>>
  /\ nodes' = [p \in DOMAIN nodes |-> IF p = <<>> THEN names ELSE {}]
  /\ excused' = {} /\ asked' = {} /\ unlisted' = {}

\* An upload asks for the target folder's listing first.
StartUploading(names) ==
  /\ names \subseteq NamesIn(local, <<>>)
  /\ Execute("upload") /\ Select(names)
  /\ requests' = Append(requests, List(<<>>))
  /\ goto' = "first" /\ before' = remote /\ remoteFiles' = <<>>
  /\ UNCHANGED <<sizesLeft, pc, frames>>

\* A download asks for the sizes of the selected folders, all at once, and
\* starts here if there are none.
StartDownloading(names) ==
  LET folders == {n \in names : IsFolder(remote, <<n>>)}
      count == Cardinality(folders)
  IN /\ names \subseteq NamesIn(remote, <<>>)
     /\ Execute("download") /\ Select(names)
     /\ \E nth \in [1..count -> folders] :
          /\ \A i, j \in 1..count : i < j => nth[i] < nth[j]
          /\ requests' = requests \o [i \in 1..count |-> [kind |-> "size", path |-> <<nth[i]>>]]
     /\ sizesLeft' = count
     /\ IF count = 0 THEN frames' = 1 /\ pc' = "copy" ELSE UNCHANGED <<frames, pc>>
     /\ goto' = "none" /\ before' = local
     /\ UNCHANGED remoteFiles

StartRemoving(names) ==
  LET p == <<Smallest(names)>> IN
  /\ names \subseteq NamesIn(remote, <<>>)
  /\ Execute("remove") /\ Select(names)
  /\ requests' = Append(requests, IF IsFolder(remote, p) THEN List(p)
                                  ELSE [kind |-> "remove", path |-> p])
  /\ goto' = "none" /\ before' = remote
  /\ UNCHANGED <<sizesLeft, pc, frames, remoteFiles>>

\* Making a folder, renaming and listing take one request.
StartSimple(r) ==
  /\ Execute(r.kind)
  /\ requests' = Append(requests, r)
  /\ UNCHANGED <<cur, nodes, goto, pc, frames, sizesLeft, remoteFiles, before, historyVars>>

\* The user starts an operation on what he sees, once the last one and the
\* refresh of the listing that follows it are over.
StartOperation ==
  /\ state = "nothing" /\ started < MaxOperations /\ ~broken
  /\ started' = started + 1
  /\ \E o \in Operations :
       \/ o.kind = "upload" /\ StartUploading(o.names)
       \/ o.kind = "download" /\ StartDownloading(o.names)
       \/ o.kind = "remove" /\ StartRemoving(o.names)
       \/ o.kind \in {"mkdir", "rename"} /\ StartSimple(o)

\* A mistake: the user may go on before the listing has been refreshed.
OperationFinishedAtOnce ==
  /\ posted > 0 /\ pc = "idle" /\ state # "closed" /\ ~broken
  /\ posted' = posted - 1
  /\ state' = "nothing"
  /\ IF state \in {"list", "download"}
       THEN listening' = FALSE /\ UNCHANGED <<requests, op, stream, broken, terminating>>
       ELSE /\ op' = "list" /\ listening' = TRUE
            /\ requests' = Append(requests, List(<<>>))
            /\ stream' = NoStream
            /\ UNCHANGED <<broken, terminating>>
  /\ UNCHANGED <<server, cur, nodes, goto, pc, frames, local, remoteFiles, offset,
                 started, before, historyVars, sizesLeft>>

\* WM_OPERATION_FINISHED: the operation stops listening, and what it changed on
\* the server is listed again. The lock of the listeners is free.
OperationFinished ==
  /\ posted > 0 /\ pc = "idle" /\ state # "closed" /\ ~broken
  /\ posted' = posted - 1
  /\ \/ /\ state \in {"list", "download"}
        /\ state' = "nothing" /\ listening' = FALSE
        /\ UNCHANGED <<requests, op, stream, broken, terminating>>
     \/ /\ state \in {"upload", "remove", "mkdir", "rename"}
        /\ state' = "list" /\ op' = "list" /\ listening' = TRUE
        /\ requests' = Append(requests, List(<<>>))
        /\ broken' = (stream = Dangling)
        /\ stream' = NoStream
        /\ terminating' = FALSE
  /\ UNCHANGED <<server, cur, nodes, goto, pc, frames, local, remoteFiles, offset,
                 started, before, historyVars, sizesLeft>>

\* The "Cancel" button: the operation finds out when it goes to the next file.
Cancel ==
  /\ op \in Walks /\ state = op /\ ~terminating /\ ~broken
  /\ pc = "idle" \/ CancelAfterSkip
  /\ terminating' = TRUE
  /\ UNCHANGED <<serverVars, walkVars, dataVars, uiVars, historyVars, sizesLeft>>

\* A mistake: the server's handler survives its connection.
CloseSessionKeepingHandler ==
  /\ state # "closed" /\ pc = "idle" /\ ~broken
  /\ state' = "closed" /\ op' = "none" /\ listening' = FALSE /\ posted' = 0
  /\ cur' = NoPath /\ stream' = NoStream
  /\ broken' = (stream = Dangling)
  /\ requests' = <<>> /\ replies' = <<>>
  /\ UNCHANGED <<remote, handlerVars, failures, crashed>>
  /\ UNCHANGED <<nodes, goto, pc, frames, local, remoteFiles, offset, started, before,
                 historyVars, sizesLeft, terminating>>

\* The viewer is closed or the connection lost.
CloseSession ==
  /\ state # "closed" /\ pc = "idle" /\ ~broken
  /\ state' = "closed" /\ op' = "none" /\ listening' = FALSE /\ posted' = 0
  /\ cur' = NoPath /\ stream' = NoStream
  /\ broken' = (stream = Dangling)
  /\ Disconnect
  /\ UNCHANGED <<nodes, goto, pc, frames, local, remoteFiles, offset, started, before,
                 historyVars, sizesLeft, terminating>>

-----------------------------------------------------------------------------
(* startUpload and startDownload.                                          *)

Working == pc = "copy" /\ ~broken

\* The operation was cancelled: this call frees the list and returns.
CopyTerminates ==
  /\ Working /\ terminating
  /\ KillOp(frames - 1)
  /\ UNCHANGED <<server, dataVars, uiVars, historyVars, sizesLeft, terminating>>

\* A call returns to the one that made it, which looks at m_isTerminating again.
Unwind ==
  /\ pc = "unwind" /\ ~broken
  /\ IF terminating THEN KillOp(frames - 1)
     ELSE Leave(frames - 1) /\ UNCHANGED <<cur, nodes, goto, posted, broken, requests>>
  /\ UNCHANGED <<server, dataVars, uiVars, historyVars, sizesLeft, terminating>>

\* UploadOperation::processFolder: a folder that cannot be listed is made without
\* its files.
UploadFolder ==
  /\ Working /\ ~terminating /\ op = "upload" /\ IsFolder(local, cur)
  /\ \/ /\ Await([kind |-> "mkdir", path |-> cur], cur,
                 [nodes EXCEPT ![cur] = NamesIn(local, cur)])
        /\ UNCHANGED <<excused, failures>>
     \/ /\ ByChance
        /\ Await([kind |-> "mkdir", path |-> cur], cur, [nodes EXCEPT ![cur] = {}])
        /\ excused' = excused \cup Under(cur)
  /\ UNCHANGED <<remote, handlerVars, replies, crashed, goto, dataVars, uiVars, asked,
                 unlisted, sizesLeft, terminating>>

\* The File and the stream left by a file that was broken off are deleted.
CleanUp == broken' = (broken \/ stream = Dangling)

\* What is left of them if they are not replaced.
LeftOver == IF stream = NoStream THEN NoStream ELSE Dangling

\* The collision the user is asked about, by the listing held at the time.
Collides ==
  IF op = "upload" THEN NameOf(cur) \in DOMAIN remoteFiles ELSE Exists(local, cur)
SizeThere ==
  IF op = "upload" THEN remoteFiles[NameOf(cur)] ELSE Len(local[cur].data)

FileToCopy == Working /\ ~terminating /\ op \in {"upload", "download"} /\ ~IsFolder(Source, cur)

\* A File, or a stream, of a transfer that was broken off is still there.
LeftFile == stream # NoStream /\ ~AfterBroken
LeftStream == LeftFile /\ stream # FileOnly

\* What the user answers.
MayAnswer(a) ==
  /\ a \in Answers
  /\ LeftFile /\ op = "upload" => a \notin {"skip", "cancel"}
  /\ a = "cancel" => frames = 1 \/ CancelAfterSkip

\* UploadOperation::processFile deletes the File and the stream before it asks, and
\* forgets its pointers only when it makes the next ones.
CleanUpFirst ==
  /\ broken' = (broken \/ (op = "upload" /\ stream = Dangling))
  /\ stream' = IF op = "upload" THEN LeftOver ELSE stream

\* The user skips the file, and gotoNext is called from within this call.
SkipFile ==
  /\ FileToCopy /\ Collides /\ MayAnswer("skip")
  /\ op = "upload" => stream # Dangling
  /\ GotoNext
  /\ stream' = IF op = "upload" THEN LeftOver ELSE stream
  /\ asked' = asked \cup {cur} /\ excused' = excused \cup {cur}
  /\ UNCHANGED <<server, local, remoteFiles, offset, uiVars, unlisted, sizesLeft, terminating>>

\* The user cancels the operation when he is asked.
CancelAtFile ==
  /\ FileToCopy /\ Collides /\ MayAnswer("cancel")
  /\ terminating' = TRUE
  /\ CleanUpFirst
  /\ asked' = asked \cup {cur}
  /\ Leave(frames)
  /\ UNCHANGED <<serverVars, cur, nodes, goto, posted, local, remoteFiles, offset, uiVars,
                 excused, unlisted, sizesLeft>>

\* The offset the file is copied from, if the user lets it be copied.
Offsets == IF Collides THEN {0, SizeThere} ELSE {0}

MayCopyFrom(from) ==
  \/ ~Collides /\ from = 0 /\ UNCHANGED <<asked, excused>>
  \/ /\ Collides /\ MayAnswer("overwrite") /\ from = 0
     /\ asked' = asked \cup {cur} /\ UNCHANGED excused
  \/ /\ Collides /\ MayAnswer("append") /\ from = SizeThere
     /\ asked' = asked \cup {cur} /\ excused' = excused \cup {cur}

\* The file is opened, and the server asked to open the other end.
UploadFile ==
  /\ FileToCopy /\ op = "upload"
  /\ \E from \in Offsets :
       /\ MayCopyFrom(from) /\ from <= Len(local[cur].data)
       /\ stream' = OpenStream(cur, from)
       /\ requests' = Append(requests, [kind |-> "start upload", path |-> cur,
                                        overwrite |-> from = 0, offset |-> from])
  /\ CleanUp
  /\ Leave(frames)
  /\ UNCHANGED <<server, cur, nodes, goto, posted, local, remoteFiles, offset, uiVars,
                 unlisted, sizesLeft, terminating>>

\* The local file cannot be opened: there is a new File, and no stream or the old one.
CannotOpen ==
  /\ ByChance /\ ~LeftStream
  /\ Collides => MayAnswer("overwrite") \/ MayAnswer("append")
  /\ stream' = IF stream \in {NoStream, FileOnly} THEN FileOnly ELSE Dangling

\* The remote file is longer than the local one: seek throws, and the stream stays.
CannotSeek ==
  /\ NotByChance
  /\ Collides /\ MayAnswer("append") /\ SizeThere > Len(local[cur].data)
  /\ stream' = OpenStream(cur, 0)

\* The file is reported, and the next one is tried from within this call.
UploadFileFails ==
  /\ FileToCopy /\ op = "upload" /\ stream # Dangling
  /\ CannotOpen \/ CannotSeek
  /\ asked' = IF Collides THEN asked \cup {cur} ELSE asked
  /\ excused' = excused \cup {cur}
  /\ UploadNext(nodes, cur)
  /\ UNCHANGED <<remote, handlerVars, replies, crashed, local, remoteFiles, offset, uiVars,
                 unlisted, sizesLeft, terminating>>

\* DownloadOperation::processFolder: the folder is made unless it is there.
DownloadFolder ==
  /\ Working /\ ~terminating /\ op = "download" /\ IsFolder(remote, cur)
  /\ IsFolder(local, cur) \/ CanCreate(local, cur)
  /\ local' = IF IsFolder(local, cur) THEN local ELSE [local EXCEPT ![cur] = Folder]
  /\ Await(List(cur), cur, nodes)
  /\ UNCHANGED <<server, goto, remoteFiles, offset, stream, uiVars, historyVars, sizesLeft,
                 terminating>>

DownloadFolderFails ==
  /\ Working /\ ~terminating /\ op = "download" /\ IsFolder(remote, cur)
  /\ ~IsFolder(local, cur)
  /\ IF CanCreate(local, cur) THEN ByChance ELSE NotByChance
  /\ excused' = excused \cup Under(cur)
  /\ DownloadNext(nodes)
  /\ UNCHANGED <<remote, handlerVars, replies, crashed, dataVars, uiVars, asked, unlisted,
                 sizesLeft, terminating>>

DownloadFile ==
  /\ FileToCopy /\ op = "download"
  /\ \E from \in Offsets :
       /\ MayCopyFrom(from)
       /\ offset' = from
       /\ Await([kind |-> "start download", path |-> cur, offset |-> from], cur, nodes)
  /\ UNCHANGED <<server, goto, local, remoteFiles, stream, uiVars, unlisted, sizesLeft,
                 terminating>>

CopyStep ==
  \/ CopyTerminates \/ Unwind
  \/ UploadFolder \/ UploadFile \/ UploadFileFails
  \/ DownloadFolder \/ DownloadFolderFails \/ DownloadFile
  \/ SkipFile \/ CancelAtFile

-----------------------------------------------------------------------------
(* Replies.                                                                *)

\* The next reply, and that the network's thread may take it: it does not
\* while the operation is being started.
Got(kind) ==
  /\ replies # <<>> /\ Head(replies).kind = kind
  /\ listening /\ pc = "idle" /\ ~broken
  /\ replies' = Tail(replies)
  /\ UNCHANGED <<remote, handlerVars, crashed>>

\* The next reply for an operation that walks through a tree.
GotFor(o, kind) == op = o /\ Got(kind) /\ cur # NoPath

Quiet == UNCHANGED <<failures, dataVars, uiVars, historyVars, sizesLeft, terminating>>

\* A mistake: only the first listing is kept.
UploadListedOnce ==
  /\ GotFor("upload", "list")
  /\ remoteFiles' = IF goto = "first" THEN Head(replies).sizes ELSE remoteFiles
  /\ SpecialHandler
  /\ UNCHANGED <<failures, local, offset, stream, uiVars, historyVars, sizesLeft, terminating>>

UploadListed ==
  /\ GotFor("upload", "list")
  /\ remoteFiles' = Head(replies).sizes
  /\ SpecialHandler
  /\ UNCHANGED <<failures, local, offset, stream, uiVars, historyVars, sizesLeft, terminating>>

\* The folder the next files are copied to, which has just been asked for.
ListedFolder ==
  IF goto = "first" THEN <<>> ELSE IF goto = "child" THEN cur ELSE Parent(Parent(cur))

\* The file is reported; a listing that failed leaves the previous one.
UploadRequestFailed ==
  /\ GotFor("upload", "failed")
  /\ excused' = excused \cup {cur}
  /\ \/ goto # "none" /\ SpecialHandler /\ unlisted' = unlisted \cup {ListedFolder}
     \/ goto = "none" /\ UploadNext(nodes, cur) /\ UNCHANGED unlisted
  /\ UNCHANGED <<failures, dataVars, uiVars, asked, sizesLeft, terminating>>

FolderMade ==
  /\ GotFor("upload", "mkdir")
  /\ UploadNext(nodes, cur)
  /\ Quiet

\* sendFileDataChunk: the next chunk, or the end of the file.
NextChunk ==
  /\ \/ /\ stream.pos < Len(local[stream.path].data)
        /\ Await([kind |-> "upload", chunk |-> local[stream.path].data[stream.pos + 1]],
                 cur, nodes)
        /\ stream' = [stream EXCEPT !.pos = @ + 1]
        /\ UNCHANGED <<excused, failures, goto>>
     \/ /\ stream.pos >= Len(local[stream.path].data)
        /\ Await([kind |-> "end upload"], cur, nodes)
        /\ stream' = Closed(stream)
        /\ UNCHANGED <<excused, failures, goto>>
     \/ /\ ByChance
        /\ excused' = excused \cup {cur}
        /\ UploadNext(nodes, cur)
        /\ UNCHANGED stream
  /\ UNCHANGED <<local, remoteFiles, offset, uiVars, asked, unlisted, sizesLeft, terminating>>

\* A mistake: data is sent although the server could not start.
SendFileDataChunkAnyway ==
  /\ \/ GotFor("upload", "start upload")
     \/ GotFor("upload", "failed") /\ goto = "none" /\ stream.open
     \/ GotFor("upload", "upload") /\ ~terminating
  /\ NextChunk

\* onUploadReply and onUploadDataReply.
SendFileDataChunk ==
  /\ \/ GotFor("upload", "start upload")
     \/ GotFor("upload", "upload") /\ ~terminating
  /\ NextChunk

\* A cancelled operation goes to the next file, which ends it.
TransferTerminates ==
  /\ \/ GotFor("upload", "upload") \/ GotFor("download", "download")
  /\ terminating
  /\ GotoNext
  /\ Quiet

\* A mistake: the pointer to the deleted stream is kept.
UploadEndedKeepingPointer ==
  /\ GotFor("upload", "end upload")
  /\ stream' = Dangling
  /\ UploadNext(nodes, cur)
  /\ UNCHANGED <<failures, local, remoteFiles, offset, uiVars, historyVars, sizesLeft,
                 terminating>>

UploadEnded ==
  /\ GotFor("upload", "end upload")
  /\ stream' = NoStream
  /\ UploadNext(nodes, cur)
  /\ UNCHANGED <<failures, local, remoteFiles, offset, uiVars, historyVars, sizesLeft,
                 terminating>>

\* decFoldersToCalcSizeCount: also a failed request is one less.
SizeCalculated ==
  /\ GotFor("download", "size") \/ (GotFor("download", "failed") /\ sizesLeft > 0)
  /\ sizesLeft' = sizesLeft - 1
  /\ IF sizesLeft = 1 THEN Copy(cur, nodes) ELSE UNCHANGED <<walkVars, requests>>
  /\ UNCHANGED <<failures, dataVars, uiVars, historyVars, terminating>>

DownloadListed ==
  /\ GotFor("download", "list")
  /\ DownloadNext([nodes EXCEPT ![cur] = Head(replies).names])
  /\ Quiet

DownloadRequestFailed ==
  /\ GotFor("download", "failed") /\ sizesLeft = 0
  /\ excused' = excused \cup Under(cur)
  /\ DownloadNext(nodes)
  /\ UNCHANGED <<failures, dataVars, uiVars, asked, unlisted, sizesLeft, terminating>>

\* The local file is created or emptied, unless the transfer goes on from an
\* offset, and opened.
LocalForDownload ==
  IF offset = 0 /\ CanTruncate(local, {}, cur) THEN Truncated(local, cur) ELSE local

DownloadStarted ==
  /\ GotFor("download", "start download")
  /\ CleanUp
  /\ local' = LocalForDownload
  /\ IsFile(local', cur)
  /\ stream' = OpenStream(cur, offset)
  /\ requests' = Append(requests, [kind |-> "download"])
  /\ UNCHANGED <<failures, cur, nodes, goto, posted, pc, frames, remoteFiles, offset, uiVars,
                 historyVars, sizesLeft, terminating>>

DownloadStartFails ==
  /\ GotFor("download", "start download") /\ stream # Dangling /\ ~LeftFile
  /\ local' = LocalForDownload
  /\ IF IsFile(local', cur) THEN ByChance ELSE NotByChance
  /\ stream' = LeftOver
  /\ excused' = excused \cup {cur}
  /\ DownloadNext(nodes)
  /\ UNCHANGED <<remoteFiles, offset, uiVars, asked, unlisted, sizesLeft, terminating>>

DownloadChunk ==
  /\ GotFor("download", "download") /\ ~terminating
  /\ local' = [local EXCEPT ![stream.path].data = Write(@, stream.pos, Head(replies).chunk)]
  /\ stream' = [stream EXCEPT !.pos = @ + 1]
  /\ Await([kind |-> "download"], cur, nodes)
  /\ UNCHANGED <<failures, goto, remoteFiles, offset, uiVars, historyVars, sizesLeft,
                 terminating>>

DownloadChunkFails ==
  /\ GotFor("download", "download") /\ ~terminating
  /\ ByChance
  /\ excused' = excused \cup {cur}
  /\ DownloadNext(nodes)
  /\ UNCHANGED <<dataVars, uiVars, asked, unlisted, sizesLeft, terminating>>

DownloadEnded ==
  /\ GotFor("download", "end download")
  /\ stream' = NoStream
  /\ DownloadNext(nodes)
  /\ UNCHANGED <<failures, local, remoteFiles, offset, uiVars, historyVars, sizesLeft,
                 terminating>>

\* The files in the folder are removed before it.
RemoveListed ==
  /\ GotFor("remove", "list")
  /\ LET nds == [nodes EXCEPT ![cur] = Head(replies).names] IN
     IF nds[cur] # {} THEN RemoveUnlessFolder(FirstChild(nds, cur), nds, FALSE)
                      ELSE RemoveUnlessFolder(cur, nds, TRUE)
  /\ Quiet

FileRemoved ==
  /\ GotFor("remove", "remove")
  /\ DeleteNext
  /\ Quiet

RemoveFailed ==
  /\ GotFor("remove", "failed")
  /\ excused' = excused \cup Under(cur)
  /\ DeleteNext
  /\ UNCHANGED <<failures, dataVars, uiVars, asked, unlisted, sizesLeft, terminating>>

\* An operation of one request ends with its reply.
SimpleEnds ==
  /\ op \in {"list", "mkdir", "rename"}
  /\ Got(op) \/ Got("failed")
  /\ posted' = posted + 1
  /\ UNCHANGED <<cur, nodes, goto, broken, pc, frames, requests>>
  /\ Quiet

HandleReply ==
  \/ UploadListed \/ UploadRequestFailed \/ FolderMade \/ SendFileDataChunk
  \/ TransferTerminates \/ UploadEnded
  \/ SizeCalculated \/ DownloadListed \/ DownloadRequestFailed
  \/ DownloadStarted \/ DownloadStartFails \/ DownloadChunk \/ DownloadChunkFails
  \/ DownloadEnded
  \/ RemoveListed \/ FileRemoved \/ RemoveFailed \/ SimpleEnds

Serve == Handle /\ state # "closed" /\ ~broken /\ UNCHANGED clientVars

Next ==
  \/ StartOperation \/ OperationFinished \/ Cancel \/ CloseSession
  \/ CopyStep \/ HandleReply \/ Serve

Spec == Init /\ [][Next]_vars

\* The server's and the viewer's threads run, messages arrive, and the user
\* answers when he is asked.
FairSpec ==
  Spec /\ WF_vars(CopyStep) /\ WF_vars(HandleReply) /\ WF_vars(OperationFinished)
       /\ WF_vars(Serve)

-----------------------------------------------------------------------------

\* The operation, its place in the tree, and the server's state are what they
\* can be.
TypeOK ==
  /\ remote \in [Paths -> Node] /\ local \in [Paths -> Node]
  /\ state \in {"nothing", "list", "mkdir", "rename", "closed"} \cup Walks
  /\ cur \in Paths \cup {NoPath}
  /\ nodes \in [Paths \cup {<<>>} -> SUBSET Names]
  /\ cur # NoPath => NameOf(cur) \in nodes[Parent(cur)]
  /\ goto \in {"none", "first", "child", "parent"}
  /\ sizesLeft \in 0..Cardinality(Names)
  /\ stream \in {NoStream, FileOnly, Dangling} \cup
                [path : Paths, pos : Nat, open : BOOLEAN]
  /\ pc \in {"idle", "copy", "unwind"} /\ frames \in Nat /\ (pc = "idle" <=> frames = 0)

\* What the current operation may be told next. Any other reply makes the
\* adapter throw OperationNotPermittedException, and the viewer disconnects.
Expected ==
  CASE op = "upload" /\ goto # "none" -> {"list", "failed"}
    [] op = "upload" /\ goto = "none" -> {"mkdir", "start upload", "upload", "end upload", "failed"}
    [] op = "download" /\ sizesLeft > 0 -> {"size", "failed"}
    [] op = "download" /\ sizesLeft = 0 ->
         {"list", "start download", "download", "end download", "failed"}
    [] op = "remove" -> {"list", "remove", "failed"}
    [] OTHER -> {op, "failed"}

\* Every reply meets the operation that asked for it, at the place in the tree it
\* was asked for, and but for the folders' sizes one request is out at a time:
\* the replies carry no file name, so nothing else tells them apart.
RepliesMeetTheirOperation ==
  /\ replies # <<>> => /\ listening /\ Head(replies).kind \in Expected
                       /\ op \in Walks => cur # NoPath
  /\ Len(requests) + Len(replies) <= IF sizesLeft > 0 THEN sizesLeft ELSE 1

\* The server uses a stream only if it was opened: it looks at the File, which a
\* failed start leaves without one.
ServerStreamsExist == ~crashed

\* "than clear memory and operation is finished" (UploadOperation.cpp:196):
\* killOp runs once, and no stream is used after it was deleted.
NothingFreedIsUsed == ~broken

\* A file that was there before the operation started is changed only after the
\* user was asked about it, or if the server refused to list its folder.
NothingOverwrittenUnasked ==
  op \in {"upload", "download"} =>
    \A p \in Paths :
      \/ before[p] \in {Absent, Folder} \/ Target[p] = before[p]
      \/ p \in asked \/ Parent(p) \in unlisted

Ended == op \in Walks /\ cur = NoPath /\ ~terminating

\* An operation that ends by itself has copied, or removed, every selected file,
\* but for those it has reported or the user decided about.
NothingIsForgotten ==
  Ended =>
    \A n \in nodes[<<>>] : \A p \in Under(<<n>>) :
      \/ Under(p) \intersect excused # {}
      \/ op = "remove" /\ ~Exists(remote, p)
      \/ op # "remove" /\ (IsFile(Source, p) => Target[p] = Source[p])

\* Every operation comes to an end, cancelled or not, whatever fails, and the
\* user may start the next.
OperationFinishes == (state # "nothing") ~> (state \in {"nothing", "closed"})

=============================================================================
