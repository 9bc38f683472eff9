------------------------- MODULE FileTransferProofs -------------------------
(***************************************************************************)
(* Proofs about the file transfer's two ends, for any tree of files.       *)
(*                                                                         *)
(* First the server alone: whatever a client sends, its handler accounts   *)
(* for every file it holds open, keeps the open files from being changed,  *)
(* and lets an upload that was broken off be started again (IInv).         *)
(*                                                                         *)
(* Then the session with the viewer: an operation is in one of the phases  *)
(* of PInv, which say what it has asked for, so that every reply meets the *)
(* step that asked for it, finds the streams it needs open and uses no     *)
(* pointer that has been deleted.  A walk over the tree changes no file    *)
(* that was there unless the user was asked about it (Careful), and what   *)
(* it has not done yet is ahead of it (Complete).  The session's theorems  *)
(* assume CancelAfterSkip = FALSE, NothingFreed also AfterBroken = FALSE:  *)
(* an operation that is killed twice goes on in no phase of PInv.          *)
(***************************************************************************)
EXTENDS FileTransfer, FiniteSetTheorems, SequenceTheorems, TLAPS

Stream == [path : Paths \cup {NoPath}, pos : Nat, open : BOOLEAN]

Types ==
  /\ remote \in [Paths -> Node]
  /\ uploadFile \in Paths \cup {NoPath} /\ downloadFile \in Paths \cup {NoPath}
  /\ outputStream \in Stream /\ inputStream \in Stream
  /\ openFiles \in SUBSET Paths
  /\ requests \in Seq(Request)
  /\ failures \in Nat

IInv == Types /\ HandlesAreAccounted

-----------------------------------------------------------------------------

\* A request has the fields its kind is read with.
LEMMA RequestFields ==
  ASSUME IInv, requests # <<>>
  PROVE  /\ Head(requests) \in Request /\ Tail(requests) \in Seq(Request)
         /\ Head(requests).kind = "start upload" =>
              Head(requests).path \in Paths /\ Head(requests).offset \in Nat
         /\ Head(requests).kind = "start download" =>
              Head(requests).path \in Paths /\ Head(requests).offset \in Nat
         /\ Head(requests).kind = "upload" => Head(requests).chunk \in Chunks
  <1>1. Head(requests) \in Request /\ Tail(requests) \in Seq(Request)
    BY DEF IInv, Types
  <1> QED
    BY <1>1 DEF Request

\* What stays open when the upload, or the download, is released.
LEMMA FilesInUse ==
  ASSUME IInv
  PROVE  /\ WithoutUpload = Held(inputStream)
         /\ WithoutDownload = Held(outputStream)
         /\ WithoutUpload \subseteq openFiles /\ WithoutDownload \subseteq openFiles
  BY DEF IInv, Types, HandlesAreAccounted, WithoutUpload, WithoutDownload, Held

\* The values the actions assign are of their types.
LEMMA Nodes ==
  /\ Absent \in Node /\ Folder \in Node /\ File(<<>>) \in Node
  /\ NoStream \in Stream
  /\ \A p \in Paths, n \in Nat : OpenStream(p, n) \in Stream
  BY DEF Node, Absent, Folder, File, NoStream, OpenStream, Stream

\* Writing a chunk gives chunks.
LEMMA WriteType ==
  ASSUME NEW data \in Seq(Chunks), NEW pos \in Nat, NEW chunk \in Chunks
  PROVE  Write(data, pos, chunk) \in Seq(Chunks)
  BY DEF Write

-----------------------------------------------------------------------------

\* The handler's constructor establishes the invariant.
LEMMA InitInv == ServerInit /\ remote \in [Paths -> Node] => IInv
  BY NullAssumption, Nodes
  DEF ServerInit, IInv, Types, HandlesAreAccounted, NoStream, Stream, Held

\* What leaves the handler and the files alone.
LEMMA IdleInv ==
  ASSUME IInv, UNCHANGED <<remote, handlerVars>>, requests' \in Seq(Request), failures' \in Nat
  PROVE  IInv'
  BY DEF IInv, Types, HandlesAreAccounted, Held, handlerVars

\* Refusing, listing and computing sizes change nothing.
LEMMA ReadOnlyInv ==
  ASSUME IInv, Refuse \/ ListFolder \/ FolderSize
  PROVE  IInv'
  <1>1. requests # <<>>
    BY DEF Refuse, ListFolder, FolderSize, Asked
  <1>2. requests' = Tail(requests) /\ UNCHANGED <<remote, handlerVars>>
    BY DEF Refuse, ListFolder, FolderSize, Answer
  <1>3. failures' \in Nat
    BY DEF Refuse, ListFolder, FolderSize, ByChance, NotByChance, IInv, Types
  <1> QED
    BY <1>1, <1>2, <1>3, IdleInv, RequestFields

\* A change of the files that spares those in use.
LEMMA FilesInv ==
  ASSUME IInv, requests # <<>>, requests' = Tail(requests), UNCHANGED <<handlerVars, failures>>,
         remote' \in [Paths -> Node], \A p \in openFiles : remote'[p] = remote[p]
  PROVE  IInv'
  <1>1. Types'
    BY RequestFields DEF IInv, Types, handlerVars
  <1>2. HandlesAreAccounted'
    BY DEF IInv, Types, HandlesAreAccounted, Held, handlerVars, IsFile
  <1> QED
    BY <1>1, <1>2 DEF IInv

\* mkdir makes a folder where there is nothing.
LEMMA MakeFolderInv ==
  ASSUME IInv, MakeFolder
  PROVE  IInv'
  <1> DEFINE p == Head(requests).path
  <1>1. CASE CanCreate(remote, p)
    <2>1. remote' = [remote EXCEPT ![p] = Folder] /\ p \in Paths /\ p \notin openFiles
      BY <1>1 DEF MakeFolder, CanCreate, Exists, IInv, HandlesAreAccounted, IsFile
    <2> QED
      BY <2>1, FilesInv, Nodes DEF MakeFolder, Asked, Answer, NotByChance, IInv, Types
  <1>2. CASE ~CanCreate(remote, p)
    BY <1>2, FilesInv DEF MakeFolder, Asked, Answer, NotByChance, IInv, Types
  <1> QED
    BY <1>1, <1>2

\* A file in use is not removed.
LEMMA RemoveFileInv ==
  ASSUME IInv, RemoveFile
  PROVE  IInv'
  <1> DEFINE p == Head(requests).path
  <1>1. CASE CanRemove(remote, openFiles, p)
    <2>1. remote' = [remote EXCEPT ![p] = Absent] /\ p \in Paths /\ p \notin openFiles
      BY <1>1 DEF RemoveFile, CanRemove, Exists
    <2> QED
      BY <2>1, FilesInv, Nodes DEF RemoveFile, Asked, Answer, NotByChance, IInv, Types
  <1>2. CASE ~CanRemove(remote, openFiles, p)
    BY <1>2, FilesInv DEF RemoveFile, Asked, Answer, NotByChance, IInv, Types
  <1> QED
    BY <1>1, <1>2

\* Neither a file in use nor a folder it is in gets another name.
LEMMA RenameFileInv ==
  ASSUME IInv, RenameFile
  PROVE  IInv'
  <1> DEFINE p == Head(requests).path
             to == Head(requests).to
             ok == CanRename(p, to)
  <1>1. CASE ok
    <2>1. remote' = Renamed(p, to)
      BY <1>1 DEF RenameFile
    <2>3. remote' \in [Paths -> Node]
      <3>1. \A q \in Paths : Renamed(p, to)[q] \in Node
        BY Nodes DEF IInv, Types, Renamed
      <3> QED
        BY <2>1, <3>1 DEF Renamed
    <2>4. \A q \in openFiles : remote'[q] = remote[q]
      BY <1>1, <2>1 DEF IInv, Types, CanRename, Renamed
    <2> QED
      BY <2>3, <2>4, FilesInv DEF RenameFile, Asked, Answer, NotByChance
  <1>2. CASE ~ok
    BY <1>2, FilesInv DEF RenameFile, Asked, Answer, NotByChance, IInv, Types
  <1> QED
    BY <1>1, <1>2

-----------------------------------------------------------------------------

\* The stream that is opened, or none, in place of the previous upload.
LEMMA UploadOpened ==
  ASSUME IInv, requests # <<>>, Head(requests).kind = "start upload",
         requests' = Tail(requests), failures' \in Nat,
         remote' \in [Paths -> Node],
         \A q \in WithoutUpload : remote'[q] = remote[q],
         UNCHANGED <<downloadFile, inputStream>>,
         NEW opens \in BOOLEAN, NEW pos \in Nat,
         uploadFile' = Head(requests).path \/ (uploadFile' = NoPath /\ ~opens),
         opens => IsFile(remote', uploadFile') /\ uploadFile' \notin WithoutUpload,
         outputStream' = IF opens THEN OpenStream(uploadFile', pos) ELSE NoStream,
         openFiles' = IF opens THEN WithoutUpload \cup {uploadFile'} ELSE WithoutUpload
  PROVE  IInv'
  <1>1. /\ uploadFile' \in Paths \cup {NoPath} /\ (opens => uploadFile' \in Paths)
        /\ requests' \in Seq(Request)
    BY RequestFields
  <1>2. Types'
    BY <1>1, Nodes, FilesInUse DEF IInv, Types, WithoutUpload
  <1>3. \A q \in WithoutUpload : IsFile(remote', q)
    BY FilesInUse DEF IInv, HandlesAreAccounted, IsFile
  <1>4. CASE opens
    <2>1. /\ outputStream'.open /\ outputStream'.path = uploadFile'
          /\ openFiles' = WithoutUpload \cup {uploadFile'}
      BY <1>4 DEF OpenStream
    <2> QED
      BY <1>1, <1>2, <1>3, <1>4, <2>1, FilesInUse, NullAssumption
      DEF IInv, HandlesAreAccounted, Held
  <1>5. CASE ~opens
    BY <1>1, <1>2, <1>3, <1>5, FilesInUse, NullAssumption
    DEF IInv, HandlesAreAccounted, NoStream, Held
  <1> QED
    BY <1>4, <1>5

\* A file that can be truncated is not in use, and exists once it has been.
LEMMA TruncatedIsFile ==
  ASSUME NEW p \in Paths, NEW used, CanTruncate(remote, used, p), IInv,
         used \subseteq openFiles
  PROVE  /\ p \notin used
         /\ Truncated(remote, p) \in [Paths -> Node] /\ IsFile(Truncated(remote, p), p)
         /\ [remote EXCEPT ![p] = Absent] \in [Paths -> Node]
  <1>1. p \notin used
    BY DEF CanTruncate, CanCreate, CanRemove, IInv, HandlesAreAccounted, IsFile, Exists
  <1> QED
    BY <1>1, Nodes DEF Truncated, IsFile, File, IInv, Types

\* The upload that is started replaces the previous one.
LEMMA StartUploadInv ==
  ASSUME IInv, StartUpload
  PROVE  IInv'
  <1> DEFINE p == Head(requests).path
             refused == Head(requests).overwrite /\ ~CanTruncate(remote, WithoutUpload, p)
             fs == IF Head(requests).overwrite /\ ~refused THEN Truncated(remote, p) ELSE remote
             opens == ~refused /\ IsFile(fs, p) /\ p \notin WithoutUpload
  <1>1. /\ requests # <<>> /\ Head(requests).kind = "start upload"
        /\ requests' = Tail(requests) /\ failures' = failures
        /\ remote' = fs /\ uploadFile' = p
        /\ UNCHANGED <<downloadFile, inputStream>>
        /\ outputStream' = IF opens THEN Sought(fs, p) ELSE NoStream
        /\ openFiles' = IF opens THEN WithoutUpload \cup {p} ELSE WithoutUpload
    BY DEF StartUpload, StartUploadFrom, Asked, Answer, NotByChance
  <1>2. p \in Paths /\ Head(requests).offset \in Nat
    BY <1>1, RequestFields
  <1>pos. PICK pos \in Nat : Sought(fs, p) = OpenStream(p, pos)
    BY <1>2 DEF Sought
  <1>3. fs \in [Paths -> Node] /\ \A q \in WithoutUpload : fs[q] = remote[q]
    <2>1. CASE Head(requests).overwrite /\ ~refused
      <3>1. WithoutUpload \subseteq openFiles /\ CanTruncate(remote, WithoutUpload, p)
        BY <2>1, FilesInUse
      <3>2. fs \in [Paths -> Node] /\ p \notin WithoutUpload
        BY <2>1, <3>1, <1>2, TruncatedIsFile
      <3> QED
        BY <2>1, <1>2, <3>1, <3>2 DEF IInv, Types, Truncated
    <2>2. CASE ~(Head(requests).overwrite /\ ~refused)
      BY <2>2 DEF IInv, Types
    <2> QED
      BY <2>1, <2>2
  <1>4. failures' \in Nat
    BY <1>1 DEF IInv, Types
  <1>5. opens => IsFile(remote', uploadFile') /\ uploadFile' \notin WithoutUpload
    BY <1>1
  <1>6. opens \in BOOLEAN
    BY DEF IsFile
  <1>7. /\ outputStream' = IF opens THEN OpenStream(uploadFile', pos) ELSE NoStream
        /\ openFiles' = IF opens THEN WithoutUpload \cup {uploadFile'} ELSE WithoutUpload
        /\ uploadFile' = Head(requests).path
        /\ remote' \in [Paths -> Node] /\ \A q \in WithoutUpload : remote'[q] = remote[q]
    BY <1>1, <1>3, <1>pos
  <1> HIDE DEF p, fs, opens
  <1> QED
    BY <1>1, <1>4, <1>5, <1>6, <1>7, UploadOpened

\* A start that fails leaves the File without a stream and no handle.
LEMMA StartUploadFailsInv ==
  ASSUME IInv, StartUploadFails
  PROVE  IInv'
  <1> DEFINE p == Head(requests).path
  <1>1. /\ requests # <<>> /\ Head(requests).kind = "start upload"
        /\ requests' = Tail(requests) /\ failures' = failures + 1
        /\ uploadFile' \in {NoPath, p} /\ outputStream' = NoStream /\ openFiles' = WithoutUpload
        /\ UNCHANGED <<downloadFile, inputStream>>
    BY DEF StartUploadFails, Asked, Answer, ByChance
  <1>2. p \in Paths
    BY <1>1, RequestFields
  <1>3. remote' \in [Paths -> Node] /\ \A q \in WithoutUpload : remote'[q] = remote[q]
    <2>1. CASE remote' = remote
      BY <2>1 DEF IInv, Types
    <2>2. CASE /\ CanTruncate(remote, WithoutUpload, p)
               /\ remote' \in {[remote EXCEPT ![p] = Absent], Truncated(remote, p)}
      <3>1. WithoutUpload \subseteq openFiles
        BY FilesInUse
      <3>2. remote' \in [Paths -> Node] /\ p \notin WithoutUpload
        BY <2>2, <3>1, <1>2, TruncatedIsFile
      <3> QED
        BY <2>2, <1>2, <3>1, <3>2 DEF IInv, Types, Truncated
    <2> QED
      BY <2>1, <2>2 DEF StartUploadFails
  <1>4. failures' \in Nat
    <2>1. failures \in Nat
      BY DEF IInv, Types
    <2>2. failures' = failures + 1
      BY <1>1
    <2> QED
      BY ONLY <2>1, <2>2
  <1> QED
    BY <1>1, <1>3, <1>4, UploadOpened, FALSE \in BOOLEAN, 0 \in Nat

\* The bytes of a file in use are replaced by others.
LEMMA UploadDataInv ==
  ASSUME IInv, UploadData
  PROVE  IInv'
  <1> DEFINE f == outputStream.path
             data(chunk) == Write(remote[f].data, outputStream.pos, chunk)
  <1>1. requests # <<>> /\ Head(requests).kind = "upload"
    BY DEF UploadData, Asked
  <1>2. CASE crashed' = TRUE /\ UNCHANGED <<remote, handlerVars, requests, failures>>
    BY <1>2 DEF IInv, Types, HandlesAreAccounted, Held, handlerVars
  <1>3. CASE requests' = Tail(requests) /\ UNCHANGED <<remote, handlerVars, failures>>
    <2>1. requests' \in Seq(Request) /\ failures' \in Nat
      BY <1>1, <1>3, RequestFields DEF IInv, Types
    <2> QED
      BY <1>3, <2>1, IdleInv
  <1>4. ASSUME uploadFile # NoPath, outputStream.open,
               NEW chunk \in Chunks, remote' = [remote EXCEPT ![f].data = data(chunk)],
               outputStream' = [outputStream EXCEPT !.pos = @ + 1],
               requests' = Tail(requests), failures' \in {failures, failures + 1},
               UNCHANGED <<uploadFile, downloadFile, inputStream, openFiles>>
        PROVE  IInv'
    <2>1. f \in openFiles /\ f \in Paths /\ outputStream \in Stream /\ remote \in [Paths -> Node]
      BY <1>4 DEF IInv, Types, HandlesAreAccounted, Held
    <2>2. remote[f].kind = "file" /\ remote[f] \in Node
      BY <2>1 DEF IInv, HandlesAreAccounted, IsFile
    <2>3. remote[f] \in [kind : {"file"}, data : Seq(Chunks)]
      BY <2>2 DEF Node, Absent, Folder
    <2>4. data(chunk) \in Seq(Chunks)
      <3>1. remote[f].data \in Seq(Chunks) /\ outputStream.pos \in Nat
        BY <2>1, <2>3 DEF Stream
      <3> QED
        BY <3>1, WriteType
    <2> HIDE DEF data
    <2>5. /\ remote' = [remote EXCEPT ![f] = [remote[f] EXCEPT !.data = data(chunk)]]
          /\ [remote[f] EXCEPT !.data = data(chunk)] \in [kind : {"file"}, data : Seq(Chunks)]
      BY <1>4, <2>1, <2>3, <2>4
    <2>6. remote' \in [Paths -> Node] /\ \A q \in Paths : IsFile(remote, q) => IsFile(remote', q)
      BY <2>1, <2>5 DEF Node, IsFile
    <2>7. outputStream' \in Stream /\ Held(outputStream') = Held(outputStream)
          /\ outputStream'.open /\ outputStream'.path = f
      BY <1>4, <2>1 DEF Stream, Held
    <2>8. requests' \in Seq(Request)
      BY <1>1, <1>4, RequestFields
    <2>11. failures' \in Nat
      <3>1. failures \in Nat
        BY DEF IInv, Types
      <3> QED
        BY <3>1, <1>4
    <2>9. Types'
      BY <1>4, <2>6, <2>7, <2>8, <2>11 DEF IInv, Types
    <2>10. HandlesAreAccounted'
      BY <1>4, <2>6, <2>7 DEF IInv, Types, HandlesAreAccounted, Held
    <2> QED
      BY <2>9, <2>10 DEF IInv
  <1> QED
    BY <1>2, <1>3, <1>4 DEF UploadData, Answer, CrashOnNull, NotByChance, ByChance

\* The upload's stream is closed, whether the File is forgotten or kept.
LEMMA EndUploadInv ==
  ASSUME IInv, EndUpload
  PROVE  IInv'
  <1>1. requests # <<>>
    BY DEF EndUpload, Asked
  <1>2. CASE crashed' = TRUE /\ UNCHANGED <<remote, handlerVars, requests, failures>>
    BY <1>2 DEF IInv, Types, HandlesAreAccounted, Held, handlerVars
  <1>3. CASE requests' = Tail(requests) /\ UNCHANGED <<remote, handlerVars, failures>>
    <2>1. requests' \in Seq(Request) /\ failures' \in Nat
      BY <1>1, <1>3, RequestFields DEF IInv, Types
    <2> QED
      BY <1>3, <2>1, IdleInv
  <1>4. CASE /\ openFiles' = WithoutUpload /\ requests' = Tail(requests)
             /\ uploadFile' \in {uploadFile, NoPath}
             /\ outputStream' \in {NoStream, Closed(outputStream)}
             /\ failures' \in {failures, failures + 1}
             /\ UNCHANGED <<remote, downloadFile, inputStream>>
    <2>1. outputStream' \in Stream /\ ~outputStream'.open
      BY <1>4, Nodes DEF IInv, Types, Closed, Stream, NoStream
    <2>2. openFiles' = Held(inputStream) /\ openFiles' \subseteq openFiles
      BY <1>4, FilesInUse
    <2>3. requests' \in Seq(Request) /\ failures' \in Nat
      <3>1. requests' \in Seq(Request)
        BY <1>1, <1>4, RequestFields
      <3>2. failures \in Nat
        BY DEF IInv, Types
      <3> QED
        BY <3>1, <3>2, <1>4
    <2>4. Types'
      BY <1>4, <2>1, <2>2, <2>3 DEF IInv, Types
    <2>5. HandlesAreAccounted'
      BY <1>4, <2>1, <2>2 DEF IInv, HandlesAreAccounted, Held
    <2> QED
      BY <2>4, <2>5 DEF IInv
  <1> QED
    BY <1>2, <1>3, <1>4 DEF EndUpload, Answer, CrashOnNull, NotByChance, ByChance

-----------------------------------------------------------------------------

\* The stream that is opened, or none, in place of the previous download.
LEMMA DownloadOpened ==
  ASSUME IInv, requests # <<>>, Head(requests).kind = "start download",
         requests' = Tail(requests), failures' \in Nat,
         downloadFile' = Head(requests).path,
         UNCHANGED <<remote, uploadFile, outputStream>>,
         NEW opens \in BOOLEAN,
         opens => IsFile(remote, downloadFile') /\ downloadFile' \notin WithoutDownload,
         NEW pos \in Nat,
         inputStream' = IF opens THEN OpenStream(downloadFile', pos) ELSE NoStream,
         openFiles' = IF opens THEN WithoutDownload \cup {downloadFile'} ELSE WithoutDownload
  PROVE  IInv'
  <1>1. downloadFile' \in Paths /\ Head(requests).offset \in Nat /\ requests' \in Seq(Request)
    BY RequestFields
  <1>2. Types'
    BY <1>1, Nodes, FilesInUse DEF IInv, Types, WithoutDownload
  <1>3. \A q \in WithoutDownload : IsFile(remote', q)
    BY FilesInUse DEF IInv, HandlesAreAccounted, IsFile
  <1>4. CASE opens
    <2>1. /\ inputStream'.open /\ inputStream'.path = downloadFile'
          /\ openFiles' = WithoutDownload \cup {downloadFile'}
      BY <1>4 DEF OpenStream
    <2> QED
      BY <1>1, <1>2, <1>3, <1>4, <2>1, FilesInUse, NullAssumption
      DEF IInv, HandlesAreAccounted, Held
  <1>5. CASE ~opens
    BY <1>1, <1>2, <1>3, <1>5, FilesInUse, NullAssumption
    DEF IInv, HandlesAreAccounted, NoStream, Held
  <1> QED
    BY <1>4, <1>5

\* The download that is started replaces the previous one.
LEMMA StartDownloadInv ==
  ASSUME IInv, StartDownload
  PROVE  IInv'
  <1> DEFINE p == Head(requests).path
             opens == IsFile(remote, p) /\ p \notin WithoutDownload
  <1>1. /\ requests # <<>> /\ Head(requests).kind = "start download"
        /\ requests' = Tail(requests) /\ failures' = failures
        /\ downloadFile' = p
        /\ UNCHANGED <<remote, uploadFile, outputStream>>
        /\ inputStream' = IF opens THEN Sought(remote, p) ELSE NoStream
        /\ openFiles' = IF opens THEN WithoutDownload \cup {p} ELSE WithoutDownload
    BY DEF StartDownload, Asked, Answer, NotByChance
  <1>pos. PICK pos \in Nat : Sought(remote, p) = OpenStream(p, pos)
    BY <1>1, RequestFields DEF Sought
  <1>2. failures' \in Nat
    BY <1>1 DEF IInv, Types
  <1>3. /\ inputStream' = IF opens THEN OpenStream(downloadFile', pos) ELSE NoStream
        /\ openFiles' = IF opens THEN WithoutDownload \cup {downloadFile'} ELSE WithoutDownload
        /\ opens => IsFile(remote, downloadFile') /\ downloadFile' \notin WithoutDownload
        /\ opens \in BOOLEAN
    BY <1>1, <1>pos DEF IsFile
  <1>4. downloadFile' = Head(requests).path
    BY <1>1
  <1> HIDE DEF p, opens
  <1> QED
    BY <1>1, <1>2, <1>3, <1>4, DownloadOpened

\* The same for a download.
LEMMA StartDownloadFailsInv ==
  ASSUME IInv, StartDownloadFails
  PROVE  IInv'
  <1>1. /\ requests # <<>> /\ Head(requests).kind = "start download"
        /\ requests' = Tail(requests)
        /\ downloadFile' = Head(requests).path
        /\ inputStream' = NoStream /\ openFiles' = WithoutDownload
        /\ UNCHANGED <<remote, uploadFile, outputStream>>
    BY DEF StartDownloadFails, Asked, Answer
  <1>2. failures' \in Nat
    <2>1. failures \in Nat
      BY DEF IInv, Types
    <2>2. failures' = failures + 1
      BY DEF StartDownloadFails, ByChance
    <2> QED
      BY ONLY <2>1, <2>2
  <1> QED
    BY <1>1, <1>2, DownloadOpened, FALSE \in BOOLEAN, 0 \in Nat

\* A chunk is read, or the end is found and the file closed.
LEMMA DownloadDataInv ==
  ASSUME IInv, DownloadData
  PROVE  IInv'
  <1>1. requests # <<>> /\ UNCHANGED <<remote, uploadFile, outputStream, failures>>
    BY DEF DownloadData, Asked, NotByChance
  <1>2. CASE requests' = requests /\ UNCHANGED handlerVars
    BY <1>1, <1>2 DEF IInv, Types, HandlesAreAccounted, Held, handlerVars
  <1>3. CASE requests' = Tail(requests) /\ UNCHANGED <<downloadFile, inputStream, openFiles>>
    <2>1. requests' \in Seq(Request) /\ failures' \in Nat
      BY <1>1, <1>3, RequestFields DEF IInv, Types
    <2> QED
      BY <1>1, <1>3, <2>1, IdleInv DEF handlerVars
  <1>4. CASE /\ downloadFile # NoPath /\ inputStream.open /\ requests' = Tail(requests)
             /\ inputStream' = [inputStream EXCEPT !.pos = @ + 1]
             /\ UNCHANGED <<downloadFile, openFiles>>
    <2>1. inputStream \in Stream /\ requests' \in Seq(Request)
      BY <1>1, <1>4, RequestFields DEF IInv, Types
    <2>2. inputStream' \in Stream /\ inputStream'.open /\ inputStream'.path = inputStream.path
      BY <1>4, <2>1 DEF Stream
    <2> QED
      BY <1>1, <1>4, <2>1, <2>2 DEF IInv, Types, HandlesAreAccounted, Held
  <1>5. CASE /\ downloadFile' = NoPath /\ inputStream' = NoStream
             /\ openFiles' = WithoutDownload /\ requests' = Tail(requests)
    <2>1. inputStream' \in Stream /\ ~inputStream'.open /\ requests' \in Seq(Request)
      BY <1>1, <1>5, RequestFields, Nodes DEF NoStream
    <2>2. openFiles' = Held(outputStream) /\ openFiles' \subseteq openFiles
      BY <1>5, FilesInUse
    <2> QED
      BY <1>1, <1>5, <2>1, <2>2 DEF IInv, Types, HandlesAreAccounted, Held
  <1> QED
    BY <1>2, <1>3, <1>4, <1>5 DEF DownloadData, Answer, CrashOnNull

-----------------------------------------------------------------------------

\* The handler's destructor closes both streams.
LEMMA DisconnectInv ==
  ASSUME IInv, Disconnect
  PROVE  IInv'
  <1>1. openFiles' = {}
    BY FilesInUse DEF Disconnect, IInv, HandlesAreAccounted, WithoutUpload, WithoutDownload, Held
  <1> QED
    BY <1>1, Nodes DEF Disconnect, IInv, Types, HandlesAreAccounted, NoStream, Held

\* Every request is handled by one of the actions.
LEMMA HandleInv ==
  ASSUME IInv, Handle
  PROVE  IInv'
  BY ReadOnlyInv, MakeFolderInv, RemoveFileInv, RenameFileInv, StartUploadInv,
     StartUploadFailsInv, UploadDataInv, EndUploadInv, StartDownloadInv,
     StartDownloadFailsInv, DownloadDataInv
  DEF Handle

\* One step of the session, whatever the client sends.
LEMMA StepInv ==
  ASSUME IInv, [ClientActs \/ Handle \/ Disconnect]_serverVars
  PROVE  IInv'
  <1>1. CASE ClientActs
    <2>1. requests' \in Seq(Request) /\ UNCHANGED <<remote, handlerVars>>
      BY <1>1 DEF ClientActs
    <2>2. failures \in Nat
      BY DEF IInv, Types
    <2>3. failures' \in Nat
      BY <1>1, <2>2 DEF ClientActs
    <2> QED
      BY <2>1, <2>3, IdleInv
  <1>2. CASE UNCHANGED serverVars
    <2>1. requests' \in Seq(Request) /\ failures' \in Nat /\ UNCHANGED <<remote, handlerVars>>
      BY <1>2 DEF serverVars, IInv, Types
    <2> QED
      BY <2>1, IdleInv
  <1> QED
    BY <1>1, <1>2, HandleInv, DisconnectInv

\* The inductive invariant holds in every session.
LEMMA Invariance == AnyClient => []IInv
  <1>1. IInv /\ [ClientActs \/ Handle \/ Disconnect]_serverVars => IInv'
    BY StepInv
  <1> QED
    BY InitInv, <1>1, PTL DEF AnyClient

\* Whatever a client asks for, in whatever order and however often it fails, the
\* handler loses no file handle and no file it is copying is replaced or removed.
THEOREM HandlesSound == AnyClient => []HandlesAreAccounted
  <1>1. IInv => HandlesAreAccounted
    BY DEF IInv
  <1> QED
    BY Invariance, <1>1, PTL

\* A sequence loses an element with its head.
LEMMA TailIsShorter ==
  ASSUME NEW S, NEW s \in Seq(S), s # <<>>
  PROVE  Len(s) >= Len(s) /\ ~(Len(Tail(s)) >= Len(s))
  <1>1. Len(s) \in Nat /\ Len(Tail(s)) = Len(s) - 1
    OBVIOUS
  <1>2. \A n \in Nat : n >= n /\ ~(n - 1 >= n)
    OBVIOUS
  <1> QED
    BY <1>1, <1>2, Zenon

\* A file nobody uses, in a folder, can be truncated.
LEMMA WholeFile ==
  ASSUME NEW fs, NEW p, NEW used, IsFile(fs, p), NamesIn(fs, p) = {},
         IsFolder(fs, Parent(p)), p \notin used
  PROVE  CanTruncate(fs, used, p)
  <1>1. Exists(fs, p)
    BY DEF Exists, IsFile
  <1> QED
    BY <1>1, Zenon DEF CanTruncate, CanRemove

\* The step that restarts a broken upload.
LEMMA RestartStep ==
  ASSUME IInv, [ClientActs \/ Handle \/ Disconnect]_serverVars,
         requests # <<>>, Head(requests).kind = "start upload",
         Head(requests).overwrite, Head(requests).offset = 0,
         Head(requests).path = uploadFile,
         IsFile(remote, uploadFile), NamesIn(remote, uploadFile) = {},
         IsFolder(remote, Parent(uploadFile)),
         uploadFile # inputStream.path,
         requests' = Tail(requests), replies' # <<>>, failures' = failures
  PROVE  /\ outputStream'.open /\ outputStream'.path = uploadFile
         /\ replies' = Append(replies, [kind |-> "start upload"])
  <1>1. failures \in Nat /\ requests \in Seq(Request)
    BY DEF IInv, Types
  <1>2. requests' # requests /\ ~ClientActs
    <2>1. Len(requests) >= Len(requests) /\ ~(Len(Tail(requests)) >= Len(requests))
      BY <1>1, TailIsShorter
    <2> QED
      BY <2>1, Zenon DEF ClientActs
  <1>3. ~Disconnect /\ ~UNCHANGED serverVars
    <2>1. Disconnect => replies' = <<>>
      BY DEF Disconnect
    <2>2. UNCHANGED serverVars => requests' = requests
      BY DEF serverVars
    <2> QED
      BY <1>2, <2>1, <2>2
  <1>4. failures' # failures + 1
    BY ONLY <1>1, failures' = failures
  <1>Handle. Handle
    BY <1>2, <1>3
  <1>5. StartUpload
    BY <1>Handle, <1>4
    DEF Handle, Refuse, ListFolder, MakeFolder, RemoveFile, RenameFile, FolderSize,
        StartUploadFails, UploadData, EndUpload, StartDownload, StartDownloadFails,
        DownloadData, Asked, ByChance
  <1>6. uploadFile \in Paths /\ uploadFile \notin WithoutUpload
    BY FilesInUse DEF IsFile, Held
  <1>7. CanTruncate(remote, WithoutUpload, uploadFile)
    BY <1>6, WholeFile
  <1>8. IsFile(Truncated(remote, uploadFile), uploadFile)
    BY <1>6 DEF IInv, Types, Truncated, IsFile, File
  <1>9. CanSeek(Truncated(remote, uploadFile), uploadFile)
    <2>1. Truncated(remote, uploadFile)[uploadFile].data = <<>>
      BY <1>6 DEF IInv, Types, Truncated, File
    <2>2. Len(<<>>) = 0
      BY EmptySeq
    <2>3. Len(Truncated(remote, uploadFile)[uploadFile].data) = 0
      BY <2>1, <2>2, Zenon
    <2>4. \A m, n \in Nat : m = n => m <= n
      BY ONLY TRUE
    <2> QED
      BY <2>3, <2>4, 0 \in Nat, Zenon DEF CanSeek
  <1>10. PICK fs : fs = Truncated(remote, uploadFile)
    OBVIOUS
  <1>11. /\ outputStream' = Sought(fs, uploadFile)
         /\ Answer([kind |-> "start upload"])
    BY <1>5, <1>6, <1>7, <1>8, <1>9, <1>10 DEF StartUpload, StartUploadFrom
  <1>12. outputStream'.open /\ outputStream'.path = uploadFile
    BY <1>11 DEF Sought, OpenStream
  <1> QED
    BY <1>11, <1>12 DEF Answer

\* An upload that was broken off can be started again, whatever happened since.
THEOREM UploadRestarts == AnyClient => BrokenUploadRestarts
  <1> DEFINE Step == [ClientActs \/ Handle \/ Disconnect]_serverVars
             Restart == [ ( /\ requests # <<>> /\ Head(requests).kind = "start upload"
                            /\ Head(requests).overwrite /\ Head(requests).offset = 0
                            /\ Head(requests).path = uploadFile
                            /\ IsFile(remote, uploadFile) /\ NamesIn(remote, uploadFile) = {}
                            /\ IsFolder(remote, Parent(uploadFile))
                            /\ uploadFile # inputStream.path
                            /\ requests' = Tail(requests) /\ replies' # <<>>
                            /\ failures' = failures )
                          => /\ outputStream'.open /\ outputStream'.path = uploadFile
                             /\ replies' = Append(replies, [kind |-> "start upload"]) ]_serverVars
  <1>1. IInv /\ Step => Restart
    BY RestartStep
  <1> QED
    BY Invariance, <1>1, PTL DEF AnyClient, BrokenUploadRestarts

-----------------------------------------------------------------------------
(* The viewer.  The invariant says where the operation is, phase by phase:
   what has been sent and not been answered is what the phase asks for. *)

\* The tree's folders list names of files they can hold, and those on the way to
\* the position are listed.
Above(p) == {SubSeq(p, 1, n) : n \in 1..Len(p)}
Placed(nds, p) == \A q \in Above(p) : NameOf(q) \in nds[Parent(q)]
Listing(nds) ==
  /\ nds \in [Paths \cup {<<>>} -> SUBSET Names]
  /\ \A p \in Paths \cup {<<>>} : \A n \in nds[p] : Append(p, n) \in Paths

FileStream == [path : Paths, pos : Nat, open : BOOLEAN]

DataTypes ==
  /\ local \in [Paths -> Node]
  /\ \A n \in DOMAIN remoteFiles : remoteFiles[n] \in Nat
  /\ offset \in Nat
  /\ stream \in {NoStream, FileOnly, Dangling} \cup FileStream

ClientTypes ==
  /\ DataTypes /\ before \in [Paths -> Node]
  /\ state \in {"nothing", "list", "mkdir", "rename", "closed"} \cup Walks
  /\ listening \in BOOLEAN /\ terminating \in BOOLEAN /\ broken \in BOOLEAN
  /\ cur \in Paths \cup {NoPath}
  /\ Listing(nodes) /\ (cur # NoPath => Placed(nodes, cur))
  /\ goto \in {"none", "first", "child", "parent"}
  /\ sizesLeft \in 0..Cardinality(Names)
  /\ pc \in {"idle", "copy", "unwind"} /\ frames \in Nat /\ (pc = "idle" <=> frames = 0)

\* Where a folder that is to be listed is in the tree.
GotoFits ==
  /\ goto = "first" => Len(cur) = 1
  /\ goto = "child" => nodes[cur] # {}
  /\ goto = "parent" => nodes[cur] = {} /\ Later(nodes, cur) = {} /\ Len(cur) > 1

\* A request by which the walk goes on.
WalkAsks(r) ==
  \/ op = "upload" /\ goto # "none" /\ r = List(ListedFolder)
  \/ op = "remove" /\ (r = List(cur) \/ r = [kind |-> "remove", path |-> cur])

\* What the operation has asked for.
Asks(r) ==
  /\ r \in Request
  /\ \/ WalkAsks(r)
     \/ /\ op = "upload" /\ goto = "none"
        /\ \/ r.kind = "mkdir"
           \/ r.kind = "start upload" /\ r.path = cur /\ stream.open
           \/ /\ r.kind = "upload" /\ stream.open
              /\ outputStream.open /\ outputStream.path = cur
           \/ r.kind = "end upload" /\ outputStream.open /\ outputStream.path = cur
     \/ /\ op = "download"
        /\ \/ r = List(cur)
           \/ r.kind = "start download" /\ r.path = cur
           \/ /\ r.kind = "download" /\ inputStream.open
              /\ stream.open /\ stream.path = cur /\ IsFile(local, cur)

\* What it may be told.
ListReply(r, p) ==
  /\ r.kind = "list"
  /\ r.names \subseteq Names /\ \A n \in r.names : Append(p, n) \in Paths
  /\ \A n \in DOMAIN r.sizes : r.sizes[n] \in Nat

IsTold(r) ==
  \/ r.kind = "failed"
  \/ /\ op = "upload" /\ goto # "none" /\ ListReply(r, ListedFolder)
  \/ /\ op = "upload" /\ goto = "none"
     /\ \/ r.kind = "mkdir"
        \/ /\ r.kind \in {"start upload", "upload"} /\ stream.open
           /\ outputStream.open /\ outputStream.path = cur
        \/ r.kind = "end upload"
  \/ /\ op = "download"
     /\ \/ ListReply(r, cur)
        \/ r.kind = "start download" /\ inputStream.open
        \/ /\ r.kind = "download" /\ r.chunk \in Chunks /\ inputStream.open
           /\ stream.open /\ stream.path = cur /\ IsFile(local, cur)
        \/ r.kind = "end download"
  \/ op = "remove" /\ (ListReply(r, cur) \/ r.kind = "remove")

Silent == requests = <<>> /\ replies = <<>>

Resting ==
  /\ state \in {"nothing", "closed"} /\ Silent
  /\ pc = "idle" /\ posted = 0 /\ cur = NoPath
  /\ state = "nothing" => sizesLeft = 0

\* An operation, in one of its phases.
Busy == state = op /\ listening /\ posted = 0

Sizing ==
  /\ Busy /\ op = "download" /\ pc = "idle" /\ cur # NoPath /\ goto = "none"
  /\ sizesLeft > 0 /\ Len(requests) + Len(replies) = sizesLeft
  /\ requests \in Seq([kind : {"size"}, path : Paths])
  /\ replies \in Seq([kind : {"size", "failed"}])

Simple ==
  /\ Busy /\ op \in {"list", "mkdir", "rename"}
  /\ pc = "idle" /\ cur = NoPath /\ sizesLeft = 0
  /\ \/ \E r \in Request : r.kind = op /\ requests = <<r>> /\ replies = <<>>
     \/ \E r : r.kind \in {op, "failed"} /\ requests = <<>> /\ replies = <<r>>

Walking == Busy /\ op \in Walks /\ cur # NoPath /\ sizesLeft = 0

Waiting ==
  /\ Walking /\ pc # "copy" /\ (pc = "unwind" => ~terminating)
  /\ op = "upload" => GotoFits
  /\ \/ \E r : Asks(r) /\ requests = <<r>> /\ replies = <<>>
     \/ \E r : IsTold(r) /\ requests = <<>> /\ replies = <<r>>

Copying ==
  /\ Walking /\ op # "remove" /\ pc = "copy" /\ goto = "none" /\ Silent
  /\ terminating => frames = 1

Cancelled ==
  /\ Walking /\ pc = "unwind" /\ Silent /\ terminating /\ frames = 1

Finished ==
  /\ state = op /\ posted = 1 /\ Silent /\ pc # "copy" /\ cur = NoPath /\ sizesLeft = 0
  /\ op \notin {"none", "nothing", "closed"}
  /\ pc = "unwind" => ~terminating

Phases ==
  Resting \/ Sizing \/ Simple \/ Waiting \/ Copying \/ Cancelled \/ Finished

PInv == IInv /\ ClientTypes /\ Phases

-----------------------------------------------------------------------------
(* Paths, names and listings. *)

\* A path is a sequence of at most Depth names.
LEMMA PathIsSeq ==
  /\ \A p \in Paths : p \in Seq(Names) /\ Len(p) \in 1..Depth /\ p # <<>>
                       /\ Len(p) \in Nat /\ Len(p) >= 1
  /\ \A p \in Seq(Names) : Len(p) \in 1..Depth => p \in Paths
  /\ \A p \in Paths \cup {<<>>} : p \in Seq(Names) /\ Len(p) \in Nat
  <1>1. ASSUME NEW p \in Paths
        PROVE  /\ p \in Seq(Names) /\ Len(p) \in 1..Depth /\ p # <<>>
               /\ Len(p) \in Nat /\ Len(p) >= 1
    <2>1. PICK d \in 1..Depth : p \in [1..d -> Names]
      BY DEF Paths
    <2>2. d \in Nat /\ p \in Seq(Names) /\ Len(p) = d
      BY <2>1, ServerAssumption
    <2> QED
      BY <2>1, <2>2
  <1>2. ASSUME NEW p \in Seq(Names), Len(p) \in 1..Depth
        PROVE  p \in Paths
    <2>1. p \in [1..Len(p) -> Names]
      OBVIOUS
    <2> QED
      BY <1>2, <2>1 DEF Paths
  <1>3. <<>> \in Seq(Names) /\ Len(<<>>) \in Nat
    OBVIOUS
  <1> QED
    BY <1>1, <1>2, <1>3

\* What a path is put together from.
LEMMA ParentFacts ==
  ASSUME NEW p \in Paths
  PROVE  /\ Parent(p) \in Paths \cup {<<>>} /\ NameOf(p) \in Names
         /\ Len(Parent(p)) = Len(p) - 1 /\ Len(p) \in Nat
         /\ Len(p) > 1 => Parent(p) \in Paths
         /\ Len(p) = 1 => Parent(p) = <<>>
         /\ Append(Parent(p), NameOf(p)) = p
  <1>1. p \in Seq(Names) /\ Len(p) \in 1..Depth /\ Len(p) \in Nat
    BY PathIsSeq, ServerAssumption
  <1>2. Parent(p) \in Seq(Names) /\ Len(Parent(p)) = Len(p) - 1
    BY <1>1 DEF Parent
  <1>3. Len(p) > 1 => Parent(p) \in Paths
    <2>1. Len(p) > 1 => Len(p) - 1 \in 1..Depth
      BY <1>1, ServerAssumption
    <2> QED
      BY <1>2, <2>1, PathIsSeq
  <1>4. Len(p) = 1 => Parent(p) = <<>>
    BY <1>1, <1>2, EmptySeq
  <1>5. NameOf(p) \in Names
    BY <1>1 DEF NameOf
  <1>6. Append(Parent(p), NameOf(p)) = p
    <2>1. /\ Append(Parent(p), NameOf(p)) \in Seq(Names)
          /\ Len(Append(Parent(p), NameOf(p))) = Len(p)
      BY <1>1, <1>2, <1>5
    <2>2. ASSUME NEW i \in 1..Len(p)
          PROVE  Append(Parent(p), NameOf(p))[i] = p[i]
      <3>1. CASE i = Len(p)
        BY <1>1, <1>2, <1>5, <3>1 DEF NameOf
      <3>2. CASE i # Len(p)
        <4>1. i \in 1..(Len(p) - 1)
          BY <1>1, <3>2
        <4>2. Parent(p)[i] = p[i]
          BY <1>1, <4>1 DEF Parent
        <4> QED
          BY <1>2, <1>5, <4>1, <4>2
      <3> QED
        BY <3>1, <3>2
    <2> QED
      BY <1>1, <2>1, <2>2, SeqEqual
  <1>7. Len(p) = 1 \/ Len(p) > 1
    <2>1. \A n \in Nat : n >= 1 => n = 1 \/ n > 1
      OBVIOUS
    <2> QED
      BY <2>1, PathIsSeq
  <1> QED
    BY <1>1, <1>2, <1>3, <1>4, <1>5, <1>6, <1>7

\* A file in a folder.
LEMMA AppendFacts ==
  ASSUME NEW p \in Paths \cup {<<>>}, NEW n \in Names, Append(p, n) \in Paths
  PROVE  /\ Parent(Append(p, n)) = p /\ NameOf(Append(p, n)) = n
         /\ Len(Append(p, n)) = Len(p) + 1 /\ Len(p) \in Nat
  <1>1. p \in Seq(Names) /\ Len(p) \in Nat
    BY PathIsSeq
  <1>2. /\ Append(p, n) \in Seq(Names) /\ Len(Append(p, n)) = Len(p) + 1
        /\ Append(p, n)[Len(p) + 1] = n
        /\ \A i \in 1..Len(p) : Append(p, n)[i] = p[i]
    BY <1>1, AppendProperties
  <1>3. NameOf(Append(p, n)) = n
    BY <1>2 DEF NameOf
  <1>4. Parent(Append(p, n)) = SubSeq(Append(p, n), 1, Len(p))
    BY <1>1, <1>2 DEF Parent
  <1>5. SubSeq(Append(p, n), 1, Len(p)) = p
    <2> DEFINE q == Append(p, n)
    <2>1. /\ SubSeq(q, 1, Len(p)) \in Seq(Names) /\ Len(SubSeq(q, 1, Len(p))) = Len(p)
          /\ \A i \in 1..Len(p) : SubSeq(q, 1, Len(p))[i] = q[i]
      BY <1>1, <1>2
    <2> QED
      BY <1>1, <1>2, <2>1, SeqEqual
  <1> QED
    BY <1>1, <1>2, <1>3, <1>4, <1>5

\* A set of numbers has a smallest one.
LEMMA SmallestOf ==
  ASSUME NEW S, S \subseteq Nat, S # {}
  PROVE  \E x \in S : \A y \in S : x <= y
  <1>1. \E x \in S : \A y \in S : ~(<<y, x>> \in OpToRel(<, Nat))
    BY WFMin, NatLessThanWellFounded, Zenon
  <1>2. \A x, y \in Nat : y < x => <<y, x>> \in OpToRel(<, Nat)
    <2>1. \A x, y \in Nat : <<y, x>> \in Nat \X Nat /\ <<y, x>>[1] = y /\ <<y, x>>[2] = x
      OBVIOUS
    <2> QED
      BY <2>1, Zenon DEF OpToRel
  <1>3. PICK x \in S : \A y \in S : ~(y < x)
    BY <1>1, <1>2, Zenon
  <1>4. \A y \in S : x <= y
    BY <1>3
  <1> QED
    BY <1>4

LEMMA SmallestIn ==
  ASSUME NEW S, S \subseteq Names, S # {}
  PROVE  Smallest(S) \in S
  <1>1. \E x \in S : \A y \in S : x <= y
    BY ServerAssumption, SmallestOf
  <1> QED
    BY <1>1 DEF Smallest

-----------------------------------------------------------------------------
(* The tree. *)

\* The folders on the way to a position, and the position.
LEMMA AboveFacts ==
  ASSUME NEW p \in Paths
  PROVE  /\ p \in Above(p)
         /\ \A q \in Above(p) : q \in Paths /\ Len(q) <= Len(p) /\ Len(q) >= 1
                                /\ (Len(q) = Len(p) => q = p)
  <1>1. p \in Seq(Names) /\ Len(p) \in 1..Depth /\ Len(p) \in Nat
    BY PathIsSeq, ServerAssumption
  <1>2. SubSeq(p, 1, Len(p)) = p
    BY <1>1, SubSeqFull
  <1>3. p \in Above(p)
    <2>1. Len(p) \in 1..Len(p)
      BY <1>1
    <2> QED
      BY <1>2, <2>1 DEF Above
  <1>4. ASSUME NEW q \in Above(p)
        PROVE  /\ q \in Paths /\ Len(q) <= Len(p) /\ Len(q) >= 1
               /\ Len(q) = Len(p) => q = p
    <2>1. PICK n \in 1..Len(p) : q = SubSeq(p, 1, n)
      BY DEF Above
    <2>2. q \in Seq(Names) /\ Len(q) = n
      BY <1>1, <2>1
    <2>3. n \in 1..Depth /\ n <= Len(p) /\ n >= 1
      BY <1>1, ServerAssumption
    <2> QED
      BY <1>2, <2>1, <2>2, <2>3, PathIsSeq
  <1> QED
    BY <1>3, <1>4

\* A prefix of a prefix.
LEMMA PrefixOfPrefix ==
  ASSUME NEW p \in Seq(Names), NEW m \in Nat, NEW n \in Nat, n <= m, m <= Len(p)
  PROVE  SubSeq(SubSeq(p, 1, m), 1, n) = SubSeq(p, 1, n)
  <1>1. /\ SubSeq(p, 1, m) \in Seq(Names) /\ Len(SubSeq(p, 1, m)) = m
        /\ \A i \in 1..m : SubSeq(p, 1, m)[i] = p[i]
    OBVIOUS
  <1>2. /\ SubSeq(p, 1, n) \in Seq(Names) /\ Len(SubSeq(p, 1, n)) = n
        /\ \A i \in 1..n : SubSeq(p, 1, n)[i] = p[i]
    OBVIOUS
  <1> DEFINE q == SubSeq(p, 1, m)
  <1> HIDE DEF q
  <1>3. /\ SubSeq(q, 1, n) \in Seq(Names) /\ Len(SubSeq(q, 1, n)) = n
        /\ \A i \in 1..n : SubSeq(q, 1, n)[i] = q[i]
    BY <1>1 DEF q
  <1>4. \A i \in 1..n : SubSeq(q, 1, n)[i] = SubSeq(p, 1, n)[i]
    BY <1>1, <1>2, <1>3 DEF q
  <1>5. SubSeq(q, 1, n) = SubSeq(p, 1, n)
    BY <1>2, <1>3, <1>4, SeqEqual
  <1> QED
    BY <1>5 DEF q

\* The way to a file goes through its folder.
LEMMA AboveParent ==
  ASSUME NEW p \in Paths, Len(p) > 1
  PROVE  Above(p) = Above(Parent(p)) \cup {p}
  <1>1. p \in Seq(Names) /\ Len(p) \in Nat
    BY PathIsSeq
  <1>2. /\ Parent(p) = SubSeq(p, 1, Len(p) - 1)
        /\ Len(Parent(p)) = Len(p) - 1
    BY ParentFacts DEF Parent
  <1>3. SubSeq(p, 1, Len(p)) = p
    BY <1>1, SubSeqFull
  <1>4. ASSUME NEW n \in 1..(Len(p) - 1)
        PROVE  SubSeq(Parent(p), 1, n) = SubSeq(p, 1, n)
    <2>1. n \in Nat /\ Len(p) - 1 \in Nat /\ n <= Len(p) - 1 /\ Len(p) - 1 <= Len(p)
      BY <1>1
    <2> QED
      BY <1>1, <1>2, <2>1, PrefixOfPrefix
  <1>5. \A n \in 1..Len(p) : n = Len(p) \/ n \in 1..(Len(p) - 1)
    BY <1>1
  <1>6. \A n \in 1..(Len(p) - 1) : n \in 1..Len(p)
    BY <1>1
  <1>7. Len(p) \in 1..Len(p)
    BY <1>1
  <1> QED
    BY <1>2, <1>3, <1>4, <1>5, <1>6, <1>7 DEF Above

LEMMA AboveFirst ==
  ASSUME NEW p \in Paths, Len(p) = 1
  PROVE  Above(p) = {p}
  <1>1. p \in Seq(Names) /\ SubSeq(p, 1, Len(p)) = p
    BY PathIsSeq, SubSeqFull
  <1> QED
    BY <1>1 DEF Above

\* The position is in its folder's listing, and its folder is placed.
LEMMA PlacedParent ==
  ASSUME NEW nds, NEW p \in Paths, Placed(nds, p)
  PROVE  NameOf(p) \in nds[Parent(p)] /\ (Len(p) > 1 => Placed(nds, Parent(p)))
  BY AboveFacts, AboveParent DEF Placed

\* A position is placed by its folder and its name.
LEMMA PlacedBy ==
  ASSUME NEW nds, NEW p \in Paths, NameOf(p) \in nds[Parent(p)],
         Len(p) > 1 => Placed(nds, Parent(p))
  PROVE  Placed(nds, p)
  <1>1. Len(p) > 1 \/ Len(p) = 1
    <2>1. \A n \in Nat : n >= 1 => n = 1 \/ n > 1
      OBVIOUS
    <2> QED
      BY <2>1, PathIsSeq
  <1> QED
    BY <1>1, AboveParent, AboveFirst DEF Placed

\* What is listed deeper does not matter for a position.
LEMMA PlacedElsewhere ==
  ASSUME NEW nds, NEW nds2, NEW p \in Paths, Placed(nds, p),
         \A f \in Paths \cup {<<>>} : Len(f) < Len(p) => nds2[f] = nds[f]
  PROVE  Placed(nds2, p)
  <1> SUFFICES ASSUME NEW q \in Above(p)
               PROVE  NameOf(q) \in nds2[Parent(q)]
    BY DEF Placed
  <1>1. q \in Paths /\ Len(q) <= Len(p) /\ NameOf(q) \in nds[Parent(q)]
    BY AboveFacts DEF Placed
  <1>2. Parent(q) \in Paths \cup {<<>>} /\ Len(Parent(q)) < Len(p)
    <2>1. Len(Parent(q)) = Len(q) - 1 /\ Len(q) \in Nat /\ Len(p) \in Nat
      BY <1>1, ParentFacts
    <2> QED
      BY <1>1, <2>1, ParentFacts
  <1> QED
    BY <1>1, <1>2

\* The first file in a folder.
LEMMA FirstChildFacts ==
  ASSUME NEW nds, Listing(nds), NEW p \in Paths, Placed(nds, p), nds[p] # {}
  PROVE  /\ FirstChild(nds, p) \in Paths /\ Placed(nds, FirstChild(nds, p))
         /\ Parent(FirstChild(nds, p)) = p
  <1>1. nds[p] \subseteq Names
    BY DEF Listing
  <1> DEFINE n == Smallest(nds[p])
  <1>2. n \in nds[p] /\ n \in Names
    BY <1>1, SmallestIn
  <1> HIDE DEF n
  <1>3. Append(p, n) \in Paths
    BY <1>2 DEF Listing
  <1>4. Parent(Append(p, n)) = p /\ NameOf(Append(p, n)) = n
    BY <1>2, <1>3, AppendFacts
  <1>5. Placed(nds, Append(p, n))
    BY <1>2, <1>3, <1>4, PlacedBy
  <1> QED
    BY <1>3, <1>4, <1>5 DEF FirstChild, n

\* The next file in the folder of a position.
LEMMA NextOfFacts ==
  ASSUME NEW nds, Listing(nds), NEW p \in Paths, Placed(nds, p), Later(nds, p) # {}
  PROVE  /\ NextOf(nds, p) \in Paths /\ Placed(nds, NextOf(nds, p))
         /\ Parent(NextOf(nds, p)) = Parent(p)
         /\ Len(NextOf(nds, p)) = Len(p)
         /\ NameOf(NextOf(nds, p)) \in Later(nds, p)
  <1>1. Parent(p) \in Paths \cup {<<>>} /\ Len(Parent(p)) = Len(p) - 1 /\ Len(p) \in Nat
    BY ParentFacts
  <1>2. Later(nds, p) \subseteq Names /\ Later(nds, p) \subseteq nds[Parent(p)]
    BY <1>1 DEF Listing, Later
  <1> DEFINE n == Smallest(Later(nds, p))
  <1>3. n \in Later(nds, p) /\ n \in nds[Parent(p)] /\ n \in Names
    BY <1>2, SmallestIn
  <1> HIDE DEF n
  <1>4. Append(Parent(p), n) \in Paths
    BY <1>1, <1>3 DEF Listing
  <1>5. /\ Parent(Append(Parent(p), n)) = Parent(p) /\ NameOf(Append(Parent(p), n)) = n
        /\ Len(Append(Parent(p), n)) = Len(Parent(p)) + 1
    BY <1>1, <1>3, <1>4, AppendFacts
  <1>6. Len(Append(Parent(p), n)) = Len(p)
    BY <1>1, <1>5
  <1>7. Len(p) > 1 => Placed(nds, Parent(p))
    BY PlacedParent
  <1>8. Placed(nds, Append(Parent(p), n))
    BY <1>3, <1>4, <1>5, <1>6, <1>7, PlacedBy
  <1> QED
    BY <1>3, <1>4, <1>5, <1>6, <1>8 DEF NextOf, n

\* A folder's files are listed, or forgotten.
LEMMA ListingExcept ==
  ASSUME NEW nds, Listing(nds), NEW f \in Paths \cup {<<>>}, NEW S, S \subseteq Names,
         \A n \in S : Append(f, n) \in Paths
  PROVE  Listing([nds EXCEPT ![f] = S])
  BY DEF Listing

LEMMA PlacedExcept ==
  ASSUME NEW nds, Listing(nds), NEW f \in Paths, NEW S, NEW p \in Paths,
         Placed(nds, p), Len(f) >= Len(p)
  PROVE  Placed([nds EXCEPT ![f] = S], p)
  <1>1. \A g \in Paths \cup {<<>>} : Len(g) \in Nat
    BY PathIsSeq
  <1>2. ASSUME NEW g \in Paths \cup {<<>>}, Len(g) < Len(p)
        PROVE  [nds EXCEPT ![f] = S][g] = nds[g]
    <2>1. Len(g) \in Nat /\ Len(p) \in Nat /\ Len(f) \in Nat
      BY <1>1
    <2>2. g # f
      BY <1>2, <2>1
    <2> QED
      BY <2>2 DEF Listing
  <1> DEFINE nds2 == [nds EXCEPT ![f] = S]
  <1>3. \A g \in Paths \cup {<<>>} : Len(g) < Len(p) => nds2[g] = nds[g]
    BY <1>2
  <1> HIDE DEF nds2
  <1>4. Placed(nds2, p)
    BY <1>3, PlacedElsewhere
  <1> QED
    BY <1>4 DEF nds2

\* Whatever is above what is above a position is above it.
LEMMA PlacedAbove ==
  ASSUME NEW nds, NEW p \in Paths, Placed(nds, p), NEW q \in Above(p)
  PROVE  Placed(nds, q)
  <1>1. p \in Seq(Names) /\ Len(p) \in Nat
    BY PathIsSeq
  <1>2. PICK m \in 1..Len(p) : q = SubSeq(p, 1, m)
    BY DEF Above
  <1>3. m \in Nat /\ m <= Len(p) /\ Len(q) = m
    BY <1>1, <1>2
  <1>4. ASSUME NEW n \in 1..m
        PROVE  SubSeq(q, 1, n) = SubSeq(p, 1, n) /\ n \in 1..Len(p)
    <2>1. n \in Nat /\ n <= m /\ n \in 1..Len(p)
      BY <1>1, <1>3
    <2> QED
      BY <1>1, <1>2, <1>3, <2>1, PrefixOfPrefix
  <1>5. Above(q) \subseteq Above(p)
    BY <1>3, <1>4 DEF Above
  <1> QED
    BY <1>5 DEF Placed

\* The closest turn is one of them.
LEMMA TurnIn ==
  ASSUME NEW nds, NEW p \in Paths, Turns(nds, p) # {}
  PROVE  /\ Turn(nds, p) \in Above(p) /\ Later(nds, Turn(nds, p)) # {}
         /\ \A r \in Turns(nds, p) : Len(r) <= Len(Turn(nds, p))
  <1>1. \A q \in Turns(nds, p) : q \in Above(p) /\ Later(nds, q) # {}
    BY DEF Turns, Above
  <1>2. Len(p) \in Nat /\ \A q \in Turns(nds, p) : Len(q) \in Nat /\ Len(q) <= Len(p)
    BY <1>1, AboveFacts, PathIsSeq
  <1> DEFINE D == {Len(p) - Len(q) : q \in Turns(nds, p)}
  <1>3. D \subseteq Nat /\ D # {}
    BY <1>2
  <1>4. PICK d \in D : \A e \in D : d <= e
    <2> HIDE DEF D
    <2> QED
      BY <1>3, SmallestOf
  <1>5. PICK q \in Turns(nds, p) : d = Len(p) - Len(q)
    BY <1>4
  <1>6. \A r \in Turns(nds, p) : Len(r) <= Len(q)
    <2> TAKE r \in Turns(nds, p)
    <2>1. Len(p) - Len(q) <= Len(p) - Len(r)
      BY <1>4, <1>5
    <2>2. Len(p) \in Nat /\ Len(q) \in Nat /\ Len(r) \in Nat
      BY <1>2
    <2> QED
      BY <2>1, <2>2
  <1>7. /\ Turn(nds, p) \in Turns(nds, p)
        /\ \A r \in Turns(nds, p) : Len(r) <= Len(Turn(nds, p))
    BY <1>6 DEF Turn
  <1> QED
    BY <1>1, <1>7

-----------------------------------------------------------------------------
(* The walk. *)

\* It asks for something, copies a file in the folder F, or comes to its end.
Goes(F) ==
  /\ goto' \in {"none", "first", "child", "parent"}
  /\ \/ /\ cur' \in Paths /\ Listing(nodes') /\ Placed(nodes', cur')
        /\ UNCHANGED <<posted, broken>>
        /\ \/ /\ \E r \in Request : requests' = <<r>> /\ WalkAsks(r)'
              /\ op = "upload" => GotoFits'
              /\ op # "download"
              /\ Leave(frames)
           \/ /\ op # "remove" /\ goto' = "none" /\ (op = "upload" => Parent(cur') = F)
              /\ frames' = frames + 1 /\ pc' = "copy" /\ UNCHANGED requests
     \/ /\ cur' = NoPath /\ goto' = "none" /\ posted' = posted + 1
        /\ broken' = (broken \/ cur = NoPath)
        /\ UNCHANGED <<nodes, requests>>
        /\ Leave(frames)

\* The first element of a sequence of one.
LEMMA OneElement ==
  /\ \A r : /\ Append(<<>>, r) = <<r>> /\ Head(<<r>>) = r /\ Tail(<<r>>) = <<>>
            /\ <<r>> # <<>> /\ Len(<<r>>) = 1
  /\ Len(<<>>) = 0
  OBVIOUS

\* A folder is listed, and a file removed, by a request.
LEMMA WalkRequests ==
  /\ \A p \in Paths \cup {<<>>} : List(p) \in Request /\ List(p).kind = "list"
  /\ \A p \in Paths : [kind |-> "remove", path |-> p] \in Request
  BY DEF List, Request

\* A copy begins at a placed position.
LEMMA CopyGoes ==
  ASSUME NEW nds, Listing(nds), NEW p \in Paths, Placed(nds, p), op # "remove",
         Copy(p, nds)
  PROVE  Goes(Parent(p))
  BY DEF Copy, Goes

LEMMA KillGoes ==
  ASSUME KillOp(frames), NEW F
  PROVE  Goes(F)
  BY DEF KillOp, Goes

\* gotoNext of an upload.
LEMMA UploadNextGoes ==
  ASSUME NEW nds, Listing(nds), NEW p \in Paths, Placed(nds, p), op = "upload", op' = op,
         requests = <<>>, UploadNext(nds, p)
  PROVE  Goes(Parent(p))
  <1>1. CASE nds[p] # {} /\ Await(List(p), p, nds) /\ goto' = "child"
    <2>1. requests' = <<List(p)>> /\ List(p) \in Request
      BY <1>1, OneElement, WalkRequests DEF Await
    <2>2. WalkAsks(List(p))' /\ GotoFits'
      BY <1>1 DEF Await, WalkAsks, GotoFits, ListedFolder
    <2> QED
      BY <1>1, <2>1, <2>2 DEF Await, Goes
  <1>2. CASE Later(nds, p) # {} /\ Copy(NextOf(nds, p), nds)
    <2>1. /\ NextOf(nds, p) \in Paths /\ Placed(nds, NextOf(nds, p))
          /\ Parent(NextOf(nds, p)) = Parent(p)
      BY <1>2, NextOfFacts
    <2>2. Goes(Parent(NextOf(nds, p)))
      BY <1>2, <2>1, CopyGoes
    <2> QED
      BY <2>1, <2>2
  <1>3. CASE /\ nds[p] = {} /\ Later(nds, p) = {} /\ Len(p) > 1
             /\ Await(List(Parent(Parent(p))), p, nds) /\ goto' = "parent"
    <2> DEFINE r == List(Parent(Parent(p)))
    <2>1. Parent(Parent(p)) \in Paths \cup {<<>>}
      BY <1>3, ParentFacts
    <2>2. requests' = <<r>> /\ r \in Request
      BY <1>3, <2>1, OneElement, WalkRequests DEF Await
    <2>3. WalkAsks(r)' /\ GotoFits'
      <3>1. cur' = p /\ nodes' = nds /\ goto' = "parent"
        BY <1>3 DEF Await
      <3> QED
        BY <1>3, <3>1 DEF WalkAsks, GotoFits, ListedFolder
    <2> QED
      BY <1>3, <2>2, <2>3 DEF Await, Goes
  <1>4. CASE KillOp(frames)
    BY <1>4, KillGoes
  <1> QED
    BY <1>1, <1>2, <1>3, <1>4 DEF UploadNext

\* gotoNext(false), once the folder it goes to has been listed.
LEMMA UploadEnterGoes ==
  ASSUME Listing(nodes), cur \in Paths, Placed(nodes, cur), op = "upload", op' = op,
         requests = <<>>, goto \in {"child", "parent"}, GotoFits, UploadEnter
  PROVE  Goes(ListedFolder)
  <1>1. CASE nodes[cur] # {} /\ Copy(FirstChild(nodes, cur), nodes)
    <2>1. goto = "child" /\ ListedFolder = cur
      BY <1>1 DEF GotoFits, ListedFolder
    <2>2. /\ FirstChild(nodes, cur) \in Paths /\ Placed(nodes, FirstChild(nodes, cur))
          /\ Parent(FirstChild(nodes, cur)) = cur
      BY <1>1, FirstChildFacts
    <2>3. Goes(Parent(FirstChild(nodes, cur)))
      BY <1>1, <2>2, CopyGoes
    <2> QED
      BY <2>1, <2>2, <2>3
  <1>2. CASE nodes[cur] = {}
    <2> DEFINE nds == [nodes EXCEPT ![Parent(cur)] = {}]
    <2>1. goto = "parent" /\ Later(nodes, cur) = {} /\ Len(cur) > 1
      BY <1>2 DEF GotoFits
    <2>2. ListedFolder = Parent(Parent(cur)) /\ Parent(cur) \in Paths
      BY <2>1, ParentFacts DEF ListedFolder
    <2>3. UploadNext(nds, Parent(cur))
      BY <1>2, <2>1 DEF UploadEnter
    <2>4. Listing(nds)
      BY <2>2, ListingExcept
    <2>5. Placed(nds, Parent(cur))
      <3>1. Placed(nodes, Parent(cur))
        BY <2>1, PlacedParent
      <3>2. Len(Parent(cur)) \in Nat
        BY <2>2, PathIsSeq
      <3>3. Len(Parent(cur)) >= Len(Parent(cur))
        BY <3>2
      <3> QED
        BY <2>2, <3>1, <3>3, PlacedExcept
    <2> HIDE DEF nds
    <2> QED
      BY <2>2, <2>3, <2>4, <2>5, UploadNextGoes
  <1> QED
    BY <1>1, <1>2 DEF UploadEnter

LEMMA SpecialHandlerGoes ==
  ASSUME Listing(nodes), cur \in Paths, Placed(nodes, cur), op = "upload", op' = op,
         requests = <<>>, GotoFits, SpecialHandler
  PROVE  Goes(ListedFolder)
  <1>1. CASE goto = "first" /\ Copy(cur, nodes)
    <2>1. ListedFolder = Parent(cur)
      BY <1>1, ParentFacts DEF ListedFolder, GotoFits
    <2> QED
      BY <1>1, <2>1, CopyGoes
  <1> QED
    BY <1>1, UploadEnterGoes DEF SpecialHandler

\* gotoNext of a download asks for nothing.
LEMMA DownloadNextGoes ==
  ASSUME NEW nds, Listing(nds), cur \in Paths, Placed(nds, cur), op = "download",
         DownloadNext(nds), NEW F
  PROVE  Goes(F)
  <1>1. ASSUME NEW p \in Paths, NEW nds2, Listing(nds2), Placed(nds2, p), Copy(p, nds2)
        PROVE  Goes(F)
    BY <1>1, CopyGoes DEF Goes
  <1>2. CASE nds[cur] # {} /\ Copy(FirstChild(nds, cur), nds)
    BY <1>1, <1>2, FirstChildFacts
  <1>3. CASE Turns(nds, cur) # {} /\ ~KillOp(frames) /\ nds[cur] = {}
    <2> DEFINE q == Turn(nds, cur)
               left == {SubSeq(cur, 1, n) : n \in Len(q)..(Len(cur) - 1)}
               nds2 == [p \in DOMAIN nds |-> IF p \in left THEN {} ELSE nds[p]]
    <2>1. Copy(NextOf(nds, q), nds2)
      BY <1>3 DEF DownloadNext
    <2>2. q \in Above(cur) /\ Later(nds, q) # {}
      BY <1>3, TurnIn
    <2> HIDE DEF q
    <2>3. q \in Paths /\ Placed(nds, q) /\ Len(q) \in Nat /\ Len(q) >= 1
      BY <2>2, AboveFacts, PlacedAbove, PathIsSeq
    <2>4. NextOf(nds, q) \in Paths /\ Placed(nds, NextOf(nds, q)) /\ Len(NextOf(nds, q)) = Len(q)
      BY <2>2, <2>3, NextOfFacts
    <2>5. Listing(nds2)
      BY DEF Listing
    <2>6. ASSUME NEW f \in Paths \cup {<<>>}, Len(f) < Len(q)
          PROVE  nds2[f] = nds[f]
      <3>1. ASSUME NEW n \in Len(q)..(Len(cur) - 1)
            PROVE  f # SubSeq(cur, 1, n)
        <4>1. cur \in Seq(Names) /\ Len(cur) \in Nat /\ Len(f) \in Nat
          BY PathIsSeq
        <4>2. n \in Nat /\ n >= Len(q) /\ n <= Len(cur)
          BY <2>3, <4>1
        <4>3. Len(SubSeq(cur, 1, n)) = n
          BY <4>1, <4>2
        <4>4. Len(f) # n
          BY <2>3, <2>6, <4>1, <4>2
        <4> QED
          BY <4>3, <4>4
      <3>2. f \notin left
        BY <3>1
      <3> QED
        BY <3>2 DEF Listing
    <2> HIDE DEF nds2
    <2>7. Placed(nds2, NextOf(nds, q))
      BY <2>4, <2>6, PlacedElsewhere
    <2> QED
      BY <1>1, <2>1, <2>4, <2>5, <2>7
  <1>4. CASE KillOp(frames)
    BY <1>4, KillGoes
  <1> QED
    BY <1>2, <1>3, <1>4 DEF DownloadNext

\* remove.
LEMMA RemoveGoes ==
  ASSUME NEW nds, Listing(nds), NEW p \in Paths, Placed(nds, p), op = "remove", op' = op,
         goto \in {"none", "first", "child", "parent"},
         requests = <<>>, NEW forced \in BOOLEAN, RemoveUnlessFolder(p, nds, forced), NEW F
  PROVE  Goes(F)
  <1>1. CASE KillOp(frames)
    BY <1>1, KillGoes
  <1>2. CASE /\ Await([kind |-> "remove", path |-> p], p,
                      IF IsFolder(remote, p) THEN [nds EXCEPT ![p] = {}] ELSE nds)
             /\ UNCHANGED goto
    <2> DEFINE r == [kind |-> "remove", path |-> p]
               nds2 == IF IsFolder(remote, p) THEN [nds EXCEPT ![p] = {}] ELSE nds
    <2>1. requests' = <<r>> /\ r \in Request /\ r.kind = "remove"
      BY <1>2, OneElement, WalkRequests DEF Await
    <2>2. Listing(nds2) /\ Placed(nds2, p)
      <3>1. Len(p) \in Nat
        BY PathIsSeq
      <3>2. Len(p) >= Len(p)
        BY <3>1
      <3> QED
        BY <3>2, ListingExcept, PlacedExcept
    <2>3. WalkAsks(r)'
      BY <1>2 DEF Await, WalkAsks
    <2>4. cur' = p /\ nodes' = nds2 /\ UNCHANGED <<posted, broken, goto>> /\ Leave(frames)
      BY <1>2 DEF Await
    <2> HIDE DEF nds2, r
    <2> QED
      BY <2>1, <2>2, <2>3, <2>4 DEF Goes
  <1>3. CASE Await(List(p), p, nds) /\ UNCHANGED goto
    <2>1. requests' = <<List(p)>> /\ List(p) \in Request
      BY <1>3, OneElement, WalkRequests DEF Await
    <2>2. WalkAsks(List(p))'
      BY <1>3 DEF Await, WalkAsks
    <2> QED
      BY <1>3, <2>1, <2>2 DEF Await, Goes
  <1> QED
    BY <1>1, <1>2, <1>3 DEF RemoveUnlessFolder

LEMMA DeleteNextGoes ==
  ASSUME Listing(nodes), cur \in Paths, Placed(nodes, cur), op = "remove", op' = op,
         goto \in {"none", "first", "child", "parent"},
         requests = <<>>, DeleteNext, NEW F
  PROVE  Goes(F)
  <1>1. CASE nodes[cur] # {} /\ RemoveUnlessFolder(FirstChild(nodes, cur), nodes, FALSE)
    BY <1>1, FirstChildFacts, RemoveGoes
  <1>2. CASE /\ Later(nodes, cur) # {}
             /\ RemoveUnlessFolder(NextOf(nodes, cur), nodes, FALSE)
    BY <1>2, NextOfFacts, RemoveGoes
  <1>3. CASE Len(cur) > 1 /\ RemoveUnlessFolder(Parent(cur), nodes, TRUE)
    BY <1>3, ParentFacts, PlacedParent, RemoveGoes
  <1>4. CASE KillOp(frames)
    BY <1>4, KillGoes
  <1> QED
    BY <1>1, <1>2, <1>3, <1>4 DEF DeleteNext

LEMMA GotoNextGoes ==
  ASSUME Listing(nodes), cur \in Paths, Placed(nodes, cur), op' = op,
         goto \in {"none", "first", "child", "parent"},
         requests = <<>>, GotoNext
  PROVE  Goes(Parent(cur))
  BY UploadNextGoes, DownloadNextGoes, DeleteNextGoes DEF GotoNext

-----------------------------------------------------------------------------
(* One phase after another. *)

\* Where an operation is that walks: it has nothing out, and nothing is above it
\* that would end it a second time.
Free ==
  /\ ClientTypes /\ Walking /\ requests = <<>>
  /\ pc # "unwind" /\ (pc = "copy" => ~terminating /\ op # "remove")

\* What a step of the walk leaves alone.
Same == UNCHANGED <<state, listening, op, before, sizesLeft, terminating>>

\* The operation sends what it waits for.
LEMMA AskInv ==
  ASSUME Free, Same, DataTypes', replies' = <<>>, NEW r, requests' = <<r>>, Asks(r)',
         cur' \in Paths, Listing(nodes'), Placed(nodes', cur'),
         UNCHANGED posted, broken' \in BOOLEAN, Leave(frames),
         goto' \in {"none", "first", "child", "parent"},
         op = "upload" => GotoFits'
  PROVE  ClientTypes' /\ Waiting'
  <1>1. frames' \in Nat /\ pc' \in {"idle", "unwind"} /\ (pc' = "idle" <=> frames' = 0)
    BY DEF Leave, Free, ClientTypes
  <1>2. cur' # NoPath
    BY NullAssumption
  <1>3. ClientTypes'
    BY <1>1 DEF Free, Same, ClientTypes
  <1>4. Walking'
    BY <1>2 DEF Free, Same, Walking, Busy
  <1>5. pc' # "copy" /\ (pc' = "unwind" => ~terminating')
    BY <1>1 DEF Free, Same, ClientTypes, Leave
  <1>6. op' = "upload" => GotoFits'
    BY DEF Same
  <1>7. (\E q : Asks(q) /\ requests = <<q>> /\ replies = <<>>)'
    OBVIOUS
  <1> QED
    BY <1>3, <1>4, <1>5, <1>6, <1>7 DEF Waiting

\* It copies the file at a position.
LEMMA CopyInv ==
  ASSUME Free, Same, DataTypes', op # "remove", replies' = <<>>, UNCHANGED requests,
         cur' \in Paths, Listing(nodes'), Placed(nodes', cur'),
         UNCHANGED posted, broken' \in BOOLEAN,
         frames' = frames + 1, pc' = "copy", goto' = "none"
  PROVE  ClientTypes' /\ Copying'
  <1>1. frames \in Nat
    BY DEF Free, ClientTypes
  <1>2. frames' \in Nat /\ frames' # 0
    BY <1>1
  <1>3. cur' # NoPath
    BY NullAssumption
  <1>4. ClientTypes'
    BY <1>2 DEF Free, Same, ClientTypes
  <1>5. Walking'
    BY <1>3 DEF Free, Same, Walking, Busy
  <1>6. terminating' => frames' = 1
    <2>1. terminating => frames = 0
      BY DEF Free, ClientTypes
    <2> QED
      BY <2>1 DEF Same
  <1> QED
    BY <1>4, <1>5, <1>6 DEF Copying, Silent, Free, Same

\* It comes to its end.
LEMMA EndInv ==
  ASSUME ClientTypes, Walking, Same, DataTypes', requests = <<>>, UNCHANGED requests,
         replies' = <<>>, NEW f \in Nat, KillOp(f), f # 0 => ~terminating
  PROVE  ClientTypes' /\ Finished'
  <1>1. frames' = f /\ pc' = IF f = 0 THEN "idle" ELSE "unwind"
    BY DEF KillOp, Leave
  <1>2. posted' = 1 /\ cur' = NoPath /\ goto' = "none" /\ broken' \in BOOLEAN /\ nodes' = nodes
    BY DEF KillOp, Walking, Busy, ClientTypes
  <1>3. ClientTypes'
    BY <1>1, <1>2 DEF Same, ClientTypes
  <1>4. Finished'
    BY <1>1, <1>2 DEF Same, Walking, Busy, Walks, Finished, Silent
  <1> QED
    BY <1>3, <1>4

\* The walk goes on.
LEMMA GoesInv ==
  ASSUME Free, Same, DataTypes', replies' = <<>>, NEW F, Goes(F)
  PROVE  ClientTypes' /\ Phases'
  <1>1. goto' \in {"none", "first", "child", "parent"} /\ broken \in BOOLEAN /\ frames \in Nat
    BY DEF Goes, Free, ClientTypes
  <1>2. CASE /\ cur' \in Paths /\ Listing(nodes') /\ Placed(nodes', cur')
             /\ UNCHANGED <<posted, broken>>
             /\ \E r \in Request : requests' = <<r>> /\ WalkAsks(r)'
             /\ op = "upload" => GotoFits'
             /\ Leave(frames)
    <2>1. PICK r \in Request : requests' = <<r>> /\ WalkAsks(r)'
      BY <1>2
    <2>2. Asks(r)'
      BY <2>1 DEF Asks
    <2>3. ClientTypes' /\ Waiting'
      BY <1>1, <1>2, <2>1, <2>2, AskInv
    <2> QED
      BY <2>3 DEF Phases
  <1>3. CASE /\ cur' \in Paths /\ Listing(nodes') /\ Placed(nodes', cur')
             /\ UNCHANGED <<posted, broken>>
             /\ op # "remove" /\ goto' = "none"
             /\ frames' = frames + 1 /\ pc' = "copy" /\ UNCHANGED requests
    <2>1. ClientTypes' /\ Copying'
      BY <1>1, <1>3, CopyInv
    <2> QED
      BY <2>1 DEF Phases
  <1>4. CASE /\ cur' = NoPath /\ goto' = "none" /\ posted' = posted + 1
             /\ broken' = (broken \/ cur = NoPath)
             /\ UNCHANGED <<nodes, requests>>
             /\ Leave(frames)
    <2>1. KillOp(frames)
      BY <1>4 DEF KillOp
    <2>2. ClientTypes /\ Walking /\ requests = <<>> /\ (frames # 0 => ~terminating)
      BY DEF Free, ClientTypes
    <2>3. ClientTypes' /\ Finished'
      BY <1>1, <1>4, <2>1, <2>2, EndInv
    <2> QED
      BY <2>3 DEF Phases
  <1> QED
    BY <1>2, <1>3, <1>4, Zenon DEF Goes

\* What the viewer does is what any client may do.
LEMMA ClientStep ==
  ASSUME PInv,
         requests' = requests \/ (requests = <<>> /\ requests' \in Seq(Request)),
         replies' = replies \/ (replies # <<>> /\ replies' = Tail(replies)),
         failures' \in {failures, failures + 1},
         UNCHANGED <<remote, handlerVars, crashed>>
  PROVE  ClientActs /\ IInv'
  <1>1. requests \in Seq(Request)
    BY DEF PInv, IInv, Types
  <1>2. requests' \in Seq(Request)
    BY <1>1
  <1>3. Len(requests') >= Len(requests) /\ SubSeq(requests', 1, Len(requests)) = requests
    <2>1. CASE requests' = requests
      <3>1. Len(requests) \in Nat
        BY <1>1
      <3>2. Len(requests) >= Len(requests)
        BY <3>1
      <3> QED
        BY <1>1, <2>1, <3>2, SubSeqFull
    <2>2. CASE requests = <<>>
      <3>1. Len(requests') \in Nat /\ Len(requests) = 0
        BY <1>2, <2>2
      <3>2. SubSeq(requests', 1, 0) = <<>>
        BY SubSeqEmpty
      <3> QED
        BY <2>2, <3>1, <3>2
    <2> QED
      BY <2>1, <2>2
  <1>4. \E S : replies \in Seq(S)
    <2>1. \A r : <<r>> \in Seq({r}) /\ <<>> \in Seq({r})
      OBVIOUS
    <2>2. CASE replies = <<>>
      BY <2>1, <2>2
    <2>3. CASE Sizing
      BY <2>3 DEF Sizing
    <2>4. CASE \E r : replies = <<r>>
      BY <2>1, <2>4
    <2> QED
      BY <2>2, <2>3, <2>4
      DEF PInv, Phases, Resting, Simple, Waiting, Copying, Cancelled, Finished, Silent
  <1>5. replies' \in {replies, SubSeq(replies, 2, Len(replies))}
    BY <1>4, TailIsSubSeq
  <1>6. ClientActs
    BY <1>2, <1>3, <1>5 DEF ClientActs
  <1>7. IInv
    BY DEF PInv
  <1>8. failures' \in Nat
    <2>1. failures \in Nat
      BY <1>7 DEF IInv, Types
    <2> QED
      BY <2>1
  <1> QED
    BY <1>2, <1>6, <1>7, <1>8, IdleInv

\* The reply that a walking operation takes.
LEMMA ToldFacts ==
  ASSUME PInv, NEW o \in Walks, NEW kind, GotFor(o, kind),
         kind \notin {"size", "failed"} \/ o # "download" \/ sizesLeft = 0
  PROVE  /\ Free /\ Waiting /\ op = o /\ pc = "idle" /\ frames = 0
         /\ replies' = <<>> /\ IsTold(Head(replies)) /\ Head(replies).kind = kind
         /\ replies = <<Head(replies)>>
         /\ cur \in Paths /\ Listing(nodes) /\ Placed(nodes, cur)
         /\ goto \in {"none", "first", "child", "parent"}
         /\ op = "upload" => GotoFits
         /\ UNCHANGED <<remote, handlerVars, crashed>>
         /\ replies # <<>> /\ replies' = Tail(replies)
  <1>1. /\ op = o /\ replies # <<>> /\ Head(replies).kind = kind /\ pc = "idle"
        /\ replies' = Tail(replies) /\ cur # NoPath
        /\ UNCHANGED <<remote, handlerVars, crashed>>
    BY DEF GotFor, Got
  <1>2. ~Sizing
    <2> SUFFICES ASSUME Sizing PROVE FALSE
      OBVIOUS
    <2>1. Head(replies) \in [kind : {"size", "failed"}]
      <3>1. replies \in Seq([kind : {"size", "failed"}])
        BY DEF Sizing
      <3> QED
        BY <1>1, <3>1, HeadTailProperties
    <2>2. kind \in {"size", "failed"} /\ op = "download" /\ sizesLeft > 0 /\ sizesLeft \in Nat
      <3>1. sizesLeft \in 0..Cardinality(Names)
        BY DEF PInv, ClientTypes
      <3> QED
        BY <1>1, <2>1, <3>1 DEF Sizing
    <2> QED
      BY <1>1, <2>2
  <1>3. Waiting
    BY <1>1, <1>2
    DEF PInv, Phases, Resting, Simple, Copying, Cancelled, Finished, Silent, Walks
  <1>4. PICK r : IsTold(r) /\ requests = <<>> /\ replies = <<r>>
    BY <1>1, <1>3 DEF Waiting
  <1>5. Head(replies) = r /\ Tail(replies) = <<>>
    BY <1>4, OneElement
  <1>6. ClientTypes /\ Walking /\ frames = 0
    BY <1>1, <1>3 DEF Waiting, PInv, ClientTypes
  <1>7. Free
    BY <1>1, <1>4, <1>6 DEF Free
  <1> QED
    BY <1>1, <1>3, <1>4, <1>5, <1>6, <1>7 DEF Waiting, ClientTypes

\* The two together, for a step of the walk and for one that asks.
LEMMA GoesStep ==
  ASSUME PInv, Free, Same, DataTypes',
         replies' = <<>>, replies' = replies \/ (replies # <<>> /\ replies' = Tail(replies)),
         failures' \in {failures, failures + 1},
         UNCHANGED <<remote, handlerVars, crashed>>,
         NEW F, Goes(F)
  PROVE  ClientActs /\ PInv'
  <1>1. ClientTypes' /\ Phases'
    BY GoesInv
  <1>2. requests' = requests \/ (requests = <<>> /\ requests' \in Seq(Request))
    <2>1. \A r \in Request : <<r>> \in Seq(Request)
      OBVIOUS
    <2> QED
      BY <2>1, Zenon DEF Goes, Free
  <1>3. ClientActs /\ IInv'
    BY <1>2, ClientStep
  <1> QED
    BY <1>1, <1>3 DEF PInv

LEMMA AskStep ==
  ASSUME PInv, Free, Same, DataTypes',
         replies' = <<>>, replies' = replies \/ (replies # <<>> /\ replies' = Tail(replies)),
         failures' \in {failures, failures + 1},
         UNCHANGED <<remote, handlerVars, crashed>>,
         NEW r \in Request, requests' = <<r>>, Asks(r)',
         cur' \in Paths, Listing(nodes'), Placed(nodes', cur'),
         UNCHANGED posted, broken' \in BOOLEAN, Leave(frames),
         goto' \in {"none", "first", "child", "parent"},
         op = "upload" => GotoFits'
  PROVE  ClientActs /\ PInv'
  <1>1. ClientTypes' /\ Phases'
    BY AskInv DEF Phases
  <1>2. requests = <<>> /\ requests' \in Seq(Request)
    BY DEF Free
  <1>3. ClientActs /\ IInv'
    BY <1>2, ClientStep
  <1> QED
    BY <1>1, <1>3 DEF PInv

-----------------------------------------------------------------------------
(* Replies. *)

\* The data of the transfers are left alone.
LEMMA SameData ==
  ASSUME PInv, UNCHANGED dataVars
  PROVE  DataTypes'
  BY DEF PInv, ClientTypes, DataTypes, dataVars

LEMMA UploadListedInv ==
  ASSUME PInv, UploadListed
  PROVE  ClientActs /\ PInv'
  <1>1. /\ GotFor("upload", "list") /\ remoteFiles' = Head(replies).sizes /\ SpecialHandler
        /\ UNCHANGED <<failures, local, offset, stream, uiVars, sizesLeft, terminating>>
    BY DEF UploadListed, historyVars
  <1>2. /\ Free /\ op = "upload" /\ replies' = <<>> /\ IsTold(Head(replies))
        /\ Head(replies).kind = "list"
        /\ cur \in Paths /\ Listing(nodes) /\ Placed(nodes, cur) /\ GotoFits
        /\ UNCHANGED <<remote, handlerVars, crashed>> /\ replies # <<>> /\ replies' = Tail(replies)
    BY <1>1, ToldFacts DEF Walks
  <1>3. DataTypes'
    BY <1>1, <1>2 DEF IsTold, ListReply, PInv, ClientTypes, DataTypes
  <1>4. Same /\ op' = op
    BY <1>1 DEF Same, uiVars
  <1>5. requests = <<>>
    BY <1>2 DEF Free
  <1>6. Goes(ListedFolder)
    BY <1>1, <1>2, <1>4, <1>5, SpecialHandlerGoes
  <1> QED
    BY <1>1, <1>2, <1>3, <1>4, <1>6, GoesStep

LEMMA UploadRequestFailedInv ==
  ASSUME PInv, UploadRequestFailed
  PROVE  ClientActs /\ PInv'
  <1>1. /\ GotFor("upload", "failed") /\ (SpecialHandler \/ UploadNext(nodes, cur))
        /\ UNCHANGED <<failures, dataVars, uiVars, sizesLeft, terminating>>
    BY DEF UploadRequestFailed
  <1>2. /\ Free /\ op = "upload" /\ replies' = <<>>
        /\ cur \in Paths /\ Listing(nodes) /\ Placed(nodes, cur) /\ GotoFits
        /\ UNCHANGED <<remote, handlerVars, crashed>> /\ replies # <<>> /\ replies' = Tail(replies)
    BY <1>1, ToldFacts DEF Walks
  <1>3. DataTypes'
    BY <1>1, SameData
  <1>4. Same /\ op' = op
    BY <1>1 DEF Same, uiVars
  <1>5. requests = <<>>
    BY <1>2 DEF Free
  <1>6. \E F : Goes(F)
    BY <1>1, <1>2, <1>4, <1>5, SpecialHandlerGoes, UploadNextGoes
  <1> QED
    BY <1>1, <1>2, <1>3, <1>4, <1>6, GoesStep

\* mkdir was answered, or the end of a file.
LEMMA UploadGoesOn ==
  ASSUME PInv, NEW kind, GotFor("upload", kind), UploadNext(nodes, cur), DataTypes',
         failures' \in {failures, failures + 1},
         UNCHANGED <<uiVars, sizesLeft, terminating>>
  PROVE  ClientActs /\ PInv'
  <1>1. /\ Free /\ op = "upload" /\ replies' = <<>>
        /\ cur \in Paths /\ Listing(nodes) /\ Placed(nodes, cur) /\ GotoFits
        /\ UNCHANGED <<remote, handlerVars, crashed>> /\ replies # <<>> /\ replies' = Tail(replies)
    BY ToldFacts DEF Walks
  <1>2. Same /\ op' = op
    BY DEF Same, uiVars
  <1>3. requests = <<>>
    BY <1>1 DEF Free
  <1>4. Goes(Parent(cur))
    BY <1>1, <1>2, <1>3, UploadNextGoes
  <1> QED
    BY <1>1, <1>2, <1>4, GoesStep

LEMMA FolderMadeInv ==
  ASSUME PInv, FolderMade
  PROVE  ClientActs /\ PInv'
  BY SameData, UploadGoesOn DEF FolderMade, Quiet

LEMMA UploadEndedInv ==
  ASSUME PInv, UploadEnded
  PROVE  ClientActs /\ PInv'
  <1>1. DataTypes'
    BY DEF UploadEnded, PInv, ClientTypes, DataTypes
  <1> QED
    BY <1>1, UploadGoesOn DEF UploadEnded

\* A stream that is open reads a file.
LEMMA OpenIsFileStream ==
  ASSUME PInv, stream.open
  PROVE  stream \in FileStream /\ stream.path \in Paths /\ stream.pos \in Nat
         /\ local[stream.path].data \in Seq(Chunks)
  <1>1. stream \in FileStream
    BY DEF PInv, ClientTypes, DataTypes, NoStream, Dangling, FileOnly
  <1>2. stream.path \in Paths /\ stream.pos \in Nat
    BY <1>1 DEF FileStream
  <1>3. local[stream.path] \in Node
    BY <1>2 DEF PInv, ClientTypes, DataTypes
  <1>4. local[stream.path].data \in Seq(Chunks)
    <2>1. Absent.data \in Seq(Chunks) /\ Folder.data \in Seq(Chunks)
      BY DEF Absent, Folder
    <2>2. \A f \in [kind : {"file"}, data : Seq(Chunks)] : f.data \in Seq(Chunks)
      OBVIOUS
    <2> QED
      BY <1>3, <2>1, <2>2 DEF Node
  <1> QED
    BY <1>1, <1>2, <1>4

\* The element behind the first ones.
LEMMA NextElement ==
  /\ \A i \in Nat : i + 1 \in Nat
  /\ \A S, i : \A s \in Seq(S) : i \in Nat /\ i < Len(s) => i + 1 \in 1..Len(s)
  <1>1. ASSUME NEW S, NEW s \in Seq(S), NEW i \in Nat, i < Len(s)
        PROVE  i + 1 \in 1..Len(s)
    <2>1. Len(s) \in Nat
      OBVIOUS
    <2> QED
      BY <1>1, <2>1
  <1> QED
    BY <1>1

LEMMA SendFileDataChunkInv ==
  ASSUME PInv, SendFileDataChunk
  PROVE  ClientActs /\ PInv'
  <1>1. PICK kind \in {"start upload", "upload"} : GotFor("upload", kind)
    BY DEF SendFileDataChunk
  <1>2. NextChunk
    BY DEF SendFileDataChunk
  <1>3. /\ Free /\ op = "upload" /\ replies' = <<>>
        /\ IsTold(Head(replies)) /\ Head(replies).kind = kind
        /\ cur \in Paths /\ Listing(nodes) /\ Placed(nodes, cur) /\ GotoFits
        /\ UNCHANGED <<remote, handlerVars, crashed>> /\ replies # <<>> /\ replies' = Tail(replies)
    BY <1>1, ToldFacts DEF Walks
  <1>4. goto = "none" /\ stream.open /\ outputStream.open /\ outputStream.path = cur
    BY <1>1, <1>3 DEF IsTold, ListReply
  <1>5. /\ UNCHANGED <<local, remoteFiles, offset>> /\ Same /\ op' = op /\ requests = <<>>
        /\ UNCHANGED <<outputStream, inputStream>>
    BY <1>2, <1>3 DEF NextChunk, Same, uiVars, Free, handlerVars
  <1>6. /\ stream \in FileStream /\ stream.path \in Paths /\ stream.pos \in Nat
        /\ local[stream.path].data \in Seq(Chunks)
    BY <1>4, OpenIsFileStream
  <1>7. broken \in BOOLEAN
    BY DEF PInv, ClientTypes
  <1>8. ASSUME NEW r \in Request, r.kind = "upload" \/ r.kind = "end upload",
               Await(r, cur, nodes), UNCHANGED <<goto, failures>>,
               stream' \in FileStream, r.kind = "upload" => stream'.open
        PROVE  ClientActs /\ PInv'
    <2>1. requests' = <<r>> /\ cur' = cur /\ nodes' = nodes /\ UNCHANGED <<posted, broken>>
          /\ Leave(frames)
      BY <1>5, <1>8, OneElement DEF Await
    <2>2. Asks(r)'
      BY <1>3, <1>4, <1>5, <1>8, <2>1 DEF Asks
    <2>3. DataTypes'
      BY <1>5, <1>8 DEF PInv, ClientTypes, DataTypes
    <2>4. GotoFits'
      BY <1>4, <1>8 DEF GotoFits
    <2> QED
      BY <1>3, <1>4, <1>5, <1>7, <1>8, <2>1, <2>2, <2>3, <2>4, AskStep
  <1>9. CASE /\ stream.pos < Len(local[stream.path].data)
             /\ Await([kind |-> "upload", chunk |-> local[stream.path].data[stream.pos + 1]],
                      cur, nodes)
             /\ stream' = [stream EXCEPT !.pos = @ + 1]
             /\ UNCHANGED <<excused, failures, goto>>
    <2> DEFINE c == local[stream.path].data[stream.pos + 1]
               r == [kind |-> "upload", chunk |-> c]
    <2>1. c \in Chunks
      <3>1. stream.pos + 1 \in 1..Len(local[stream.path].data)
        BY <1>6, <1>9, NextElement
      <3> QED
        BY <1>6, <3>1, ElementOfSeq
    <2>2. r \in Request /\ r.kind = "upload"
      BY <2>1 DEF Request
    <2>3. stream' \in FileStream /\ stream'.open
      <3>1. stream' = [path |-> stream.path, pos |-> stream.pos + 1, open |-> stream.open]
        BY <1>6, <1>9 DEF FileStream
      <3>2. stream.open \in BOOLEAN
        BY <1>6 DEF FileStream
      <3>3. stream.pos + 1 \in Nat
        BY <1>6, NextElement
      <3> QED
        BY <1>4, <1>6, <3>1, <3>2, <3>3 DEF FileStream
    <2>4. Await(r, cur, nodes) /\ UNCHANGED <<goto, failures>>
      BY <1>9
    <2> HIDE DEF r
    <2> QED
      BY <1>8, <2>2, <2>3, <2>4
  <1>10. CASE /\ Await([kind |-> "end upload"], cur, nodes)
              /\ stream' = Closed(stream)
              /\ UNCHANGED <<excused, failures, goto>>
    <2> DEFINE r == [kind |-> "end upload"]
    <2>1. r \in Request /\ r.kind = "end upload"
      BY DEF Request
    <2>2. stream' \in FileStream
      BY <1>6, <1>10 DEF FileStream, Closed
    <2>3. Await(r, cur, nodes) /\ UNCHANGED <<goto, failures>>
      BY <1>10
    <2> HIDE DEF r
    <2> QED
      BY <1>8, <2>1, <2>2, <2>3
  <1>11. CASE ByChance /\ UploadNext(nodes, cur) /\ UNCHANGED stream
    <2>1. DataTypes' /\ UNCHANGED <<uiVars, sizesLeft, terminating>>
      BY <1>2, <1>5, <1>11 DEF PInv, ClientTypes, DataTypes, NextChunk
    <2> QED
      BY <1>1, <1>11, <2>1, UploadGoesOn DEF ByChance
  <1> QED
    BY <1>2, <1>9, <1>10, <1>11 DEF NextChunk

LEMMA TransferTerminatesInv ==
  ASSUME PInv, TransferTerminates
  PROVE  ClientActs /\ PInv'
  <1>1. PICK o \in {"upload", "download"} : GotFor(o, o)
    BY DEF TransferTerminates
  <1>2. GotoNext /\ UNCHANGED <<failures, dataVars, uiVars, sizesLeft, terminating>>
    BY DEF TransferTerminates, Quiet
  <1>3. /\ Free /\ op = o /\ replies' = <<>>
        /\ cur \in Paths /\ Listing(nodes) /\ Placed(nodes, cur)
        /\ goto \in {"none", "first", "child", "parent"}
        /\ UNCHANGED <<remote, handlerVars, crashed>> /\ replies # <<>> /\ replies' = Tail(replies)
    BY <1>1, ToldFacts DEF Walks
  <1>4. DataTypes' /\ Same /\ op' = op /\ requests = <<>>
    BY <1>2, <1>3, SameData DEF Same, uiVars, Free
  <1>5. Goes(Parent(cur))
    BY <1>2, <1>3, <1>4, GotoNextGoes
  <1> QED
    BY <1>2, <1>3, <1>4, <1>5, GoesStep

-----------------------------------------------------------------------------
(* Downloads. *)

\* gotoNext after a reply.
LEMMA DownloadGoesOn ==
  ASSUME PInv, NEW kind, GotFor("download", kind),
         kind \notin {"size", "failed"} \/ sizesLeft = 0,
         NEW nds, Listing(nds), Placed(nds, cur), DownloadNext(nds), DataTypes',
         failures' \in {failures, failures + 1},
         UNCHANGED <<uiVars, sizesLeft, terminating>>
  PROVE  ClientActs /\ PInv'
  <1>1. /\ Free /\ op = "download" /\ replies' = <<>> /\ cur \in Paths
        /\ UNCHANGED <<remote, handlerVars, crashed>> /\ replies # <<>> /\ replies' = Tail(replies)
    BY ToldFacts DEF Walks
  <1>2. Same
    BY DEF Same, uiVars
  <1>3. Goes(Parent(cur))
    BY <1>1, DownloadNextGoes
  <1> QED
    BY <1>1, <1>2, <1>3, GoesStep

\* The tree as it is.
LEMMA DownloadGoesOnAsItIs ==
  ASSUME PInv, NEW kind, GotFor("download", kind),
         kind \notin {"size", "failed"} \/ sizesLeft = 0,
         DownloadNext(nodes), DataTypes',
         failures' \in {failures, failures + 1},
         UNCHANGED <<uiVars, sizesLeft, terminating>>
  PROVE  ClientActs /\ PInv'
  <1>1. Listing(nodes) /\ Placed(nodes, cur)
    BY DEF PInv, ClientTypes, GotFor
  <1> QED
    BY <1>1, DownloadGoesOn

LEMMA DownloadListedInv ==
  ASSUME PInv, DownloadListed
  PROVE  ClientActs /\ PInv'
  <1> DEFINE nds == [nodes EXCEPT ![cur] = Head(replies).names]
  <1>1. /\ GotFor("download", "list") /\ DownloadNext(nds)
        /\ UNCHANGED <<failures, dataVars, uiVars, sizesLeft, terminating>>
    BY DEF DownloadListed, Quiet
  <1>2. /\ IsTold(Head(replies)) /\ Head(replies).kind = "list" /\ op = "download"
        /\ cur \in Paths /\ Listing(nodes) /\ Placed(nodes, cur)
    BY <1>1, ToldFacts DEF Walks
  <1>3. ListReply(Head(replies), cur)
    BY <1>2 DEF IsTold
  <1>4. Listing(nds)
    BY <1>2, <1>3, ListingExcept DEF ListReply
  <1>5. Placed(nds, cur)
    <2>1. Len(cur) \in Nat
      BY <1>2, PathIsSeq
    <2>2. Len(cur) >= Len(cur)
      BY <2>1
    <2> QED
      BY <1>2, <2>2, PlacedExcept
  <1> HIDE DEF nds
  <1> QED
    BY <1>1, <1>4, <1>5, SameData, DownloadGoesOn

LEMMA DownloadRequestFailedInv ==
  ASSUME PInv, DownloadRequestFailed
  PROVE  ClientActs /\ PInv'
  BY SameData, DownloadGoesOnAsItIs DEF DownloadRequestFailed

\* What is created or emptied is a file.
LEMMA LocalForDownloadType ==
  ASSUME PInv
  PROVE  LocalForDownload \in [Paths -> Node]
  BY Nodes DEF LocalForDownload, Truncated, PInv, ClientTypes, DataTypes

LEMMA LeftOverType == LeftOver \in {NoStream, FileOnly, Dangling}
  BY DEF LeftOver

LEMMA DownloadStartedInv ==
  ASSUME PInv, DownloadStarted
  PROVE  ClientActs /\ PInv'
  <1>1. /\ GotFor("download", "start download") /\ CleanUp
        /\ local' = LocalForDownload /\ IsFile(local', cur)
        /\ stream' = OpenStream(cur, offset)
        /\ requests' = Append(requests, [kind |-> "download"])
        /\ UNCHANGED <<failures, cur, nodes, goto, posted, pc, frames, remoteFiles, offset, uiVars,
                       sizesLeft, terminating>>
    BY DEF DownloadStarted
  <1>2. /\ Free /\ op = "download" /\ replies' = <<>> /\ pc = "idle" /\ frames = 0
        /\ IsTold(Head(replies)) /\ Head(replies).kind = "start download"
        /\ cur \in Paths /\ Listing(nodes) /\ Placed(nodes, cur)
        /\ goto \in {"none", "first", "child", "parent"}
        /\ UNCHANGED <<remote, handlerVars, crashed>> /\ replies # <<>> /\ replies' = Tail(replies)
    BY <1>1, ToldFacts DEF Walks
  <1>3. inputStream.open
    BY <1>2 DEF IsTold, ListReply
  <1> DEFINE r == [kind |-> "download"]
  <1>4. r \in Request /\ requests' = <<r>> /\ r.kind = "download"
    BY <1>1, <1>2, OneElement DEF Free, Request
  <1>5. offset \in Nat /\ broken' \in BOOLEAN
    BY <1>1 DEF PInv, ClientTypes, DataTypes, CleanUp
  <1>6. DataTypes'
    BY <1>1, <1>2, <1>5, LocalForDownloadType
    DEF PInv, ClientTypes, DataTypes, OpenStream, FileStream
  <1>7. Same /\ UNCHANGED posted /\ Leave(frames)
    BY <1>1, <1>2 DEF Same, uiVars, Leave
  <1>8. Asks(r)'
    BY <1>1, <1>2, <1>3, <1>4, <1>7 DEF Asks, OpenStream, handlerVars, Same
  <1> HIDE DEF r
  <1> QED
    BY <1>1, <1>2, <1>4, <1>5, <1>6, <1>7, <1>8, AskStep

LEMMA DownloadStartFailsInv ==
  ASSUME PInv, DownloadStartFails
  PROVE  ClientActs /\ PInv'
  <1>1. DataTypes'
    BY LocalForDownloadType, LeftOverType
    DEF DownloadStartFails, PInv, ClientTypes, DataTypes
  <1>2. failures' \in {failures, failures + 1}
    BY DEF DownloadStartFails, ByChance, NotByChance
  <1> QED
    BY <1>1, <1>2, DownloadGoesOnAsItIs DEF DownloadStartFails

\* Data replaces data.
LEMMA WrittenFile ==
  ASSUME NEW fs \in [Paths -> Node], NEW p \in Paths, IsFile(fs, p),
         NEW pos \in Nat, NEW chunk \in Chunks,
         NEW fs2, fs2 = [fs EXCEPT ![p].data = Write(@, pos, chunk)]
  PROVE  fs2 \in [Paths -> Node] /\ IsFile(fs2, p)
  <1>1. fs[p] \in Node /\ fs[p].kind = "file"
    BY DEF IsFile
  <1>2. fs[p] \in [kind : {"file"}, data : Seq(Chunks)]
    BY <1>1 DEF Node, Absent, Folder
  <1> DEFINE data == Write(fs[p].data, pos, chunk)
  <1>3. data \in Seq(Chunks)
    BY <1>2, WriteType
  <1>4. fs2 = [fs EXCEPT ![p] = [fs[p] EXCEPT !.data = data]]
    OBVIOUS
  <1> HIDE DEF data
  <1>5. [fs[p] EXCEPT !.data = data] \in [kind : {"file"}, data : Seq(Chunks)]
    BY <1>2, <1>3
  <1> QED
    BY <1>4, <1>5 DEF Node, IsFile

LEMMA DownloadChunkInv ==
  ASSUME PInv, DownloadChunk
  PROVE  ClientActs /\ PInv'
  <1> DEFINE r == [kind |-> "download"]
  <1>1. /\ GotFor("download", "download") /\ Await(r, cur, nodes)
        /\ local' = [local EXCEPT ![stream.path].data = Write(@, stream.pos, Head(replies).chunk)]
        /\ stream' = [stream EXCEPT !.pos = @ + 1]
        /\ UNCHANGED <<failures, goto, remoteFiles, offset, uiVars, sizesLeft, terminating>>
    BY DEF DownloadChunk
  <1>2. /\ Free /\ op = "download" /\ replies' = <<>>
        /\ IsTold(Head(replies)) /\ Head(replies).kind = "download"
        /\ cur \in Paths /\ Listing(nodes) /\ Placed(nodes, cur)
        /\ goto \in {"none", "first", "child", "parent"}
        /\ UNCHANGED <<remote, handlerVars, crashed>> /\ replies # <<>> /\ replies' = Tail(replies)
    BY <1>1, ToldFacts DEF Walks
  <1>3. /\ inputStream.open /\ Head(replies).chunk \in Chunks
        /\ stream.open /\ stream.path = cur /\ IsFile(local, cur)
    BY <1>2 DEF IsTold, ListReply
  <1>4. stream \in FileStream /\ stream.pos \in Nat
    BY <1>3, OpenIsFileStream
  <1>5. local' \in [Paths -> Node] /\ IsFile(local', cur)
    BY <1>1, <1>2, <1>3, <1>4, WrittenFile DEF PInv, ClientTypes, DataTypes
  <1>6. stream' \in FileStream /\ stream'.open /\ stream'.path = cur
    BY <1>1, <1>3, <1>4 DEF FileStream
  <1>7. DataTypes'
    BY <1>1, <1>5, <1>6 DEF PInv, ClientTypes, DataTypes
  <1>8. r \in Request /\ requests' = <<r>> /\ r.kind = "download"
    BY <1>1, <1>2, OneElement DEF Free, Request, Await
  <1>9. Same /\ UNCHANGED posted /\ Leave(frames) /\ cur' = cur /\ nodes' = nodes
        /\ broken' \in BOOLEAN
    BY <1>1 DEF Same, uiVars, Await, PInv, ClientTypes
  <1>10. Asks(r)'
    BY <1>1, <1>2, <1>3, <1>5, <1>6, <1>8, <1>9 DEF Asks, handlerVars, Same
  <1> HIDE DEF r
  <1> QED
    BY <1>1, <1>2, <1>7, <1>8, <1>9, <1>10, AskStep

LEMMA DownloadChunkFailsInv ==
  ASSUME PInv, DownloadChunkFails
  PROVE  ClientActs /\ PInv'
  BY SameData, DownloadGoesOnAsItIs DEF DownloadChunkFails, ByChance

LEMMA DownloadEndedInv ==
  ASSUME PInv, DownloadEnded
  PROVE  ClientActs /\ PInv'
  <1>1. DataTypes'
    BY DEF DownloadEnded, PInv, ClientTypes, DataTypes
  <1> QED
    BY <1>1, DownloadGoesOnAsItIs DEF DownloadEnded

-----------------------------------------------------------------------------
(* Removals, sizes, and operations of one request. *)

LEMMA RemoveListedInv ==
  ASSUME PInv, RemoveListed
  PROVE  ClientActs /\ PInv'
  <1> DEFINE nds == [nodes EXCEPT ![cur] = Head(replies).names]
  <1>1. /\ GotFor("remove", "list")
        /\ \/ nds[cur] # {} /\ RemoveUnlessFolder(FirstChild(nds, cur), nds, FALSE)
           \/ RemoveUnlessFolder(cur, nds, TRUE)
        /\ UNCHANGED <<failures, dataVars, uiVars, sizesLeft, terminating>>
    BY DEF RemoveListed, Quiet
  <1>2. /\ Free /\ IsTold(Head(replies)) /\ Head(replies).kind = "list" /\ op = "remove"
        /\ cur \in Paths /\ Listing(nodes) /\ Placed(nodes, cur) /\ replies' = <<>>
        /\ goto \in {"none", "first", "child", "parent"}
        /\ UNCHANGED <<remote, handlerVars, crashed>> /\ replies # <<>> /\ replies' = Tail(replies)
    BY <1>1, ToldFacts DEF Walks
  <1>3. ListReply(Head(replies), cur)
    BY <1>2 DEF IsTold
  <1>4. Listing(nds)
    BY <1>2, <1>3, ListingExcept DEF ListReply
  <1>5. Placed(nds, cur)
    <2>1. Len(cur) \in Nat
      BY <1>2, PathIsSeq
    <2>2. Len(cur) >= Len(cur)
      BY <2>1
    <2> QED
      BY <1>2, <2>2, PlacedExcept
  <1> HIDE DEF nds
  <1>6. DataTypes' /\ Same /\ op' = op /\ requests = <<>>
    BY <1>1, <1>2, SameData DEF Same, uiVars, Free
  <1>7. \E F : Goes(F)
    BY <1>1, <1>2, <1>4, <1>5, <1>6, FirstChildFacts, RemoveGoes
  <1> QED
    BY <1>1, <1>2, <1>6, <1>7, GoesStep

\* A file was removed, or could not be.
LEMMA RemoveGoesOn ==
  ASSUME PInv, NEW kind, GotFor("remove", kind), DeleteNext,
         UNCHANGED <<failures, dataVars, uiVars, sizesLeft, terminating>>
  PROVE  ClientActs /\ PInv'
  <1>1. /\ Free /\ op = "remove" /\ replies' = <<>>
        /\ cur \in Paths /\ Listing(nodes) /\ Placed(nodes, cur)
        /\ goto \in {"none", "first", "child", "parent"}
        /\ UNCHANGED <<remote, handlerVars, crashed>> /\ replies # <<>> /\ replies' = Tail(replies)
    BY ToldFacts DEF Walks
  <1>2. DataTypes' /\ Same /\ op' = op /\ requests = <<>>
    BY <1>1, SameData DEF Same, uiVars, Free
  <1>3. Goes(Parent(cur))
    BY <1>1, <1>2, DeleteNextGoes
  <1> QED
    BY <1>1, <1>2, <1>3, GoesStep

LEMMA FileRemovedInv ==
  ASSUME PInv, FileRemoved \/ RemoveFailed
  PROVE  ClientActs /\ PInv'
  BY RemoveGoesOn DEF FileRemoved, RemoveFailed, Quiet

\* One of the replies with the folders' sizes.
LEMMA SizeCalculatedInv ==
  ASSUME PInv, SizeCalculated
  PROVE  ClientActs /\ PInv'
  <1>1. /\ op = "download" /\ replies # <<>> /\ pc = "idle" /\ cur # NoPath
        /\ replies' = Tail(replies) /\ UNCHANGED <<remote, handlerVars, crashed>>
        /\ Head(replies).kind = "size" \/ sizesLeft > 0
    BY DEF SizeCalculated, GotFor, Got
  <1>2. ASSUME Waiting
        PROVE  FALSE
    <2>1. PICK r : IsTold(r) /\ requests = <<>> /\ replies = <<r>>
      BY <1>1, <1>2 DEF Waiting
    <2>2. Head(replies) = r
      BY <2>1, OneElement
    <2>3. Head(replies).kind # "size"
      BY <1>1, <2>1, <2>2 DEF IsTold, ListReply
    <2>4. sizesLeft = 0
      BY <1>2 DEF Waiting, Walking
    <2> QED
      BY <1>1, <2>3, <2>4
  <1>3. Sizing
    BY <1>1, <1>2 DEF PInv, Phases, Resting, Simple, Copying, Cancelled, Finished, Silent
  <1>4. /\ sizesLeft' = sizesLeft - 1
        /\ IF sizesLeft = 1 THEN Copy(cur, nodes) ELSE UNCHANGED <<walkVars, requests>>
        /\ UNCHANGED <<failures, dataVars, uiVars, terminating>>
    BY DEF SizeCalculated
  <1>5. UNCHANGED requests
    BY <1>4 DEF Copy
  <1>6. ClientActs /\ IInv'
    BY <1>1, <1>4, <1>5, ClientStep
  <1>7. DataTypes'
    BY <1>4, SameData
  <1>8. /\ sizesLeft \in Nat /\ sizesLeft > 0 /\ frames = 0
        /\ sizesLeft' \in 0..Cardinality(Names)
    <2>1. sizesLeft \in 0..Cardinality(Names) /\ sizesLeft > 0 /\ frames = 0
      BY <1>1, <1>3 DEF PInv, ClientTypes, Sizing
    <2>2. Cardinality(Names) \in Nat
      BY FinitelyMany, FS_CardinalityType
    <2> QED
      BY <1>4, <2>1, <2>2
  <1>9. /\ Len(requests) \in Nat /\ Len(replies) \in Nat /\ Len(replies') = Len(replies) - 1
        /\ Len(replies) # 0 /\ Len(requests) + Len(replies) = sizesLeft
        /\ replies' \in Seq([kind : {"size", "failed"}])
        /\ requests \in Seq([kind : {"size"}, path : Paths])
    <2>1. /\ replies \in Seq([kind : {"size", "failed"}])
          /\ requests \in Seq([kind : {"size"}, path : Paths])
      BY <1>3 DEF Sizing
    <2>2. /\ replies' \in Seq([kind : {"size", "failed"}]) /\ Len(replies') = Len(replies) - 1
      BY <1>1, <2>1, HeadTailProperties
    <2>3. Len(requests) \in Nat /\ Len(replies) \in Nat /\ Len(replies) # 0
      BY <1>1, <2>1, EmptySeq, LenProperties
    <2> QED
      BY <1>3, <2>1, <2>2, <2>3 DEF Sizing
  <1>10. CASE sizesLeft = 1
    <2>1. Copy(cur, nodes)
      BY <1>4, <1>10
    <2>2. Len(requests) = 0 /\ Len(replies') = 0
      BY <1>9, <1>10
    <2>3. requests = <<>> /\ replies' = <<>>
      BY <1>9, <2>2, EmptySeq
    <2>4. sizesLeft' = 0 /\ frames' = 1 /\ frames' \in Nat
      BY <1>4, <1>8, <1>10, <2>1 DEF Copy
    <2>5. ClientTypes'
      BY <1>4, <1>7, <1>8, <2>1, <2>4 DEF PInv, ClientTypes, Copy, uiVars
    <2>6. Copying'
      BY <1>1, <1>3, <1>4, <1>5, <2>1, <2>3, <2>4
      DEF Sizing, Copying, Walking, Busy, Walks, Silent, Copy, uiVars
    <2> QED
      BY <1>6, <2>5, <2>6 DEF PInv, Phases
  <1>11. CASE sizesLeft # 1
    <2>1. sizesLeft' > 0 /\ Len(requests) + Len(replies') = sizesLeft'
      BY <1>4, <1>8, <1>9, <1>11
    <2>2. UNCHANGED <<cur, nodes, goto, posted, broken, pc, frames>>
      BY <1>4, <1>11 DEF walkVars
    <2>3. UNCHANGED <<state, listening, op, before, terminating>>
      BY <1>4 DEF uiVars
    <2>4. ClientTypes'
      BY <1>7, <1>8, <2>2, <2>3 DEF PInv, ClientTypes
    <2>5. Sizing'
      BY <1>3, <1>5, <1>9, <2>1, <2>2, <2>3 DEF Sizing, Busy
    <2> QED
      BY <1>6, <2>4, <2>5 DEF PInv, Phases
  <1> QED
    BY <1>10, <1>11

LEMMA SimpleEndsInv ==
  ASSUME PInv, SimpleEnds
  PROVE  ClientActs /\ PInv'
  <1>1. /\ op \in {"list", "mkdir", "rename"} /\ replies # <<>>
        /\ replies' = Tail(replies) /\ UNCHANGED <<remote, handlerVars, crashed>>
        /\ posted' = posted + 1
        /\ UNCHANGED <<cur, nodes, goto, broken, pc, frames, requests>>
        /\ UNCHANGED <<failures, dataVars, uiVars, sizesLeft, terminating>>
    BY DEF SimpleEnds, Got, Quiet
  <1>2. Simple
    BY <1>1
    DEF PInv, Phases, Resting, Sizing, Waiting, Walking, Walks, Copying, Cancelled, Finished,
        Silent
  <1>3. PICK r : requests = <<>> /\ replies = <<r>>
    BY <1>1, <1>2 DEF Simple
  <1>4. replies' = <<>>
    BY <1>1, <1>3, OneElement
  <1>5. ClientActs /\ IInv'
    BY <1>1, ClientStep
  <1>6. DataTypes' /\ ClientTypes'
    BY <1>1, SameData DEF PInv, ClientTypes, uiVars
  <1>7. Finished'
    BY <1>1, <1>2, <1>3, <1>4 DEF Simple, Busy, Finished, Silent, uiVars
  <1> QED
    BY <1>5, <1>6, <1>7 DEF PInv, Phases

\* Every reply.
LEMMA HandleReplyInv ==
  ASSUME PInv, HandleReply
  PROVE  ClientActs /\ PInv'
  BY UploadListedInv, UploadRequestFailedInv, FolderMadeInv, SendFileDataChunkInv,
     TransferTerminatesInv, UploadEndedInv, SizeCalculatedInv, DownloadListedInv,
     DownloadRequestFailedInv, DownloadStartedInv, DownloadStartFailsInv, DownloadChunkInv,
     DownloadChunkFailsInv, DownloadEndedInv, RemoveListedInv, FileRemovedInv, SimpleEndsInv
  DEF HandleReply

-----------------------------------------------------------------------------
(* startUpload and startDownload. *)

LEMMA WorkingFacts ==
  ASSUME PInv, Working
  PROVE  /\ Copying /\ Walking /\ ClientTypes /\ requests = <<>> /\ replies = <<>>
         /\ cur \in Paths /\ Listing(nodes) /\ Placed(nodes, cur) /\ goto = "none"
         /\ pc = "copy" /\ (~terminating => Free) /\ op \in {"upload", "download"}
         /\ (terminating => frames = 1) /\ frames \in Nat
  <1>1. Copying
    BY DEF PInv, Phases, Working, Resting, Sizing, Simple, Waiting, Cancelled, Finished
  <1> QED
    BY <1>1 DEF PInv, ClientTypes, Copying, Walking, Walks, Silent, Free

\* The call that finds the operation cancelled is the only one.
LEMMA CopyTerminatesInv ==
  ASSUME PInv, CopyTerminates
  PROVE  ClientActs /\ PInv'
  <1>1. /\ Working /\ terminating /\ KillOp(frames - 1)
        /\ UNCHANGED <<server, dataVars, uiVars, sizesLeft, terminating>>
    BY DEF CopyTerminates
  <1>2. ClientTypes /\ Walking /\ requests = <<>> /\ replies = <<>> /\ frames = 1
    BY <1>1, WorkingFacts
  <1>3. /\ Same /\ DataTypes' /\ UNCHANGED requests /\ replies' = <<>> /\ failures' = failures
        /\ UNCHANGED <<remote, handlerVars, crashed, replies>>
    BY <1>1, <1>2, SameData DEF Same, uiVars, KillOp, server
  <1>4. KillOp(0)
    <2>1. frames - 1 = 0
      BY <1>2
    <2> QED
      BY <1>1, <2>1
  <1>5. ClientTypes' /\ Finished'
    BY <1>2, <1>3, <1>4, EndInv
  <1>6. ClientActs /\ IInv'
    BY <1>3, ClientStep
  <1> QED
    BY <1>5, <1>6 DEF PInv, Phases

LEMMA UnwindInv ==
  ASSUME PInv, Unwind
  PROVE  ClientActs /\ PInv'
  <1>1. /\ pc = "unwind"
        /\ IF terminating THEN KillOp(frames - 1)
           ELSE Leave(frames - 1) /\ UNCHANGED <<cur, nodes, goto, posted, broken, requests>>
        /\ UNCHANGED <<server, dataVars, uiVars, sizesLeft, terminating>>
    BY DEF Unwind
  <1>2. /\ Same /\ DataTypes' /\ failures' = failures
        /\ UNCHANGED <<remote, handlerVars, crashed, replies>>
    BY <1>1, SameData DEF Same, uiVars, server
  <1>3. CASE terminating
    <2>1. Cancelled
      BY <1>1, <1>3 DEF PInv, Phases, Resting, Sizing, Simple, Waiting, Copying, Finished
    <2>2. ClientTypes /\ Walking /\ requests = <<>> /\ replies = <<>> /\ frames = 1
      BY <2>1 DEF Cancelled, Silent, PInv
    <2>3. KillOp(0)
      <3>1. frames - 1 = 0
        BY <2>2
      <3> QED
        BY <1>1, <1>3, <3>1
    <2>4. requests' = requests /\ replies' = <<>>
      BY <1>2, <2>2, <2>3 DEF KillOp
    <2>5. ClientTypes' /\ Finished'
      BY <1>2, <2>2, <2>3, <2>4, EndInv
    <2>6. ClientActs /\ IInv'
      BY <1>2, <2>4, ClientStep
    <2> QED
      BY <2>5, <2>6 DEF PInv, Phases
  <1>4. CASE ~terminating
    <2>1. Leave(frames - 1) /\ UNCHANGED <<cur, nodes, goto, posted, broken, requests>>
      BY <1>1, <1>4
    <2>2. ClientActs /\ IInv'
      BY <1>2, <2>1, ClientStep
    <2>3. frames \in Nat /\ frames # 0
      BY <1>1 DEF PInv, ClientTypes
    <2>4. frames' \in Nat /\ pc' \in {"idle", "unwind"} /\ (pc' = "idle" <=> frames' = 0)
      <3>1. frames - 1 \in Nat
        BY <2>3
      <3> QED
        BY <2>1, <3>1 DEF Leave
    <2>5. ClientTypes'
      BY <1>2, <2>1, <2>4 DEF PInv, ClientTypes, Same
    <2>6. Waiting \/ Finished
      BY <1>1, <1>4 DEF PInv, Phases, Resting, Sizing, Simple, Copying, Cancelled
    <2>7. ASSUME Waiting
          PROVE  Waiting'
      <3>1. Walking' /\ (op' = "upload" => GotoFits')
        BY <1>2, <2>1, <2>7
        DEF Waiting, Walking, Busy, Same, GotoFits, Later
      <3>2. (\E r : Asks(r) /\ requests = <<r>> /\ replies = <<>>)'
            \/ (\E r : IsTold(r) /\ requests = <<>> /\ replies = <<r>>)'
        <4>1. UNCHANGED <<op, goto, cur, nodes, local, stream, outputStream, inputStream>>
          BY <1>1, <1>2, <2>1 DEF Same, dataVars, handlerVars
        <4>2. \A r : (Asks(r) => Asks(r)') /\ (IsTold(r) => IsTold(r)')
          BY <4>1 DEF Asks, IsTold, WalkAsks, ListedFolder
        <4> QED
          BY <1>2, <2>1, <2>7, <4>2, Zenon DEF Waiting
      <3> QED
        BY <1>2, <1>4, <2>4, <3>1, <3>2 DEF Waiting, Same
    <2>8. ASSUME Finished
          PROVE  Finished'
      BY <1>2, <1>4, <2>1, <2>4, <2>8 DEF Finished, Silent, Same
    <2> QED
      BY <2>2, <2>5, <2>6, <2>7, <2>8 DEF PInv, Phases
  <1> QED
    BY <1>3, <1>4

\* The files of a folder are listed by what it holds.
LEMMA ListedNames ==
  ASSUME NEW fs, NEW p
  PROVE  NamesIn(fs, p) \subseteq Names /\ \A n \in NamesIn(fs, p) : Append(p, n) \in Paths
  BY DEF NamesIn, Exists

LEMMA UploadFolderInv ==
  ASSUME PInv, UploadFolder
  PROVE  ClientActs /\ PInv'
  <1>1. /\ Working /\ ~terminating /\ op = "upload"
        /\ UNCHANGED <<remote, handlerVars, replies, crashed, goto, dataVars, uiVars,
                       sizesLeft, terminating>>
        /\ failures' \in {failures, failures + 1}
    BY DEF UploadFolder, ByChance
  <1>2. PICK r : r = [kind |-> "mkdir", path |-> cur]
    OBVIOUS
  <1>3. PICK S \in {NamesIn(local, cur), {}} : Await(r, cur, [nodes EXCEPT ![cur] = S])
    BY <1>2 DEF UploadFolder
  <1>4. /\ Free /\ requests = <<>> /\ replies = <<>> /\ goto = "none"
        /\ cur \in Paths /\ Listing(nodes) /\ Placed(nodes, cur)
    BY <1>1, WorkingFacts
  <1>5. Same /\ DataTypes' /\ replies' = <<>> /\ broken' \in BOOLEAN
    BY <1>1, <1>3, <1>4, SameData DEF Same, uiVars, Await, PInv, ClientTypes
  <1>6. Listing([nodes EXCEPT ![cur] = S])
    BY <1>3, <1>4, ListedNames, ListingExcept
  <1>7. Placed([nodes EXCEPT ![cur] = S], cur)
    <2>1. Len(cur) \in Nat
      BY <1>4, PathIsSeq
    <2>2. Len(cur) >= Len(cur)
      BY <2>1
    <2> QED
      BY <1>4, <2>2, PlacedExcept
  <1>8. r \in Request /\ requests' = <<r>> /\ r.kind = "mkdir"
    BY <1>2, <1>3, <1>4, OneElement DEF Request, Await
  <1>9. cur' = cur /\ nodes' = [nodes EXCEPT ![cur] = S] /\ UNCHANGED posted /\ Leave(frames)
    BY <1>3 DEF Await
  <1>10. Asks(r)' /\ GotoFits'
    BY <1>1, <1>4, <1>5, <1>8 DEF Asks, GotoFits, Same
  <1> QED
    BY <1>1, <1>4, <1>5, <1>6, <1>7, <1>8, <1>9, <1>10, AskStep

LEMMA SkipFileInv ==
  ASSUME PInv, SkipFile
  PROVE  ClientActs /\ PInv'
  <1>1. /\ Working /\ ~terminating /\ GotoNext
        /\ stream' \in {stream, LeftOver}
        /\ UNCHANGED <<server, local, remoteFiles, offset, uiVars, sizesLeft, terminating>>
    BY DEF SkipFile, FileToCopy
  <1>2. /\ Free /\ requests = <<>> /\ replies = <<>> /\ goto = "none"
        /\ cur \in Paths /\ Listing(nodes) /\ Placed(nodes, cur)
    BY <1>1, WorkingFacts
  <1>3. /\ Same /\ op' = op /\ replies' = <<>> /\ replies' = replies /\ failures' = failures
        /\ UNCHANGED <<remote, handlerVars, crashed>>
    BY <1>1, <1>2 DEF Same, uiVars, server
  <1>4. DataTypes'
    BY <1>1, LeftOverType DEF PInv, ClientTypes, DataTypes
  <1>5. Goes(Parent(cur))
    BY <1>1, <1>2, <1>3, GotoNextGoes
  <1> QED
    BY <1>2, <1>3, <1>4, <1>5, GoesStep

\* A user who cancels at a file does so in the first call.
LEMMA CancelAtFileInv ==
  ASSUME PInv, CancelAtFile, CancelAfterSkip = FALSE
  PROVE  ClientActs /\ PInv'
  <1>1. /\ Working /\ ~terminating /\ frames = 1 /\ terminating' = TRUE /\ Leave(frames)
        /\ CleanUpFirst
        /\ UNCHANGED <<serverVars, cur, nodes, goto, posted, local, remoteFiles, offset, uiVars,
                       sizesLeft>>
    BY DEF CancelAtFile, FileToCopy, MayAnswer
  <1>2. Copying /\ Walking /\ ClientTypes /\ requests = <<>> /\ replies = <<>>
    BY <1>1, WorkingFacts
  <1>3. /\ UNCHANGED <<remote, handlerVars, crashed, failures, requests, replies>>
        /\ UNCHANGED <<state, listening, op, before>>
    BY <1>1 DEF serverVars, uiVars
  <1>4. ClientActs /\ IInv'
    BY <1>3, ClientStep
  <1>5. DataTypes' /\ broken' \in BOOLEAN
    BY <1>1, <1>2, LeftOverType DEF CleanUpFirst, ClientTypes, DataTypes
  <1>6. frames' = 1 /\ pc' = "unwind"
    BY <1>1 DEF Leave
  <1>7. ClientTypes'
    BY <1>1, <1>2, <1>3, <1>5, <1>6 DEF ClientTypes
  <1>8. Cancelled'
    BY <1>1, <1>2, <1>3, <1>6 DEF Cancelled, Walking, Busy, Silent
  <1> QED
    BY <1>4, <1>7, <1>8 DEF PInv, Phases

\* An offset is 0 or the length of what is there.
LEMMA OffsetType ==
  ASSUME PInv, cur \in Paths, op \in {"upload", "download"}, NEW from \in Offsets
  PROVE  from \in Nat
  <1>1. CASE Collides /\ op = "upload"
    BY <1>1 DEF Offsets, SizeThere, Collides, PInv, ClientTypes, DataTypes
  <1>2. CASE Collides /\ op = "download"
    <2>1. local[cur] \in Node
      BY DEF PInv, ClientTypes, DataTypes
    <2>2. local[cur].data \in Seq(Chunks)
      <3>1. Absent.data \in Seq(Chunks) /\ Folder.data \in Seq(Chunks)
        BY DEF Absent, Folder
      <3>2. \A f \in [kind : {"file"}, data : Seq(Chunks)] : f.data \in Seq(Chunks)
        OBVIOUS
      <3> QED
        BY <2>1, <3>1, <3>2 DEF Node
    <2>3. Len(local[cur].data) \in Nat
      BY <2>2, LenProperties
    <2> QED
      BY <1>2, <2>3 DEF Offsets, SizeThere
  <1>3. CASE ~Collides
    BY <1>3 DEF Offsets
  <1> QED
    BY <1>1, <1>2, <1>3

LEMMA UploadFileInv ==
  ASSUME PInv, UploadFile
  PROVE  ClientActs /\ PInv'
  <1>1. /\ Working /\ ~terminating /\ op = "upload" /\ CleanUp /\ Leave(frames)
        /\ UNCHANGED <<server, cur, nodes, goto, posted, local, remoteFiles, offset, uiVars,
                       sizesLeft, terminating>>
    BY DEF UploadFile, FileToCopy
  <1>2. PICK from \in Offsets :
          /\ stream' = OpenStream(cur, from)
          /\ requests' = Append(requests, [kind |-> "start upload", path |-> cur,
                                           overwrite |-> from = 0, offset |-> from])
    BY DEF UploadFile
  <1>3. PICK r : r = [kind |-> "start upload", path |-> cur,
                      overwrite |-> from = 0, offset |-> from]
    OBVIOUS
  <1>4. /\ Free /\ requests = <<>> /\ replies = <<>> /\ goto = "none"
        /\ cur \in Paths /\ Listing(nodes) /\ Placed(nodes, cur)
    BY <1>1, WorkingFacts
  <1>5. from \in Nat
    BY <1>1, <1>2, <1>4, OffsetType
  <1>6. /\ Same /\ replies' = <<>> /\ replies' = replies /\ failures' = failures
        /\ UNCHANGED <<remote, handlerVars, crashed>>
    BY <1>1, <1>4 DEF Same, uiVars, server
  <1>7. DataTypes' /\ broken' \in BOOLEAN
    BY <1>1, <1>2, <1>4, <1>5
    DEF PInv, ClientTypes, DataTypes, OpenStream, FileStream, CleanUp
  <1>8. /\ r \in Request /\ requests' = <<r>>
        /\ r.kind = "start upload" /\ r.path = cur
    <2>1. (from = 0) \in BOOLEAN
      OBVIOUS
    <2> QED
      BY <1>3, <1>2, <1>4, <1>5, <2>1, OneElement DEF Request
  <1>9. Asks(r)' /\ GotoFits'
    BY <1>1, <1>2, <1>4, <1>6, <1>8 DEF Asks, GotoFits, Same, OpenStream
  <1> QED
    BY <1>1, <1>4, <1>6, <1>7, <1>8, <1>9, AskStep

LEMMA UploadFileFailsInv ==
  ASSUME PInv, UploadFileFails
  PROVE  ClientActs /\ PInv'
  <1>1. /\ Working /\ ~terminating /\ op = "upload" /\ UploadNext(nodes, cur)
        /\ stream' \in {FileOnly, Dangling, OpenStream(cur, 0)}
        /\ UNCHANGED <<remote, handlerVars, replies, crashed, local, remoteFiles, offset, uiVars,
                       sizesLeft, terminating>>
        /\ failures' \in {failures, failures + 1}
    BY DEF UploadFileFails, FileToCopy, CannotOpen, CannotSeek, ByChance, NotByChance
  <1>2. /\ Free /\ requests = <<>> /\ replies = <<>> /\ goto = "none"
        /\ cur \in Paths /\ Listing(nodes) /\ Placed(nodes, cur)
    BY <1>1, WorkingFacts
  <1>3. Same /\ op' = op /\ replies' = <<>> /\ replies' = replies
    BY <1>1, <1>2 DEF Same, uiVars
  <1>6. OpenStream(cur, 0) \in FileStream
    BY <1>2 DEF OpenStream, FileStream
  <1>4. DataTypes'
    BY <1>1, <1>6 DEF PInv, ClientTypes, DataTypes
  <1>5. Goes(Parent(cur))
    BY <1>1, <1>2, <1>3, UploadNextGoes
  <1> QED
    BY <1>1, <1>2, <1>3, <1>4, <1>5, GoesStep

LEMMA DownloadFolderInv ==
  ASSUME PInv, DownloadFolder
  PROVE  ClientActs /\ PInv'
  <1>1. /\ Working /\ ~terminating /\ op = "download" /\ Await(List(cur), cur, nodes)
        /\ local' \in {local, [local EXCEPT ![cur] = Folder]}
        /\ UNCHANGED <<server, goto, remoteFiles, offset, stream, uiVars, sizesLeft, terminating>>
    BY DEF DownloadFolder
  <1>2. /\ Free /\ requests = <<>> /\ replies = <<>> /\ goto = "none"
        /\ cur \in Paths /\ Listing(nodes) /\ Placed(nodes, cur)
    BY <1>1, WorkingFacts
  <1>3. /\ Same /\ replies' = <<>> /\ replies' = replies /\ failures' = failures
        /\ UNCHANGED <<remote, handlerVars, crashed>>
    BY <1>1, <1>2 DEF Same, uiVars, server
  <1>4. DataTypes' /\ broken' \in BOOLEAN
    BY <1>1, <1>2, Nodes DEF PInv, ClientTypes, DataTypes, Await
  <1>5. /\ List(cur) \in Request /\ requests' = <<List(cur)>>
        /\ cur' = cur /\ nodes' = nodes /\ UNCHANGED posted /\ Leave(frames)
    BY <1>1, <1>2, OneElement, WalkRequests DEF Await
  <1>6. Asks(List(cur))'
    BY <1>1, <1>3, <1>5 DEF Asks, Same
  <1> QED
    BY <1>1, <1>2, <1>3, <1>4, <1>5, <1>6, AskStep

\* What the client steps of a download skip goes on as after a reply.
LEMMA DownloadFolderFailsInv ==
  ASSUME PInv, DownloadFolderFails
  PROVE  ClientActs /\ PInv'
  <1>1. /\ Working /\ ~terminating /\ op = "download" /\ DownloadNext(nodes)
        /\ UNCHANGED <<remote, handlerVars, replies, crashed, dataVars, uiVars,
                       sizesLeft, terminating>>
        /\ failures' \in {failures, failures + 1}
    BY DEF DownloadFolderFails, ByChance, NotByChance
  <1>2. /\ Free /\ replies = <<>> /\ cur \in Paths /\ Listing(nodes) /\ Placed(nodes, cur)
    BY <1>1, WorkingFacts
  <1>3. Same /\ replies' = <<>> /\ replies' = replies /\ DataTypes'
    BY <1>1, <1>2, SameData DEF Same, uiVars
  <1>4. Goes(Parent(cur))
    BY <1>1, <1>2, DownloadNextGoes
  <1> QED
    BY <1>1, <1>2, <1>3, <1>4, GoesStep

LEMMA DownloadFileInv ==
  ASSUME PInv, DownloadFile
  PROVE  ClientActs /\ PInv'
  <1>1. /\ Working /\ ~terminating /\ op = "download"
        /\ UNCHANGED <<server, goto, local, remoteFiles, stream, uiVars, sizesLeft, terminating>>
    BY DEF DownloadFile, FileToCopy
  <1>2. PICK from \in Offsets :
          /\ offset' = from
          /\ Await([kind |-> "start download", path |-> cur, offset |-> from], cur, nodes)
    BY DEF DownloadFile
  <1>3. PICK r : r = [kind |-> "start download", path |-> cur, offset |-> from]
    OBVIOUS
  <1>4. /\ Free /\ requests = <<>> /\ replies = <<>> /\ goto = "none"
        /\ cur \in Paths /\ Listing(nodes) /\ Placed(nodes, cur)
    BY <1>1, WorkingFacts
  <1>5. from \in Nat
    BY <1>1, <1>2, <1>4, OffsetType
  <1>6. /\ Same /\ replies' = <<>> /\ replies' = replies /\ failures' = failures
        /\ UNCHANGED <<remote, handlerVars, crashed>>
    BY <1>1, <1>4 DEF Same, uiVars, server
  <1>7. DataTypes' /\ broken' \in BOOLEAN
    BY <1>1, <1>2, <1>5 DEF PInv, ClientTypes, DataTypes, Await
  <1>8. /\ r \in Request /\ requests' = <<r>>
        /\ r.kind = "start download" /\ r.path = cur
        /\ cur' = cur /\ nodes' = nodes /\ UNCHANGED posted /\ Leave(frames)
    BY <1>3, <1>2, <1>4, <1>5, OneElement DEF Request, Await
  <1>9. Asks(r)'
    BY <1>1, <1>6, <1>8 DEF Asks, Same
  <1> QED
    BY <1>1, <1>4, <1>6, <1>7, <1>8, <1>9, AskStep

LEMMA CopyStepInv ==
  ASSUME PInv, CopyStep, CancelAfterSkip = FALSE
  PROVE  ClientActs /\ PInv'
  BY CopyTerminatesInv, UnwindInv, UploadFolderInv, UploadFileInv, UploadFileFailsInv,
     DownloadFolderInv, DownloadFolderFailsInv, DownloadFileInv, SkipFileInv, CancelAtFileInv
  DEF CopyStep

-----------------------------------------------------------------------------
(* The user interface's thread. *)

\* A function on the first numbers is a sequence.
LEMMA FunctionIsSeq ==
  ASSUME NEW S, NEW n \in Nat, NEW s \in [1..n -> S]
  PROVE  s \in Seq(S) /\ Len(s) = n
  OBVIOUS

\* Nothing is out when an operation is started.
LEMMA RestingFacts ==
  ASSUME PInv, state = "nothing"
  PROVE  /\ requests = <<>> /\ replies = <<>> /\ pc = "idle" /\ frames = 0 /\ posted = 0
         /\ cur = NoPath /\ sizesLeft = 0 /\ ClientTypes
  <1>1. Resting
    <2>1. op # "nothing" \/ ~(Sizing \/ Simple \/ Waiting \/ Copying \/ Cancelled \/ Finished)
      BY DEF Sizing, Simple, Waiting, Copying, Cancelled, Finished, Walking, Busy, Walks
    <2> QED
      BY <2>1
      DEF PInv, Phases, Sizing, Simple, Waiting, Copying, Cancelled, Finished, Walking, Busy
  <1> QED
    BY <1>1 DEF Resting, Silent, PInv, ClientTypes

\* The tree of the files that were selected.
LEMMA SelectFacts ==
  ASSUME ClientTypes, NEW fs, NEW names, names # {}, names \subseteq NamesIn(fs, <<>>),
         Select(names)
  PROVE  /\ cur' \in Paths /\ cur' # NoPath /\ cur' = <<Smallest(names)>>
         /\ Len(cur') = 1 /\ Parent(cur') = <<>>
         /\ Listing(nodes') /\ Placed(nodes', cur')
         /\ \A n \in names : <<n>> \in Paths
  <1>1. names \subseteq Names /\ \A n \in names : Append(<<>>, n) \in Paths
    BY ListedNames
  <1>2. \A n : Append(<<>>, n) = <<n>>
    BY OneElement
  <1> DEFINE s == Smallest(names)
  <1>3. s \in names
    BY <1>1, SmallestIn
  <1>4. cur' = <<s>> /\ nodes' = [p \in DOMAIN nodes |-> IF p = <<>> THEN names ELSE {}]
    BY DEF Select
  <1> HIDE DEF s
  <1>5. cur' \in Paths /\ Len(cur') = 1 /\ NameOf(cur') = s
    BY <1>1, <1>2, <1>3, <1>4 DEF NameOf
  <1>6. Parent(cur') = <<>>
    BY <1>5, ParentFacts
  <1>7. Listing(nodes')
    BY <1>1, <1>4 DEF Listing, ClientTypes
  <1>8. nodes'[<<>>] = names
    BY <1>4 DEF ClientTypes, Listing
  <1>9. Placed(nodes', cur')
    <2>1. ~(Len(cur') > 1)
      BY <1>5
    <2> QED
      BY <1>3, <1>5, <1>6, <1>8, <2>1, PlacedBy
  <1>10. cur' # NoPath
    BY <1>5, NullAssumption
  <1> QED
    BY <1>1, <1>2, <1>4, <1>5, <1>6, <1>7, <1>9, <1>10 DEF s

\* What starting an operation does to the session.
LEMMA ExecuteFacts ==
  ASSUME PInv, NEW kind, Execute(kind)
  PROVE  /\ state' = kind /\ op' = kind /\ listening' = TRUE /\ terminating' = FALSE
         /\ posted' = posted /\ stream' = NoStream /\ local' = local /\ offset' = offset
         /\ broken' \in BOOLEAN /\ local' \in [Paths -> Node] /\ offset' \in Nat
         /\ failures' = failures /\ replies' = replies
         /\ UNCHANGED <<remote, handlerVars, crashed>>
  BY DEF Execute, server, PInv, ClientTypes, DataTypes

LEMMA StartUploadingInv ==
  ASSUME PInv, state = "nothing", NEW names, names # {}, StartUploading(names)
  PROVE  ClientActs /\ PInv'
  <1>1. /\ names \subseteq NamesIn(local, <<>>) /\ Execute("upload") /\ Select(names)
        /\ requests' = Append(requests, List(<<>>))
        /\ goto' = "first" /\ before' = remote /\ remoteFiles' = <<>>
        /\ UNCHANGED <<sizesLeft, pc, frames>>
    BY DEF StartUploading
  <1>2. /\ requests = <<>> /\ replies = <<>> /\ pc = "idle" /\ frames = 0 /\ posted = 0
        /\ sizesLeft = 0 /\ ClientTypes
    BY RestingFacts
  <1>3. /\ state' = "upload" /\ op' = "upload" /\ listening' = TRUE /\ terminating' = FALSE
        /\ posted' = posted /\ stream' = NoStream
        /\ broken' \in BOOLEAN /\ local' \in [Paths -> Node] /\ offset' \in Nat
        /\ failures' = failures /\ replies' = replies
        /\ UNCHANGED <<remote, handlerVars, crashed>>
    BY <1>1, ExecuteFacts
  <1>4. cur' \in Paths /\ cur' # NoPath /\ Len(cur') = 1 /\ Listing(nodes') /\ Placed(nodes', cur')
    BY <1>1, <1>2, SelectFacts
  <1>5. List(<<>>) \in Request /\ requests' = <<List(<<>>)>>
    BY <1>1, <1>2, OneElement, WalkRequests
  <1>6. requests' \in Seq(Request)
    BY <1>5
  <1>7. ClientActs /\ IInv'
    BY <1>2, <1>3, <1>6, ClientStep
  <1>8. remote \in [Paths -> Node] /\ DOMAIN remoteFiles' = {}
    BY <1>1 DEF PInv, IInv, Types
  <1>9. ClientTypes'
    BY <1>1, <1>2, <1>3, <1>4, <1>8 DEF ClientTypes, DataTypes, Walks
  <1>10. Asks(List(<<>>))'
    BY <1>1, <1>3, <1>5 DEF Asks, WalkAsks, ListedFolder
  <1>11. Walking'
    BY <1>1, <1>2, <1>3, <1>4 DEF Walking, Busy, Walks
  <1>12. GotoFits'
    BY <1>1, <1>4 DEF GotoFits
  <1>13. Waiting'
    BY <1>1, <1>2, <1>3, <1>5, <1>10, <1>11, <1>12 DEF Waiting
  <1> QED
    BY <1>7, <1>9, <1>13 DEF PInv, Phases

LEMMA StartRemovingInv ==
  ASSUME PInv, state = "nothing", NEW names, names # {}, StartRemoving(names)
  PROVE  ClientActs /\ PInv'
  <1>1. /\ names \subseteq NamesIn(remote, <<>>) /\ Execute("remove") /\ Select(names)
        /\ goto' = "none" /\ before' = remote
        /\ UNCHANGED <<sizesLeft, pc, frames, remoteFiles>>
    BY DEF StartRemoving
  <1>2. /\ requests = <<>> /\ replies = <<>> /\ pc = "idle" /\ frames = 0 /\ posted = 0
        /\ sizesLeft = 0 /\ ClientTypes
    BY RestingFacts
  <1>3. /\ state' = "remove" /\ op' = "remove" /\ listening' = TRUE /\ terminating' = FALSE
        /\ posted' = posted /\ stream' = NoStream
        /\ broken' \in BOOLEAN /\ local' \in [Paths -> Node] /\ offset' \in Nat
        /\ failures' = failures /\ replies' = replies
        /\ UNCHANGED <<remote, handlerVars, crashed>>
    BY <1>1, ExecuteFacts
  <1>4. /\ cur' \in Paths /\ cur' # NoPath /\ cur' = <<Smallest(names)>>
        /\ Listing(nodes') /\ Placed(nodes', cur')
    BY <1>1, <1>2, SelectFacts
  <1>5. PICK r : /\ r = IF IsFolder(remote, <<Smallest(names)>>) THEN List(<<Smallest(names)>>)
                        ELSE [kind |-> "remove", path |-> <<Smallest(names)>>]
                 /\ requests' = Append(requests, r)
    BY DEF StartRemoving
  <1>6. r \in Request /\ requests' = <<r>> /\ (r = List(cur') \/ r = [kind |-> "remove", path |-> cur'])
    BY <1>2, <1>4, <1>5, OneElement, WalkRequests
  <1>7. requests' \in Seq(Request)
    BY <1>6
  <1>8. ClientActs /\ IInv'
    BY <1>2, <1>3, <1>7, ClientStep
  <1>9. remote \in [Paths -> Node]
    BY DEF PInv, IInv, Types
  <1>10. ClientTypes'
    BY <1>1, <1>2, <1>3, <1>4, <1>9 DEF ClientTypes, DataTypes, Walks
  <1>11. Asks(r)'
    BY <1>3, <1>6 DEF Asks, WalkAsks
  <1>12. Walking'
    BY <1>1, <1>2, <1>3, <1>4 DEF Walking, Busy, Walks
  <1>13. Waiting'
    BY <1>1, <1>2, <1>3, <1>6, <1>11, <1>12 DEF Waiting
  <1> QED
    BY <1>8, <1>10, <1>13 DEF PInv, Phases

\* A download waits for the sizes of the folders, or copies the first file.
LEMMA StartDownloadingInv ==
  ASSUME PInv, state = "nothing", NEW names, names # {}, StartDownloading(names)
  PROVE  ClientActs /\ PInv'
  <1> DEFINE folders == {n \in names : IsFolder(remote, <<n>>)}
             count == Cardinality(folders)
  <1>1. /\ names \subseteq NamesIn(remote, <<>>) /\ Execute("download") /\ Select(names)
        /\ sizesLeft' = count
        /\ IF count = 0 THEN frames' = 1 /\ pc' = "copy" ELSE UNCHANGED <<frames, pc>>
        /\ goto' = "none" /\ before' = local
        /\ UNCHANGED remoteFiles
    BY DEF StartDownloading
  <1>2. PICK nth \in [1..count -> folders] :
          requests' = requests \o [i \in 1..count |-> [kind |-> "size", path |-> <<nth[i]>>]]
    BY DEF StartDownloading
  <1>3. /\ requests = <<>> /\ replies = <<>> /\ pc = "idle" /\ frames = 0 /\ posted = 0
        /\ ClientTypes
    BY RestingFacts
  <1>4. /\ state' = "download" /\ op' = "download" /\ listening' = TRUE /\ terminating' = FALSE
        /\ posted' = posted /\ stream' = NoStream
        /\ broken' \in BOOLEAN /\ local' = local /\ local' \in [Paths -> Node] /\ offset' \in Nat
        /\ failures' = failures /\ replies' = replies
        /\ UNCHANGED <<remote, handlerVars, crashed>>
    BY <1>1, ExecuteFacts
  <1>5. /\ cur' \in Paths /\ cur' # NoPath /\ Listing(nodes') /\ Placed(nodes', cur')
        /\ \A n \in names : <<n>> \in Paths
    BY <1>1, <1>3, SelectFacts
  <1>6. count \in Nat /\ count <= Cardinality(Names) /\ Cardinality(Names) \in Nat
    <2>1. folders \in SUBSET Names
      BY <1>1, ListedNames
    <2> HIDE DEF folders
    <2>2. IsFiniteSet(folders) /\ Cardinality(folders) <= Cardinality(Names)
      BY <2>1, FinitelyMany, FS_Subset
    <2> QED
      BY <2>2, FinitelyMany, FS_CardinalityType
  <1>7. \A i \in 1..count : <<nth[i]>> \in Paths
    <2>1. folders \subseteq names
      OBVIOUS
    <2> HIDE DEF folders, count
    <2> QED
      BY <1>2, <1>5, <2>1
  <1> HIDE DEF folders, count
  <1> DEFINE sq == [i \in 1..count |-> [kind |-> "size", path |-> <<nth[i]>>]]
  <1>8. /\ sq \in Seq([kind : {"size"}, path : Paths]) /\ Len(sq) = count
        /\ sq \in Seq(Request)
    <2>1. sq \in [1..count -> [kind : {"size"}, path : Paths]]
      BY <1>7
    <2>2. [kind : {"size"}, path : Paths] \subseteq Request
      BY DEF Request
    <2> HIDE DEF sq
    <2>3. sq \in Seq([kind : {"size"}, path : Paths]) /\ Len(sq) = count
      <3>1. PICK S : S = [kind : {"size"}, path : Paths]
        OBVIOUS
      <3>2. sq \in [1..count -> S] /\ count \in Nat
        BY <1>6, <2>1, <3>1
      <3>3. sq \in Seq(S) /\ Len(sq) = count
        BY ONLY <3>2, FunctionIsSeq, Zenon
      <3> QED
        BY <3>1, <3>3
    <2> QED
      BY <2>2, <2>3, SeqMonotonic
  <1>9. requests' = sq
    <2> HIDE DEF sq
    <2>1. <<>> \o sq = sq
      BY <1>8, ConcatEmptySeq
    <2> QED
      BY <1>2, <1>3, <2>1 DEF sq
  <1> HIDE DEF sq
  <1>10. ClientActs /\ IInv'
    BY <1>3, <1>4, <1>8, <1>9, ClientStep
  <1>11. sizesLeft' \in 0..Cardinality(Names)
    BY <1>1, <1>6
  <1>12. frames' \in Nat /\ pc' \in {"idle", "copy"} /\ (pc' = "idle" <=> frames' = 0)
    BY <1>1, <1>3
  <1>13. ClientTypes'
    BY <1>1, <1>3, <1>4, <1>5, <1>11, <1>12 DEF ClientTypes, DataTypes, Walks
  <1>14. CASE count = 0
    <2>1. requests' = <<>>
      BY <1>8, <1>9, <1>14, EmptySeq
    <2>2. Copying'
      BY <1>1, <1>3, <1>4, <1>5, <1>14, <2>1 DEF Copying, Walking, Busy, Walks, Silent
    <2> QED
      BY <1>10, <1>13, <2>2 DEF PInv, Phases
  <1>15. CASE count # 0
    <2>1. Len(requests') + Len(replies') = sizesLeft' /\ sizesLeft' > 0
      <3>1. Len(requests') = count /\ Len(replies') = 0
        BY <1>3, <1>4, <1>8, <1>9, EmptySeq
      <3> QED
        BY <1>1, <1>6, <1>15, <3>1
    <2>2. /\ requests' \in Seq([kind : {"size"}, path : Paths])
          /\ replies' \in Seq([kind : {"size", "failed"}])
      BY <1>3, <1>4, <1>8, <1>9, EmptySeq
    <2>3. Sizing'
      BY <1>1, <1>3, <1>4, <1>5, <1>15, <2>1, <2>2 DEF Sizing, Busy
    <2> QED
      BY <1>10, <1>13, <2>3 DEF PInv, Phases
  <1> QED
    BY <1>14, <1>15

LEMMA StartSimpleInv ==
  ASSUME PInv, state = "nothing", NEW r \in Request, r.kind \in {"mkdir", "rename"},
         StartSimple(r)
  PROVE  ClientActs /\ PInv'
  <1>1. /\ Execute(r.kind) /\ requests' = Append(requests, r)
        /\ UNCHANGED <<cur, nodes, goto, pc, frames, sizesLeft, remoteFiles, before>>
    BY DEF StartSimple
  <1>2. /\ requests = <<>> /\ replies = <<>> /\ pc = "idle" /\ frames = 0 /\ posted = 0
        /\ cur = NoPath /\ sizesLeft = 0 /\ ClientTypes
    BY RestingFacts
  <1>3. /\ state' = r.kind /\ op' = r.kind /\ listening' = TRUE /\ terminating' = FALSE
        /\ posted' = posted /\ stream' = NoStream
        /\ broken' \in BOOLEAN /\ local' \in [Paths -> Node] /\ offset' \in Nat
        /\ failures' = failures /\ replies' = replies
        /\ UNCHANGED <<remote, handlerVars, crashed>>
    BY <1>1, ExecuteFacts
  <1>4. requests' = <<r>> /\ requests' \in Seq(Request)
    BY <1>1, <1>2, OneElement
  <1>5. ClientActs /\ IInv'
    BY <1>2, <1>3, <1>4, ClientStep
  <1>6. ClientTypes'
    BY <1>1, <1>2, <1>3 DEF ClientTypes, DataTypes
  <1>7. Simple'
    BY <1>1, <1>2, <1>3, <1>4 DEF Simple, Busy
  <1> QED
    BY <1>5, <1>6, <1>7 DEF PInv, Phases

LEMMA StartOperationInv ==
  ASSUME PInv, StartOperation
  PROVE  ClientActs /\ PInv'
  <1>1. state = "nothing"
    BY DEF StartOperation
  <1>2. PICK o \in Operations :
          \/ o.kind = "upload" /\ StartUploading(o.names)
          \/ o.kind = "download" /\ StartDownloading(o.names)
          \/ o.kind = "remove" /\ StartRemoving(o.names)
          \/ o.kind \in {"mkdir", "rename"} /\ StartSimple(o)
    BY DEF StartOperation
  <1>3. \/ o.kind \in {"upload", "download", "remove"} /\ o.names # {}
        \/ o.kind \in {"mkdir", "rename"} /\ o \in Request
    BY OperationsAssumption
  <1> QED
    BY <1>1, <1>2, <1>3, StartUploadingInv, StartDownloadingInv, StartRemovingInv, StartSimpleInv

LEMMA OperationFinishedInv ==
  ASSUME PInv, OperationFinished
  PROVE  ClientActs /\ PInv'
  <1>1. /\ posted > 0 /\ pc = "idle" /\ posted' = posted - 1
        /\ UNCHANGED <<server, cur, nodes, goto, pc, frames, local, remoteFiles, offset,
                       before, sizesLeft>>
    BY DEF OperationFinished
  <1>2. Finished
    <2>1. posted # 0
      BY <1>1
    <2> QED
      BY <2>1 DEF PInv, Phases, Resting, Sizing, Simple, Waiting, Copying, Cancelled, Walking, Busy
  <1>3. posted' = 0 /\ requests = <<>> /\ replies = <<>> /\ cur = NoPath /\ sizesLeft = 0
    BY <1>1, <1>2 DEF Finished, Silent
  <1>4. UNCHANGED <<remote, handlerVars, crashed, failures, replies>>
    BY <1>1 DEF server
  <1>5. CASE /\ state' = "nothing" /\ listening' = FALSE
             /\ UNCHANGED <<requests, op, stream, broken, terminating>>
    <2>1. ClientActs /\ IInv'
      BY <1>4, <1>5, ClientStep
    <2>2. ClientTypes'
      BY <1>1, <1>5 DEF PInv, ClientTypes, DataTypes
    <2>3. Resting'
      BY <1>1, <1>3, <1>4, <1>5 DEF Resting, Silent
    <2> QED
      BY <2>1, <2>2, <2>3 DEF PInv, Phases
  <1>6. CASE /\ state' = "list" /\ op' = "list" /\ listening' = TRUE
             /\ requests' = Append(requests, List(<<>>))
             /\ broken' = (stream = Dangling)
             /\ stream' = NoStream
             /\ terminating' = FALSE
    <2>1. requests' = <<List(<<>>)>> /\ List(<<>>) \in Request /\ List(<<>>).kind = "list"
      BY <1>3, <1>6, OneElement, WalkRequests
    <2>2. requests' \in Seq(Request)
      BY <2>1
    <2>3. ClientActs /\ IInv'
      BY <1>3, <1>4, <2>2, ClientStep
    <2>4. ClientTypes'
      BY <1>1, <1>6 DEF PInv, ClientTypes, DataTypes
    <2>5. Simple'
      BY <1>1, <1>3, <1>4, <1>6, <2>1 DEF Simple, Busy
    <2> QED
      BY <2>3, <2>4, <2>5 DEF PInv, Phases
  <1> QED
    BY <1>5, <1>6 DEF OperationFinished

\* The user cancels between two steps of the operation.
LEMMA CancelInv ==
  ASSUME PInv, Cancel, CancelAfterSkip = FALSE
  PROVE  ClientActs /\ PInv'
  <1>1. /\ op \in Walks /\ pc = "idle" /\ terminating' = TRUE
        /\ UNCHANGED <<cur, nodes, goto, posted, broken, pc, frames>>
        /\ UNCHANGED <<local, remoteFiles, offset, stream>>
        /\ UNCHANGED <<state, listening, op, before, sizesLeft>>
        /\ UNCHANGED <<remote, handlerVars, requests, replies, failures, crashed>>
    BY DEF Cancel, serverVars, walkVars, dataVars, uiVars
  <1>2. ClientActs /\ IInv'
    BY <1>1, ClientStep
  <1>3. ClientTypes'
    BY <1>1 DEF PInv, ClientTypes, DataTypes
  <1>4. Phases'
    <2>1. CASE Resting
      BY <1>1, <2>1 DEF Phases, Resting, Silent
    <2>2. CASE Sizing
      BY <1>1, <2>2 DEF Phases, Sizing, Busy
    <2>3. CASE Waiting
      <3>1. Walking' /\ (op' = "upload" => GotoFits')
        BY <1>1, <2>3 DEF Waiting, Walking, Busy, GotoFits, Later
      <3>2. (\E r : Asks(r) /\ requests = <<r>> /\ replies = <<>>)'
            \/ (\E r : IsTold(r) /\ requests = <<>> /\ replies = <<r>>)'
        <4>1. \A r : (Asks(r) => Asks(r)') /\ (IsTold(r) => IsTold(r)')
          BY <1>1 DEF Asks, IsTold, WalkAsks, ListedFolder, handlerVars
        <4> QED
          BY <1>1, <2>3, <4>1, Zenon DEF Waiting
      <3> QED
        BY <1>1, <3>1, <3>2 DEF Waiting, Phases
    <2>4. CASE Finished
      BY <1>1, <2>4 DEF Phases, Finished, Silent
    <2> QED
      BY <1>1, <2>1, <2>2, <2>3, <2>4 DEF PInv, Phases, Simple, Copying, Cancelled, Walks
  <1> QED
    BY <1>2, <1>3, <1>4 DEF PInv

LEMMA CloseSessionInv ==
  ASSUME PInv, CloseSession
  PROVE  Disconnect /\ PInv'
  <1>1. /\ Disconnect /\ state' = "closed" /\ listening' = FALSE /\ posted' = 0 /\ pc = "idle"
        /\ cur' = NoPath /\ stream' = NoStream /\ broken' = (stream = Dangling)
        /\ UNCHANGED <<nodes, goto, pc, frames, local, remoteFiles, offset, before,
                       sizesLeft, terminating>>
    BY DEF CloseSession
  <1>2. IInv'
    BY <1>1, DisconnectInv DEF PInv
  <1>3. ClientTypes'
    BY <1>1 DEF PInv, ClientTypes, DataTypes
  <1>4. Resting'
    BY <1>1 DEF Resting, Silent, Disconnect
  <1> QED
    BY <1>1, <1>2, <1>3, <1>4 DEF PInv, Phases

-----------------------------------------------------------------------------
(* The server. *)

\* What a request may be answered with, out and in being the streams that are
\* then open.
Fits(q, r, out, in) ==
  \/ r = Failed
  \/ q.kind = "list" /\ ListReply(r, q.path) /\ DOMAIN r.sizes = NamesIn(remote, q.path)
  \/ q.kind \in {"size", "mkdir", "remove", "rename", "end upload"} /\ r = [kind |-> q.kind]
  \/ /\ q.kind = "start upload" /\ r.kind = "start upload"
     /\ out.open /\ out.path = q.path
  \/ /\ q.kind = "upload" /\ r.kind = "upload"
     /\ out.open /\ out.path = outputStream.path
  \/ q.kind = "start download" /\ r.kind = "start download" /\ in.open
  \/ /\ q.kind = "download" /\ r.kind = "download" /\ r.chunk \in Chunks
     /\ in.open
  \/ q.kind = "download" /\ r.kind = "end download"

\* A stream that was not opened is used.
Crashes(q) ==
  \/ q.kind \in {"upload", "end upload"} /\ ~outputStream.open
  \/ q.kind = "download" /\ ~inputStream.open

Answered ==
  /\ requests' = Tail(requests) /\ UNCHANGED crashed
  /\ \E r : replies' = Append(replies, r) /\ Fits(Head(requests), r, outputStream', inputStream')

\* A folder's files, with their sizes.
LEMMA ListingReply ==
  ASSUME IInv, NEW p \in Paths \cup {<<>>}, NEW r,
         r = [kind |-> "list", names |-> NamesIn(remote, p),
              sizes |-> [n \in NamesIn(remote, p) |-> Len(remote[Append(p, n)].data)],
              folders |-> {n \in NamesIn(remote, p) : IsFolder(remote, Append(p, n))}]
  PROVE  ListReply(r, p) /\ DOMAIN r.sizes = NamesIn(remote, p)
  <1>1. NamesIn(remote, p) \subseteq Names /\ \A n \in NamesIn(remote, p) : Append(p, n) \in Paths
    BY DEF NamesIn, Exists
  <1>2. \A q \in Paths : remote[q].data \in Seq(Chunks)
    <2> TAKE q \in Paths
    <2>1. /\ remote[q] \in Node /\ Absent.data = <<>> /\ Folder.data = <<>>
          /\ <<>> \in Seq(Chunks)
      BY DEF IInv, Types, Absent, Folder
    <2> QED
      BY <2>1 DEF Node
  <1>3. \A q \in Paths : Len(remote[q].data) \in Nat
    BY <1>2
  <1> DEFINE N == NamesIn(remote, p)
             size == [n \in N |-> Len(remote[Append(p, n)].data)]
  <1>4. r.kind = "list" /\ r.names = N /\ r.sizes = size
    OBVIOUS
  <1>5. DOMAIN size = N /\ \A n \in N : size[n] \in Nat
    BY <1>1, <1>3
  <1> HIDE DEF N, size
  <1> QED
    BY <1>1, <1>4, <1>5 DEF ListReply, N

\* A chunk is read where the file has one.
LEMMA ChunkRead ==
  ASSUME IInv, inputStream.open, ~AtEnd(inputStream)
  PROVE  remote[inputStream.path].data[inputStream.pos + 1] \in Chunks
  <1> DEFINE f == inputStream.path
             data == remote[f].data
  <1>1. f \in Paths /\ remote \in [Paths -> Node] /\ inputStream.pos \in Nat /\ IsFile(remote, f)
    BY DEF IInv, Types, HandlesAreAccounted, Held, Stream
  <1>2. data \in Seq(Chunks)
    <2>1. remote[f] \in Node /\ remote[f].kind = "file"
      BY <1>1 DEF IsFile
    <2> QED
      BY <2>1 DEF Node, Absent, Folder
  <1>3. inputStream.pos < Len(data)
    <2>1. Len(data) \in Nat
      BY <1>2
    <2> QED
      BY <1>1, <2>1 DEF AtEnd
  <1> HIDE DEF data
  <1>4. inputStream.pos + 1 \in 1..Len(data)
    BY <1>1, <1>2, <1>3
  <1>5. data[inputStream.pos + 1] \in Chunks
    BY <1>2, <1>4
  <1> QED
    BY <1>5 DEF data

\* Every request is answered, unless it makes the server crash.
LEMMA HandleAnswers ==
  ASSUME IInv, Handle
  PROVE  /\ requests # <<>> /\ ~crashed
         /\ \/ Answered
            \/ Crashes(Head(requests))
  <1> DEFINE q == Head(requests)
  <1>1. requests # <<>> /\ ~crashed
    BY DEF Handle, Refuse, ListFolder, MakeFolder, RemoveFile, RenameFile, FolderSize,
           StartUpload, StartUploadFrom, StartUploadFails, UploadData, EndUpload,
           StartDownload, StartDownloadFails, DownloadData, Asked
  <1> SUFFICES Answered \/ Crashes(Head(requests))
    BY <1>1
  <1>2. q \in Request
    BY <1>1, RequestFields
  <1>3. ASSUME NEW r, requests' = Tail(requests), replies' = Append(replies, r),
               crashed' = crashed, Fits(q, r, outputStream', inputStream')
        PROVE  Answered
    BY <1>3 DEF Answered
  <1>4. Fits(q, Failed, outputStream', inputStream')
    BY DEF Fits, Failed
  <1>5. CASE Refuse
    BY <1>3, <1>4, <1>5 DEF Refuse, Answer
  <1>6. CASE ListFolder
    <2>1. q.kind = "list" /\ q.path \in Paths \cup {<<>>}
      BY <1>2, <1>6 DEF ListFolder, Asked, Request
    <2>2. PICK r : r = [kind |-> "list", names |-> NamesIn(remote, q.path),
                        sizes |-> [n \in NamesIn(remote, q.path) |->
                                     Len(remote[Append(q.path, n)].data)],
                        folders |-> {n \in NamesIn(remote, q.path) :
                                       IsFolder(remote, Append(q.path, n))}]
      OBVIOUS
    <2>3. Answer(r) \/ Answer(Failed)
      BY <1>6, <2>2 DEF ListFolder, Answer
    <2>4. Fits(q, r, outputStream', inputStream')
      BY <2>1, <2>2, ListingReply DEF Fits
    <2> QED
      BY <1>3, <1>4, <2>3, <2>4 DEF Answer
  <1>7. CASE MakeFolder \/ RemoveFile \/ RenameFile \/ FolderSize
    <2>1. q.kind \in {"size", "mkdir", "remove", "rename"}
      BY <1>7 DEF MakeFolder, RemoveFile, RenameFile, FolderSize, Asked
    <2>2. Answer([kind |-> q.kind]) \/ Answer(Failed)
      BY <1>7 DEF MakeFolder, RemoveFile, RenameFile, FolderSize, Asked
    <2>3. Fits(q, [kind |-> q.kind], outputStream', inputStream')
      BY <2>1 DEF Fits
    <2> QED
      BY <1>3, <1>4, <2>2, <2>3 DEF Answer
  <1>8. CASE StartUpload
    <2> DEFINE refused == q.overwrite /\ ~CanTruncate(remote, WithoutUpload, q.path)
               fs == IF q.overwrite /\ ~refused THEN Truncated(remote, q.path) ELSE remote
               opens == ~refused /\ IsFile(fs, q.path) /\ q.path \notin WithoutUpload
    <2>1. /\ q.kind = "start upload"
          /\ outputStream' = IF opens THEN Sought(fs, q.path) ELSE NoStream
          /\ (opens /\ Answer([kind |-> "start upload"])) \/ Answer(Failed)
      BY <1>8 DEF StartUpload, StartUploadFrom, Asked
    <2> HIDE DEF opens
    <2>2. opens => Fits(q, [kind |-> "start upload"], outputStream', inputStream')
      BY <2>1 DEF Fits, Sought, OpenStream
    <2> QED
      BY <1>3, <1>4, <2>1, <2>2 DEF Answer
  <1>9. CASE StartUploadFails \/ StartDownloadFails
    BY <1>3, <1>4, <1>9 DEF StartUploadFails, StartDownloadFails, Answer
  <1>10. CASE UploadData
    <2>1. q.kind = "upload"
      BY <1>10 DEF UploadData, Asked
    <2>2. CASE Answer(Failed)
      BY <1>3, <1>4, <2>2 DEF Answer
    <2>3. CASE /\ outputStream.open /\ outputStream' = [outputStream EXCEPT !.pos = @ + 1]
               /\ Answer([kind |-> "upload"])
      <3>1. outputStream \in Stream
        BY DEF IInv, Types
      <3>2. outputStream'.open /\ outputStream'.path = outputStream.path
        BY <2>3, <3>1 DEF Stream
      <3>3. Fits(q, [kind |-> "upload"], outputStream', inputStream')
        BY <2>1, <3>2 DEF Fits
      <3> QED
        BY <1>3, <2>3, <3>3 DEF Answer
    <2>4. CASE CrashOnNull(outputStream)
      BY <2>1, <2>4 DEF CrashOnNull, Crashes, NoStream
    <2> QED
      BY <1>10, <2>2, <2>3, <2>4 DEF UploadData
  <1>11. CASE EndUpload
    <2>1. q.kind = "end upload"
      BY <1>11 DEF EndUpload, Asked
    <2>2. Fits(q, [kind |-> "end upload"], outputStream', inputStream')
      BY <2>1 DEF Fits
    <2>3. CASE CrashOnNull(outputStream)
      BY <2>1, <2>3 DEF CrashOnNull, Crashes, NoStream
    <2> QED
      BY <1>3, <1>4, <1>11, <2>2, <2>3 DEF EndUpload, Answer
  <1>12. CASE StartDownload
    <2> DEFINE opens == IsFile(remote, q.path) /\ q.path \notin WithoutDownload
    <2>1. /\ q.kind = "start download"
          /\ inputStream' = IF opens THEN Sought(remote, q.path) ELSE NoStream
          /\ (opens /\ Answer([kind |-> "start download"])) \/ Answer(Failed)
      BY <1>12 DEF StartDownload, Asked
    <2> HIDE DEF opens
    <2>2. opens => Fits(q, [kind |-> "start download"], outputStream', inputStream')
      BY <2>1 DEF Fits, Sought, OpenStream
    <2> QED
      BY <1>3, <1>4, <2>1, <2>2 DEF Answer
  <1>13. CASE DownloadData
    <2>1. q.kind = "download"
      BY <1>13 DEF DownloadData, Asked
    <2>2. CASE Answer(Failed)
      BY <1>3, <1>4, <2>2 DEF Answer
    <2>3. CASE /\ downloadFile # NoPath /\ inputStream.open /\ ~AtEnd(inputStream)
               /\ Answer([kind |-> "download",
                          chunk |-> remote[inputStream.path].data[inputStream.pos + 1]])
               /\ inputStream' = [inputStream EXCEPT !.pos = @ + 1]
      <3>1. inputStream \in Stream
        BY DEF IInv, Types
      <3>2. inputStream'.open
        BY <2>3, <3>1 DEF Stream
      <3>3. remote[inputStream.path].data[inputStream.pos + 1] \in Chunks
        BY <2>3, ChunkRead
      <3>4. PICK r : r = [kind |-> "download",
                          chunk |-> remote[inputStream.path].data[inputStream.pos + 1]]
        OBVIOUS
      <3>5. Fits(q, r, outputStream', inputStream')
        BY <2>1, <3>2, <3>3, <3>4 DEF Fits
      <3> QED
        BY <1>3, <2>3, <3>4, <3>5 DEF Answer
    <2>4. CASE Answer([kind |-> "end download"])
      <3>1. Fits(q, [kind |-> "end download"], outputStream', inputStream')
        BY <2>1 DEF Fits
      <3> QED
        BY <1>3, <2>4, <3>1 DEF Answer
    <2>5. CASE CrashOnNull(inputStream)
      BY <2>1, <2>5 DEF CrashOnNull, Crashes, NoStream
    <2> QED
      BY <1>13, <2>2, <2>3, <2>4, <2>5 DEF DownloadData
  <1> QED
    BY <1>1, <1>5, <1>6, <1>7, <1>8, <1>9, <1>10, <1>11, <1>12, <1>13 DEF Handle

\* The folders' sizes are answered one by one.
LEMMA ServeSizing ==
  ASSUME IInv, ClientTypes, Sizing, requests # <<>>, Answered, UNCHANGED clientVars
  PROVE  Sizing'
  <1> DEFINE Sizes == [kind : {"size"}, path : Paths]
             Told == [kind : {"size", "failed"}]
  <1>1. /\ requests \in Seq(Sizes) /\ replies \in Seq(Told)
        /\ Len(requests) + Len(replies) = sizesLeft /\ sizesLeft > 0
    BY DEF Sizing
  <1>2. PICK r : /\ requests' = Tail(requests) /\ replies' = Append(replies, r)
                 /\ Fits(Head(requests), r, outputStream', inputStream')
    BY DEF Answered
  <1>3. Head(requests) \in Sizes
    BY <1>1, HeadTailProperties
  <1>4. r \in Told
    <2>1. Head(requests).kind = "size"
      BY <1>3
    <2>2. r = Failed \/ r = [kind |-> "size"]
      BY <1>2, <2>1 DEF Fits
    <2> QED
      BY <2>2 DEF Failed
  <1> HIDE DEF Sizes, Told
  <1>5. requests' \in Seq(Sizes) /\ Len(requests') = Len(requests) - 1 /\ Len(requests) \in Nat
    BY <1>1, <1>2, HeadTailProperties, LenProperties
  <1>6. replies' \in Seq(Told) /\ Len(replies') = Len(replies) + 1 /\ Len(replies) \in Nat
    BY <1>1, <1>2, <1>4, AppendProperties, LenProperties
  <1>7. Len(requests') + Len(replies') = Len(requests) + Len(replies)
    <2>1. \A m, n \in Nat : (m - 1) + (n + 1) = m + n
      OBVIOUS
    <2> QED
      BY <1>5, <1>6, <2>1
  <1>8. UNCHANGED <<state, op, listening, posted, pc, cur, goto, sizesLeft>>
    BY DEF clientVars, walkVars, uiVars
  <1> QED
    BY <1>1, <1>5, <1>6, <1>7, <1>8 DEF Sizing, Busy, Sizes, Told

\* The operation of one request gets its reply.
LEMMA ServeSimple ==
  ASSUME IInv, ClientTypes, Simple, requests # <<>>, Answered, UNCHANGED clientVars
  PROVE  Simple'
  <1>1. PICK q \in Request : q.kind = op /\ requests = <<q>> /\ replies = <<>>
    BY DEF Simple
  <1>2. Head(requests) = q /\ Tail(requests) = <<>>
    BY <1>1, OneElement
  <1>3. PICK r : /\ requests' = <<>> /\ replies' = Append(replies, r)
                 /\ Fits(q, r, outputStream', inputStream')
    BY <1>2 DEF Answered
  <1>4. replies' = <<r>>
    BY <1>1, <1>3, OneElement
  <1>5. op \in {"list", "mkdir", "rename"}
    BY DEF Simple
  <1>6. r.kind \in {op, "failed"}
    <2>1. q.kind \in {"list", "mkdir", "rename"} /\ q.kind = op
      BY <1>1, <1>5
    <2>2. \/ r = Failed
          \/ q.kind = "list" /\ r.kind = "list"
          \/ r = [kind |-> q.kind]
      BY <1>3, <2>1 DEF Fits, ListReply
    <2>3. Failed.kind = "failed" /\ \A k : [kind |-> k].kind = k
      BY DEF Failed
    <2> QED
      BY <2>1, <2>2, <2>3
  <1>7. UNCHANGED <<state, op, listening, posted, pc, cur, sizesLeft>>
    BY DEF clientVars, walkVars, uiVars
  <1> QED
    BY <1>3, <1>4, <1>6, <1>7 DEF Simple, Busy

\* What a walk is told is what it asked for.
LEMMA AskedIsTold ==
  ASSUME IInv, ClientTypes, NEW q, Asks(q), NEW r, Fits(q, r, outputStream', inputStream'),
         UNCHANGED clientVars
  PROVE  IsTold(r)'
  <1>1. UNCHANGED <<op, goto, cur, stream, local, remoteFiles, nodes>>
    BY DEF clientVars, walkVars, uiVars, dataVars
  <1>2. CASE r = Failed
    BY <1>2 DEF IsTold, Failed
  <1>3. CASE op = "upload" /\ goto # "none" /\ q = List(ListedFolder)
    <2>1. q.kind = "list" /\ q.path = ListedFolder
      BY <1>3 DEF List
    <2>2. r = Failed \/ ListReply(r, ListedFolder)
      BY <2>1 DEF Fits
    <2>3. ListReply(r, ListedFolder)' = ListReply(r, ListedFolder)
      BY <1>1 DEF ListReply, ListedFolder
    <2> QED
      BY <1>1, <1>2, <1>3, <2>2, <2>3 DEF IsTold
  <1>4. CASE op \in {"download", "remove"} /\ q = List(cur)
    <2>1. q.kind = "list" /\ q.path = cur
      BY <1>4 DEF List
    <2>2. r = Failed \/ ListReply(r, cur)
      BY <2>1 DEF Fits
    <2>3. ListReply(r, cur)' = ListReply(r, cur)
      BY <1>1 DEF ListReply
    <2> QED
      BY <1>1, <1>2, <1>4, <2>2, <2>3 DEF IsTold
  <1>5. CASE op = "remove" /\ q = [kind |-> "remove", path |-> cur]
    <2>1. r = Failed \/ r = [kind |-> "remove"]
      <3>1. q.kind = "remove"
        BY <1>5
      <3> QED
        BY <3>1 DEF Fits
    <2> QED
      BY <1>1, <1>2, <1>5, <2>1 DEF IsTold
  <1>6. CASE op = "upload" /\ goto = "none" /\ q.kind \in {"mkdir", "end upload"}
    <2>1. r = Failed \/ r = [kind |-> q.kind]
      BY <1>6 DEF Fits
    <2>2. \A k : [kind |-> k].kind = k
      OBVIOUS
    <2>3. r = Failed \/ r.kind \in {"mkdir", "end upload"}
      BY <1>6, <2>1, <2>2
    <2> QED
      BY <1>1, <1>2, <1>6, <2>3 DEF IsTold
  <1>7. CASE op = "upload" /\ goto = "none" /\ q.kind = "start upload" /\ q.path = cur /\ stream.open
    <2>1. r = Failed \/ (r.kind = "start upload" /\ outputStream'.open /\ outputStream'.path = cur)
      BY <1>7 DEF Fits
    <2> QED
      BY <1>1, <1>2, <1>7, <2>1 DEF IsTold
  <1>8. CASE /\ op = "upload" /\ goto = "none" /\ q.kind = "upload" /\ stream.open
             /\ outputStream.path = cur
    <2>1. r = Failed \/ (r.kind = "upload" /\ outputStream'.open /\ outputStream'.path = cur)
      BY <1>8 DEF Fits
    <2> QED
      BY <1>1, <1>2, <1>8, <2>1 DEF IsTold
  <1>9. CASE op = "download" /\ q.kind = "start download"
    <2>1. r = Failed \/ (r.kind = "start download" /\ inputStream'.open)
      BY <1>9 DEF Fits
    <2> QED
      BY <1>1, <1>2, <1>9, <2>1 DEF IsTold
  <1>10. CASE /\ op = "download" /\ q.kind = "download"
              /\ stream.open /\ stream.path = cur /\ IsFile(local, cur)
    <2>1. \/ r = Failed \/ r.kind = "end download"
          \/ r.kind = "download" /\ r.chunk \in Chunks /\ inputStream'.open
      BY <1>10 DEF Fits
    <2>2. IsFile(local, cur)'
      BY <1>1, <1>10 DEF IsFile
    <2> QED
      BY <1>1, <1>2, <1>10, <2>1, <2>2 DEF IsTold
  <1> QED
    BY <1>3, <1>4, <1>5, <1>6, <1>7, <1>8, <1>9, <1>10 DEF Asks, WalkAsks

\* What a walk asks for does not crash the server.
LEMMA AskedSafely ==
  ASSUME NEW q, Asks(q)
  PROVE  ~Crashes(q)
  <1>1. q.kind # "list" \/ ~Crashes(q)
    BY DEF Crashes
  <1>2. \A p : List(p).kind = "list"
    BY DEF List
  <1>3. CASE WalkAsks(q)
    <2>1. [kind |-> "remove", path |-> cur].kind = "remove"
      OBVIOUS
    <2>2. q.kind \in {"list", "remove"}
      BY <1>2, <1>3, <2>1 DEF WalkAsks
    <2> QED
      BY <1>1, <2>2 DEF Crashes
  <1>4. CASE ~WalkAsks(q) /\ op = "upload"
    BY <1>4 DEF Asks, Crashes
  <1>5. CASE ~WalkAsks(q) /\ op = "download"
    BY <1>1, <1>2, <1>5 DEF Asks, Crashes
  <1> QED
    BY <1>3, <1>4, <1>5 DEF Asks

LEMMA ServeWaiting ==
  ASSUME IInv, ClientTypes, Waiting, requests # <<>>, Answered, UNCHANGED clientVars
  PROVE  Waiting'
  <1>1. PICK q : Asks(q) /\ requests = <<q>> /\ replies = <<>>
    BY DEF Waiting
  <1>2. Head(requests) = q /\ Tail(requests) = <<>>
    BY <1>1, OneElement
  <1>3. PICK r : /\ requests' = <<>> /\ replies' = Append(replies, r)
                 /\ Fits(q, r, outputStream', inputStream')
    BY <1>2 DEF Answered
  <1>4. replies' = <<r>>
    BY <1>1, <1>3, OneElement
  <1>5. IsTold(r)'
    BY <1>1, <1>3, AskedIsTold
  <1>6. UNCHANGED <<state, op, listening, posted, pc, cur, sizesLeft, terminating, goto, nodes>>
    BY DEF clientVars, walkVars, uiVars
  <1> QED
    BY <1>3, <1>4, <1>5, <1>6 DEF Waiting, Walking, Busy, GotoFits, Later

\* The server answers the viewer, and never crashes.
LEMMA ServeInv ==
  ASSUME PInv, Serve
  PROVE  Handle /\ PInv' /\ UNCHANGED crashed
  <1>1. Handle /\ UNCHANGED clientVars
    BY DEF Serve
  <1>2. IInv /\ ClientTypes /\ Phases
    BY DEF PInv
  <1>3. IInv'
    BY <1>1, <1>2, HandleInv
  <1>4. ClientTypes'
    BY <1>1, <1>2
    DEF ClientTypes, DataTypes, clientVars, walkVars, dataVars, uiVars
  <1>5. requests # <<>> /\ (Answered \/ Crashes(Head(requests)))
    BY <1>1, <1>2, HandleAnswers
  <1>6. CASE Sizing
    <2>1. Head(requests).kind = "size"
      <3>1. Head(requests) \in [kind : {"size"}, path : Paths]
        BY <1>5, <1>6, HeadTailProperties DEF Sizing
      <3> QED
        BY <3>1
    <2>2. Answered
      BY <1>5, <2>1 DEF Crashes
    <2>3. Sizing'
      BY <1>1, <1>2, <1>5, <1>6, <2>2, ServeSizing
    <2> QED
      BY <1>1, <1>2, <1>3, <1>4, <2>2, <2>3 DEF PInv, Phases, Answered
  <1>7. CASE Simple
    <2>1. Head(requests).kind = op /\ op \in {"list", "mkdir", "rename"}
      BY <1>5, <1>7, OneElement DEF Simple
    <2>2. Answered
      BY <1>5, <2>1 DEF Crashes
    <2>3. Simple'
      BY <1>1, <1>2, <1>5, <1>7, <2>2, ServeSimple
    <2> QED
      BY <1>1, <1>2, <1>3, <1>4, <2>2, <2>3 DEF PInv, Phases, Answered
  <1>8. CASE Waiting
    <2>1. PICK q : Asks(q) /\ requests = <<q>>
      BY <1>5, <1>8 DEF Waiting
    <2>2. ~Crashes(Head(requests))
      BY <2>1, OneElement, AskedSafely
    <2>3. Answered
      BY <1>5, <2>2
    <2>4. Waiting'
      BY <1>1, <1>2, <1>5, <1>8, <2>3, ServeWaiting
    <2> QED
      BY <1>1, <1>2, <1>3, <1>4, <2>3, <2>4 DEF PInv, Phases, Answered
  <1> QED
    BY <1>2, <1>5, <1>6, <1>7, <1>8
    DEF Phases, Resting, Copying, Cancelled, Finished, Silent

-----------------------------------------------------------------------------
(* The session. *)

LEMMA InitPInv == Init => PInv /\ ~crashed /\ ServerInit /\ remote \in [Paths -> Node]
  <1> SUFFICES ASSUME Init PROVE PInv /\ ~crashed /\ ServerInit /\ remote \in [Paths -> Node]
    OBVIOUS
  <1>1. ServerInit /\ remote \in [Paths -> Node] /\ ~crashed
    BY ClientAssumption DEF Init, ServerInit
  <1>2. IInv
    BY <1>1, InitInv
  <1>3. sizesLeft \in 0..Cardinality(Names)
    <2>1. Cardinality(Names) \in Nat
      BY FinitelyMany, FS_CardinalityType
    <2> QED
      BY <2>1 DEF Init
  <1>4. ClientTypes
    <2>1. Listing(nodes)
      BY DEF Init, Listing
    <2>2. DataTypes
      BY ClientAssumption DEF Init, DataTypes
    <2> QED
      BY <1>3, <2>1, <2>2, ClientAssumption DEF Init, ClientTypes
  <1>5. Resting
    BY DEF Init, ServerInit, Resting, Silent
  <1> QED
    BY <1>1, <1>2, <1>4, <1>5 DEF PInv, Phases

\* One step of the session: the viewer and the server keep the invariant, and the
\* viewer does what any client may do.
LEMMA NextInv ==
  ASSUME PInv, [Next]_vars, CancelAfterSkip = FALSE
  PROVE  PInv' /\ UNCHANGED crashed /\ [ClientActs \/ Handle \/ Disconnect]_serverVars
  <1>1. CASE StartOperation \/ OperationFinished \/ Cancel \/ CopyStep \/ HandleReply
    <2>1. ClientActs /\ PInv'
      BY <1>1, StartOperationInv, OperationFinishedInv, CancelInv, CopyStepInv, HandleReplyInv
    <2> QED
      BY <2>1 DEF ClientActs
  <1>2. CASE CloseSession
    <2>1. Disconnect /\ PInv'
      BY <1>2, CloseSessionInv
    <2> QED
      BY <2>1 DEF Disconnect
  <1>3. CASE Serve
    BY <1>3, ServeInv
  <1>4. CASE UNCHANGED vars
    <2>1. UNCHANGED serverVars /\ UNCHANGED clientVars
      BY <1>4 DEF vars
    <2>2. IInv'
      BY <2>1, StepInv DEF PInv
    <2>3. UNCHANGED <<requests, replies, outputStream, inputStream, crashed>>
      BY <2>1 DEF serverVars, handlerVars
    <2>4. /\ UNCHANGED <<local, remoteFiles, offset, stream>>
          /\ UNCHANGED <<state, listening, op, before, sizesLeft, terminating>>
          /\ UNCHANGED <<cur, nodes, goto, posted, broken, pc, frames>>
      BY <2>1 DEF clientVars, walkVars, dataVars, uiVars
    <2>5. ClientTypes'
      BY <2>4 DEF PInv, ClientTypes, DataTypes
    <2>6. Phases'
      <3>1. \A r : (Asks(r) => Asks(r)') /\ (IsTold(r) => IsTold(r)')
        BY <2>3, <2>4 DEF Asks, IsTold, WalkAsks, ListedFolder
      <3>2. Waiting => Waiting'
        <4>1. Walking /\ (op = "upload" => GotoFits) => Walking' /\ (op' = "upload" => GotoFits')
          BY <2>4 DEF Walking, Busy, GotoFits, Later
        <4>2. (\E r : Asks(r) /\ requests = <<r>> /\ replies = <<>>)
              => (\E r : Asks(r) /\ requests = <<r>> /\ replies = <<>>)'
          BY <2>3, <3>1, Zenon
        <4>3. (\E r : IsTold(r) /\ requests = <<>> /\ replies = <<r>>)
              => (\E r : IsTold(r) /\ requests = <<>> /\ replies = <<r>>)'
          BY <2>3, <3>1, Zenon
        <4> QED
          BY <2>4, <4>1, <4>2, <4>3 DEF Waiting
      <3>3. /\ Resting => Resting'
            /\ Sizing => Sizing'
            /\ Simple => Simple'
            /\ Copying => Copying'
            /\ Cancelled => Cancelled'
            /\ Finished => Finished'
        BY <2>3, <2>4
        DEF Resting, Sizing, Simple, Copying, Cancelled, Finished, Walking, Busy, Silent
      <3> QED
        BY <3>2, <3>3 DEF PInv, Phases
    <2> QED
      BY <2>1, <2>2, <2>3, <2>5, <2>6 DEF PInv
  <1> QED
    BY <1>1, <1>2, <1>3, <1>4 DEF Next

\* The invariant holds in every session.
LEMMA SessionInv == ASSUME CancelAfterSkip = FALSE PROVE Spec => [](PInv /\ ~crashed)
  <1>1. PInv /\ ~crashed /\ [Next]_vars => (PInv /\ ~crashed)'
    BY NextInv
  <1> QED
    BY InitPInv, <1>1, PTL DEF Spec

\* The operation, its place in the tree, its stream and the files of both sides are
\* what they can be: the walk never leaves the tree of the files that were selected.
THEOREM SessionTypes == ASSUME CancelAfterSkip = FALSE PROVE Spec => []TypeOK
  <1>1. PInv => TypeOK
    <2> SUFFICES ASSUME PInv PROVE TypeOK
      OBVIOUS
    <2>1. remote \in [Paths -> Node]
      BY DEF PInv, IInv, Types
    <2>2. cur # NoPath => NameOf(cur) \in nodes[Parent(cur)]
      BY PlacedParent DEF PInv, ClientTypes
    <2> QED
      BY <2>1, <2>2 DEF PInv, ClientTypes, DataTypes, Listing, FileStream, TypeOK
  <1> QED
    BY SessionInv, <1>1, PTL

\* The viewer is one of the clients that the server's promises are made to: what is
\* proved for every client holds of their sessions.
THEOREM ViewerIsAClient == ASSUME CancelAfterSkip = FALSE PROVE Spec => AnyClient
  <1>1. Init => ServerInit /\ remote \in [Paths -> Node]
    BY InitPInv
  <1>2. PInv /\ [Next]_vars => [ClientActs \/ Handle \/ Disconnect]_serverVars
    BY NextInv
  <1> QED
    BY SessionInv, <1>1, <1>2, PTL DEF Spec, AnyClient

\* The viewer's operations and the server's answers fit together to the end: no
\* reply comes when nothing listens, at another place in the tree, or of a kind
\* that the operation does not wait for, whatever fails and however often the user
\* skips and cancels.
THEOREM RepliesMeet ==
  ASSUME CancelAfterSkip = FALSE PROVE Spec => []RepliesMeetTheirOperation
  <1>1. PInv => RepliesMeetTheirOperation
    <2> SUFFICES ASSUME PInv PROVE RepliesMeetTheirOperation
      OBVIOUS
    <2>1. sizesLeft \in Nat
      <3>1. sizesLeft \in 0..Cardinality(Names)
        BY DEF PInv, ClientTypes
      <3> QED
        BY <3>1
    <2>2. CASE Silent
      <3>1. Len(requests) + Len(replies) = 0
        BY <2>2 DEF Silent
      <3> QED
        BY <2>1, <2>2, <3>1 DEF RepliesMeetTheirOperation, Silent
    <2>3. CASE Sizing
      <3>1. Len(requests) + Len(replies) <= IF sizesLeft > 0 THEN sizesLeft ELSE 1
        BY <2>1, <2>3 DEF Sizing
      <3>2. replies # <<>> => Head(replies).kind \in {"size", "failed"}
        <4> SUFFICES ASSUME replies # <<>> PROVE Head(replies).kind \in {"size", "failed"}
          OBVIOUS
        <4>1. Head(replies) \in [kind : {"size", "failed"}]
          BY <2>3, HeadTailProperties DEF Sizing
        <4> QED
          BY <4>1
      <3>3. "size" \in Expected /\ "failed" \in Expected
        <4>1. op = "download" /\ sizesLeft > 0
          BY <2>3 DEF Sizing
        <4> QED
          BY <2>1, <4>1 DEF Expected
      <3> QED
        BY <2>3, <3>1, <3>2, <3>3 DEF RepliesMeetTheirOperation, Sizing, Busy
    <2>4. CASE Simple
      <3>1. PICK r : \/ requests = <<r>> /\ replies = <<>>
                     \/ r.kind \in {op, "failed"} /\ requests = <<>> /\ replies = <<r>>
        BY <2>4 DEF Simple
      <3>2. Len(requests) + Len(replies) = 1
        <4>1. \/ Len(requests) = 1 /\ Len(replies) = 0
              \/ Len(requests) = 0 /\ Len(replies) = 1
          BY <3>1, OneElement, Zenon
        <4>2. \A m, n : (m = 1 /\ n = 0) \/ (m = 0 /\ n = 1) => m + n = 1
          OBVIOUS
        <4> QED
          BY <4>1, <4>2, Zenon
      <3>3. replies # <<>> => Head(replies).kind \in {op, "failed"}
        BY <3>1, OneElement
      <3>4. Expected = {op, "failed"} /\ op \notin Walks
        BY <2>4 DEF Simple, Expected, Walks
      <3> QED
        BY <2>1, <2>4, <3>2, <3>3, <3>4 DEF RepliesMeetTheirOperation, Simple, Busy
    <2>5. CASE Waiting
      <3>1. PICK r : \/ requests = <<r>> /\ replies = <<>>
                     \/ IsTold(r) /\ requests = <<>> /\ replies = <<r>>
        BY <2>5 DEF Waiting
      <3>2. Len(requests) + Len(replies) = 1
        <4>1. \/ Len(requests) = 1 /\ Len(replies) = 0
              \/ Len(requests) = 0 /\ Len(replies) = 1
          BY <3>1, OneElement, Zenon
        <4>2. \A m, n : (m = 1 /\ n = 0) \/ (m = 0 /\ n = 1) => m + n = 1
          OBVIOUS
        <4> QED
          BY <4>1, <4>2, Zenon
      <3>3. sizesLeft = 0 /\ cur # NoPath /\ listening
        BY <2>5 DEF Waiting, Walking, Busy
      <3>4. IsTold(r) => r.kind \in Expected
        <4> SUFFICES ASSUME IsTold(r) PROVE r.kind \in Expected
          OBVIOUS
        <4>1. CASE op = "upload" /\ goto # "none"
          BY <4>1 DEF IsTold, Expected, ListReply
        <4>2. CASE op = "upload" /\ goto = "none"
          BY <4>2 DEF IsTold, Expected, ListReply
        <4>3. CASE op = "download"
          <5>1. r.kind \in {"list", "start download", "download", "end download", "failed"}
            BY <4>3 DEF IsTold, ListReply
          <5>2. Expected = {"list", "start download", "download", "end download", "failed"}
            BY <3>3, <4>3 DEF Expected
          <5> QED
            BY <5>1, <5>2
        <4>4. CASE op = "remove"
          BY <4>4 DEF IsTold, Expected, ListReply
        <4> QED
          BY <2>5, <4>1, <4>2, <4>3, <4>4 DEF Waiting, Walking, Walks
      <3>5. replies # <<>> => Head(replies).kind \in Expected
        BY <3>1, <3>4, OneElement
      <3> QED
        BY <3>2, <3>3, <3>5 DEF RepliesMeetTheirOperation
    <2> QED
      BY <2>2, <2>3, <2>4, <2>5 DEF PInv, Phases, Resting, Copying, Cancelled, Finished
  <1> QED
    BY SessionInv, <1>1, PTL

\* The server never uses a stream that was not opened, although it looks only at
\* the File: the viewer sends no data before the start was answered, and after a
\* failure it goes to another file.
THEOREM StreamsExist == ASSUME CancelAfterSkip = FALSE PROVE Spec => []ServerStreamsExist
  <1>1. PInv /\ ~crashed => ServerStreamsExist
    BY DEF ServerStreamsExist
  <1> QED
    BY SessionInv, <1>1, PTL

-----------------------------------------------------------------------------
(* The viewer's pointers. *)

\* The walk ends the operation, or leaves it.
Ends == broken' = broken \/ broken' = (broken \/ cur = NoPath)

LEMMA WalkEnds ==
  /\ \A nds, p : UploadNext(nds, p) => Ends
  /\ \A nds : DownloadNext(nds) => Ends
  /\ SpecialHandler => Ends
  /\ DeleteNext => Ends
  /\ \A p, nds, forced : RemoveUnlessFolder(p, nds, forced) => Ends
  /\ GotoNext => Ends
  <1>1. \A p, nds : Copy(p, nds) => Ends
    BY DEF Copy, Ends
  <1>2. \A r, p, nds : Await(r, p, nds) => Ends
    BY DEF Await, Ends
  <1>3. \A f : KillOp(f) => Ends
    BY DEF KillOp, Ends
  <1>4. \A nds, p : UploadNext(nds, p) => Ends
    BY <1>1, <1>2, <1>3, Zenon DEF UploadNext
  <1>5. \A nds : DownloadNext(nds) => Ends
    BY <1>1, <1>3, Zenon DEF DownloadNext
  <1>6. SpecialHandler => Ends
    BY <1>1, <1>3, <1>4, Zenon DEF SpecialHandler, UploadEnter
  <1>7. \A p, nds, forced : RemoveUnlessFolder(p, nds, forced) => Ends
    BY <1>2, <1>3, Zenon DEF RemoveUnlessFolder
  <1>8. DeleteNext => Ends
    BY <1>3, <1>7, Zenon DEF DeleteNext
  <1> QED
    BY <1>4, <1>5, <1>6, <1>7, <1>8, Zenon DEF GotoNext

\* No pointer is freed twice by what happens to the operation between two replies.
LEMMA UiSafe ==
  ASSUME PInv, ~broken, stream # Dangling,
         StartOperation \/ OperationFinished \/ Cancel \/ CloseSession
  PROVE  ~broken' /\ stream' # Dangling
  <1>1. NoStream # Dangling
    BY NullAssumption DEF NoStream, Dangling
  <1>2. \A kind : Execute(kind) => ~broken' /\ stream' # Dangling
    BY <1>1 DEF Execute
  <1>3. CASE StartOperation
    BY <1>2, <1>3
    DEF StartOperation, StartUploading, StartDownloading, StartRemoving, StartSimple
  <1>4. CASE OperationFinished
    <2>1. CASE UNCHANGED <<requests, op, stream, broken, terminating>>
      BY <2>1
    <2>2. CASE broken' = (stream = Dangling) /\ stream' = NoStream
      BY <1>1, <2>2
    <2> QED
      BY <1>4, <2>1, <2>2 DEF OperationFinished
  <1>5. CASE CloseSession
    BY <1>1, <1>5 DEF CloseSession
  <1>6. CASE Cancel
    BY <1>6 DEF Cancel, walkVars, dataVars
  <1> QED
    BY <1>3, <1>4, <1>5, <1>6

\* Nor by the copying of a file.
LEMMA CopySafe ==
  ASSUME PInv, ~broken, stream # Dangling, CopyStep, AfterBroken = FALSE
  PROVE  ~broken' /\ stream' # Dangling
  <1>1. NoStream # Dangling /\ \A p, from : OpenStream(p, from) # Dangling
    BY NullAssumption DEF NoStream, Dangling, OpenStream
  <1>2. LeftOver = IF stream = NoStream THEN NoStream ELSE Dangling
    BY DEF LeftOver
  <1>3. (~LeftFile => stream = NoStream) /\ (~LeftStream => stream \in {NoStream, FileOnly})
    BY DEF LeftFile, LeftStream
  <1>4. pc = "copy" \/ (pc = "unwind" /\ terminating) => cur # NoPath
    BY DEF PInv, Phases, Resting, Sizing, Simple, Waiting, Copying, Cancelled, Finished, Walking
  <1>5. Ends /\ pc = "copy" => ~broken'
    BY <1>4 DEF Ends
  <1>6. CASE CopyTerminates \/ Unwind
    BY <1>4, <1>6 DEF CopyTerminates, Unwind, Working, KillOp, dataVars
  <1>7. CASE UploadFolder \/ DownloadFolder \/ DownloadFolderFails \/ DownloadFile
    <2>1. pc = "copy" /\ stream' = stream
      BY <1>7 DEF UploadFolder, DownloadFolder, DownloadFolderFails, DownloadFile,
                  FileToCopy, Working, dataVars
    <2>2. Ends
      <3>1. \A r, p, nds : Await(r, p, nds) => Ends
        BY DEF Await, Ends
      <3> QED
        BY <1>7, <3>1, WalkEnds, Zenon
        DEF UploadFolder, DownloadFolder, DownloadFolderFails, DownloadFile
    <2> QED
      BY <1>5, <2>1, <2>2
  <1>8. CASE UploadFile
    BY <1>1, <1>8 DEF UploadFile, CleanUp
  <1>9. CASE UploadFileFails
    <2>1. /\ pc = "copy" /\ Ends
          /\ \/ ~LeftStream /\ stream' = IF stream \in {NoStream, FileOnly} THEN FileOnly ELSE Dangling
             \/ stream' = OpenStream(cur, 0)
      BY <1>9, WalkEnds DEF UploadFileFails, CannotOpen, CannotSeek, FileToCopy, Working
    <2>2. FileOnly # Dangling
      BY DEF FileOnly, Dangling
    <2> QED
      BY <1>1, <1>3, <1>5, <2>1, <2>2
  <1>10. CASE SkipFile
    <2>1. pc = "copy" /\ stream' = (IF op = "upload" THEN LeftOver ELSE stream) /\ Ends
          /\ (op = "upload" => ~LeftFile)
      BY <1>10, WalkEnds DEF SkipFile, FileToCopy, Working, MayAnswer
    <2> QED
      BY <1>1, <1>2, <1>3, <1>5, <2>1
  <1>11. CASE CancelAtFile
    <2>1. /\ broken' = (broken \/ (op = "upload" /\ stream = Dangling))
          /\ stream' = (IF op = "upload" THEN LeftOver ELSE stream)
          /\ op = "upload" => ~LeftFile
      BY <1>11 DEF CancelAtFile, CleanUpFirst, MayAnswer
    <2> QED
      BY <1>1, <1>2, <1>3, <2>1
  <1> QED
    BY <1>6, <1>7, <1>8, <1>9, <1>10, <1>11 DEF CopyStep

\* Nor by a reply.
LEMMA ReplySafe ==
  ASSUME PInv, ~broken, stream # Dangling, HandleReply, AfterBroken = FALSE
  PROVE  ~broken' /\ stream' # Dangling
  <1>1. NoStream # Dangling /\ \A p, from : OpenStream(p, from) # Dangling
    BY NullAssumption DEF NoStream, Dangling, OpenStream
  <1>2. \A o, kind : GotFor(o, kind) => cur # NoPath
    BY DEF GotFor
  <1>3. cur # NoPath /\ Ends => ~broken'
    BY DEF Ends
  <1>4. \A r, p, nds : Await(r, p, nds) => Ends
    BY DEF Await, Ends
  <1>5. \A p, nds : Copy(p, nds) => Ends
    BY DEF Copy, Ends
  <1>6. CASE UploadListed \/ UploadRequestFailed \/ FolderMade \/ TransferTerminates
             \/ DownloadListed \/ DownloadRequestFailed \/ DownloadChunkFails
             \/ RemoveListed \/ FileRemoved \/ RemoveFailed
    <2>1. Ends
      BY <1>6, WalkEnds, Zenon
      DEF UploadListed, UploadRequestFailed, FolderMade, TransferTerminates, DownloadListed,
          DownloadRequestFailed, DownloadChunkFails, RemoveListed, FileRemoved, RemoveFailed
    <2>2. cur # NoPath
      BY <1>2, <1>6, Zenon
      DEF UploadListed, UploadRequestFailed, FolderMade, TransferTerminates, DownloadListed,
          DownloadRequestFailed, DownloadChunkFails, RemoveListed, FileRemoved, RemoveFailed
    <2>3. stream' = stream
      BY <1>6
      DEF UploadListed, UploadRequestFailed, FolderMade, TransferTerminates, DownloadListed,
          DownloadRequestFailed, DownloadChunkFails, RemoveListed, FileRemoved, RemoveFailed,
          Quiet, dataVars
    <2> QED
      BY <1>3, <2>1, <2>2, <2>3
  <1>7. CASE UploadEnded \/ DownloadEnded
    BY <1>1, <1>2, <1>3, <1>7, WalkEnds DEF UploadEnded, DownloadEnded
  <1>8. CASE SendFileDataChunk
    <2>1. PICK kind \in {"start upload", "upload"} : GotFor("upload", kind)
      BY <1>8 DEF SendFileDataChunk
    <2>2. IsTold(Head(replies)) /\ Head(replies).kind = kind /\ op = "upload"
      BY <2>1, ToldFacts DEF Walks
    <2>3. stream.open
      BY <2>2 DEF IsTold, ListReply
    <2>4. stream.path \in Paths /\ stream \in FileStream
      BY <2>3, OpenIsFileStream
    <2>5. Ends /\ cur # NoPath
      BY <1>2, <1>4, <1>8, <2>1, WalkEnds, Zenon DEF SendFileDataChunk, NextChunk
    <2>6. \/ stream' = [stream EXCEPT !.pos = @ + 1]
          \/ stream' = [stream EXCEPT !.open = FALSE]
          \/ stream' = stream
      BY <1>8 DEF SendFileDataChunk, NextChunk, Closed
    <2>7. stream'.path = stream.path
      BY <2>4, <2>6 DEF FileStream
    <2>8. Dangling.path = <<>> /\ <<>> \notin Paths
      BY PathIsSeq DEF Dangling
    <2> QED
      BY <1>3, <2>4, <2>5, <2>7, <2>8
  <1>9. CASE SizeCalculated
    BY <1>9 DEF SizeCalculated, Copy, Quiet, walkVars, dataVars
  <1>10. CASE DownloadStarted
    BY <1>1, <1>10 DEF DownloadStarted, CleanUp
  <1>11. CASE DownloadStartFails
    <2>1. stream' = LeftOver /\ ~LeftFile /\ Ends /\ cur # NoPath
      BY <1>2, <1>11, WalkEnds DEF DownloadStartFails
    <2> QED
      BY <1>1, <1>3, <2>1 DEF LeftOver, LeftFile
  <1>12. CASE DownloadChunk
    <2>1. GotFor("download", "download") /\ broken' = broken
          /\ stream' = [stream EXCEPT !.pos = @ + 1]
      BY <1>12 DEF DownloadChunk, Await
    <2>2. IsTold(Head(replies)) /\ Head(replies).kind = "download" /\ op = "download"
      BY <2>1, ToldFacts DEF Walks
    <2>3. stream.open
      BY <2>2 DEF IsTold, ListReply
    <2>4. stream.path \in Paths /\ stream \in FileStream
      BY <2>3, OpenIsFileStream
    <2>5. stream'.path = stream.path
      BY <2>1, <2>4 DEF FileStream
    <2>6. Dangling.path = <<>> /\ <<>> \notin Paths
      BY PathIsSeq DEF Dangling
    <2> QED
      BY <2>1, <2>4, <2>5, <2>6
  <1>13. CASE SimpleEnds
    BY <1>13 DEF SimpleEnds, Quiet, dataVars
  <1> QED
    BY <1>6, <1>7, <1>8, <1>9, <1>10, <1>11, <1>12, <1>13, Zenon DEF HandleReply

\* The operation's list is freed once and no stream is used after it was deleted,
\* whatever fails, however the files collide, as long as the user does not go on to
\* another file right after a transfer was broken off.
THEOREM NothingFreed ==
  ASSUME CancelAfterSkip = FALSE, AfterBroken = FALSE
  PROVE  Spec => []NothingFreedIsUsed
  <1> DEFINE Safe == ~broken /\ stream # Dangling
  <1>1. Init => Safe
    BY NullAssumption DEF Init, NoStream, Dangling
  <1>2. PInv /\ Safe /\ [Next]_vars => Safe'
    <2> SUFFICES ASSUME PInv, Safe, [Next]_vars PROVE Safe'
      OBVIOUS
    <2>1. CASE StartOperation \/ OperationFinished \/ Cancel \/ CloseSession
      BY <2>1, UiSafe
    <2>2. CASE CopyStep
      BY <2>2, CopySafe
    <2>3. CASE HandleReply
      BY <2>3, ReplySafe
    <2>4. CASE Serve \/ UNCHANGED vars
      BY <2>4 DEF Serve, vars, clientVars, walkVars, dataVars
    <2> QED
      BY <2>1, <2>2, <2>3, <2>4 DEF Next
  <1>3. Safe => NothingFreedIsUsed
    BY DEF NothingFreedIsUsed
  <1> QED
    BY SessionInv, <1>1, <1>2, <1>3, PTL DEF Spec

-----------------------------------------------------------------------------
(* The files that were there before. *)

\* The operation may change what was no file, what the user was asked about, and
\* what the server refused to list.
MayChange(p) == p \in asked \/ ~IsFile(before, p) \/ Parent(p) \in unlisted
Kept == \A p \in Paths : MayChange(p) \/ Target[p] = before[p]

\* A listing that leaves out no file in F that may not be changed.
Knows(names, F) ==
  \A n \in Names : Append(F, n) \in Paths => n \in names \/ MayChange(Append(F, n))

\* A file is being copied: the user has decided about it.
Chosen ==
  \/ /\ requests # <<>>
     /\ Head(requests).kind \in {"start upload", "upload", "end upload",
                                 "start download", "download"}
  \/ /\ replies # <<>>
     /\ Head(replies).kind \in {"start upload", "upload", "start download", "download"}

\* Whether the user is asked depends on the listing of the folder the file goes
\* to, which was asked for when the walk entered it.
Careful ==
  /\ op \in {"upload", "download"} => Kept
  /\ op = "upload" /\ cur # NoPath /\ goto = "none" =>
       Knows(DOMAIN remoteFiles, Parent(cur))
  /\ op = "upload" /\ cur # NoPath /\ goto # "none"
     /\ replies # <<>> /\ Head(replies).kind = "list" =>
       Knows(DOMAIN Head(replies).sizes, ListedFolder)
  /\ op \in {"upload", "download"} /\ cur # NoPath /\ Chosen => MayChange(cur)

\* While an operation lasts, it may change ever more.
Grows == UNCHANGED <<op, before>> /\ asked \subseteq asked' /\ unlisted \subseteq unlisted'

LEMMA StillMay ==
  ASSUME Grows
  PROVE  /\ \A p : MayChange(p) => MayChange(p)'
         /\ \A names, F : Knows(names, F) => Knows(names, F)'
  <1>1. \A p : MayChange(p) => MayChange(p)'
    BY DEF Grows, MayChange, IsFile
  <1> QED
    BY <1>1, Zenon DEF Knows

\* A transfer is at its place, or does nothing.
LEMMA CarefulOther ==
  ASSUME op' \notin {"upload", "download"}
  PROVE  Careful'
  BY DEF Careful

LEMMA CarefulEnds ==
  ASSUME cur' = NoPath, op' \in {"upload", "download"} => Kept'
  PROVE  Careful'
  BY DEF Careful

\* It asks for something.
LEMMA CarefulAsks ==
  ASSUME Kept', replies' = <<>>, NEW r, requests' = <<r>>,
         op' = "upload" /\ goto' = "none" => Knows(DOMAIN remoteFiles, Parent(cur))',
         r.kind \in {"start upload", "upload", "end upload", "start download", "download"}
           => MayChange(cur)'
  PROVE  Careful'
  <1>1. Chosen' => MayChange(cur)'
    <2>1. Head(requests') = r
      BY OneElement
    <2> QED
      BY <2>1 DEF Chosen
  <1> QED
    BY <1>1 DEF Careful

\* The walk goes on.
LEMMA CarefulGoes ==
  ASSUME op \in {"upload", "download"}, op' = op, Kept', requests = <<>>, replies' = <<>>,
         NEW F, Goes(F), op = "upload" => Knows(DOMAIN remoteFiles, F)'
  PROVE  Careful'
  <1>1. CASE op # "download" /\ \E r \in Request : requests' = <<r>> /\ WalkAsks(r)'
    <2>1. PICK r \in Request : requests' = <<r>> /\ WalkAsks(r)'
      BY <1>1
    <2>2. goto' # "none" /\ r.kind = "list"
      BY <1>1, <2>1 DEF WalkAsks, List
    <2> QED
      BY <2>1, <2>2, CarefulAsks
  <1>2. CASE goto' = "none" /\ (op = "upload" => Parent(cur') = F) /\ UNCHANGED requests
    <2>1. op = "upload" => Knows(DOMAIN remoteFiles, Parent(cur))'
      BY <1>2 DEF Knows
    <2>2. ~Chosen'
      BY <1>2 DEF Chosen
    <2> QED
      BY <1>2, <2>1, <2>2 DEF Careful
  <1>3. CASE cur' = NoPath
    BY <1>3, CarefulEnds
  <1> QED
    BY <1>1, <1>2, <1>3, Zenon DEF Goes

\* Nothing on the target's side changes.
LEMMA KeptSame ==
  ASSUME Careful, Grows, UNCHANGED <<local, remote>>
  PROVE  op \in {"upload", "download"} => Kept'
  <1> SUFFICES ASSUME op \in {"upload", "download"} PROVE Kept'
    OBVIOUS
  <1>1. Target' = Target /\ before' = before
    BY DEF Target, Grows
  <1>2. Kept
    BY DEF Careful
  <1> QED
    BY <1>1, <1>2, StillMay DEF Kept

\* One file changes there.
LEMMA KeptBut ==
  ASSUME Careful, Grows, op \in {"upload", "download"}, NEW c, MayChange(c)',
         \A p \in Paths : p = c \/ Target'[p] = Target[p]
  PROVE  Kept'
  <1>1. before' = before
    BY DEF Grows
  <1>2. Kept
    BY DEF Careful
  <1> QED
    BY <1>1, <1>2, StillMay DEF Kept

\* The listing that is held is that of the folder the walk is in.
LEMMA KnowsSame ==
  ASSUME Grows, UNCHANGED <<cur, remoteFiles>>, Knows(DOMAIN remoteFiles, Parent(cur))
  PROVE  Knows(DOMAIN remoteFiles, Parent(cur))'
  <1>1. PICK F : F = Parent(cur)
    OBVIOUS
  <1>2. PICK names : names = DOMAIN remoteFiles
    OBVIOUS
  <1>3. Knows(names, F)'
    BY <1>1, <1>2, StillMay
  <1> QED
    BY <1>1, <1>2, <1>3 DEF Knows

\* What is not there was no file, or may be changed.
LEMMA NothingThere ==
  ASSUME Careful, op \in {"upload", "download"}, NEW p \in Paths, ~IsFile(Target, p)
  PROVE  MayChange(p)
  BY DEF Careful, Kept, MayChange, IsFile

\* Nothing has happened.
LEMMA CarefulSame ==
  ASSUME Careful, UNCHANGED <<op, before, asked, unlisted, local, remote, remoteFiles, cur, goto,
                              requests, replies>>
  PROVE  Careful'
  <1>1. \A p : MayChange(p)' = MayChange(p)
    BY DEF MayChange, IsFile
  <1>2. Target' = Target /\ before' = before /\ ListedFolder' = ListedFolder
    BY DEF Target, ListedFolder
  <1>3. Kept' = Kept
    BY <1>1, <1>2 DEF Kept
  <1>4. Knows(DOMAIN remoteFiles, Parent(cur))' = Knows(DOMAIN remoteFiles, Parent(cur))
    BY <1>1 DEF Knows
  <1>5. Knows(DOMAIN Head(replies).sizes, ListedFolder)'
          = Knows(DOMAIN Head(replies).sizes, ListedFolder)
    BY <1>1, <1>2 DEF Knows
  <1>6. Chosen' = Chosen /\ MayChange(cur)' = MayChange(cur)
    BY <1>1 DEF Chosen, MayChange, IsFile
  <1> QED
    BY <1>3, <1>4, <1>5, <1>6 DEF Careful

\* Nothing is being copied while the sizes are asked for, and before a file is.
LEMMA NotChosen ==
  ASSUME PInv', (op' = "download" /\ sizesLeft' # 0) \/ pc' = "copy"
  PROVE  ~Chosen'
  <1>1. CASE op' = "download" /\ sizesLeft' # 0
    <2>1. Sizing' \/ Silent'
      BY <1>1 DEF PInv, Phases, Resting, Simple, Waiting, Copying, Cancelled, Finished, Walking
    <2>2. CASE Sizing'
      <3>1. requests' # <<>> => Head(requests') \in [kind : {"size"}, path : Paths]
        BY <2>2, HeadTailProperties DEF Sizing
      <3>2. replies' # <<>> => Head(replies') \in [kind : {"size", "failed"}]
        BY <2>2, HeadTailProperties DEF Sizing
      <3> QED
        BY <3>1, <3>2 DEF Chosen
    <2> QED
      BY <2>1, <2>2 DEF Silent, Chosen
  <1>2. CASE pc' = "copy"
    <2>1. Silent'
      BY <1>2 DEF PInv, Phases, Resting, Sizing, Simple, Waiting, Copying, Cancelled, Finished
    <2> QED
      BY <2>1 DEF Silent, Chosen
  <1> QED
    BY <1>1, <1>2

-----------------------------------------------------------------------------

\* The user interface's thread starts afresh.
LEMMA UiCareful ==
  ASSUME PInv, Careful, StartOperation \/ OperationFinished \/ Cancel \/ CloseSession,
         CancelAfterSkip = FALSE
  PROVE  Careful'
  <1>1. \A kind : Execute(kind) => /\ op' = kind /\ local' = local /\ remote' = remote
                                   /\ replies' = replies
    BY DEF Execute, server
  <1>2. ASSUME NEW names, state = "nothing", StartUploading(names)
        PROVE  Careful'
    <2>1. /\ op' = "upload" /\ before' = remote /\ remote' = remote /\ replies' = replies
          /\ goto' = "first" /\ requests' = Append(requests, List(<<>>))
      BY <1>1, <1>2 DEF StartUploading
    <2>2. requests' = <<List(<<>>)>> /\ replies' = <<>>
      BY <1>2, <2>1, RestingFacts, OneElement
    <2>3. Kept'
      BY <2>1 DEF Kept, Target
    <2> QED
      BY <2>1, <2>2, <2>3, CarefulAsks DEF List
  <1>3. ASSUME NEW names, names # {}, state = "nothing", StartDownloading(names)
        PROVE  Careful'
    <2>1. op' = "download" /\ before' = local /\ local' = local
      BY <1>1, <1>3 DEF StartDownloading
    <2>2. Kept'
      BY <2>1 DEF Kept, Target
    <2>3. ~Chosen'
      <3>1. PInv'
        BY <1>3, StartDownloadingInv
      <3>2. sizesLeft' # 0 \/ pc' = "copy"
        BY <1>3 DEF StartDownloading
      <3> QED
        BY <2>1, <3>1, <3>2, NotChosen
    <2> QED
      BY <2>1, <2>2, <2>3 DEF Careful
  <1>4. CASE StartOperation
    <2>1. PICK o \in Operations :
            \/ o.kind = "upload" /\ StartUploading(o.names)
            \/ o.kind = "download" /\ StartDownloading(o.names)
            \/ o.kind = "remove" /\ StartRemoving(o.names)
            \/ o.kind \in {"mkdir", "rename"} /\ StartSimple(o)
      BY <1>4 DEF StartOperation
    <2>2. state = "nothing"
      BY <1>4 DEF StartOperation
    <2>3. CASE StartRemoving(o.names) \/ (o.kind \in {"mkdir", "rename"} /\ StartSimple(o))
      <3>1. op' \notin {"upload", "download"}
        BY <1>1, <2>3 DEF StartRemoving, StartSimple
      <3> QED
        BY <3>1, CarefulOther
    <2>4. o.kind = "download" => o.names # {}
      BY OperationsAssumption
    <2> QED
      BY <1>2, <1>3, <2>1, <2>2, <2>3, <2>4
  <1>5. CASE OperationFinished
    <2>1. cur = NoPath
      <3>1. posted # 0
        BY <1>5 DEF OperationFinished
      <3> QED
        BY <3>1
        DEF PInv, Phases, Resting, Sizing, Simple, Waiting, Copying, Cancelled, Finished,
            Walking, Busy
    <2>2. cur' = NoPath /\ (op' = "list" \/ op' = op)
          /\ UNCHANGED <<local, remote, before, asked, unlisted>>
      BY <1>5, <2>1 DEF OperationFinished, server, historyVars
    <2>3. op' = op => Grows
      BY <2>2 DEF Grows
    <2> QED
      BY <2>2, <2>3, CarefulOther, CarefulEnds, KeptSame
  <1>6. CASE CloseSession
    <2>1. op' = "none"
      BY <1>6 DEF CloseSession
    <2> QED
      BY <2>1, CarefulOther
  <1>7. CASE Cancel
    <2>1. UNCHANGED <<op, before, asked, unlisted, local, remote, remoteFiles, cur, goto,
                      requests, replies>>
      BY <1>7 DEF Cancel, serverVars, walkVars, dataVars, uiVars, historyVars
    <2> QED
      BY <2>1, CarefulSame
  <1> QED
    BY <1>4, <1>5, <1>6, <1>7

\* Copying: a file that may not be changed is in the listing, and the user is asked.
LEMMA CopyCareful ==
  ASSUME PInv, Careful, CopyStep, CancelAfterSkip = FALSE
  PROVE  Careful'
  <1>1. ASSUME Working
        PROVE  /\ requests = <<>> /\ replies = <<>> /\ cur \in Paths /\ cur # NoPath
               /\ Listing(nodes) /\ Placed(nodes, cur) /\ goto = "none"
               /\ op \in {"upload", "download"} /\ Kept
               /\ op = "upload" => Knows(DOMAIN remoteFiles, Parent(cur))
    BY <1>1, WorkingFacts, NullAssumption DEF Careful
  <1>2. CASE CopyTerminates
    <2>1. cur' = NoPath /\ Grows /\ UNCHANGED <<local, remote>> /\ op' = op
      BY <1>2 DEF CopyTerminates, KillOp, server, dataVars, uiVars, historyVars, Grows
    <2> QED
      BY <2>1, CarefulEnds, KeptSame
  <1>3. CASE Unwind
    <2>1. CASE KillOp(frames - 1)
      <3>1. cur' = NoPath /\ Grows /\ UNCHANGED <<local, remote>> /\ op' = op
        BY <1>3, <2>1 DEF Unwind, KillOp, server, dataVars, uiVars, historyVars, Grows
      <3> QED
        BY <3>1, CarefulEnds, KeptSame
    <2>2. CASE UNCHANGED <<cur, nodes, goto, posted, broken, requests>>
      <3>1. UNCHANGED <<op, before, asked, unlisted, local, remote, remoteFiles, cur, goto,
                        requests, replies>>
        BY <1>3, <2>2 DEF Unwind, server, dataVars, uiVars, historyVars
      <3> QED
        BY <3>1, CarefulSame
    <2> QED
      BY <1>3, <2>1, <2>2 DEF Unwind
  <1>4. CASE UploadFolder
    <2>1. /\ Working /\ op = "upload" /\ Grows /\ UNCHANGED <<local, remote, remoteFiles, replies>>
      BY <1>4 DEF UploadFolder, Grows, uiVars, dataVars
    <2>2. UNCHANGED <<cur, op>>
          /\ requests' = Append(requests, [kind |-> "mkdir", path |-> cur])
      BY <1>4 DEF UploadFolder, Await, uiVars
    <2>3. PICK r : r.kind = "mkdir" /\ requests' = <<r>>
      BY <1>1, <2>1, <2>2, OneElement
    <2>4. Knows(DOMAIN remoteFiles, Parent(cur))'
      BY <1>1, <2>1, <2>2, KnowsSame
    <2> QED
      BY <1>1, <2>1, <2>3, <2>4, KeptSame, CarefulAsks
  <1>5. ASSUME Working, Grows, UNCHANGED <<local, remote, remoteFiles, replies>>,
               Goes(Parent(cur))
        PROVE  Careful'
    <2>1. PICK F : F = Parent(cur)
      OBVIOUS
    <2>2. Goes(F)
      BY <1>5, <2>1
    <2>3. op = "upload" => Knows(DOMAIN remoteFiles, F)'
      <3>1. PICK names : names = DOMAIN remoteFiles
        OBVIOUS
      <3>2. op = "upload" => Knows(names, F)'
        BY <1>1, <1>5, <2>1, <3>1, StillMay
      <3> QED
        BY <1>5, <3>1, <3>2 DEF Knows
    <2>4. op' = op
      BY <1>5 DEF Grows
    <2> QED
      BY <1>1, <1>5, <2>2, <2>3, <2>4, KeptSame, CarefulGoes
  <1>6. CASE SkipFile
    <2>1. Working /\ Grows /\ UNCHANGED <<local, remote, remoteFiles, replies>> /\ GotoNext
          /\ op' = op
      BY <1>6 DEF SkipFile, FileToCopy, Grows, uiVars, server
    <2>2. Goes(Parent(cur))
      BY <1>1, <2>1, GotoNextGoes
    <2> QED
      BY <1>5, <2>1, <2>2
  <1>7. CASE CancelAtFile
    <2>1. /\ Working /\ Grows /\ UNCHANGED <<local, remote, remoteFiles, replies, requests>>
          /\ UNCHANGED <<cur, goto, op>>
      BY <1>7 DEF CancelAtFile, FileToCopy, Grows, uiVars, serverVars
    <2>2. op = "upload" => Knows(DOMAIN remoteFiles, Parent(cur))'
      BY <1>1, <2>1, KnowsSame
    <2>3. ~Chosen'
      BY <1>1, <2>1 DEF Chosen
    <2> QED
      BY <1>1, <2>1, <2>2, <2>3, KeptSame DEF Careful
  <1>8. ASSUME FileToCopy, NEW from, MayCopyFrom(from), UNCHANGED <<op, before, unlisted, cur>>
        PROVE  Grows /\ MayChange(cur)'
    <2>1. Grows
      BY <1>8 DEF Grows, MayCopyFrom
    <2>2. Working
      BY <1>8 DEF FileToCopy
    <2>3. CASE asked' = asked \cup {cur}
      BY <1>8, <2>1, <2>3 DEF MayChange
    <2>4. CASE ~Collides
      <3>1. CASE op = "upload"
        <4>1. NameOf(cur) \notin DOMAIN remoteFiles
          BY <2>4, <3>1 DEF Collides
        <4>2. NameOf(cur) \in Names /\ Append(Parent(cur), NameOf(cur)) = cur
          BY <1>1, <2>2, ParentFacts
        <4>3. MayChange(cur)
          BY <1>1, <2>2, <3>1, <4>1, <4>2 DEF Knows
        <4> QED
          BY <1>8, <2>1, <4>3 DEF Grows, MayChange, IsFile
      <3>2. CASE op = "download"
        <4>1. ~IsFile(Target, cur)
          BY <2>4, <3>2 DEF Collides, Target, Exists, IsFile
        <4>2. MayChange(cur)
          BY <1>1, <2>2, <4>1, NothingThere
        <4> QED
          BY <1>8, <2>1, <4>2 DEF Grows, MayChange, IsFile
      <3> QED
        BY <1>1, <2>2, <3>1, <3>2
    <2> QED
      BY <1>8, <2>1, <2>3, <2>4 DEF MayCopyFrom
  <1>9. CASE UploadFile
    <2>1. PICK from \in Offsets :
            /\ MayCopyFrom(from)
            /\ requests' = Append(requests, [kind |-> "start upload", path |-> cur,
                                             overwrite |-> from = 0, offset |-> from])
      BY <1>9 DEF UploadFile
    <2>2. /\ FileToCopy /\ Working /\ UNCHANGED <<op, before, unlisted, cur, goto>>
          /\ UNCHANGED <<local, remote, remoteFiles, replies>>
      BY <1>9 DEF UploadFile, FileToCopy, uiVars, server
    <2>3. Grows /\ MayChange(cur)'
      BY <1>8, <2>1, <2>2
    <2>4. PICK r : requests' = <<r>>
      BY <1>1, <2>1, <2>2, OneElement
    <2>5. op = "upload" => Knows(DOMAIN remoteFiles, Parent(cur))'
      BY <1>1, <2>2, <2>3, KnowsSame
    <2> QED
      BY <1>1, <2>2, <2>3, <2>4, <2>5, KeptSame, CarefulAsks
  <1>10. CASE UploadFileFails
    <2>1. Working /\ Grows /\ UNCHANGED <<local, remote, remoteFiles, replies>>
          /\ op = "upload" /\ UploadNext(nodes, cur) /\ op' = op
      BY <1>10 DEF UploadFileFails, FileToCopy, Grows, uiVars
    <2>2. Goes(Parent(cur))
      BY <1>1, <2>1, UploadNextGoes
    <2> QED
      BY <1>5, <2>1, <2>2
  <1>11. CASE DownloadFolder
    <2>1. /\ Working /\ op = "download" /\ Grows /\ op' = op /\ cur' = cur /\ replies' = replies
          /\ requests' = Append(requests, List(cur))
          /\ local' = IF IsFolder(local, cur) THEN local ELSE [local EXCEPT ![cur] = Folder]
          /\ IsFolder(local, cur) \/ CanCreate(local, cur)
      BY <1>11 DEF DownloadFolder, Grows, uiVars, historyVars, server, Await
    <2>2. MayChange(cur)
      <3>1. ~IsFile(Target, cur)
        BY <1>1, <2>1, PathIsSeq DEF Target, IsFolder, CanCreate, Exists, IsFile
      <3> QED
        BY <1>1, <2>1, <3>1, NothingThere
    <2>3. PICK c : c = cur
      OBVIOUS
    <2>4. \A p \in Paths : p = c \/ local'[p] = local[p]
      BY <2>1, <2>3 DEF PInv, ClientTypes, DataTypes
    <2>5. Kept'
      <3>1. MayChange(c)'
        BY <2>1, <2>2, <2>3, StillMay
      <3>2. \A p \in Paths : p = c \/ Target'[p] = Target[p]
        BY <2>1, <2>4 DEF Target
      <3> QED
        BY <2>1, <3>1, <3>2, KeptBut
    <2>6. requests' = <<List(cur)>> /\ List(cur).kind = "list"
      BY <1>1, <2>1, OneElement DEF List
    <2> QED
      BY <1>1, <2>1, <2>5, <2>6, CarefulAsks
  <1>12. CASE DownloadFolderFails
    <2>1. Working /\ Grows /\ UNCHANGED <<local, remote, remoteFiles, replies>>
          /\ op = "download" /\ DownloadNext(nodes)
      BY <1>12 DEF DownloadFolderFails, Grows, uiVars, dataVars
    <2>2. Goes(Parent(cur))
      BY <1>1, <2>1, DownloadNextGoes
    <2> QED
      BY <1>5, <2>1, <2>2
  <1>13. CASE DownloadFile
    <2>1. PICK from \in Offsets :
            /\ MayCopyFrom(from)
            /\ requests' = Append(requests, [kind |-> "start download", path |-> cur,
                                             offset |-> from])
      BY <1>13 DEF DownloadFile, Await
    <2>2. /\ FileToCopy /\ Working /\ op = "download" /\ UNCHANGED <<op, before, unlisted, cur>>
          /\ UNCHANGED <<local, remote, replies>>
      BY <1>13 DEF DownloadFile, FileToCopy, uiVars, server, Await
    <2>3. Grows /\ MayChange(cur)'
      BY <1>8, <2>1, <2>2
    <2>4. PICK r : requests' = <<r>>
      BY <1>1, <2>1, <2>2, OneElement
    <2> QED
      BY <1>1, <2>2, <2>3, <2>4, KeptSame, CarefulAsks
  <1> QED
    BY <1>2, <1>3, <1>4, <1>6, <1>7, <1>9, <1>10, <1>11, <1>12, <1>13 DEF CopyStep

\* A reply, when the walk goes on by it: it does so in a folder whose listing is held.
LEMMA ReplyGoesCareful ==
  ASSUME PInv, Careful, NEW o \in {"upload", "download"}, NEW kind, GotFor(o, kind),
         kind \notin {"size", "failed"} \/ o # "download" \/ sizesLeft = 0,
         Grows, Kept', goto = "none" \/ o = "download",
         UNCHANGED remoteFiles, Goes(Parent(cur))
  PROVE  Careful'
  <1>1. Free /\ op = o /\ replies' = <<>> /\ op' = op /\ requests = <<>> /\ cur # NoPath
    BY ToldFacts DEF Walks, Grows, Free, GotFor
  <1>2. PICK F : F = Parent(cur)
    OBVIOUS
  <1>3. Goes(F)
    BY <1>2
  <1>4. op = "upload" => Knows(DOMAIN remoteFiles, F)'
    <2>1. PICK names : names = DOMAIN remoteFiles
      OBVIOUS
    <2>2. op = "upload" => Knows(names, F)'
      BY <1>1, <1>2, <2>1, StillMay DEF Careful
    <2> QED
      BY <2>1, <2>2 DEF Knows
  <1> QED
    BY <1>1, <1>3, <1>4, CarefulGoes

\* The folder that was asked for is in the tree.
LEMMA ListedFolderIn ==
  ASSUME cur \in Paths, GotoFits, goto \in {"first", "child", "parent"}
  PROVE  ListedFolder \in Paths \cup {<<>>}
  <1>1. CASE goto = "parent"
    <2>1. Parent(cur) \in Paths
      BY <1>1, ParentFacts DEF GotoFits
    <2> QED
      BY <1>1, <2>1, ParentFacts DEF ListedFolder
  <1> QED
    BY <1>1 DEF ListedFolder

LEMMA UploadReplyCareful ==
  ASSUME PInv, Careful,
         UploadListed \/ UploadRequestFailed \/ FolderMade \/ SendFileDataChunk \/ UploadEnded
  PROVE  Careful'
  <1>1. ASSUME NEW kind, GotFor("upload", kind)
        PROVE  /\ Free /\ op = "upload" /\ requests = <<>> /\ replies' = <<>> /\ cur # NoPath
               /\ IsTold(Head(replies)) /\ Head(replies).kind = kind /\ replies # <<>>
               /\ cur \in Paths /\ Listing(nodes) /\ Placed(nodes, cur) /\ GotoFits
               /\ goto \in {"none", "first", "child", "parent"}
               /\ remote' = remote
    BY <1>1, ToldFacts DEF Walks, Free, GotFor
  <1>2. CASE UploadListed
    <2>1. /\ GotFor("upload", "list") /\ SpecialHandler /\ remoteFiles' = Head(replies).sizes
          /\ Grows /\ local' = local /\ op' = op
      BY <1>2 DEF UploadListed, Grows, uiVars, historyVars
    <2>2. goto # "none"
      <3>1. IsTold(Head(replies)) /\ Head(replies).kind = "list" /\ op = "upload"
        BY <1>1, <2>1
      <3> QED
        BY <3>1 DEF IsTold
    <2>3. PICK F : F = ListedFolder
      OBVIOUS
    <2>4. PICK names : names = DOMAIN Head(replies).sizes
      OBVIOUS
    <2>5. Goes(ListedFolder)
      BY <1>1, <2>1, SpecialHandlerGoes
    <2>6. Goes(F)
      BY <2>3, <2>5
    <2>7. Knows(names, F)'
      BY <1>1, <2>1, <2>2, <2>3, <2>4, StillMay DEF Careful
    <2>8. Knows(DOMAIN remoteFiles, F)'
      BY <2>1, <2>4, <2>7 DEF Knows
    <2> QED
      BY <1>1, <2>1, <2>6, <2>8, KeptSame, CarefulGoes
  <1>3. CASE UploadRequestFailed
    <2>1. /\ GotFor("upload", "failed") /\ local' = local /\ op' = op /\ before' = before
          /\ asked' = asked /\ remoteFiles' = remoteFiles
      BY <1>3 DEF UploadRequestFailed, uiVars, dataVars
    <2>2. CASE goto # "none" /\ SpecialHandler /\ unlisted' = unlisted \cup {ListedFolder}
      <3>1. Grows
        BY <2>1, <2>2 DEF Grows
      <3>2. PICK F : F = ListedFolder
        OBVIOUS
      <3>3. F \in Paths \cup {<<>>}
        BY <1>1, <2>1, <2>2, <3>2, ListedFolderIn
      <3>4. Goes(ListedFolder)
        BY <1>1, <2>1, <2>2, SpecialHandlerGoes
      <3>5. Goes(F)
        BY <3>2, <3>4
      <3>6. \A n \in Names : Append(F, n) \in Paths => Parent(Append(F, n)) = F
        BY <3>3, AppendFacts
      <3>7. Knows(DOMAIN remoteFiles, F)'
        BY <2>2, <3>2, <3>6 DEF Knows, MayChange
      <3> QED
        BY <1>1, <2>1, <3>1, <3>5, <3>7, KeptSame, CarefulGoes
    <2>3. CASE goto = "none" /\ UploadNext(nodes, cur) /\ UNCHANGED unlisted
      <3>1. Grows
        BY <2>1, <2>3 DEF Grows
      <3>2. Goes(Parent(cur)) /\ Kept'
        BY <1>1, <2>1, <2>3, <3>1, UploadNextGoes, KeptSame
      <3> QED
        BY <2>1, <2>3, <3>1, <3>2, ReplyGoesCareful
    <2> QED
      BY <1>3, <2>2, <2>3 DEF UploadRequestFailed
  <1>4. ASSUME NEW kind \in {"mkdir", "start upload", "upload", "end upload"},
               GotFor("upload", kind), UploadNext(nodes, cur), Grows,
               UNCHANGED <<local, remoteFiles>>
        PROVE  Careful'
    <2>1. goto = "none"
      BY <1>1, <1>4 DEF IsTold, ListReply
    <2>2. op' = op
      BY <1>4 DEF Grows
    <2>3. Goes(Parent(cur)) /\ Kept'
      BY <1>1, <1>4, <2>2, UploadNextGoes, KeptSame
    <2> QED
      BY <1>4, <2>1, <2>3, ReplyGoesCareful
  <1>5. CASE FolderMade
    <2>1. GotFor("upload", "mkdir") /\ UploadNext(nodes, cur)
          /\ Grows /\ UNCHANGED <<local, remoteFiles>>
      BY <1>5 DEF FolderMade, Quiet, Grows, uiVars, dataVars, historyVars
    <2> QED
      BY <1>4, <2>1
  <1>6. CASE UploadEnded
    <2>1. GotFor("upload", "end upload") /\ UploadNext(nodes, cur)
          /\ Grows /\ UNCHANGED <<local, remoteFiles>>
      BY <1>6 DEF UploadEnded, Grows, uiVars, historyVars
    <2> QED
      BY <1>4, <2>1
  <1>7. CASE SendFileDataChunk
    <2>1. PICK kind \in {"start upload", "upload"} : GotFor("upload", kind)
      BY <1>7 DEF SendFileDataChunk
    <2>2. Grows /\ UNCHANGED <<local, remoteFiles>> /\ op' = op
      BY <1>7 DEF SendFileDataChunk, NextChunk, Grows, uiVars
    <2>3. goto = "none"
      BY <1>1, <2>1 DEF IsTold, ListReply
    <2>4. MayChange(cur) /\ Knows(DOMAIN remoteFiles, Parent(cur))
      BY <1>1, <2>1, <2>3 DEF Careful, Chosen
    <2>5. ASSUME NEW r, Await(r, cur, nodes)
          PROVE  Careful'
      <3>1. cur' = cur /\ requests' = <<r>>
        BY <1>1, <2>1, <2>5, OneElement DEF Await
      <3>2. MayChange(cur)'
        <4>1. PICK c : c = cur
          OBVIOUS
        <4>2. MayChange(c)'
          BY <2>2, <2>4, <4>1, StillMay
        <4> QED
          BY <3>1, <4>1, <4>2 DEF MayChange
      <3> QED
        BY <1>1, <2>1, <2>2, <2>4, <3>1, <3>2, KeptSame, KnowsSame, CarefulAsks
    <2>6. CASE UploadNext(nodes, cur)
      BY <1>4, <2>1, <2>2, <2>6
    <2> QED
      BY <1>7, <2>5, <2>6 DEF SendFileDataChunk, NextChunk
  <1> QED
    BY <1>2, <1>3, <1>5, <1>6, <1>7

\* Only the file that is being downloaded changes.
LEMMA DownloadReplyCareful ==
  ASSUME PInv, Careful,
         DownloadListed \/ DownloadRequestFailed \/ DownloadStarted \/ DownloadStartFails
         \/ DownloadChunk \/ DownloadChunkFails \/ DownloadEnded
  PROVE  Careful'
  <1>1. /\ op = "download" /\ cur # NoPath /\ Grows /\ UNCHANGED remoteFiles /\ remote' = remote
    BY DEF DownloadListed, DownloadRequestFailed, DownloadStarted, DownloadStartFails,
           DownloadChunk, DownloadChunkFails, DownloadEnded, GotFor, Got, Quiet, dataVars,
           uiVars, historyVars, Grows
  <1>2. PICK kind : GotFor("download", kind) /\ (kind \notin {"size", "failed"} \/ sizesLeft = 0)
    <2>1. CASE GotFor("download", "failed") /\ sizesLeft = 0
      BY <2>1
    <2>2. ASSUME NEW kind, GotFor("download", kind), kind \notin {"size", "failed"}
          PROVE  \E k : GotFor("download", k) /\ (k \notin {"size", "failed"} \/ sizesLeft = 0)
      BY <2>2
    <2>3. CASE GotFor("download", "list")
      BY <2>2, <2>3
    <2>4. CASE GotFor("download", "start download")
      BY <2>2, <2>4
    <2>5. CASE GotFor("download", "download")
      BY <2>2, <2>5
    <2>6. CASE GotFor("download", "end download")
      BY <2>2, <2>6
    <2> QED
      BY <2>1, <2>3, <2>4, <2>5, <2>6
      DEF DownloadListed, DownloadRequestFailed, DownloadStarted, DownloadStartFails,
          DownloadChunk, DownloadChunkFails, DownloadEnded
  <1>3. /\ Free /\ requests = <<>> /\ replies' = <<>> /\ replies # <<>>
        /\ IsTold(Head(replies)) /\ Head(replies).kind = kind
        /\ cur \in Paths /\ Listing(nodes) /\ Placed(nodes, cur)
    BY <1>1, <1>2, ToldFacts DEF Walks, Free
  <1>4. local \in [Paths -> Node]
    BY DEF PInv, ClientTypes, DataTypes
  <1>5. PICK c : c = cur
    OBVIOUS
  <1>6. ASSUME kind \in {"start download", "download"},
               \A p \in Paths : p = c \/ local'[p] = local[p]
        PROVE  Kept' /\ MayChange(c)'
    <2>1. MayChange(c)
      BY <1>1, <1>3, <1>5, <1>6 DEF Careful, Chosen
    <2>2. MayChange(c)'
      BY <1>1, <2>1, StillMay
    <2>3. \A p \in Paths : p = c \/ Target'[p] = Target[p]
      BY <1>1, <1>6 DEF Target, Grows
    <2> QED
      BY <1>1, <2>2, <2>3, KeptBut
  <1>7. ASSUME NEW nds, DownloadNext(nds), Listing(nds), Placed(nds, cur), Kept'
        PROVE  Careful'
    <2>1. Goes(Parent(cur))
      BY <1>1, <1>3, <1>7, DownloadNextGoes
    <2> QED
      BY <1>1, <1>2, <1>7, <2>1, ReplyGoesCareful
  <1>8. local' = local => Kept'
    BY <1>1, KeptSame
  <1>9. CASE DownloadListed
    <2> DEFINE nds == [nodes EXCEPT ![cur] = Head(replies).names]
    <2>1. GotFor("download", "list") /\ DownloadNext(nds) /\ local' = local
      BY <1>9 DEF DownloadListed, Quiet, dataVars
    <2>2. Head(replies).kind = "list"
      BY <2>1 DEF GotFor, Got
    <2>3. ListReply(Head(replies), cur)
      BY <1>1, <1>3, <2>2 DEF IsTold
    <2>4. Listing(nds)
      BY <1>3, <2>3, ListingExcept DEF ListReply
    <2>5. Placed(nds, cur)
      <3>1. Len(cur) \in Nat
        BY <1>3, PathIsSeq
      <3>2. Len(cur) >= Len(cur)
        BY <3>1
      <3> QED
        BY <1>3, <3>2, PlacedExcept
    <2> HIDE DEF nds
    <2> QED
      BY <1>7, <1>8, <2>1, <2>4, <2>5
  <1>10. CASE DownloadRequestFailed \/ DownloadChunkFails \/ DownloadEnded
    <2>1. DownloadNext(nodes) /\ local' = local
      BY <1>10 DEF DownloadRequestFailed, DownloadChunkFails, DownloadEnded, dataVars
    <2> QED
      BY <1>3, <1>7, <1>8, <2>1
  <1>11. \A p \in Paths : p = c \/ LocalForDownload[p] = local[p]
    BY <1>4, <1>5 DEF LocalForDownload, Truncated
  <1>12. CASE DownloadStarted
    <2>1. /\ GotFor("download", "start download") /\ local' = LocalForDownload /\ cur' = cur
          /\ requests' = Append(requests, [kind |-> "download"])
      BY <1>12 DEF DownloadStarted
    <2>2. kind = "start download"
      BY <1>3, <2>1 DEF GotFor, Got
    <2>3. Kept' /\ MayChange(c)'
      BY <1>6, <1>11, <2>1, <2>2
    <2>4. MayChange(cur)'
      BY <1>5, <2>1, <2>3 DEF MayChange
    <2>5. PICK r : requests' = <<r>>
      BY <1>3, <2>1, OneElement
    <2>6. op' = "download"
      BY <1>1 DEF Grows
    <2> QED
      BY <1>3, <2>3, <2>4, <2>5, <2>6, CarefulAsks
  <1>13. CASE DownloadStartFails
    <2>1. /\ GotFor("download", "start download") /\ local' = LocalForDownload
          /\ DownloadNext(nodes)
      BY <1>13 DEF DownloadStartFails
    <2>2. kind = "start download"
      BY <1>3, <2>1 DEF GotFor, Got
    <2>3. Kept'
      BY <1>6, <1>11, <2>1, <2>2
    <2> QED
      BY <1>3, <1>7, <2>1, <2>3
  <1>14. CASE DownloadChunk
    <2>1. /\ GotFor("download", "download") /\ cur' = cur
          /\ requests' = Append(requests, [kind |-> "download"])
          /\ local' = [local EXCEPT ![stream.path].data =
                         Write(@, stream.pos, Head(replies).chunk)]
      BY <1>14 DEF DownloadChunk, Await
    <2>2. kind = "download"
      BY <1>3, <2>1 DEF GotFor, Got
    <2>3. stream.path = cur
      BY <1>1, <1>3, <2>2 DEF IsTold, ListReply
    <2>4. \A p \in Paths : p = c \/ local'[p] = local[p]
      BY <1>4, <1>5, <2>1, <2>3
    <2>5. Kept' /\ MayChange(c)'
      BY <1>6, <2>2, <2>4
    <2>6. MayChange(cur)'
      BY <1>5, <2>1, <2>5 DEF MayChange
    <2>7. PICK r : requests' = <<r>>
      BY <1>3, <2>1, OneElement
    <2>8. op' = "download"
      BY <1>1 DEF Grows
    <2> QED
      BY <1>3, <2>5, <2>6, <2>7, <2>8, CarefulAsks
  <1> QED
    BY <1>9, <1>10, <1>12, <1>13, <1>14

LEMMA ReplyCareful ==
  ASSUME PInv, Careful, HandleReply
  PROVE  Careful'
  <1>1. CASE TransferTerminates
    <2>1. PICK o \in {"upload", "download"} : GotFor(o, o)
      BY <1>1 DEF TransferTerminates
    <2>2. GotoNext /\ Grows /\ UNCHANGED <<local, remote, remoteFiles>> /\ op' = op
      BY <1>1, <2>1 DEF TransferTerminates, Quiet, Grows, uiVars, dataVars, historyVars,
                        GotFor, Got
    <2>3. /\ Free /\ op = o /\ cur \in Paths /\ Listing(nodes) /\ Placed(nodes, cur)
          /\ IsTold(Head(replies)) /\ Head(replies).kind = o /\ requests = <<>>
          /\ goto \in {"none", "first", "child", "parent"}
      BY <2>1, ToldFacts DEF Walks, Free
    <2>4. goto = "none" \/ o = "download"
      BY <2>3 DEF IsTold, ListReply
    <2>5. Goes(Parent(cur)) /\ Kept'
      BY <2>2, <2>3, GotoNextGoes, KeptSame
    <2> QED
      BY <2>1, <2>2, <2>4, <2>5, ReplyGoesCareful
  <1>2. CASE SizeCalculated
    <2>1. /\ op = "download" /\ cur # NoPath /\ Grows /\ UNCHANGED <<local, remote>>
          /\ sizesLeft' = sizesLeft - 1
          /\ IF sizesLeft = 1 THEN Copy(cur, nodes) ELSE UNCHANGED <<walkVars, requests>>
      BY <1>2 DEF SizeCalculated, GotFor, Got, Quiet, uiVars, dataVars, historyVars, Grows
    <2>2. sizesLeft' # 0 \/ pc' = "copy"
      <3>1. sizesLeft \in Nat
        <4>1. sizesLeft \in 0..Cardinality(Names)
          BY DEF PInv, ClientTypes
        <4> QED
          BY <4>1
      <3>2. sizesLeft = 1 \/ sizesLeft' # 0
        BY <2>1, <3>1
      <3> QED
        BY <2>1, <3>2 DEF Copy
    <2>3. PInv'
      BY <1>2, SizeCalculatedInv
    <2>4. op' = "download"
      BY <2>1 DEF Grows
    <2>5. ~Chosen' /\ Kept'
      BY <2>1, <2>2, <2>3, <2>4, NotChosen, KeptSame
    <2> QED
      BY <2>4, <2>5 DEF Careful
  <1>3. CASE RemoveListed \/ FileRemoved \/ RemoveFailed \/ SimpleEnds
    <2>1. op' \notin {"upload", "download"}
      BY <1>3 DEF RemoveListed, FileRemoved, RemoveFailed, SimpleEnds, GotFor, Quiet, uiVars
    <2> QED
      BY <2>1, CarefulOther
  <1> QED
    BY <1>1, <1>2, <1>3, UploadReplyCareful, DownloadReplyCareful, Zenon DEF HandleReply

\* What a request changes on the server.
LEMMA HandleChanges ==
  ASSUME IInv, Handle, NEW p \in Paths
  PROVE  \/ remote'[p] = remote[p]
         \/ Head(requests).kind = "mkdir" /\ ~Exists(remote, p)
         \/ Head(requests).kind = "start upload" /\ p = Head(requests).path
         \/ Head(requests).kind = "upload" /\ p = outputStream.path
         \/ Head(requests).kind \in {"remove", "rename"}
  <1> DEFINE q == Head(requests)
  <1>1. remote \in [Paths -> Node]
    BY DEF IInv, Types
  <1>2. CASE Refuse \/ ListFolder \/ FolderSize \/ EndUpload \/ StartDownload
             \/ StartDownloadFails \/ DownloadData
    <2>1. remote' = remote
      BY <1>2 DEF Refuse, ListFolder, FolderSize, EndUpload, StartDownload, StartDownloadFails,
                  DownloadData, CrashOnNull
    <2> QED
      BY <2>1
  <1>3. CASE MakeFolder
    <2>1. q.kind = "mkdir" /\ \/ remote' = remote
                              \/ CanCreate(remote, q.path) /\ remote' = [remote EXCEPT ![q.path] = Folder]
      BY <1>3 DEF MakeFolder, Asked
    <2> QED
      BY <1>1, <2>1 DEF CanCreate
  <1>4. CASE RemoveFile \/ RenameFile
    BY <1>4 DEF RemoveFile, RenameFile, Asked
  <1>5. CASE StartUpload
    <2>1. q.kind = "start upload" /\ (remote' = remote \/ remote' = Truncated(remote, q.path))
      BY <1>5 DEF StartUpload, StartUploadFrom, Asked
    <2> QED
      BY <1>1, <2>1 DEF Truncated
  <1>6. CASE StartUploadFails
    <2>1. q.kind = "start upload" /\ \/ remote' = remote \/ remote' = Truncated(remote, q.path)
                                     \/ remote' = [remote EXCEPT ![q.path] = Absent]
      BY <1>6 DEF StartUploadFails, Asked
    <2> QED
      BY <1>1, <2>1 DEF Truncated
  <1>7. CASE UploadData
    <2>1. /\ q.kind = "upload"
          /\ \/ remote' = remote
             \/ \E chunk : remote' = [remote EXCEPT ![outputStream.path].data =
                                        Write(@, outputStream.pos, chunk)]
      BY <1>7 DEF UploadData, Asked, CrashOnNull
    <2> QED
      BY <1>1, <2>1
  <1> QED
    BY <1>2, <1>3, <1>4, <1>5, <1>6, <1>7 DEF Handle

\* The server writes what was asked for.
LEMMA ServeCareful ==
  ASSUME PInv, Careful, Serve
  PROVE  Careful'
  <1>1. Handle /\ UNCHANGED clientVars
    BY DEF Serve
  <1>2. /\ UNCHANGED <<op, before, asked, unlisted, cur, goto, nodes, remoteFiles, local>>
        /\ UNCHANGED <<sizesLeft, pc, state>>
    BY <1>1 DEF clientVars, walkVars, dataVars, uiVars, historyVars
  <1>3. Grows /\ op' = op
    BY <1>2 DEF Grows
  <1>4. IInv /\ PInv' /\ requests # <<>> /\ (Answered \/ Crashes(Head(requests)))
    BY <1>1, ServeInv, HandleAnswers DEF PInv
  <1> SUFFICES ASSUME op \in {"upload", "download"} PROVE Careful'
    BY <1>3, CarefulOther
  <1>5. Sizing \/ Waiting
    BY <1>4 DEF PInv, Phases, Resting, Simple, Copying, Cancelled, Finished, Silent
  <1>6. CASE Sizing
    <2>1. op = "download" /\ sizesLeft # 0
      <3>1. sizesLeft > 0 /\ sizesLeft \in 0..Cardinality(Names)
        BY <1>6 DEF Sizing, PInv, ClientTypes
      <3> QED
        BY <1>6, <3>1 DEF Sizing
    <2>2. ~Chosen'
      BY <1>2, <1>4, <2>1, NotChosen
    <2>3. Kept'
      <3>1. Target' = Target /\ before' = before /\ Kept
        BY <1>2, <2>1 DEF Target, Careful
      <3> QED
        BY <1>3, <3>1, StillMay DEF Kept
    <2> QED
      BY <1>2, <2>1, <2>2, <2>3 DEF Careful
  <1>7. CASE Waiting
    <2>1. PICK q : Asks(q) /\ requests = <<q>> /\ replies = <<>>
      BY <1>4, <1>7 DEF Waiting
    <2>2. Head(requests) = q /\ Tail(requests) = <<>>
      BY <2>1, OneElement
    <2>3. Answered
      BY <1>4, <2>1, <2>2, AskedSafely
    <2>4. PICK r : /\ requests' = <<>> /\ replies' = Append(replies, r)
                   /\ Fits(q, r, outputStream', inputStream')
      BY <2>2, <2>3 DEF Answered
    <2>5. replies' = <<r>> /\ Head(replies') = r /\ cur # NoPath /\ cur \in Paths
      BY <1>7, <2>1, <2>4, OneElement DEF Waiting, Walking, PInv, ClientTypes
    <2>6. q.kind \in {"start upload", "upload", "end upload", "start download", "download"}
            => MayChange(cur)
      BY <2>1, <2>2, <2>5 DEF Careful, Chosen
    <2>7. Kept'
      <3>1. CASE op = "download"
        <4>1. Target' = Target /\ before' = before /\ Kept
          BY <1>2, <3>1 DEF Target, Careful
        <4> QED
          BY <1>3, <4>1, StillMay DEF Kept
      <3>2. CASE op = "upload"
        <4>1. /\ Target = remote /\ Target' = remote' /\ before' = before /\ Kept
          BY <1>2, <3>2 DEF Target, Careful
        <4>2. q.kind \in {"list", "mkdir"}
              \/ (q.kind = "start upload" /\ q.path = cur)
              \/ (q.kind = "upload" /\ outputStream.path = cur)
              \/ q.kind = "end upload"
          <5>1. \A p : List(p).kind = "list"
            BY DEF List
          <5>2. CASE WalkAsks(q)
            BY <3>2, <5>1, <5>2 DEF WalkAsks
          <5>3. CASE ~WalkAsks(q)
            BY <2>1, <3>2, <5>3 DEF Asks
          <5> QED
            BY <5>2, <5>3
        <4>3. ASSUME NEW p \in Paths
              PROVE  MayChange(p) \/ remote'[p] = before[p]
          <5>1. CASE remote'[p] = remote[p]
            BY <4>1, <5>1 DEF Kept
          <5>2. CASE ~Exists(remote, p)
            <6>1. ~IsFile(Target, p)
              BY <4>1, <5>2 DEF Exists, IsFile
            <6> QED
              BY <6>1, NothingThere
          <5>3. CASE p = cur /\ q.kind \in {"start upload", "upload"}
            BY <2>6, <5>3
          <5> QED
            BY <1>1, <1>4, <2>2, <4>2, <5>1, <5>2, <5>3, HandleChanges
        <4> QED
          BY <1>3, <4>1, <4>3, StillMay DEF Kept
      <3> QED
        BY <3>1, <3>2
    <2>8. op = "upload" /\ goto = "none" => Knows(DOMAIN remoteFiles, Parent(cur))'
      BY <1>2, <1>3, <2>5, KnowsSame DEF Careful
    <2>9. op = "upload" /\ goto # "none" /\ r.kind = "list" =>
            Knows(DOMAIN Head(replies).sizes, ListedFolder)'
      <3> SUFFICES ASSUME op = "upload", goto # "none", r.kind = "list"
                   PROVE  Knows(DOMAIN Head(replies).sizes, ListedFolder)'
        OBVIOUS
      <3>1. PICK F : F = ListedFolder
        OBVIOUS
      <3>2. q.kind = "list" /\ q.path = F
        <4>1. q = List(F)
          BY <2>1, <3>1 DEF Asks, WalkAsks
        <4> QED
          BY <4>1 DEF List
      <3>3. DOMAIN r.sizes = NamesIn(remote, F)
        BY <2>4, <3>2 DEF Fits, Failed
      <3>4. ASSUME NEW n \in Names, Append(F, n) \in Paths, n \notin NamesIn(remote, F)
            PROVE  MayChange(Append(F, n))
        <4>1. ~IsFile(Target, Append(F, n))
          BY <3>4 DEF NamesIn, Exists, IsFile, Target
        <4> QED
          BY <3>4, <4>1, NothingThere
      <3>5. PICK names : names = NamesIn(remote, F)
        OBVIOUS
      <3>6. Knows(names, F)
        BY <3>4, <3>5 DEF Knows
      <3>7. Knows(names, F)'
        BY <1>3, <3>6, StillMay
      <3>8. ListedFolder' = F /\ DOMAIN Head(replies').sizes = names
        BY <1>2, <2>5, <3>1, <3>3, <3>5 DEF ListedFolder
      <3> QED
        BY <3>7, <3>8 DEF Knows
    <2>10. Chosen' => MayChange(cur)'
      <3> SUFFICES ASSUME Chosen' PROVE MayChange(cur)'
        OBVIOUS
      <3>1. r.kind \in {"start upload", "upload", "start download", "download"}
        BY <2>4, <2>5 DEF Chosen
      <3>2. q.kind \in {"start upload", "upload", "start download", "download"}
        <4>1. \/ r = Failed
              \/ q.kind = "list" /\ r.kind = "list"
              \/ /\ q.kind \in {"size", "mkdir", "remove", "rename", "end upload"}
                 /\ r = [kind |-> q.kind]
              \/ q.kind = r.kind
              \/ q.kind = "download" /\ r.kind = "end download"
          BY <2>4 DEF Fits, ListReply
        <4>2. Failed.kind = "failed" /\ \A k : [kind |-> k].kind = k
          BY DEF Failed
        <4> QED
          BY <3>1, <4>1, <4>2
      <3> QED
        BY <1>2, <2>6, <3>2 DEF MayChange, IsFile
    <2> QED
      BY <1>2, <2>5, <2>7, <2>8, <2>9, <2>10 DEF Careful
  <1> QED
    BY <1>5, <1>6, <1>7

\* Whatever fails and however the tree is walked, a file that was there is changed
\* only after the user was asked about it, or if its folder could not be listed: the
\* listing that the question depends on is always that of the right folder.
THEOREM NothingOverwritten ==
  ASSUME CancelAfterSkip = FALSE PROVE Spec => []NothingOverwrittenUnasked
  <1>1. Init => Careful
    BY DEF Init, Careful
  <1>2. PInv /\ Careful /\ [Next]_vars => Careful'
    <2> SUFFICES ASSUME PInv, Careful, [Next]_vars PROVE Careful'
      OBVIOUS
    <2>1. CASE StartOperation \/ OperationFinished \/ Cancel \/ CloseSession
      BY <2>1, UiCareful
    <2>2. CASE CopyStep
      BY <2>2, CopyCareful
    <2>3. CASE HandleReply
      BY <2>3, ReplyCareful
    <2>4. CASE Serve
      BY <2>4, ServeCareful
    <2>5. CASE UNCHANGED vars
      <3>1. UNCHANGED <<op, before, asked, unlisted, local, remote, remoteFiles, cur, goto,
                        requests, replies>>
        BY <2>5 DEF vars, serverVars, clientVars, walkVars, dataVars, uiVars, historyVars
      <3> QED
        BY <3>1, CarefulSame
    <2> QED
      BY <2>1, <2>2, <2>3, <2>4, <2>5 DEF Next
  <1>3. PInv /\ Careful => NothingOverwrittenUnasked
    <2> SUFFICES ASSUME PInv, Careful PROVE NothingOverwrittenUnasked
      OBVIOUS
    <2>1. ASSUME NEW p \in Paths, ~IsFile(before, p)
          PROVE  before[p] \in {Absent, Folder}
      <3>1. before[p] \in Node /\ before[p].kind # "file"
        BY <2>1 DEF PInv, ClientTypes, IsFile
      <3> QED
        BY <3>1 DEF Node
    <2> QED
      BY <2>1 DEF Careful, Kept, MayChange, NothingOverwrittenUnasked
  <1> QED
    BY SessionInv, <1>1, <1>2, <1>3, PTL DEF Spec
-----------------------------------------------------------------------------
(* The files that are still to be copied, or removed. *)

\* An operation is done with what it has copied or removed, and with what it has
\* reported or the user decided about.
Done(t) ==
  \/ Under(t) \intersect excused # {}
  \/ op = "remove" /\ ~Exists(remote, t)
  \/ op # "remove" /\ (IsFile(Source, t) => Target[t] = Source[t])

\* What the walk comes to after p: what is listed in p, and what is listed after p or
\* after a folder on the way to p.
Beneath(nds, p, t) == \E n \in nds[p] : t \in Under(Append(p, n))
Besides(nds, p, t) ==
  \E q \in Above(p) : \E n \in Later(nds, q) : t \in Under(Append(Parent(q), n))
Ahead(nds, p, t) == Beneath(nds, p, t) \/ Besides(nds, p, t)

\* Whether the walk is still busy with its position: an upload is not when it has sent
\* a folder's name and listed its files.
Here ==
  op = "upload" => \/ goto = "first" \/ pc = "copy"
                   \/ goto = "none" /\ ~IsFolder(local, cur)

\* A folder is removed after its files.
ToDo(t) ==
  /\ cur # NoPath
  /\ \/ Ahead(nodes, cur, t)
     \/ Here /\ t \in Under(cur)
     \/ op = "remove" /\ t \in Above(cur)

Selected(nds, t) == \E n \in nds[<<>>] : t \in Under(<<n>>)

Walked == \A t \in Paths : Selected(nodes, t) => Done(t) \/ ToDo(t)

\* The file at cur is copied from its beginning: what the requests and replies say and
\* where the streams stand go with what has been copied.
Whole ==
  /\ op \in {"upload", "download"} /\ cur \notin excused /\ IsFile(Source, cur)
Copied(fs, k) == fs[cur] = File(SubSeq(Source[cur].data, 1, k))
InFile(k) == k \in 0..Len(Source[cur].data)

AsksRight(q) ==
  /\ q.kind = "mkdir" => IsFolder(local, cur)
  /\ q.kind \in {"start download", "download"} => ~IsFolder(remote, cur)
  /\ Whole =>
       /\ q.kind = "start upload" =>
            q.overwrite /\ q.offset = 0 /\ stream.path = cur /\ stream.pos = 0
       /\ q.kind = "upload" =>
            /\ stream.path = cur /\ stream.pos = outputStream.pos + 1 /\ InFile(stream.pos)
            /\ Copied(remote, outputStream.pos) /\ q.chunk = Source[cur].data[stream.pos]
       /\ q.kind = "end upload" => remote[cur] = Source[cur]
       /\ q.kind = "start download" => offset = 0 /\ q.offset = 0
       /\ q.kind = "download" =>
            /\ InFile(stream.pos) /\ Copied(local, stream.pos)
            /\ inputStream.path = cur /\ inputStream.pos = stream.pos

ToldRight(r) ==
  /\ r.kind = "list" /\ op # "upload" =>
       IsFolder(remote, cur) /\ r.names = NamesIn(remote, cur)
  /\ r.kind = "mkdir" => IsFolder(local, cur)
  /\ r.kind \in {"start download", "download", "end download"} => ~IsFolder(remote, cur)
  /\ r.kind = "remove" => ~Exists(remote, cur)
  /\ Whole =>
       /\ r.kind \in {"start upload", "upload"} =>
            /\ stream.path = cur /\ stream.pos = outputStream.pos /\ InFile(stream.pos)
            /\ Copied(remote, stream.pos)
       /\ r.kind = "end upload" => remote[cur] = Source[cur]
       /\ r.kind = "start download" =>
            offset = 0 /\ inputStream.path = cur /\ inputStream.pos = 0
       /\ r.kind = "download" =>
            /\ InFile(inputStream.pos) /\ inputStream.pos = stream.pos + 1
            /\ inputStream.path = cur
            /\ Copied(local, stream.pos) /\ r.chunk = Source[cur].data[inputStream.pos]
       /\ r.kind = "end download" => local[cur] = Source[cur]

Right ==
  op \in Walks /\ cur # NoPath /\ sizesLeft = 0 =>
    /\ \A q : requests = <<q>> => AsksRight(q)
    /\ \A r : replies = <<r>> => ToldRight(r)

Complete ==
  /\ IsTree(local) /\ IsTree(remote)
  /\ op \in Walks /\ ~terminating => Walked /\ Right


\* What is in a folder.
LEMMA UnderFacts ==
  ASSUME NEW p \in Paths
  PROVE  /\ p \in Under(p)
         /\ \A t \in Under(p) : t \in Paths /\ p \in Above(t) /\ Under(t) \subseteq Under(p)
         /\ \A t \in Under(p) : t = p \/ Len(t) > Len(p)
  <1>1. p \in Seq(Names) /\ Len(p) \in Nat /\ Len(p) >= 1 /\ DOMAIN p = 1..Len(p)
    BY PathIsSeq
  <1>2. p \in Under(p)
    BY DEF Under
  <1>3. ASSUME NEW t \in Under(p)
        PROVE  /\ t \in Paths /\ p \in Above(t) /\ Under(t) \subseteq Under(p)
               /\ t = p \/ Len(t) > Len(p)
    <2>1. t \in Paths /\ \A i \in DOMAIN p : i \in DOMAIN t /\ t[i] = p[i]
      BY DEF Under
    <2>2. t \in Seq(Names) /\ Len(t) \in Nat /\ DOMAIN t = 1..Len(t)
      BY <2>1, PathIsSeq
    <2>3. Len(p) <= Len(t)
      <3>1. Len(p) \in 1..Len(p)
        BY <1>1
      <3>2. Len(p) \in 1..Len(t)
        BY <1>1, <2>1, <2>2, <3>1
      <3> QED
        BY <1>1, <2>2, <3>2
    <2>4. SubSeq(t, 1, Len(p)) = p
      <3>1. /\ SubSeq(t, 1, Len(p)) \in Seq(Names) /\ Len(SubSeq(t, 1, Len(p))) = Len(p)
            /\ \A i \in 1..Len(p) : SubSeq(t, 1, Len(p))[i] = t[i]
        BY <1>1, <2>2, <2>3
      <3>2. \A i \in 1..Len(p) : SubSeq(t, 1, Len(p))[i] = p[i]
        BY <1>1, <2>1, <3>1
      <3> QED
        BY <1>1, <3>1, <3>2, SeqEqual
    <2>5. p \in Above(t)
      <3>1. Len(p) \in 1..Len(t)
        BY <1>1, <2>2, <2>3
      <3> QED
        BY <2>4, <3>1 DEF Above
    <2>6. Under(t) \subseteq Under(p)
      BY <2>1 DEF Under
    <2>7. t = p \/ Len(t) > Len(p)
      <3>1. Len(p) = Len(t) => t = p
        BY <2>1, <2>5, AboveFacts
      <3>2. Len(p) = Len(t) \/ Len(t) > Len(p)
        <4>1. \A m, n \in Nat : m <= n => m = n \/ n > m
          OBVIOUS
        <4> QED
          BY <1>1, <2>2, <2>3, <4>1, Zenon
      <3> QED
        BY <3>1, <3>2
    <2> QED
      BY <2>1, <2>5, <2>6, <2>7
  <1> QED
    BY <1>2, <1>3

\* The folders on the way to a file have it under them.
LEMMA AboveUnder ==
  ASSUME NEW p \in Paths, NEW q \in Above(p)
  PROVE  q \in Paths /\ p \in Under(q)
  <1>1. q \in Paths /\ q \in Seq(Names) /\ DOMAIN q = 1..Len(q) /\ Len(q) \in Nat
    BY AboveFacts, PathIsSeq
  <1>2. PICK n \in 1..Len(p) : q = SubSeq(p, 1, n)
    BY DEF Above
  <1>3. p \in Seq(Names) /\ Len(p) \in Nat /\ DOMAIN p = 1..Len(p)
    BY PathIsSeq
  <1>4. Len(q) = n /\ \A i \in 1..n : q[i] = p[i] /\ i \in 1..Len(p)
    BY <1>2, <1>3
  <1> QED
    BY <1>1, <1>3, <1>4 DEF Under

\* Files in a folder, and under them.
LEMMA ChildFacts ==
  ASSUME NEW p \in Paths, NEW n \in Names, Append(p, n) \in Paths
  PROVE  /\ Append(p, n) \in Under(p) /\ Append(p, n) # p
         /\ \A t \in Under(Append(p, n)) : t \in Under(p) /\ t # p
  <1>1. p \in Seq(Names) /\ Len(p) \in Nat /\ DOMAIN p = 1..Len(p)
    BY PathIsSeq
  <1>2. /\ Append(p, n) \in Seq(Names) /\ Len(Append(p, n)) = Len(p) + 1
        /\ DOMAIN Append(p, n) = 1..(Len(p) + 1)
        /\ \A i \in 1..Len(p) : Append(p, n)[i] = p[i] /\ i \in 1..(Len(p) + 1)
    BY <1>1, AppendProperties
  <1>3. Append(p, n) \in Under(p)
    BY <1>1, <1>2 DEF Under
  <1>4. ASSUME NEW t \in Under(Append(p, n))
        PROVE  t \in Under(p) /\ t # p
    <2>1. t \in Under(p)
      BY <1>3, <1>4, UnderFacts
    <2>2. t = Append(p, n) \/ Len(t) > Len(Append(p, n))
      BY <1>4, UnderFacts
    <2>3. Len(t) # Len(p)
      <3>1. t \in Paths /\ Len(t) \in Nat
        BY <1>4, UnderFacts, PathIsSeq
      <3>2. Len(t) >= Len(p) + 1
        BY <1>1, <1>2, <2>2, <3>1
      <3> QED
        BY <1>1, <3>1, <3>2
    <2> QED
      BY <2>1, <2>3
  <1>5. Append(p, n) # p
    <2>1. \A k \in Nat : k + 1 # k
      OBVIOUS
    <2> QED
      BY <1>1, <1>2, <2>1, Zenon
  <1> QED
    BY <1>3, <1>4, <1>5

\* What is under a folder is under one of its files.
LEMMA ChildOnTheWay ==
  ASSUME NEW p \in Paths, NEW t \in Under(p), t # p
  PROVE  \E n \in Names : Append(p, n) \in Paths /\ t \in Under(Append(p, n))
  <1>1. p \in Seq(Names) /\ Len(p) \in Nat /\ Len(p) >= 1 /\ DOMAIN p = 1..Len(p)
    BY PathIsSeq
  <1>2. t \in Paths /\ Len(t) > Len(p)
    BY UnderFacts
  <1>3. t \in Seq(Names) /\ Len(t) \in 1..Depth /\ Len(t) \in Nat /\ DOMAIN t = 1..Len(t)
    BY <1>2, PathIsSeq
  <1>4. Len(p) + 1 \in 1..Len(t) /\ Len(p) + 1 \in 1..Depth
    BY <1>1, <1>2, <1>3, ServerAssumption
  <1> DEFINE n == t[Len(p) + 1]
             c == Append(p, n)
  <1>5. n \in Names
    BY <1>3, <1>4
  <1>6. /\ c \in Seq(Names) /\ Len(c) = Len(p) + 1 /\ DOMAIN c = 1..(Len(p) + 1)
        /\ c[Len(p) + 1] = n /\ \A i \in 1..Len(p) : c[i] = p[i]
    BY <1>1, <1>5, AppendProperties
  <1>7. c \in Paths
    BY <1>4, <1>6, PathIsSeq
  <1>8. \A i \in 1..Len(p) : i \in 1..Len(t) /\ t[i] = p[i]
    BY <1>1, <1>3 DEF Under
  <1>9. ASSUME NEW i \in 1..(Len(p) + 1)
        PROVE  i \in 1..Len(t) /\ t[i] = c[i]
    <2>1. CASE i = Len(p) + 1
      BY <1>4, <1>6, <2>1
    <2>2. CASE i # Len(p) + 1
      <3>1. i \in 1..Len(p)
        BY <1>1, <2>2
      <3> QED
        BY <1>6, <1>8, <3>1
    <2> QED
      BY <2>1, <2>2
  <1>10. t \in Under(c)
    BY <1>2, <1>3, <1>6, <1>9 DEF Under
  <1> QED
    BY <1>5, <1>7, <1>10

\* Nothing is in a file, and nothing in a folder that its listing leaves out.
LEMMA TreeFacts ==
  ASSUME NEW fs, IsTree(fs), NEW p \in Paths
  PROVE  /\ ~IsFolder(fs, p) => \A t \in Under(p) : t = p \/ ~Exists(fs, t)
         /\ \A n \in Names : n \notin NamesIn(fs, p) =>
              \A t \in Under(Append(p, n)) : ~Exists(fs, t)
         /\ NamesIn(fs, p) = {} => \A t \in Under(p) : t = p \/ ~Exists(fs, t)
  <1>1. ~IsFolder(fs, p) => \A t \in Under(p) : t = p \/ ~Exists(fs, t)
    BY DEF IsTree
  <1>2. ASSUME NEW n \in Names, n \notin NamesIn(fs, p), NEW t \in Under(Append(p, n))
        PROVE  ~Exists(fs, t)
    <2>1. ~Exists(fs, Append(p, n))
      BY <1>2 DEF NamesIn
    <2>2. CASE Append(p, n) \in Paths
      <3>1. Append(p, n) # <<>>
        BY <2>2, PathIsSeq
      <3>2. ~IsFolder(fs, Append(p, n))
        BY <2>1, <2>2, <3>1 DEF IsFolder, Exists
      <3> QED
        BY <1>2, <2>1, <2>2, <3>2 DEF IsTree
    <2>3. CASE Append(p, n) \notin Paths
      <3>1. t \notin Paths
        <4> SUFFICES ASSUME t \in Paths PROVE FALSE
          OBVIOUS
        <4>1. p \in Seq(Names) /\ Len(p) \in Nat /\ Len(p) >= 1
              /\ t \in Seq(Names) /\ Len(t) \in 1..Depth /\ DOMAIN t = 1..Len(t)
          BY PathIsSeq
        <4>2. Append(p, n) \in Seq(Names) /\ Len(Append(p, n)) = Len(p) + 1
              /\ Len(p) + 1 \in DOMAIN Append(p, n)
          BY <4>1, AppendProperties
        <4>3. Len(p) + 1 \in 1..Len(t)
          BY <1>2, <4>1, <4>2 DEF Under
        <4>4. Len(p) + 1 \in 1..Depth
          BY <4>1, <4>3, ServerAssumption
        <4> QED
          BY <2>3, <4>2, <4>4, PathIsSeq
      <3> QED
        BY <3>1 DEF Exists
    <2> QED
      BY <2>2, <2>3
  <1>3. ASSUME NamesIn(fs, p) = {}, NEW t \in Under(p), t # p
        PROVE  ~Exists(fs, t)
    <2>1. PICK n \in Names : Append(p, n) \in Paths /\ t \in Under(Append(p, n))
      BY <1>3, ChildOnTheWay
    <2> QED
      BY <1>2, <1>3, <2>1
  <1> QED
    BY <1>1, <1>2, <1>3
-----------------------------------------------------------------------------
(* What is ahead stays ahead. *)

\* The smallest of some names is below the others.
LEMMA SmallestLeast ==
  ASSUME NEW S, S \subseteq Names, NEW n \in S
  PROVE  Smallest(S) \in S /\ Smallest(S) <= n /\ (n # Smallest(S) => n > Smallest(S))
  <1>1. S \subseteq Nat /\ S # {}
    BY ServerAssumption
  <1>2. \E x \in S : \A y \in S : x <= y
    BY <1>1, SmallestOf
  <1>3. Smallest(S) \in S /\ \A y \in S : Smallest(S) <= y
    BY <1>2 DEF Smallest
  <1>4. \A a, b \in Nat : a <= b /\ b # a => b > a
    OBVIOUS
  <1> QED
    BY <1>1, <1>3, <1>4

\* Beside a position is what comes after it, and what is beside its folder.
LEMMA BesidesParent ==
  ASSUME NEW nds, NEW p \in Paths, NEW t
  PROVE  Besides(nds, p, t) <=>
           \/ \E n \in Later(nds, p) : t \in Under(Append(Parent(p), n))
           \/ Len(p) > 1 /\ Besides(nds, Parent(p), t)
  <1>1. CASE Len(p) > 1
    <2>1. Above(p) = Above(Parent(p)) \cup {p}
      BY <1>1, AboveParent
    <2> QED
      BY <1>1, <2>1 DEF Besides
  <1>2. CASE ~(Len(p) > 1)
    <2>1. Len(p) = 1
      <3>1. Len(p) \in Nat /\ Len(p) >= 1
        BY PathIsSeq
      <3>2. \A k \in Nat : k >= 1 /\ ~(k > 1) => k = 1
        OBVIOUS
      <3> QED
        BY <1>2, <3>1, <3>2, Zenon
    <2>2. Above(p) = {p}
      BY <2>1, AboveFirst
    <2> QED
      BY <1>2, <2>2 DEF Besides
  <1> QED
    BY <1>1, <1>2

\* What is listed deeper does not matter for it.
LEMMA BesidesElsewhere ==
  ASSUME NEW nds, NEW nds2, NEW p \in Paths, NEW t, Besides(nds, p, t),
         \A f \in Paths \cup {<<>>} : Len(f) < Len(p) => nds2[f] = nds[f]
  PROVE  Besides(nds2, p, t)
  <1>1. PICK q \in Above(p) : \E n \in Later(nds, q) : t \in Under(Append(Parent(q), n))
    BY DEF Besides
  <1>2. q \in Paths /\ Len(q) <= Len(p) /\ Len(q) \in Nat /\ Len(p) \in Nat
    BY AboveFacts, PathIsSeq
  <1>3. Parent(q) \in Paths \cup {<<>>} /\ Len(Parent(q)) = Len(q) - 1
    BY <1>2, ParentFacts
  <1>4. Len(Parent(q)) < Len(p)
    BY <1>2, <1>3
  <1>5. Later(nds2, q) = Later(nds, q)
    BY <1>3, <1>4 DEF Later
  <1> QED
    BY <1>1, <1>5 DEF Besides

\* The next file in the folder.
LEMMA NextKeeps ==
  ASSUME NEW nds, Listing(nds), NEW p \in Paths, Placed(nds, p), Later(nds, p) # {},
         NEW t, Besides(nds, p, t)
  PROVE  t \in Under(NextOf(nds, p)) \/ Besides(nds, NextOf(nds, p), t)
  <1> DEFINE c == NextOf(nds, p)
             s == Smallest(Later(nds, p))
  <1>1. /\ c \in Paths /\ Parent(c) = Parent(p) /\ Len(c) = Len(p)
        /\ c = Append(Parent(p), s)
    BY NextOfFacts DEF NextOf
  <1>2. Parent(p) \in Paths \cup {<<>>} /\ nds[Parent(p)] \subseteq Names
    BY ParentFacts DEF Listing
  <1>3. Later(nds, p) \subseteq Names /\ s \in Names
    BY <1>2, SmallestIn DEF Later
  <1>4. NameOf(c) = s
    BY <1>1, <1>2, <1>3, AppendFacts
  <1>5. CASE \E n \in Later(nds, p) : t \in Under(Append(Parent(p), n))
    <2>1. PICK n \in Later(nds, p) : t \in Under(Append(Parent(p), n))
      BY <1>5
    <2>2. CASE n = s
      BY <1>1, <2>1, <2>2
    <2>3. CASE n # s
      <3>1. n > s
        BY <1>3, <2>3, SmallestLeast
      <3>2. n \in Later(nds, c)
        BY <1>1, <1>4, <3>1 DEF Later
      <3> QED
        BY <1>1, <2>1, <3>2, BesidesParent
    <2> QED
      BY <2>2, <2>3
  <1>6. CASE Len(p) > 1 /\ Besides(nds, Parent(p), t)
    BY <1>1, <1>6, BesidesParent
  <1> QED
    BY <1>5, <1>6, BesidesParent

\* The first file in a folder.
LEMMA ChildKeeps ==
  ASSUME NEW nds, Listing(nds), NEW p \in Paths, Placed(nds, p), nds[p] # {},
         NEW t, Ahead(nds, p, t)
  PROVE  t \in Under(FirstChild(nds, p)) \/ Besides(nds, FirstChild(nds, p), t)
  <1> DEFINE c == FirstChild(nds, p)
             s == Smallest(nds[p])
  <1>1. c \in Paths /\ Parent(c) = p /\ c = Append(p, s)
    BY FirstChildFacts DEF FirstChild
  <1>2. nds[p] \subseteq Names /\ s \in Names
    BY SmallestIn DEF Listing
  <1>3. NameOf(c) = s /\ Len(c) > 1
    <2>1. NameOf(c) = s /\ Len(c) = Len(p) + 1
      BY <1>1, <1>2, AppendFacts
    <2>2. Len(p) \in Nat /\ Len(p) >= 1
      BY PathIsSeq
    <2> QED
      BY <2>1, <2>2
  <1>4. CASE Beneath(nds, p, t)
    <2>1. PICK n \in nds[p] : t \in Under(Append(p, n))
      BY <1>4 DEF Beneath
    <2>2. CASE n = s
      BY <1>1, <2>1, <2>2
    <2>3. CASE n # s
      <3>1. n > s
        BY <1>2, <2>3, SmallestLeast
      <3>2. n \in Later(nds, c)
        BY <1>1, <1>3, <3>1 DEF Later
      <3> QED
        BY <1>1, <2>1, <3>2, BesidesParent
    <2> QED
      BY <2>2, <2>3
  <1>5. CASE Besides(nds, p, t)
    BY <1>1, <1>3, <1>5, BesidesParent
  <1> QED
    BY <1>4, <1>5 DEF Ahead

\* The folder, when nothing comes after the position.
LEMMA NoneLeft ==
  ASSUME NEW nds, NEW p \in Paths, nds[p] = {}, Later(nds, p) = {}, NEW t, Ahead(nds, p, t)
  PROVE  Len(p) > 1 /\ Besides(nds, Parent(p), t)
  BY BesidesParent DEF Ahead, Beneath

\* Two folders on the way to a file are on the way to one another.
LEMMA AboveBoth ==
  ASSUME NEW p \in Paths, NEW q \in Above(p), NEW r \in Above(p), Len(q) <= Len(r)
  PROVE  q \in Above(r)
  <1>1. PICK m \in 1..Len(p) : q = SubSeq(p, 1, m)
    BY DEF Above
  <1>2. PICK n \in 1..Len(p) : r = SubSeq(p, 1, n)
    BY DEF Above
  <1>3. p \in Seq(Names) /\ Len(p) \in Nat
    BY PathIsSeq
  <1>4. Len(q) = m /\ Len(r) = n
    BY <1>1, <1>2, <1>3
  <1>5. m <= n /\ m \in 1..n /\ m \in Nat /\ n \in Nat /\ n <= Len(p)
    BY <1>3, <1>4
  <1>6. SubSeq(r, 1, m) = q
    BY <1>1, <1>2, <1>3, <1>5, PrefixOfPrefix
  <1> QED
    BY <1>4, <1>5, <1>6 DEF Above

\* The closest folder that has a file after it.
LEMMA TurnKeeps ==
  ASSUME NEW nds, Listing(nds), NEW p \in Paths, Placed(nds, p), Turns(nds, p) # {},
         NEW t, Besides(nds, p, t)
  PROVE  \/ t \in Under(NextOf(nds, Turn(nds, p)))
         \/ Besides(nds, NextOf(nds, Turn(nds, p)), t)
  <1> DEFINE q == Turn(nds, p)
  <1>1. /\ q \in Above(p) /\ Later(nds, q) # {}
        /\ \A r \in Turns(nds, p) : Len(r) <= Len(q)
    BY TurnIn
  <1>2. q \in Paths /\ Placed(nds, q)
    BY <1>1, AboveFacts, PlacedAbove
  <1>3. PICK r \in Above(p) : \E n \in Later(nds, r) : t \in Under(Append(Parent(r), n))
    BY DEF Besides
  <1>4. Len(r) <= Len(q)
    <2>1. r \in Turns(nds, p)
      BY <1>3 DEF Turns, Above
    <2> QED
      BY <1>1, <2>1
  <1>5. r \in Above(q)
    BY <1>1, <1>3, <1>4, AboveBoth
  <1>6. Besides(nds, q, t)
    BY <1>3, <1>5 DEF Besides
  <1> QED
    BY <1>1, <1>2, <1>6, NextKeeps

\* What the walk comes to at a position is still to do.
LEMMA ToDoThere ==
  ASSUME NEW t, cur' \in Paths,
         \/ Ahead(nodes', cur', t)
         \/ Here' /\ t \in Under(cur')
         \/ op' = "remove" /\ t \in Above(cur')
  PROVE  ToDo(t)'
  <1>1. cur' # NoPath
    BY NullAssumption
  <1> QED
    BY <1>1 DEF ToDo

\* A file that is copied next.
LEMMA ToDoCopied ==
  ASSUME NEW nds, NEW p \in Paths, Copy(p, nds), NEW t,
         t \in Under(p) \/ Besides(nds, p, t)
  PROVE  ToDo(t)'
  <1>1. cur' = p /\ nodes' = nds /\ pc' = "copy"
    BY DEF Copy
  <1>2. Here'
    BY <1>1 DEF Here
  <1>3. CASE t \in Under(p)
    BY <1>1, <1>2, <1>3, ToDoThere
  <1>4. CASE Besides(nds, p, t)
    <2>1. Ahead(nodes', cur', t)
      BY <1>1, <1>4 DEF Ahead
    <2> QED
      BY <1>1, <2>1, ToDoThere
  <1> QED
    BY <1>3, <1>4

\* A file in the folder of a position cannot be the last of them all.
LEMMA UploadNextKeeps ==
  ASSUME NEW nds, Listing(nds), NEW p \in Paths, Placed(nds, p), nds[<<>>] = nodes[<<>>],
         UploadNext(nds, p)
  PROVE  /\ nodes'[<<>>] = nodes[<<>>]
         /\ \A t : Ahead(nds, p, t) => ToDo(t)'
  <1>1. CASE nds[p] # {} /\ Await(List(p), p, nds)
    <2>1. cur' = p /\ nodes' = nds
      BY <1>1 DEF Await
    <2> QED
      BY <2>1, ToDoThere
  <1>2. CASE nds[p] = {} /\ Later(nds, p) # {} /\ Copy(NextOf(nds, p), nds)
    <2>1. nodes' = nds
      BY <1>2 DEF Copy
    <2>2. NextOf(nds, p) \in Paths
      BY <1>2, NextOfFacts
    <2>3. ASSUME NEW t, Ahead(nds, p, t)
          PROVE  ToDo(t)'
      <3>1. Besides(nds, p, t)
        BY <1>2, <2>3 DEF Ahead, Beneath
      <3>2. t \in Under(NextOf(nds, p)) \/ Besides(nds, NextOf(nds, p), t)
        BY <1>2, <3>1, NextKeeps
      <3> QED
        BY <1>2, <2>2, <3>2, ToDoCopied
    <2> QED
      BY <2>1, <2>3
  <1>3. CASE Await(List(Parent(Parent(p))), p, nds)
    <2>1. cur' = p /\ nodes' = nds
      BY <1>3 DEF Await
    <2> QED
      BY <2>1, ToDoThere
  <1>4. CASE nds[p] = {} /\ Later(nds, p) = {} /\ Len(p) = 1 /\ KillOp(frames)
    <2>1. nodes' = nodes
      BY <1>4 DEF KillOp
    <2>2. ~(Len(p) > 1)
      BY <1>4
    <2> QED
      BY <1>4, <2>1, <2>2, NoneLeft
  <1> QED
    BY <1>1, <1>2, <1>3, <1>4 DEF UploadNext

\* The folder has been listed, which the walk enters or goes back to.
LEMMA UploadEnterKeeps ==
  ASSUME Listing(nodes), cur \in Paths, Placed(nodes, cur), UploadEnter
  PROVE  /\ nodes'[<<>>] = nodes[<<>>]
         /\ \A t : Ahead(nodes, cur, t) => ToDo(t)'
  <1>1. CASE nodes[cur] # {} /\ Copy(FirstChild(nodes, cur), nodes)
    <2>1. nodes' = nodes /\ FirstChild(nodes, cur) \in Paths
      BY <1>1, FirstChildFacts DEF Copy
    <2>2. ASSUME NEW t, Ahead(nodes, cur, t)
          PROVE  ToDo(t)'
      <3>1. t \in Under(FirstChild(nodes, cur)) \/ Besides(nodes, FirstChild(nodes, cur), t)
        BY <1>1, <2>2, ChildKeeps
      <3> QED
        BY <1>1, <2>1, <3>1, ToDoCopied
    <2> QED
      BY <2>1, <2>2
  <1>2. CASE nodes[cur] = {} /\ Later(nodes, cur) # {} /\ Copy(NextOf(nodes, cur), nodes)
    <2>1. UploadNext(nodes, cur)
      BY <1>2 DEF UploadNext
    <2> QED
      BY <2>1, UploadNextKeeps
  <1>3. CASE /\ nodes[cur] = {} /\ Later(nodes, cur) = {} /\ Len(cur) > 1
             /\ UploadNext([nodes EXCEPT ![Parent(cur)] = {}], Parent(cur))
    <2> DEFINE F == Parent(cur)
               nds == [nodes EXCEPT ![F] = {}]
    <2>1. F \in Paths /\ Placed(nodes, F) /\ F # <<>>
      BY <1>3, ParentFacts, PlacedParent, PathIsSeq
    <2>2. Listing(nds) /\ Placed(nds, F) /\ nds[<<>>] = nodes[<<>>]
      <3>1. Listing(nds)
        BY <2>1, ListingExcept
      <3>2. Len(F) >= Len(F)
        BY <2>1, PathIsSeq
      <3>3. Placed(nds, F)
        BY <2>1, <3>2, PlacedExcept
      <3> QED
        BY <2>1, <3>1, <3>3 DEF Listing
    <2>3. ASSUME NEW f \in Paths \cup {<<>>}, Len(f) < Len(F)
          PROVE  nds[f] = nodes[f]
      <3>1. f # F
        BY <2>1, <2>3, PathIsSeq
      <3> QED
        BY <3>1 DEF Listing
    <2>4. ASSUME NEW t, Ahead(nodes, cur, t)
          PROVE  Ahead(nds, F, t)
      <3>1. Besides(nodes, F, t)
        BY <1>3, <2>4, NoneLeft
      <3> QED
        BY <2>1, <2>3, <3>1, BesidesElsewhere DEF Ahead
    <2> HIDE DEF F, nds
    <2>5. UploadNext(nds, F)
      BY <1>3 DEF nds, F
    <2> QED
      BY <2>1, <2>2, <2>4, <2>5, UploadNextKeeps
  <1>4. CASE nodes[cur] = {} /\ Later(nodes, cur) = {} /\ Len(cur) = 1 /\ KillOp(frames)
    <2>1. UploadNext(nodes, cur)
      BY <1>4 DEF UploadNext
    <2> QED
      BY <2>1, UploadNextKeeps
  <1> QED
    BY <1>1, <1>2, <1>3, <1>4 DEF UploadEnter

\* What is listed in a folder is in it.
LEMMA BeneathUnder ==
  ASSUME NEW nds, Listing(nds), NEW p \in Paths, NEW t, Beneath(nds, p, t)
  PROVE  t \in Under(p) /\ t # p
  <1>1. PICK n \in nds[p] : t \in Under(Append(p, n))
    BY DEF Beneath
  <1>2. n \in Names /\ Append(p, n) \in Paths
    BY <1>1 DEF Listing
  <1> QED
    BY <1>1, <1>2, ChildFacts

\* What an upload that has listed a folder was to do, it is still to do.
LEMMA SpecialHandlerKeeps ==
  ASSUME Listing(nodes), cur \in Paths, Placed(nodes, cur), op = "upload", pc # "copy",
         SpecialHandler
  PROVE  /\ nodes'[<<>>] = nodes[<<>>]
         /\ \A t : ToDo(t) => ToDo(t)'
  <1>1. CASE goto = "first" /\ Copy(cur, nodes)
    <2>1. nodes' = nodes
      BY <1>1 DEF Copy
    <2>2. ASSUME NEW t, ToDo(t)
          PROVE  ToDo(t)'
      <3>1. Beneath(nodes, cur, t) \/ Besides(nodes, cur, t) \/ t \in Under(cur)
        BY <2>2 DEF ToDo, Ahead
      <3>2. t \in Under(cur) \/ Besides(nodes, cur, t)
        BY <3>1, BeneathUnder
      <3> QED
        BY <1>1, <3>2, ToDoCopied
    <2> QED
      BY <2>1, <2>2
  <1>2. CASE goto \in {"child", "parent"} /\ UploadEnter
    <2>1. ASSUME NEW t, ToDo(t)
          PROVE  Ahead(nodes, cur, t)
      BY <1>2, <2>1 DEF ToDo, Here
    <2> QED
      BY <1>2, <2>1, UploadEnterKeeps
  <1> QED
    BY <1>1, <1>2 DEF SpecialHandler

\* A download goes back to a folder that has a file after it.
LEMMA DownloadNextKeeps ==
  ASSUME NEW nds, Listing(nds), cur \in Paths, Placed(nds, cur), nds[<<>>] = nodes[<<>>],
         DownloadNext(nds)
  PROVE  /\ nodes'[<<>>] = nodes[<<>>]
         /\ \A t : Ahead(nds, cur, t) => ToDo(t)'
  <1>1. CASE nds[cur] # {} /\ Copy(FirstChild(nds, cur), nds)
    <2>1. nodes' = nds /\ FirstChild(nds, cur) \in Paths
      BY <1>1, FirstChildFacts DEF Copy
    <2>2. ASSUME NEW t, Ahead(nds, cur, t)
          PROVE  ToDo(t)'
      <3>1. t \in Under(FirstChild(nds, cur)) \/ Besides(nds, FirstChild(nds, cur), t)
        BY <1>1, <2>2, ChildKeeps
      <3> QED
        BY <1>1, <2>1, <3>1, ToDoCopied
    <2> QED
      BY <2>1, <2>2
  <1>2. CASE nds[cur] = {} /\ Turns(nds, cur) # {}
    <2>1. PICK p : p = cur
      OBVIOUS
    <2> DEFINE q == Turn(nds, p)
               c == NextOf(nds, q)
               left == {SubSeq(p, 1, n) : n \in Len(q)..(Len(p) - 1)}
               nds2 == [f \in DOMAIN nds |-> IF f \in left THEN {} ELSE nds[f]]
    <2>2. Copy(c, nds2)
      BY <1>2, <2>1 DEF DownloadNext
    <2>3. p \in Paths /\ Placed(nds, p) /\ Turns(nds, p) # {} /\ nds[p] = {}
      BY <1>2, <2>1
    <2>4. q \in Above(p) /\ Later(nds, q) # {}
      BY <2>3, TurnIn
    <2>5. q \in Paths /\ Placed(nds, q)
      BY <2>3, <2>4, AboveFacts, PlacedAbove
    <2>6. c \in Paths /\ Len(c) = Len(q)
      BY <2>4, <2>5, NextOfFacts
    <2>7. p \in Seq(Names) /\ Len(p) \in Nat /\ Len(q) \in Nat /\ Len(q) >= 1 /\ q \in Seq(Names)
      BY <2>3, <2>5, PathIsSeq
    <2>8. ASSUME NEW f \in left
          PROVE  Len(f) >= Len(q) /\ Len(f) \in Nat
      <3>1. PICK n \in Len(q)..(Len(p) - 1) : f = SubSeq(p, 1, n)
        OBVIOUS
      <3>2. Len(f) = n
        BY <2>7, <3>1
      <3> QED
        BY <2>7, <3>2
    <2> HIDE DEF q, c, left
    <2>9. ASSUME NEW f \in Paths \cup {<<>>}, Len(f) < Len(q)
          PROVE  nds2[f] = nds[f]
      <3>1. Len(f) \in Nat
        BY PathIsSeq
      <3>2. f \notin left
        BY <2>7, <2>8, <2>9, <3>1
      <3> QED
        BY <3>2 DEF Listing
    <2>10. nds2[<<>>] = nds[<<>>]
      <3>1. Len(<<>>) = 0 /\ 0 < Len(q)
        BY <2>7
      <3> QED
        BY <2>9, <3>1
    <2> HIDE DEF nds2
    <2>11. nodes' = nds2
      BY <2>2 DEF Copy
    <2>12. ASSUME NEW t, Ahead(nds, p, t)
           PROVE  ToDo(t)'
      <3>1. Besides(nds, p, t)
        BY <2>3, <2>12 DEF Ahead, Beneath
      <3>2. t \in Under(c) \/ Besides(nds, c, t)
        BY <2>3, <3>1, TurnKeeps DEF c, q
      <3>3. t \in Under(c) \/ Besides(nds2, c, t)
        BY <2>6, <2>9, <3>2, BesidesElsewhere
      <3> QED
        BY <2>2, <2>6, <3>3, ToDoCopied
    <2> QED
      BY <2>1, <2>10, <2>11, <2>12
  <1>3. CASE nds[cur] = {} /\ Turns(nds, cur) = {} /\ KillOp(frames)
    <2>1. nodes' = nodes
      BY <1>3 DEF KillOp
    <2>2. ASSUME NEW t, Ahead(nds, cur, t)
          PROVE  FALSE
      <3>1. Besides(nds, cur, t)
        BY <1>3, <2>2 DEF Ahead, Beneath
      <3>2. Turns(nds, cur) # {}
        BY <3>1 DEF Besides, Turns, Above
      <3> QED
        BY <1>3, <3>2
    <2> QED
      BY <2>1, <2>2
  <1> QED
    BY <1>1, <1>2, <1>3 DEF DownloadNext

\* A folder is removed with the ones above it still to be removed.
LEMMA RemoveKeeps ==
  ASSUME NEW nds, Listing(nds), NEW p \in Paths, nds[<<>>] = nodes[<<>>],
         op' = "remove", ~terminating, NEW forced, RemoveUnlessFolder(p, nds, forced)
  PROVE  /\ nodes'[<<>>] = nodes[<<>>]
         /\ \A t : Besides(nds, p, t) \/ t \in Under(p) \/ t \in Above(p) => ToDo(t)'
  <1>1. /\ cur' = p
        /\ \/ nodes' = nds
           \/ nodes' = [nds EXCEPT ![p] = {}]
    BY DEF RemoveUnlessFolder, Await
  <1>2. p # <<>> /\ DOMAIN nds = Paths \cup {<<>>}
    BY PathIsSeq DEF Listing
  <1>3. \A f : f # p => nodes'[f] = nds[f] \/ f \notin DOMAIN nds
    BY <1>1, <1>2
  <1>4. nodes'[<<>>] = nodes[<<>>]
    BY <1>2, <1>3
  <1>5. Here'
    BY DEF Here
  <1>6. ASSUME NEW t, Besides(nds, p, t)
        PROVE  ToDo(t)'
    <2>1. \A f \in Paths \cup {<<>>} : Len(f) < Len(p) => nodes'[f] = nds[f]
      <3>1. ASSUME NEW f \in Paths \cup {<<>>}, Len(f) < Len(p)
            PROVE  nodes'[f] = nds[f]
        <4>1. f # p
          BY <3>1, PathIsSeq
        <4> QED
          BY <1>2, <1>3, <4>1
      <3> QED
        BY <3>1
    <2>2. Besides(nodes', p, t)
      BY <1>6, <2>1, BesidesElsewhere
    <2>3. Ahead(nodes', cur', t)
      BY <1>1, <2>2 DEF Ahead
    <2> QED
      BY <1>1, <2>3, ToDoThere
  <1>7. ASSUME NEW t, t \in Under(p) \/ t \in Above(p)
        PROVE  ToDo(t)'
    BY <1>1, <1>5, <1>7, ToDoThere
  <1> QED
    BY <1>4, <1>6, <1>7

\* A file has been removed, or could not be: what is left are the files ahead and
\* the folders they are in.
LEMMA DeleteNextKeeps ==
  ASSUME Listing(nodes), cur \in Paths, Placed(nodes, cur),
         op' = "remove", ~terminating, DeleteNext
  PROVE  /\ nodes'[<<>>] = nodes[<<>>]
         /\ \A t : Ahead(nodes, cur, t) \/ (t \in Above(cur) /\ t # cur) => ToDo(t)'
  <1>1. CASE nodes[cur] # {} /\ RemoveUnlessFolder(FirstChild(nodes, cur), nodes, FALSE)
    <2> DEFINE c == FirstChild(nodes, cur)
    <2>1. c \in Paths /\ Parent(c) = cur
      BY <1>1, FirstChildFacts
    <2>2. Len(c) > 1
      <3>1. Len(cur) = Len(c) - 1 /\ Len(c) \in Nat /\ Len(cur) >= 1 /\ Len(cur) \in Nat
        BY <2>1, ParentFacts, PathIsSeq
      <3> QED
        BY <3>1
    <2>3. Above(c) = Above(cur) \cup {c}
      BY <2>1, <2>2, AboveParent
    <2>4. \A t : Ahead(nodes, cur, t) => t \in Under(c) \/ Besides(nodes, c, t)
      BY <1>1, ChildKeeps
    <2> HIDE DEF c
    <2>5. RemoveUnlessFolder(c, nodes, FALSE)
      BY <1>1 DEF c
    <2> QED
      BY <2>1, <2>3, <2>4, <2>5, RemoveKeeps
  <1>2. CASE /\ nodes[cur] = {} /\ Later(nodes, cur) # {}
             /\ RemoveUnlessFolder(NextOf(nodes, cur), nodes, FALSE)
    <2> DEFINE c == NextOf(nodes, cur)
    <2>1. c \in Paths /\ Parent(c) = Parent(cur) /\ Len(c) = Len(cur)
      BY <1>2, NextOfFacts
    <2>2. \A t : t \in Above(cur) /\ t # cur => t \in Above(c)
      <3>1. CASE Len(cur) > 1
        BY <2>1, <3>1, AboveParent
      <3>2. CASE ~(Len(cur) > 1)
        <4>1. Len(cur) = 1
          <5>1. \A k \in Nat : k >= 1 /\ ~(k > 1) => k = 1
            OBVIOUS
          <5> QED
            BY <3>2, <5>1, PathIsSeq, Zenon
        <4> QED
          BY <4>1, AboveFirst
      <3> QED
        BY <3>1, <3>2
    <2>3. \A t : Ahead(nodes, cur, t) => t \in Under(c) \/ Besides(nodes, c, t)
      BY <1>2, NextKeeps DEF Ahead, Beneath
    <2> HIDE DEF c
    <2>4. RemoveUnlessFolder(c, nodes, FALSE)
      BY <1>2 DEF c
    <2> QED
      BY <2>1, <2>2, <2>3, <2>4, RemoveKeeps
  <1>3. CASE /\ nodes[cur] = {} /\ Later(nodes, cur) = {} /\ Len(cur) > 1
             /\ RemoveUnlessFolder(Parent(cur), nodes, TRUE)
    <2>1. Parent(cur) \in Paths /\ Above(cur) = Above(Parent(cur)) \cup {cur}
      BY <1>3, ParentFacts, AboveParent
    <2>2. \A t : Ahead(nodes, cur, t) => Besides(nodes, Parent(cur), t)
      BY <1>3, NoneLeft
    <2>3. PICK c : c = Parent(cur)
      OBVIOUS
    <2> QED
      BY <1>3, <2>1, <2>2, <2>3, RemoveKeeps
  <1>4. CASE nodes[cur] = {} /\ Later(nodes, cur) = {} /\ Len(cur) = 1 /\ KillOp(frames)
    <2>1. nodes' = nodes
      BY <1>4 DEF KillOp
    <2>2. Above(cur) = {cur} /\ ~(Len(cur) > 1)
      BY <1>4, AboveFirst
    <2> QED
      BY <1>4, <2>1, <2>2, NoneLeft
  <1> QED
    BY <1>1, <1>2, <1>3, <1>4 DEF DeleteNext

-----------------------------------------------------------------------------
(* The files stay in folders. *)

\* What is above a file and not the file is above its folder.
LEMMA AboveFolder ==
  ASSUME NEW p \in Paths, NEW a \in Paths, p \in Under(a), p # a
  PROVE  Len(p) > 1 /\ Parent(p) \in Paths /\ Parent(p) \in Under(a)
  <1>1. a \in Above(p)
    BY UnderFacts
  <1>2. Len(p) > 1
    <2>1. Len(p) = 1 => FALSE
      BY <1>1, AboveFirst
    <2>2. \A k \in Nat : k >= 1 /\ k # 1 => k > 1
      OBVIOUS
    <2> QED
      BY <2>1, <2>2, PathIsSeq, Zenon
  <1>3. Parent(p) \in Paths /\ Above(p) = Above(Parent(p)) \cup {p}
    BY <1>2, ParentFacts, AboveParent
  <1>4. a \in Above(Parent(p))
    BY <1>1, <1>3
  <1> QED
    BY <1>2, <1>3, <1>4, AboveUnder

\* A file changes with nothing in it, in a folder.
LEMMA TreeChanged ==
  ASSUME NEW fs \in [Paths -> Node], IsTree(fs), NEW p \in Paths, NEW node,
         \A t \in Under(p) : t = p \/ ~Exists(fs, t),
         \A a \in Paths : p \in Under(a) /\ p # a => IsFolder(fs, a)
  PROVE  IsTree([fs EXCEPT ![p] = node])
  <1> DEFINE fs2 == [fs EXCEPT ![p] = node]
  <1>1. \A t \in Paths : t # p => fs2[t] = fs[t]
    OBVIOUS
  <1> HIDE DEF fs2
  <1>2. ASSUME NEW a \in Paths, NEW q \in Under(a), q # a, Exists(fs2, q)
        PROVE  IsFolder(fs2, a)
    <2>1. CASE q = p
      <3>1. IsFolder(fs, a) /\ a # <<>>
        BY <1>2, <2>1, PathIsSeq
      <3> QED
        BY <1>1, <1>2, <2>1, <3>1 DEF IsFolder
    <2>2. CASE q # p
      <3>1. q \in Paths /\ Exists(fs, q)
        BY <1>1, <1>2, <2>2, UnderFacts DEF Exists
      <3>2. a # p
        BY <1>2, <3>1
      <3>3. IsFolder(fs, a) /\ a # <<>>
        BY <1>2, <3>1, PathIsSeq DEF IsTree
      <3> QED
        BY <1>1, <3>2, <3>3 DEF IsFolder
    <2> QED
      BY <2>1, <2>2
  <1>3. IsTree(fs2)
    BY <1>2 DEF IsTree
  <1> QED
    BY <1>3 DEF fs2

\* A file is created, emptied or removed.
LEMMA TreeCreated ==
  ASSUME NEW fs \in [Paths -> Node], IsTree(fs), NEW p \in Paths, NEW node, NEW used,
         CanCreate(fs, p) \/ CanRemove(fs, used, p)
  PROVE  IsTree([fs EXCEPT ![p] = node])
  <1>1. CASE CanCreate(fs, p)
    <2>1. ~IsFolder(fs, p)
      BY <1>1, PathIsSeq DEF CanCreate, IsFolder, Exists
    <2>2. \A t \in Under(p) : t = p \/ ~Exists(fs, t)
      BY <2>1, TreeFacts
    <2>3. ASSUME NEW a \in Paths, p \in Under(a), p # a
          PROVE  IsFolder(fs, a)
      <3>1. Parent(p) \in Paths /\ Parent(p) \in Under(a)
        BY <2>3, AboveFolder
      <3>2. IsFolder(fs, Parent(p)) /\ Exists(fs, Parent(p))
        BY <1>1, <3>1, PathIsSeq DEF CanCreate, IsFolder, Exists
      <3> QED
        BY <3>1, <3>2 DEF IsTree
    <2> QED
      BY <2>2, <2>3, TreeChanged
  <1>2. CASE CanRemove(fs, used, p)
    <2>1. Exists(fs, p) /\ NamesIn(fs, p) = {}
      BY <1>2 DEF CanRemove
    <2>2. \A t \in Under(p) : t = p \/ ~Exists(fs, t)
      BY <2>1, TreeFacts
    <2>3. \A a \in Paths : p \in Under(a) /\ p # a => IsFolder(fs, a)
      BY <2>1 DEF IsTree
    <2> QED
      BY <2>2, <2>3, TreeChanged
  <1> QED
    BY <1>1, <1>2

LEMMA TreeTruncated ==
  ASSUME NEW fs \in [Paths -> Node], IsTree(fs), NEW p \in Paths, NEW used,
         CanTruncate(fs, used, p), NEW node
  PROVE  IsTree([fs EXCEPT ![p] = node])
  BY TreeCreated DEF CanTruncate

\* Writing changes no file into a folder, or back.
LEMMA TreeWritten ==
  ASSUME NEW fs, IsTree(fs), NEW fs2, \A p \in Paths : fs2[p].kind = fs[p].kind
  PROVE  IsTree(fs2)
  <1>1. \A p : Exists(fs2, p) <=> Exists(fs, p)
    BY DEF Exists
  <1>2. \A p : IsFolder(fs2, p) <=> IsFolder(fs, p)
    BY DEF IsFolder
  <1> QED
    BY <1>1, <1>2 DEF IsTree

\* Where a path goes with what is above it.
LEMMA MovedFacts ==
  ASSUME NEW p \in Paths, NEW to \in Paths, NEW x \in Under(to)
  PROVE  /\ Moved(x, p, to) \in Seq(Names) /\ Len(p) >= 1
         /\ Len(p) \in Nat /\ Len(to) \in Nat /\ Len(x) \in Nat /\ Len(x) >= Len(to)
         /\ Len(Moved(x, p, to)) = Len(p) + (Len(x) - Len(to))
         /\ \A i \in 1..Len(Moved(x, p, to)) :
              Moved(x, p, to)[i] = IF i <= Len(p) THEN p[i] ELSE x[i - Len(p) + Len(to)]
  <1>1. p \in Seq(Names) /\ to \in Seq(Names) /\ Len(p) \in Nat /\ Len(to) \in Nat /\ Len(p) >= 1
    BY PathIsSeq
  <1>2. x \in Paths /\ (x = to \/ Len(x) > Len(to))
    BY UnderFacts
  <1>3. x \in Seq(Names) /\ Len(x) \in Nat
    BY <1>2, PathIsSeq
  <1>4. Len(x) >= Len(to)
    <2>1. \A m, n \in Nat : m = n \/ m > n => m >= n
      OBVIOUS
    <2> QED
      BY <1>1, <1>2, <1>3, <2>1, Zenon
  <1> DEFINE tail == SubSeq(x, Len(to) + 1, Len(x))
  <1>5. /\ tail \in Seq(Names) /\ Len(tail) = Len(x) - Len(to)
        /\ \A i \in 1..(Len(x) - Len(to)) : tail[i] = x[Len(to) + i]
    BY <1>1, <1>3, <1>4
  <1>6. PICK t : t = tail
    OBVIOUS
  <1>7. /\ p \o t \in Seq(Names) /\ Len(p \o t) = Len(p) + Len(t)
        /\ \A i \in 1..(Len(p) + Len(t)) :
             (p \o t)[i] = IF i <= Len(p) THEN p[i] ELSE t[i - Len(p)]
    <2>1. t \in Seq(Names)
      BY <1>5, <1>6
    <2> QED
      BY <1>1, <2>1
  <1>8. Moved(x, p, to) = p \o t
    BY <1>6 DEF Moved
  <1>9. Len(t) = Len(x) - Len(to) /\ \A i \in 1..(Len(x) - Len(to)) : t[i] = x[Len(to) + i]
    BY <1>5, <1>6
  <1>10. ASSUME NEW i \in 1..(Len(p) + (Len(x) - Len(to)))
         PROVE  (p \o t)[i] = IF i <= Len(p) THEN p[i] ELSE x[i - Len(p) + Len(to)]
    <2>1. CASE i <= Len(p)
      BY <1>7, <1>9, <2>1
    <2>2. CASE ~(i <= Len(p))
      <3>1. i - Len(p) \in 1..(Len(x) - Len(to))
        BY <1>1, <1>3, <1>4, <2>2
      <3>2. t[i - Len(p)] = x[Len(to) + (i - Len(p))]
        BY <1>9, <3>1
      <3>3. Len(to) + (i - Len(p)) = i - Len(p) + Len(to)
        BY <1>1
      <3>4. (p \o t)[i] = t[i - Len(p)]
        BY <1>7, <1>9, <2>2
      <3> QED
        BY <2>2, <3>2, <3>3, <3>4
    <2> QED
      BY <2>1, <2>2
  <1> QED
    BY <1>1, <1>3, <1>4, <1>7, <1>8, <1>9, <1>10

\* A path is moved with what is under it.
LEMMA MovedUnder ==
  ASSUME NEW p \in Paths, NEW to \in Paths, NEW a \in Under(to), NEW q \in Under(a), q # a,
         Moved(q, p, to) \in Paths
  PROVE  /\ Moved(a, p, to) \in Paths
         /\ Moved(q, p, to) \in Under(Moved(a, p, to)) /\ Moved(q, p, to) # Moved(a, p, to)
  <1>1. a \in Paths /\ q \in Paths /\ Len(q) > Len(a) /\ q \in Under(to)
    BY UnderFacts
  <1> DEFINE m == Moved(a, p, to)
             n == Moved(q, p, to)
  <1>3. /\ m \in Seq(Names) /\ Len(p) >= 1
        /\ Len(p) \in Nat /\ Len(to) \in Nat /\ Len(a) \in Nat /\ Len(a) >= Len(to)
        /\ Len(m) = Len(p) + (Len(a) - Len(to))
        /\ \A i \in 1..Len(m) : m[i] = IF i <= Len(p) THEN p[i] ELSE a[i - Len(p) + Len(to)]
    BY MovedFacts
  <1>4. /\ n \in Seq(Names) /\ Len(q) \in Nat
        /\ Len(n) = Len(p) + (Len(q) - Len(to))
        /\ \A i \in 1..Len(n) : n[i] = IF i <= Len(p) THEN p[i] ELSE q[i - Len(p) + Len(to)]
    BY <1>1, MovedFacts
  <1>2. n \in Paths
    OBVIOUS
  <1> HIDE DEF m, n
  <1>5. Len(m) \in Nat /\ Len(n) \in Nat /\ Len(m) >= 1 /\ Len(m) < Len(n)
    BY <1>1, <1>3, <1>4
  <1>6. n \in Paths /\ Len(n) \in 1..Depth /\ Depth \in Nat
    BY <1>2, PathIsSeq, ServerAssumption
  <1>7. Len(m) \in 1..Depth
    BY <1>5, <1>6
  <1>8. m \in Paths
    BY <1>3, <1>7, PathIsSeq
  <1>9. \A i \in 1..Len(a) : q[i] = a[i]
    BY <1>1, PathIsSeq DEF Under
  <1>10. ASSUME NEW i \in 1..Len(m)
         PROVE  i \in 1..Len(n) /\ n[i] = m[i]
    <2>1. i \in 1..Len(n)
      BY <1>5
    <2>2. CASE i <= Len(p)
      BY <1>3, <1>4, <2>1, <2>2
    <2>3. CASE ~(i <= Len(p))
      <3>1. i - Len(p) + Len(to) \in 1..Len(a)
        BY <1>3, <2>3
      <3> QED
        BY <1>3, <1>4, <1>9, <2>1, <2>3, <3>1
    <2> QED
      BY <2>1, <2>2, <2>3
  <1>11. DOMAIN m = 1..Len(m) /\ DOMAIN n = 1..Len(n)
    BY <1>3, <1>4
  <1>12. n \in Under(m)
    BY <1>6, <1>10, <1>11 DEF Under
  <1>13. n # m
    BY <1>5
  <1> QED
    BY <1>8, <1>12, <1>13 DEF m, n

\* Of two paths above a third one is above the other.
LEMMA UnderEither ==
  ASSUME NEW a \in Paths, NEW b \in Paths, NEW q \in Under(a), q \in Under(b)
  PROVE  a \in Under(b) \/ (b \in Under(a) /\ Len(a) < Len(b))
  <1>1. q \in Paths /\ a \in Above(q) /\ b \in Above(q)
    BY UnderFacts
  <1>2. Len(a) \in Nat /\ Len(b) \in Nat
    BY PathIsSeq
  <1>3. CASE Len(b) <= Len(a)
    <2>1. b \in Above(a)
      BY <1>1, <1>3, AboveBoth
    <2> QED
      BY <2>1, AboveUnder
  <1>4. CASE Len(a) < Len(b)
    <2>1. a \in Above(b)
      BY <1>1, <1>2, <1>4, AboveBoth
    <2> QED
      BY <1>4, <2>1, AboveUnder
  <1> QED
    BY <1>2, <1>3, <1>4

\* A folder goes to another place with all that is in it.
LEMMA TreeRenamed ==
  ASSUME NEW fs \in [Paths -> Node], IsTree(fs), NEW p \in Paths, NEW to,
         CanCreate(fs, to), to \notin Under(p), NEW fs2,
         fs2 = [q \in Paths |-> IF q \in Under(to) /\ Moved(q, p, to) \in Paths
                                  THEN fs[Moved(q, p, to)]
                                ELSE IF q \in Under(p) \cup Under(to) THEN Absent ELSE fs[q]]
  PROVE  IsTree(fs2)
  <1>1. to \in Paths /\ IsFolder(fs, Parent(to))
    BY DEF CanCreate
  <1>2. Absent.kind = "none"
    BY DEF Absent
  <1>3. ASSUME NEW a \in Paths, NEW q \in Under(a), q # a, Exists(fs2, q)
        PROVE  IsFolder(fs2, a)
    <2>1. q \in Paths /\ Under(q) \subseteq Under(a) /\ Len(a) \in Nat
      BY UnderFacts, PathIsSeq
    <2>2. CASE a \in Under(to)
      <3>1. q \in Under(to)
        BY <1>1, <2>2, UnderFacts
      <3>2. Moved(q, p, to) \in Paths
        BY <1>2, <1>3, <2>1, <3>1 DEF Exists
      <3>3. /\ Moved(a, p, to) \in Paths /\ Moved(q, p, to) \in Under(Moved(a, p, to))
            /\ Moved(q, p, to) # Moved(a, p, to)
        BY <1>1, <1>3, <2>2, <3>2, MovedUnder
      <3>4. Exists(fs, Moved(q, p, to))
        BY <1>3, <2>1, <3>1, <3>2 DEF Exists
      <3>5. IsFolder(fs, Moved(a, p, to)) /\ Moved(a, p, to) # <<>>
        BY <3>3, <3>4, PathIsSeq DEF IsTree
      <3>6. fs2[a] = fs[Moved(a, p, to)]
        BY <2>2, <3>3
      <3> QED
        BY <3>5, <3>6 DEF IsFolder
    <2>3. CASE a \notin Under(to) /\ q \in Under(to)
      <3>1. to \in Under(a) /\ to # a
        <4>1. to \in Under(a)
          BY <1>1, <2>3, UnderEither
        <4>2. to \in Under(to)
          BY <1>1, UnderFacts
        <4> QED
          BY <2>3, <4>1, <4>2
      <3>2. Parent(to) \in Paths /\ Parent(to) \in Under(a)
        BY <1>1, <3>1, AboveFolder
      <3>3. IsFolder(fs, a) /\ a # <<>>
        <4>1. Exists(fs, Parent(to))
          BY <1>1, <3>2, PathIsSeq DEF IsFolder, Exists
        <4> QED
          BY <1>1, <3>2, <4>1, PathIsSeq DEF IsTree
      <3>4. a \notin Under(p)
        BY <3>1, UnderFacts
      <3>5. fs2[a] = fs[a]
        BY <2>3, <3>4
      <3> QED
        BY <3>3, <3>5 DEF IsFolder
    <2>4. CASE a \notin Under(to) /\ q \notin Under(to)
      <3>1. q \notin Under(p)
        BY <1>3, <2>1, <2>4 DEF Exists, Absent
      <3>2. a \notin Under(p)
        BY <3>1, UnderFacts
      <3>3. fs2[q] = fs[q] /\ fs2[a] = fs[a]
        BY <2>1, <2>4, <3>1, <3>2
      <3>4. IsFolder(fs, a) /\ a # <<>>
        BY <1>3, <2>1, <3>3, PathIsSeq DEF IsTree, Exists
      <3> QED
        BY <3>3, <3>4 DEF IsFolder
    <2> QED
      BY <2>2, <2>3, <2>4
  <1> QED
    BY <1>3 DEF IsTree

\* The server keeps its files in folders.
LEMMA TreeHandle ==
  ASSUME IInv, Handle, IsTree(remote)
  PROVE  IsTree(remote')
  <1> DEFINE q == Head(requests)
  <1>1. remote \in [Paths -> Node]
    BY DEF IInv, Types
  <1>2. CASE Refuse \/ ListFolder \/ FolderSize \/ EndUpload \/ StartDownload
             \/ StartDownloadFails \/ DownloadData
    <2>1. remote' = remote
      BY <1>2 DEF Refuse, ListFolder, FolderSize, EndUpload, StartDownload, StartDownloadFails,
                  DownloadData, CrashOnNull
    <2> QED
      BY <2>1
  <1>3. CASE MakeFolder
    <2>1. \/ remote' = remote
          \/ CanCreate(remote, q.path) /\ remote' = [remote EXCEPT ![q.path] = Folder]
      BY <1>3 DEF MakeFolder, Asked
    <2> QED
      BY <1>1, <2>1, TreeCreated DEF CanCreate
  <1>4. CASE RemoveFile
    <2>1. \/ remote' = remote
          \/ /\ CanRemove(remote, openFiles, q.path)
             /\ remote' = [remote EXCEPT ![q.path] = Absent]
      BY <1>4 DEF RemoveFile, Asked
    <2> QED
      BY <1>1, <2>1, TreeCreated DEF CanRemove, Exists
  <1>5. CASE RenameFile
    <2> DEFINE p == q.path
               to == q.to
    <2>1. remote' = remote \/ (CanRename(p, to) /\ remote' = Renamed(p, to))
      BY <1>5 DEF RenameFile, Asked
    <2>2. CASE CanRename(p, to) /\ remote' = Renamed(p, to)
      <3>1. p \in Paths /\ CanCreate(remote, to) /\ to \notin Under(p)
        BY <2>2 DEF CanRename, Exists
      <3>2. PICK fs2, p2, to2 : fs2 = remote' /\ p2 = p /\ to2 = to
        OBVIOUS
      <3>3. /\ p2 \in Paths /\ CanCreate(remote, to2) /\ to2 \notin Under(p2)
            /\ fs2 = [t \in Paths |-> IF t \in Under(to2) /\ Moved(t, p2, to2) \in Paths
                                        THEN remote[Moved(t, p2, to2)]
                                      ELSE IF t \in Under(p2) \cup Under(to2) THEN Absent
                                      ELSE remote[t]]
        BY <2>2, <3>1, <3>2 DEF Renamed
      <3>4. IsTree(fs2)
        BY <1>1, <3>3, TreeRenamed
      <3> QED
        BY <3>2, <3>4
    <2> QED
      BY <2>1, <2>2
  <1>6. CASE StartUpload
    <2>1. \/ remote' = remote
          \/ /\ CanTruncate(remote, WithoutUpload, q.path)
             /\ remote' = [remote EXCEPT ![q.path] = File(<<>>)]
      BY <1>6 DEF StartUpload, StartUploadFrom, Asked, Truncated
    <2>2. CanTruncate(remote, WithoutUpload, q.path) => q.path \in Paths
      BY DEF CanTruncate, CanCreate, CanRemove, Exists
    <2>3. ASSUME CanTruncate(remote, WithoutUpload, q.path), NEW node
          PROVE  IsTree([remote EXCEPT ![q.path] = node])
      <3>1. PICK p : p = q.path
        OBVIOUS
      <3>2. PICK used : used = WithoutUpload
        OBVIOUS
      <3>3. p \in Paths /\ CanTruncate(remote, used, p)
        BY <2>2, <2>3, <3>1, <3>2
      <3>4. IsTree([remote EXCEPT ![p] = node])
        BY <1>1, <3>3, TreeTruncated
      <3> QED
        BY <3>1, <3>4
    <2> QED
      BY <2>1, <2>3
  <1>7. CASE StartUploadFails
    <2>1. \/ remote' = remote
          \/ /\ CanTruncate(remote, WithoutUpload, q.path)
             /\ \/ remote' = [remote EXCEPT ![q.path] = File(<<>>)]
                \/ remote' = [remote EXCEPT ![q.path] = Absent]
      BY <1>7 DEF StartUploadFails, Asked, Truncated
    <2>2. CanTruncate(remote, WithoutUpload, q.path) => q.path \in Paths
      BY DEF CanTruncate, CanCreate, CanRemove, Exists
    <2>3. ASSUME CanTruncate(remote, WithoutUpload, q.path), NEW node
          PROVE  IsTree([remote EXCEPT ![q.path] = node])
      <3>1. PICK p : p = q.path
        OBVIOUS
      <3>2. PICK used : used = WithoutUpload
        OBVIOUS
      <3>3. p \in Paths /\ CanTruncate(remote, used, p)
        BY <2>2, <2>3, <3>1, <3>2
      <3>4. IsTree([remote EXCEPT ![p] = node])
        BY <1>1, <3>3, TreeTruncated
      <3> QED
        BY <3>1, <3>4
    <2> QED
      BY <2>1, <2>3
  <1>8. CASE UploadData
    <2>1. \/ remote' = remote
          \/ \E chunk : remote' = [remote EXCEPT ![outputStream.path].data =
                                     Write(@, outputStream.pos, chunk)]
      BY <1>8 DEF UploadData, Asked, CrashOnNull
    <2>2. \A p \in Paths : remote'[p].kind = remote[p].kind
      <3>1. ASSUME NEW p \in Paths
            PROVE  remote'[p].kind = remote[p].kind
        <4>1. remote[p] \in Node
          BY <1>1
        <4>2. DOMAIN remote[p] = {"kind", "data"}
          BY <4>1 DEF Node, Absent, Folder
        <4>3. CASE remote' = remote
          BY <4>3
        <4>4. ASSUME NEW chunk,
                     remote' = [remote EXCEPT ![outputStream.path].data =
                                  Write(@, outputStream.pos, chunk)]
              PROVE  remote'[p].kind = remote[p].kind
          <5> DEFINE data == Write(remote[outputStream.path].data, outputStream.pos, chunk)
          <5>1. DOMAIN remote = Paths
            BY <1>1
          <5>2. remote' = [remote EXCEPT ![outputStream.path].data = data]
            BY <4>4
          <5> HIDE DEF data
          <5>3. CASE p = outputStream.path
            <6>1. remote'[p] = [remote[p] EXCEPT !.data = data]
              BY <5>1, <5>2, <5>3
            <6> QED
              BY <4>2, <6>1
          <5>4. CASE p # outputStream.path
            <6>1. remote'[p] = remote[p]
              BY <5>1, <5>2, <5>4
            <6> QED
              BY <6>1
          <5> QED
            BY <5>3, <5>4
        <4> QED
          BY <2>1, <4>3, <4>4
      <3> QED
        BY <3>1
    <2> QED
      BY <2>2, TreeWritten
  <1> QED
    BY <1>2, <1>3, <1>4, <1>5, <1>6, <1>7, <1>8 DEF Handle

\* So does the viewer.
LEMMA TreeDownload ==
  ASSUME PInv, IsTree(local), cur \in Paths
  PROVE  /\ IsTree(LocalForDownload)
         /\ \A t \in Paths : t # cur => LocalForDownload[t] = local[t]
  <1>1. local \in [Paths -> Node]
    BY DEF PInv, ClientTypes, DataTypes
  <1>2. CASE offset = 0 /\ CanTruncate(local, {}, cur)
    <2>1. LocalForDownload = [local EXCEPT ![cur] = File(<<>>)]
      BY <1>2 DEF LocalForDownload, Truncated
    <2> QED
      BY <1>1, <1>2, <2>1, TreeTruncated
  <1>3. CASE ~(offset = 0 /\ CanTruncate(local, {}, cur))
    BY <1>3 DEF LocalForDownload
  <1> QED
    BY <1>2, <1>3

\* A file that is there, in its folder, is emptied before it is downloaded.
LEMMA EmptiedForDownload ==
  ASSUME PInv, IsTree(local), cur \in Paths, offset = 0, IsFile(LocalForDownload, cur)
  PROVE  LocalForDownload[cur] = File(<<>>)
  <1>1. local \in [Paths -> Node]
    BY DEF PInv, ClientTypes, DataTypes
  <1>2. CASE CanTruncate(local, {}, cur)
    BY <1>1, <1>2 DEF LocalForDownload, Truncated
  <1>3. CASE ~CanTruncate(local, {}, cur)
    <2>1. IsFile(local, cur)
      BY <1>3 DEF LocalForDownload
    <2>2. ~IsFolder(local, cur) /\ Exists(local, cur)
      BY <2>1, PathIsSeq DEF IsFile, IsFolder, Exists
    <2>3. NamesIn(local, cur) = {}
      <3> SUFFICES ASSUME NEW n \in Names, Exists(local, Append(cur, n)) PROVE FALSE
        BY DEF NamesIn
      <3>1. Append(cur, n) \in Paths
        BY DEF Exists
      <3>2. Append(cur, n) \in Under(cur) /\ Append(cur, n) # cur
        BY <3>1, ChildFacts
      <3> QED
        BY <2>2, <3>2 DEF IsTree
    <2>4. IsFolder(local, Parent(cur))
      <3>1. CASE Parent(cur) = <<>>
        BY <3>1 DEF IsFolder
      <3>2. CASE Parent(cur) # <<>>
        <4>1. Parent(cur) \in Paths
          BY <3>2, ParentFacts
        <4>2. Len(cur) > 1
          <5>1. Len(cur) = 1 => FALSE
            BY <3>2, ParentFacts
          <5>2. \A k \in Nat : k >= 1 /\ k # 1 => k > 1
            OBVIOUS
          <5> QED
            BY <5>1, <5>2, PathIsSeq, Zenon
        <4>3. Parent(cur) \in Above(Parent(cur)) /\ Above(cur) = Above(Parent(cur)) \cup {cur}
          BY <4>1, <4>2, AboveFacts, AboveParent
        <4>4. cur \in Under(Parent(cur))
          BY <4>3, AboveUnder
        <4>5. Parent(cur) # cur
          <5>1. Len(Parent(cur)) = Len(cur) - 1 /\ Len(cur) \in Nat
            BY ParentFacts
          <5>2. \A k \in Nat : k - 1 # k
            OBVIOUS
          <5> QED
            BY <5>1, <5>2, Zenon
        <4> QED
          BY <2>2, <4>1, <4>4, <4>5 DEF IsTree
      <3> QED
        BY <3>1, <3>2
    <2>5. CanTruncate(local, {}, cur)
      BY <2>1, <2>3, <2>4, WholeFile
    <2> QED
      BY <1>3, <2>5
  <1> QED
    BY <1>2, <1>3

-----------------------------------------------------------------------------
(* Every file is done with, or still to do. *)

LEMMA WalkedStep ==
  ASSUME Walked, op' = op, nodes'[<<>>] = nodes[<<>>],
         \A t \in Paths : Done(t) \/ ToDo(t) => Done(t)' \/ ToDo(t)'
  PROVE  Walked'
  <1>1. \A t : Selected(nodes', t) <=> Selected(nodes, t)
    BY DEF Selected
  <1> QED
    BY <1>1 DEF Walked

\* What is done stays done, while nothing changes.
LEMMA DoneSame ==
  ASSUME UNCHANGED <<op, local, remote>>, excused \subseteq excused', NEW t, Done(t)
  PROVE  Done(t)'
  <1>1. Source' = Source /\ Target' = Target
    BY DEF Source, Target
  <1> QED
    BY <1>1 DEF Done, Exists, IsFile

\* What has failed is done with.
LEMMA DoneExcused ==
  ASSUME NEW t \in Paths, NEW p, p \in Under(t), p \in excused'
  PROVE  Done(t)'
  BY DEF Done

LEMMA DoneUnder ==
  ASSUME NEW p \in Paths, NEW t \in Under(p), Under(p) \subseteq excused'
  PROVE  Done(t)'
  <1>1. t \in Paths /\ t \in Under(t)
    BY UnderFacts
  <1> QED
    BY <1>1 DEF Done

\* Nothing is missing of what is not there.
LEMMA DoneAbsent ==
  ASSUME NEW t, op' # "remove", ~IsFile(Source', t)
  PROVE  Done(t)'
  BY DEF Done

\* Nothing was told when the walk goes on.
LEMMA RightGoes ==
  ASSUME requests = <<>>, replies' = <<>>, NEW F, Goes(F)
  PROVE  Right'
  <1>1. CASE cur' = NoPath
    BY <1>1 DEF Right
  <1>2. CASE requests' = <<>>
    BY <1>2 DEF Right
  <1>3. CASE \E r \in Request : requests' = <<r>> /\ WalkAsks(r)'
    <2>1. PICK r \in Request : requests' = <<r>> /\ WalkAsks(r)'
      BY <1>3
    <2>2. r.kind \in {"list", "remove"}
      <3>1. \A p : List(p).kind = "list"
        BY DEF List
      <3>2. \A p : [kind |-> "remove", path |-> p].kind = "remove"
        OBVIOUS
      <3> QED
        BY <2>1, <3>1, <3>2 DEF WalkAsks
    <2>3. AsksRight(r)'
      BY <2>2 DEF AsksRight
    <2>4. \A q : requests' = <<q>> => q = r
      BY <2>1, OneElement
    <2> QED
      BY <2>3, <2>4 DEF Right
  <1> QED
    BY <1>1, <1>2, <1>3 DEF Goes

\* The walk goes on.
LEMMA CompleteGoes ==
  ASSUME Complete, IsTree(local'), UNCHANGED <<op, remote, terminating>>, op \in Walks,
         requests = <<>>, replies' = <<>>, NEW F, Goes(F),
         ~terminating => /\ nodes'[<<>>] = nodes[<<>>]
                         /\ \A t \in Paths : Done(t) \/ ToDo(t) => Done(t)' \/ ToDo(t)'
  PROVE  Complete'
  <1>1. Right'
    BY RightGoes
  <1>2. ~terminating => Walked'
    BY WalkedStep DEF Complete
  <1> QED
    BY <1>1, <1>2 DEF Complete

\* It asks for something.
LEMMA CompleteAsks ==
  ASSUME Complete, IsTree(local'), UNCHANGED <<op, remote, terminating>>, op \in Walks,
         NEW q, requests' = <<q>>, replies' = <<>>,
         ~terminating => /\ nodes'[<<>>] = nodes[<<>>] /\ AsksRight(q)'
                         /\ \A t \in Paths : Done(t) \/ ToDo(t) => Done(t)' \/ ToDo(t)'
  PROVE  Complete'
  <1>1. ~terminating => Walked'
    BY WalkedStep DEF Complete
  <1>2. \A r : requests' = <<r>> => r = q
    BY OneElement
  <1>3. ~terminating => Right'
    BY <1>2 DEF Right
  <1> QED
    BY <1>1, <1>3 DEF Complete

\* A cancelled operation promises nothing.
LEMMA CompleteNot ==
  ASSUME Complete, IsTree(local'), IsTree(remote'), terminating' \/ op' \notin Walks
  PROVE  Complete'
  BY DEF Complete

\* The reply is right.
LEMMA ToldRightly ==
  ASSUME PInv, Complete, NEW o \in Walks, NEW kind, GotFor(o, kind), ~terminating,
         kind \notin {"size", "failed"} \/ o # "download" \/ sizesLeft = 0
  PROVE  Walked /\ ToldRight(Head(replies))
  <1>1. op = o /\ replies = <<Head(replies)>> /\ cur # NoPath /\ sizesLeft = 0
    BY ToldFacts DEF GotFor, Waiting, Walking
  <1> QED
    BY <1>1 DEF Complete, Right

\* A file is done with, and nothing is in it.
LEMMA FileDone ==
  ASSUME NEW p \in Paths, op' # "remove", IsTree(Source'), ~IsFolder(Source', p), Done(p)',
         NEW t \in Under(p)
  PROVE  Done(t)'
  <1>1. t = p \/ ~Exists(Source', t)
    BY TreeFacts
  <1> QED
    BY <1>1, DoneAbsent DEF IsFile, Exists

\* gotoNext of an upload, when it is done with the file.
LEMMA UploadOver ==
  ASSUME UNCHANGED <<local, op>>, op = "upload", IsTree(local),
         Listing(nodes), NEW p \in Paths, p = cur, Placed(nodes, cur), UploadNext(nodes, cur),
         Here => ~IsFolder(local, cur) /\ Done(p)'
  PROVE  /\ nodes'[<<>>] = nodes[<<>>]
         /\ \A t \in Paths : ToDo(t) => Done(t)' \/ ToDo(t)'
  <1>1. /\ nodes'[<<>>] = nodes[<<>>]
        /\ \A t : Ahead(nodes, cur, t) => ToDo(t)'
    BY UploadNextKeeps
  <1>2. ASSUME Here, NEW t \in Under(p)
        PROVE  Done(t)'
    <2>1. Source' = local /\ IsTree(Source') /\ ~IsFolder(Source', p) /\ op' # "remove"
      BY <1>2 DEF Source
    <2> QED
      BY <1>2, <2>1, FileDone
  <1>3. ASSUME NEW t \in Paths, ToDo(t)
        PROVE  Ahead(nodes, cur, t) \/ (Here /\ t \in Under(p))
    BY <1>3 DEF ToDo
  <1> QED
    BY <1>1, <1>2, <1>3

\* gotoNext of a download, when it is done with what the file holds but for what it
\* has listed.
LEMMA DownloadOver ==
  ASSUME op = "download", NEW nds, Listing(nds), NEW p \in Paths, p = cur, Placed(nds, cur),
         Listing(nodes), nds[<<>>] = nodes[<<>>], DownloadNext(nds),
         \A t : Besides(nodes, p, t) => Besides(nds, p, t),
         \A t \in Under(p) : Done(t)' \/ Beneath(nds, p, t)
  PROVE  /\ nodes'[<<>>] = nodes[<<>>]
         /\ \A t \in Paths : ToDo(t) => Done(t)' \/ ToDo(t)'
  <1>1. /\ nodes'[<<>>] = nodes[<<>>]
        /\ \A t : Ahead(nds, cur, t) => ToDo(t)'
    BY DownloadNextKeeps
  <1>2. ASSUME NEW t \in Paths, ToDo(t)
        PROVE  Besides(nodes, p, t) \/ t \in Under(p)
    BY <1>2, BeneathUnder DEF ToDo, Ahead
  <1> QED
    BY <1>1, <1>2 DEF Ahead

\* gotoNext of a removal, when the file is not there any more or has failed.
LEMMA RemoveOver ==
  ASSUME UNCHANGED op, op = "remove", ~terminating,
         Listing(nodes), NEW p \in Paths, p = cur, Placed(nodes, cur), DeleteNext,
         \A t \in Under(p) : Done(t)'
  PROVE  /\ nodes'[<<>>] = nodes[<<>>]
         /\ \A t \in Paths : ToDo(t) => Done(t)' \/ ToDo(t)'
  <1>1. /\ nodes'[<<>>] = nodes[<<>>]
        /\ \A t : Ahead(nodes, cur, t) \/ (t \in Above(cur) /\ t # cur) => ToDo(t)'
    BY DeleteNextKeeps
  <1>2. p \in Under(p)
    BY UnderFacts
  <1>3. ASSUME NEW t \in Paths, ToDo(t)
        PROVE  Ahead(nodes, cur, t) \/ t \in Under(p) \/ (t \in Above(cur) /\ t # cur)
    BY <1>2, <1>3 DEF ToDo
  <1> QED
    BY <1>1, <1>3

-----------------------------------------------------------------------------

LEMMA UploadListedComplete ==
  ASSUME PInv, Complete, UploadListed \/ UploadRequestFailed
  PROVE  Complete'
  <1>1. /\ GotFor("upload", "list") \/ GotFor("upload", "failed")
        /\ SpecialHandler \/ (goto = "none" /\ UploadNext(nodes, cur))
        /\ excused \subseteq excused'
        /\ UNCHANGED <<local, uiVars, terminating>>
        /\ SpecialHandler \/ cur \in excused'
    BY DEF UploadListed, UploadRequestFailed, historyVars, dataVars
  <1>2. /\ Free /\ op = "upload" /\ replies' = <<>> /\ pc = "idle"
        /\ cur \in Paths /\ Listing(nodes) /\ Placed(nodes, cur) /\ GotoFits
        /\ UNCHANGED <<remote, handlerVars, crashed>>
    BY <1>1, ToldFacts DEF Walks
  <1>3. requests = <<>> /\ op' = op /\ IsTree(local)
    BY <1>1, <1>2 DEF Free, uiVars, Complete
  <1>4. \A t \in Paths : Done(t) => Done(t)'
    BY <1>1, <1>2, <1>3, DoneSame
  <1>5. CASE SpecialHandler
    <2>1. Goes(ListedFolder)
      BY <1>2, <1>3, <1>5, SpecialHandlerGoes
    <2>2. /\ nodes'[<<>>] = nodes[<<>>]
          /\ \A t : ToDo(t) => ToDo(t)'
      BY <1>2, <1>5, SpecialHandlerKeeps
    <2> QED
      BY <1>1, <1>2, <1>3, <1>4, <2>1, <2>2, CompleteGoes DEF Walks
  <1>6. CASE ~SpecialHandler
    <2>1. UploadNext(nodes, cur) /\ cur \in excused' /\ goto = "none"
      BY <1>1, <1>6
    <2>2. PICK p \in Paths : p = cur
      BY <1>2
    <2>3. Done(p)'
      BY <2>1, <2>2, UnderFacts, DoneExcused
    <2>4. Here => ~IsFolder(local, cur)
      BY <1>2, <2>1 DEF Here
    <2>5. Goes(Parent(cur))
      BY <1>2, <1>3, <2>1, UploadNextGoes
    <2>6. /\ nodes'[<<>>] = nodes[<<>>]
          /\ \A t \in Paths : ToDo(t) => Done(t)' \/ ToDo(t)'
      BY <1>1, <1>2, <1>3, <2>1, <2>2, <2>3, <2>4, UploadOver
    <2> QED
      BY <1>1, <1>2, <1>3, <1>4, <2>5, <2>6, CompleteGoes DEF Walks
  <1> QED
    BY <1>5, <1>6

\* An upload that goes on from a file it is done with.
LEMMA UploadFileComplete ==
  ASSUME PInv, Complete, op = "upload", requests = <<>>, replies' = <<>>,
         cur \in Paths, Listing(nodes), Placed(nodes, cur),
         NEW p \in Paths, p = cur, UploadNext(nodes, cur),
         UNCHANGED <<op, local, remote, terminating>>, excused \subseteq excused',
         ~terminating => (Here => ~IsFolder(local, cur) /\ Done(p)')
  PROVE  Complete'
  <1>1. Goes(Parent(cur))
    BY UploadNextGoes
  <1>2. \A t \in Paths : Done(t) => Done(t)'
    BY DoneSame
  <1>3. IsTree(local)
    BY DEF Complete
  <1>4. ~terminating =>
          /\ nodes'[<<>>] = nodes[<<>>]
          /\ \A t \in Paths : ToDo(t) => Done(t)' \/ ToDo(t)'
    BY <1>3, UploadOver
  <1> QED
    BY <1>1, <1>2, <1>3, <1>4, CompleteGoes DEF Walks

\* A folder has been made, or a file ended.
LEMMA UploadEndedComplete ==
  ASSUME PInv, Complete, FolderMade \/ UploadEnded
  PROVE  Complete'
  <1>1. /\ GotFor("upload", "mkdir") \/ GotFor("upload", "end upload")
        /\ UploadNext(nodes, cur) /\ UNCHANGED <<local, uiVars, historyVars, terminating>>
    BY DEF FolderMade, UploadEnded, Quiet, dataVars
  <1>2. /\ Free /\ op = "upload" /\ replies' = <<>> /\ pc = "idle"
        /\ cur \in Paths /\ Listing(nodes) /\ Placed(nodes, cur) /\ GotoFits
        /\ UNCHANGED <<remote, handlerVars, crashed>> /\ IsTold(Head(replies))
        /\ Head(replies).kind \in {"mkdir", "end upload"}
    BY <1>1, ToldFacts DEF Walks
  <1>3. requests = <<>> /\ op' = op /\ excused' = excused
    BY <1>1, <1>2 DEF Free, uiVars, historyVars
  <1>4. PICK p \in Paths : p = cur
    BY <1>2
  <1>5. ASSUME ~terminating, Here
        PROVE  ~IsFolder(local, cur) /\ Done(p)'
    <2>1. ToldRight(Head(replies))
      BY <1>1, <1>5, ToldRightly DEF Walks
    <2>2. goto = "none"
      BY <1>2 DEF IsTold, ListReply
    <2>3. ~IsFolder(local, cur)
      BY <1>2, <1>5, <2>2 DEF Here
    <2>4. Head(replies).kind = "end upload"
      BY <1>2, <2>1, <2>3 DEF ToldRight
    <2>5. Whole => remote[p] = Source[p]
      BY <1>4, <2>1, <2>4 DEF ToldRight
    <2>6. Source' = local /\ Target' = remote /\ Source = local
      BY <1>1, <1>2, <1>3 DEF Source, Target
    <2>7. op' # "remove"
      BY <1>2, <1>3
    <2>8. CASE Whole
      BY <2>3, <2>5, <2>6, <2>8, <2>7 DEF Done
    <2>9. CASE p \in excused
      BY <1>3, <2>3, <2>9, UnderFacts, DoneExcused
    <2>10. CASE ~IsFile(local, p)
      BY <2>3, <2>6, <2>10, <2>7, DoneAbsent
    <2> QED
      BY <1>2, <1>4, <2>3, <2>6, <2>8, <2>9, <2>10 DEF Whole
  <1> QED
    BY <1>1, <1>2, <1>3, <1>4, <1>5, UploadFileComplete

-----------------------------------------------------------------------------
(* A file is copied chunk by chunk. *)

\* A number below a bound may be counted up to it.
LEMMA Counting ==
  /\ \A m, n \in Nat : m < n => m + 1 \in 0..n
  /\ \A n \in Nat : \A m \in 0..n : m >= n => m = n
  OBVIOUS

\* A chunk written at the end of what was copied makes it one chunk longer.
LEMMA Prefixes ==
  ASSUME NEW d \in Seq(Chunks)
  PROVE  /\ SubSeq(d, 1, 0) = <<>> /\ SubSeq(d, 1, Len(d)) = d /\ Len(d) \in Nat
         /\ \A k \in Nat : k < Len(d) =>
              /\ SubSeq(d, 1, k) \in Seq(Chunks) /\ d[k + 1] \in Chunks
              /\ Write(SubSeq(d, 1, k), k, d[k + 1]) = SubSeq(d, 1, k + 1)
  <1>1. Len(d) \in Nat /\ DOMAIN d = 1..Len(d)
    OBVIOUS
  <1>2. SubSeq(d, 1, 0) = <<>>
    OBVIOUS
  <1>3. SubSeq(d, 1, Len(d)) = d
    BY <1>1, SeqEqual
  <1>4. ASSUME NEW k \in Nat, k < Len(d)
        PROVE  /\ SubSeq(d, 1, k) \in Seq(Chunks) /\ d[k + 1] \in Chunks
               /\ Write(SubSeq(d, 1, k), k, d[k + 1]) = SubSeq(d, 1, k + 1)
    <2> DEFINE a == SubSeq(d, 1, k)
               b == SubSeq(d, 1, k + 1)
    <2>1. /\ a \in Seq(Chunks) /\ Len(a) = k /\ \A i \in 1..k : a[i] = d[i]
      BY <1>1, <1>4
    <2>2. /\ b \in Seq(Chunks) /\ Len(b) = k + 1 /\ \A i \in 1..(k + 1) : b[i] = d[i]
      BY <1>1, <1>4
    <2>3. d[k + 1] \in Chunks
      BY <1>1, <1>4
    <2> HIDE DEF a, b
    <2>4. Write(a, k, d[k + 1]) = Append(a, d[k + 1])
      BY <2>1, <1>4 DEF Write
    <2>5. /\ Append(a, d[k + 1]) \in Seq(Chunks) /\ Len(Append(a, d[k + 1])) = k + 1
          /\ \A i \in 1..(k + 1) : Append(a, d[k + 1])[i] = d[i]
      <3>1. /\ Append(a, d[k + 1]) \in Seq(Chunks) /\ Len(Append(a, d[k + 1])) = k + 1
            /\ Append(a, d[k + 1])[k + 1] = d[k + 1]
            /\ \A i \in 1..k : Append(a, d[k + 1])[i] = a[i]
        BY <2>1, <2>3, <1>4, AppendProperties
      <3>2. \A i \in 1..(k + 1) : i \in 1..k \/ i = k + 1
        BY <1>4
      <3> QED
        BY <2>1, <3>1, <3>2
    <2>6. Append(a, d[k + 1]) = b
      BY <2>2, <2>5, SeqEqual
    <2> QED
      BY <2>1, <2>3, <2>4, <2>6 DEF a, b
  <1> QED
    BY <1>1, <1>2, <1>3, <1>4

\* A file is what its data are.
LEMMA FileNode ==
  ASSUME NEW n \in Node, n.kind = "file"
  PROVE  n = File(n.data) /\ n.data \in Seq(Chunks)
  BY DEF Node, Absent, Folder, File

\* The file that is being copied.
LEMMA WholeFacts ==
  ASSUME PInv, Whole
  PROVE  /\ cur \in Paths /\ Source[cur] = File(Source[cur].data)
         /\ Source[cur].data \in Seq(Chunks) /\ Len(Source[cur].data) \in Nat
  <1>1. IsFile(Source, cur) /\ Source \in [Paths -> Node]
    BY DEF Whole, Source, PInv, IInv, Types, ClientTypes, DataTypes
  <1>2. cur \in Paths /\ Source[cur].kind = "file" /\ Source[cur] \in Node
    BY <1>1 DEF IsFile
  <1> QED
    BY <1>2, FileNode

\* Its first chunks, and one more.
LEMMA Written ==
  ASSUME NEW d \in Seq(Chunks), NEW k \in Nat, k < Len(d), NEW fs \in [Paths -> Node],
         NEW p \in Paths, fs[p] = File(SubSeq(d, 1, k))
  PROVE  [fs EXCEPT ![p].data = Write(@, k, d[k + 1])][p] = File(SubSeq(d, 1, k + 1))
  <1>1. fs[p].data = SubSeq(d, 1, k) /\ fs[p].kind = "file" /\ DOMAIN fs[p] = {"kind", "data"}
    BY DEF File
  <1>2. Write(fs[p].data, k, d[k + 1]) = SubSeq(d, 1, k + 1)
    <2>1. Write(SubSeq(d, 1, k), k, d[k + 1]) = SubSeq(d, 1, k + 1)
      BY Prefixes
    <2> QED
      BY <1>1, <2>1, Zenon
  <1>3. [fs EXCEPT ![p].data = Write(@, k, d[k + 1])][p]
          = [fs[p] EXCEPT !.data = SubSeq(d, 1, k + 1)]
    BY <1>2
  <1> QED
    BY <1>1, <1>3 DEF File

\* What is to do at a position while the walk stays there.
LEMMA ToDoSame ==
  ASSUME UNCHANGED <<op, cur, nodes>>, Here => Here', NEW t, ToDo(t)
  PROVE  ToDo(t)'
  <1>1. Ahead(nodes', cur', t) <=> Ahead(nodes, cur, t)
    OBVIOUS
  <1> QED
    BY <1>1 DEF ToDo

\* The next chunk, or the end of the file.
LEMMA SendFileDataChunkComplete ==
  ASSUME PInv, Complete, SendFileDataChunk
  PROVE  Complete'
  <1>1. PICK kind \in {"start upload", "upload"} : GotFor("upload", kind)
    BY DEF SendFileDataChunk
  <1>2. NextChunk
    BY DEF SendFileDataChunk
  <1>3. /\ Free /\ op = "upload" /\ replies' = <<>> /\ pc = "idle" /\ frames = 0
        /\ IsTold(Head(replies)) /\ Head(replies).kind = kind
        /\ cur \in Paths /\ Listing(nodes) /\ Placed(nodes, cur)
        /\ UNCHANGED <<remote, handlerVars, crashed>>
    BY <1>1, ToldFacts DEF Walks
  <1>4. goto = "none" /\ stream.open /\ outputStream.path = cur
    BY <1>1, <1>3 DEF IsTold, ListReply
  <1>5. UNCHANGED <<op, local, remote, terminating, outputStream>> /\ requests = <<>>
        /\ IsTree(local)
    BY <1>2, <1>3 DEF NextChunk, uiVars, Free, handlerVars, Complete
  <1>6. stream \in FileStream /\ stream.pos \in Nat
    BY <1>4, OpenIsFileStream
  <1>7. Source' = Source /\ Source = local
    BY <1>3, <1>5 DEF Source
  <1>8. ASSUME NEW r, Await(r, cur, nodes), UNCHANGED <<goto, excused>>,
               ~terminating => AsksRight(r)'
        PROVE  Complete'
    <2>1. requests' = <<r>> /\ cur' = cur /\ nodes' = nodes /\ pc' = "idle"
      BY <1>3, <1>5, <1>8, OneElement DEF Await, Leave
    <2>2. Here => Here'
      BY <1>3, <1>4, <1>5, <1>8, <2>1 DEF Here
    <2>3. \A t \in Paths : Done(t) \/ ToDo(t) => Done(t)' \/ ToDo(t)'
      BY <1>5, <1>8, <2>1, <2>2, DoneSame, ToDoSame
    <2> QED
      BY <1>3, <1>5, <1>8, <2>1, <2>3, CompleteAsks DEF Walks
  <1>9. ASSUME ~terminating, Whole
        PROVE  /\ stream.path = cur /\ stream.pos = outputStream.pos /\ InFile(stream.pos)
               /\ Copied(remote, stream.pos)
    BY <1>1, <1>3, <1>9, ToldRightly DEF ToldRight, Walks
  <1>10. CASE /\ stream.pos < Len(local[stream.path].data)
              /\ Await([kind |-> "upload", chunk |-> local[stream.path].data[stream.pos + 1]],
                       cur, nodes)
              /\ stream' = [stream EXCEPT !.pos = @ + 1]
              /\ UNCHANGED <<excused, failures, goto>>
    <2>1. PICK r : r = [kind |-> "upload", chunk |-> local[stream.path].data[stream.pos + 1]]
      OBVIOUS
    <2>2. r.kind = "upload" /\ r.chunk = local[stream.path].data[stream.pos + 1]
      BY <2>1
    <2>3. stream' = [path |-> stream.path, pos |-> stream.pos + 1, open |-> stream.open]
      BY <1>6, <1>10 DEF FileStream
    <2>4. stream'.path = stream.path /\ stream'.pos = stream.pos + 1
      BY <2>3
    <2>5. UNCHANGED <<cur, excused>> /\ (Whole' => Whole)
      <3>1. UNCHANGED <<cur, excused>>
        BY <1>10 DEF Await
      <3> QED
        BY <1>5, <1>7, <3>1 DEF Whole
    <2>6. ~terminating => AsksRight(r)'
      <3> SUFFICES ASSUME ~terminating, Whole
                   PROVE  /\ stream'.path = cur /\ stream'.pos = outputStream.pos + 1
                          /\ stream'.pos \in 0..Len(Source[cur].data)
                          /\ Copied(remote, outputStream.pos)
                          /\ r.chunk = Source[cur].data[stream'.pos]
        BY <1>5, <1>7, <2>5, <2>2 DEF AsksRight, InFile, Copied
      <3>1. /\ stream.path = cur /\ stream.pos = outputStream.pos
            /\ Copied(remote, stream.pos)
        BY <1>9
      <3>2. Len(Source[cur].data) \in Nat
        BY WholeFacts
      <3>3. stream.pos + 1 \in 0..Len(Source[cur].data)
        <4>1. stream.pos < Len(Source[cur].data)
          BY <1>7, <1>10, <3>1
        <4> QED
          BY <1>6, <3>2, <4>1, Counting, Zenon
      <3> QED
        BY <1>7, <2>4, <2>2, <3>1, <3>3
    <2>7. Await(r, cur, nodes)
      BY <1>10, <2>1
    <2> QED
      BY <1>8, <1>10, <2>6, <2>7
  <1>11. CASE /\ stream.pos >= Len(local[stream.path].data)
              /\ Await([kind |-> "end upload"], cur, nodes)
              /\ stream' = Closed(stream)
              /\ UNCHANGED <<excused, failures, goto>>
    <2>1. PICK r : r = [kind |-> "end upload"]
      OBVIOUS
    <2>2. UNCHANGED <<cur, excused>> /\ (Whole' => Whole)
      <3>1. UNCHANGED <<cur, excused>>
        BY <1>11 DEF Await
      <3> QED
        BY <1>5, <1>7, <3>1 DEF Whole
    <2>3. ~terminating => AsksRight(r)'
      <3> SUFFICES ASSUME ~terminating, Whole
                   PROVE  remote[cur] = Source[cur]
        BY <1>5, <1>7, <2>1, <2>2 DEF AsksRight
      <3>1. stream.path = cur /\ InFile(stream.pos) /\ Copied(remote, stream.pos)
        BY <1>9
      <3>2. /\ Source[cur] = File(Source[cur].data) /\ Source[cur].data \in Seq(Chunks)
        BY WholeFacts
      <3>3. stream.pos = Len(Source[cur].data)
        <4>1. stream.pos >= Len(Source[cur].data)
          BY <1>7, <1>11, <3>1
        <4>2. Len(Source[cur].data) \in Nat /\ stream.pos \in 0..Len(Source[cur].data)
          BY <3>1, WholeFacts DEF InFile
        <4> QED
          BY <4>1, <4>2, Counting, Zenon
      <3> QED
        BY <3>1, <3>2, <3>3, Prefixes DEF Copied
    <2>4. Await(r, cur, nodes)
      BY <1>11, <2>1
    <2> QED
      BY <1>8, <1>11, <2>3, <2>4
  <1>12. CASE /\ ByChance /\ excused' = excused \cup {cur} /\ UploadNext(nodes, cur)
              /\ UNCHANGED stream
    <2>1. PICK p \in Paths : p = cur
      BY <1>3
    <2>2. Done(p)' /\ excused \subseteq excused'
      BY <1>12, <2>1, UnderFacts, DoneExcused
    <2>3. Here => ~IsFolder(local, cur)
      BY <1>3, <1>4 DEF Here
    <2> QED
      BY <1>3, <1>5, <1>12, <2>1, <2>2, <2>3, UploadFileComplete
  <1> QED
    BY <1>2, <1>10, <1>11, <1>12 DEF NextChunk

-----------------------------------------------------------------------------
(* Downloads. *)

\* A download that goes on from a place it is done with.
LEMMA DownloadComplete ==
  ASSUME PInv, Complete, op = "download", requests = <<>>, replies' = <<>>,
         cur \in Paths, Listing(nodes), Placed(nodes, cur),
         NEW nds, Listing(nds), Placed(nds, cur), nds[<<>>] = nodes[<<>>],
         NEW p \in Paths, p = cur, DownloadNext(nds),
         UNCHANGED <<op, remote, terminating>>, excused \subseteq excused', IsTree(local'),
         \A t : t = p \/ t \notin Paths \/ local'[t] = local[t],
         \A t : Besides(nodes, p, t) => Besides(nds, p, t),
         ~terminating => \A t \in Under(p) : Done(t)' \/ Beneath(nds, p, t)
  PROVE  Complete'
  <1>1. Goes(Parent(cur))
    BY DownloadNextGoes
  <1>2. p \in Under(p)
    BY UnderFacts
  <1>3. ASSUME NEW t \in Paths, Done(t), t # p
        PROVE  Done(t)'
    <2>1. Source' = remote /\ Source = remote /\ Target' = local' /\ Target = local
      BY DEF Source, Target
    <2>2. local'[t] = local[t]
      BY <1>3
    <2> QED
      BY <1>3, <2>1, <2>2 DEF Done, IsFile
  <1>4. ~terminating =>
          /\ nodes'[<<>>] = nodes[<<>>]
          /\ \A t \in Paths : ToDo(t) => Done(t)' \/ ToDo(t)'
    BY DownloadOver
  <1>5. ASSUME ~terminating, Done(p)
        PROVE  Done(p)' \/ ToDo(p)'
    <2>1. ~Beneath(nds, p, p)
      BY BeneathUnder
    <2> QED
      BY <1>2, <1>5, <2>1
  <1>6. ~terminating => \A t \in Paths : Done(t) \/ ToDo(t) => Done(t)' \/ ToDo(t)'
    BY <1>3, <1>4, <1>5
  <1> QED
    BY <1>1, <1>4, <1>6, CompleteGoes DEF Walks

\* The folders' sizes.
LEMMA SizeCalculatedComplete ==
  ASSUME PInv, Complete, SizeCalculated
  PROVE  Complete'
  <1>1. /\ op = "download" /\ UNCHANGED <<op, local, remote, terminating, excused, cur, nodes>>
        /\ sizesLeft' = sizesLeft - 1
        /\ sizesLeft = 1 => pc' = "copy"
    BY DEF SizeCalculated, GotFor, Got, dataVars, uiVars, historyVars, walkVars, Copy
  <1>2. PInv'
    BY SizeCalculatedInv
  <1>3. Right'
    <2>1. CASE sizesLeft = 1
      <3>1. Silent'
        BY <1>1, <1>2, <2>1 DEF PInv, Phases, Resting, Sizing, Simple, Waiting, Copying,
                                Cancelled, Finished
      <3> QED
        BY <3>1 DEF Silent, Right
    <2>2. CASE sizesLeft # 1
      <3>1. sizesLeft' # 0
        <4>1. sizesLeft \in Nat
          <5>1. sizesLeft \in 0..Cardinality(Names)
            BY DEF PInv, ClientTypes
          <5> QED
            BY <5>1
        <4>2. \A n \in Nat : n # 1 => n - 1 # 0
          OBVIOUS
        <4> QED
          BY <1>1, <2>2, <4>1, <4>2, Zenon
      <3> QED
        BY <3>1 DEF Right
    <2> QED
      BY <2>1, <2>2
  <1>4. Here'
    BY <1>1 DEF Here
  <1>5. \A t \in Paths : Done(t) \/ ToDo(t) => Done(t)' \/ ToDo(t)'
    BY <1>1, <1>4, DoneSame, ToDoSame
  <1>6. ~terminating => Walked'
    BY <1>1, <1>5, WalkedStep DEF Complete, Walks
  <1> QED
    BY <1>1, <1>3, <1>6 DEF Complete

\* What a download is told.
LEMMA DownloadTold ==
  ASSUME PInv, Complete, NEW kind, GotFor("download", kind),
         kind \notin {"size", "failed"} \/ sizesLeft = 0
  PROVE  /\ op = "download" /\ requests = <<>> /\ replies' = <<>> /\ pc = "idle" /\ frames = 0
         /\ IsTold(Head(replies)) /\ Head(replies).kind = kind
         /\ cur \in Paths /\ Listing(nodes) /\ Placed(nodes, cur)
         /\ UNCHANGED <<remote, handlerVars>> /\ IsTree(remote) /\ IsTree(local)
         /\ Source = remote /\ Target = local
         /\ ~terminating => ToldRight(Head(replies))
  <1>1. "download" \in Walks
    BY DEF Walks
  <1>2. /\ Free /\ op = "download" /\ replies' = <<>> /\ pc = "idle" /\ frames = 0
        /\ IsTold(Head(replies)) /\ Head(replies).kind = kind
        /\ cur \in Paths /\ Listing(nodes) /\ Placed(nodes, cur)
        /\ UNCHANGED <<remote, handlerVars>>
    BY <1>1, ToldFacts
  <1>3. ~terminating => ToldRight(Head(replies))
    BY <1>1, ToldRightly
  <1> QED
    BY <1>2, <1>3 DEF Free, Complete, Source, Target

\* The folder's files come before what is beside it.
LEMMA DownloadListedComplete ==
  ASSUME PInv, Complete, DownloadListed
  PROVE  Complete'
  <1>1. PICK p : p = cur
    OBVIOUS
  <1>2. PICK names : names = Head(replies).names
    OBVIOUS
  <1> DEFINE nds == [nodes EXCEPT ![p] = names]
  <1>3. /\ GotFor("download", "list") /\ DownloadNext(nds)
        /\ UNCHANGED <<dataVars, uiVars, historyVars, terminating>>
    BY <1>1, <1>2 DEF DownloadListed, Quiet
  <1>4. /\ op = "download" /\ requests = <<>> /\ replies' = <<>>
        /\ IsTold(Head(replies)) /\ Head(replies).kind = "list"
        /\ p \in Paths /\ Listing(nodes) /\ Placed(nodes, p)
        /\ UNCHANGED <<op, remote, local, excused>> /\ IsTree(remote) /\ IsTree(local)
        /\ ~terminating => ToldRight(Head(replies))
    BY <1>1, <1>3, DownloadTold DEF uiVars, dataVars, historyVars
  <1>5. names \subseteq Names /\ \A n \in names : Append(p, n) \in Paths
    BY <1>1, <1>2, <1>4 DEF IsTold, ListReply
  <1>6. Listing(nds) /\ Placed(nds, p) /\ nds[<<>>] = nodes[<<>>] /\ nds[p] = names
    <2>1. Len(p) \in Nat /\ Len(p) >= Len(p) /\ p # <<>>
      BY <1>4, PathIsSeq
    <2>2. Listing(nds) /\ Placed(nds, p)
      BY <1>4, <1>5, <2>1, ListingExcept, PlacedExcept
    <2> QED
      BY <1>4, <2>1, <2>2 DEF Listing
  <1>7. ASSUME NEW t, Besides(nodes, p, t)
        PROVE  Besides(nds, p, t)
    <2>1. ASSUME NEW f \in Paths \cup {<<>>}, Len(f) < Len(p)
          PROVE  nds[f] = nodes[f]
      <3>1. f # p
        BY <1>4, <2>1, PathIsSeq
      <3> QED
        BY <3>1 DEF Listing
    <2> QED
      BY <1>4, <1>7, <2>1, BesidesElsewhere
  <1>8. ASSUME ~terminating, NEW t \in Under(p)
        PROVE  Done(t)' \/ Beneath(nds, p, t)
    <2>1. IsFolder(remote, p) /\ names = NamesIn(remote, p)
      BY <1>1, <1>2, <1>4, <1>8 DEF ToldRight
    <2>2. Source' = remote /\ op' # "remove"
      BY <1>4 DEF Source
    <2>3. CASE t = p
      <3>1. ~IsFile(remote, t)
        BY <1>4, <2>1, <2>3, PathIsSeq DEF IsFile, IsFolder
      <3> QED
        BY <2>2, <3>1, DoneAbsent
    <2>4. CASE t # p
      <3>1. PICK n \in Names : Append(p, n) \in Paths /\ t \in Under(Append(p, n))
        BY <1>4, <2>4, ChildOnTheWay
      <3>2. CASE n \in names
        BY <1>6, <3>1, <3>2 DEF Beneath
      <3>3. CASE n \notin names
        <4>1. ~Exists(remote, t)
          BY <1>4, <2>1, <3>1, <3>3, TreeFacts
        <4> QED
          BY <2>2, <4>1, DoneAbsent DEF IsFile, Exists
      <3> QED
        BY <3>2, <3>3
    <2> QED
      BY <2>3, <2>4
  <1> HIDE DEF nds
  <1> QED
    BY <1>1, <1>3, <1>4, <1>6, <1>7, <1>8, DownloadComplete

\* A place the download is done with, as it was found.
LEMMA DownloadOn ==
  ASSUME PInv, Complete, NEW kind, GotFor("download", kind),
         kind \notin {"size", "failed"} \/ sizesLeft = 0,
         DownloadNext(nodes), UNCHANGED <<uiVars, terminating>>, IsTree(local'),
         excused \subseteq excused', NEW p, p = cur,
         \A t : t = p \/ t \notin Paths \/ local'[t] = local[t],
         ~terminating => \A t \in Under(p) : Done(t)'
  PROVE  Complete'
  <1>1. /\ op = "download" /\ requests = <<>> /\ replies' = <<>>
        /\ p \in Paths /\ Listing(nodes) /\ Placed(nodes, p) /\ UNCHANGED <<op, remote>>
    BY DownloadTold DEF uiVars
  <1> QED
    BY <1>1, DownloadComplete

\* A file that was downloaded, or is reported.
LEMMA DownloadFileDone ==
  ASSUME op' = "download", NEW p \in Paths, IsTree(remote'), ~IsFolder(remote', p),
         p \in excused' \/ (IsFile(remote', p) => local'[p] = remote'[p]),
         NEW t \in Under(p)
  PROVE  Done(t)'
  <1>1. Source' = remote' /\ Target' = local'
    BY DEF Source, Target
  <1>2. Done(p)'
    <2>1. CASE p \in excused'
      BY <2>1, UnderFacts, DoneExcused
    <2>2. CASE p \notin excused'
      BY <1>1, <2>2 DEF Done
    <2> QED
      BY <2>1, <2>2
  <1> QED
    BY <1>1, <1>2, FileDone

LEMMA DownloadRequestFailedComplete ==
  ASSUME PInv, Complete, DownloadRequestFailed
  PROVE  Complete'
  <1>1. PICK p : p = cur
    OBVIOUS
  <1>2. /\ GotFor("download", "failed") /\ sizesLeft = 0 /\ DownloadNext(nodes)
        /\ UNCHANGED <<local, uiVars, terminating>> /\ excused' = excused \cup Under(p)
    BY <1>1 DEF DownloadRequestFailed, dataVars
  <1>3. p \in Paths /\ IsTree(local)
    BY <1>1, <1>2, DownloadTold
  <1>4. \A t \in Under(p) : Done(t)'
    BY <1>2, <1>3, DoneUnder
  <1> QED
    BY <1>1, <1>2, <1>3, <1>4, DownloadOn

\* The end of a file, or a failure in it.
LEMMA DownloadFileComplete ==
  ASSUME PInv, Complete, NEW kind \in {"start download", "download", "end download"},
         GotFor("download", kind), DownloadNext(nodes), UNCHANGED <<uiVars, terminating>>,
         IsTree(local'), excused \subseteq excused', NEW p, p = cur,
         \A t : t = p \/ t \notin Paths \/ local'[t] = local[t],
         p \in excused' \/ (kind = "end download" /\ UNCHANGED local)
  PROVE  Complete'
  <1>1. /\ op = "download" /\ p \in Paths /\ UNCHANGED <<op, remote>> /\ IsTree(remote)
        /\ Head(replies).kind = kind /\ Source = remote
        /\ ~terminating => ToldRight(Head(replies))
    BY DownloadTold DEF uiVars
  <1>2. ASSUME ~terminating, NEW t \in Under(p)
        PROVE  Done(t)'
    <2>1. ToldRight(Head(replies)) /\ ~IsFolder(remote, p)
      BY <1>1, <1>2 DEF ToldRight
    <2>2. ASSUME p \notin excused', IsFile(remote, p)
          PROVE  local'[p] = remote[p]
      <3>1. Whole /\ Head(replies).kind = "end download"
        BY <1>1, <2>2 DEF Whole
      <3> QED
        BY <1>1, <2>1, <2>2, <3>1 DEF ToldRight
    <2>3. remote' = remote /\ op' = "download"
      BY <1>1
    <2>4. CASE p \in excused'
      BY <1>1, <1>2, <2>1, <2>3, <2>4, DownloadFileDone
    <2>5. CASE p \notin excused'
      <3>1. UNCHANGED local
        BY <2>5
      <3> QED
        BY <1>1, <1>2, <2>1, <2>2, <2>3, <3>1, DownloadFileDone
    <2> QED
      BY <2>4, <2>5
  <1> QED
    BY <1>1, <1>2, DownloadOn

LEMMA DownloadEndedComplete ==
  ASSUME PInv, Complete, DownloadEnded \/ DownloadChunkFails \/ DownloadStartFails
  PROVE  Complete'
  <1>1. PICK p : p = cur
    OBVIOUS
  <1>2. PICK kind \in {"start download", "download", "end download"} :
          /\ GotFor("download", kind)
          /\ local' = local \/ local' = LocalForDownload
          /\ cur \in excused' \/ (kind = "end download" /\ UNCHANGED local)
    BY DEF DownloadEnded, DownloadChunkFails, DownloadStartFails, dataVars
  <1>3. DownloadNext(nodes) /\ UNCHANGED <<uiVars, terminating>> /\ excused \subseteq excused'
    BY DEF DownloadEnded, DownloadChunkFails, DownloadStartFails, historyVars
  <1>4. cur \in Paths /\ IsTree(local)
    BY <1>2, DownloadTold
  <1>5. IsTree(local') /\ \A t : t = p \/ t \notin Paths \/ local'[t] = local[t]
    BY <1>1, <1>2, <1>4, TreeDownload
  <1> QED
    BY <1>1, <1>2, <1>3, <1>5, DownloadFileComplete

\* A download that stays where it is, and asks for something.
LEMMA DownloadAsks ==
  ASSUME PInv, Complete, op = "download", UNCHANGED <<op, remote, terminating, cur, nodes>>,
         excused \subseteq excused', NEW p \in Paths, p = cur, IsTree(local'),
         \A t : t = p \/ t \notin Paths \/ local'[t] = local[t],
         NEW q, requests' = <<q>>, replies' = <<>>, ~terminating => AsksRight(q)'
  PROVE  Complete'
  <1>1. Source' = remote /\ Source = remote /\ Target' = local' /\ Target = local
    BY DEF Source, Target
  <1>2. Here' /\ cur' \in Paths
    BY DEF Here
  <1>3. ToDo(p)'
    BY <1>2, UnderFacts, ToDoThere
  <1>4. ASSUME NEW t \in Paths, Done(t), t # p
        PROVE  Done(t)'
    <2>1. local'[t] = local[t]
      BY <1>4
    <2> QED
      BY <1>1, <1>4, <2>1 DEF Done, IsFile
  <1>5. \A t \in Paths : Done(t) \/ ToDo(t) => Done(t)' \/ ToDo(t)'
    BY <1>2, <1>3, <1>4, ToDoSame
  <1> QED
    BY <1>5, CompleteAsks DEF Walks

\* The local file is empty, and so is what has been copied.
LEMMA DownloadStartedComplete ==
  ASSUME PInv, Complete, DownloadStarted
  PROVE  Complete'
  <1>1. /\ GotFor("download", "start download")
        /\ local' = LocalForDownload /\ IsFile(local', cur) /\ stream' = OpenStream(cur, offset)
        /\ requests' = Append(requests, [kind |-> "download"])
        /\ UNCHANGED <<cur, nodes, offset, uiVars, historyVars, terminating>>
    BY DEF DownloadStarted
  <1>2. /\ op = "download" /\ requests = <<>> /\ replies' = <<>>
        /\ Head(replies).kind = "start download"
        /\ cur \in Paths /\ UNCHANGED <<remote, handlerVars>> /\ IsTree(local) /\ Source = remote
        /\ ~terminating => ToldRight(Head(replies))
    BY <1>1, DownloadTold
  <1>3. PICK r : r = [kind |-> "download"]
    OBVIOUS
  <1>4. requests' = <<r>> /\ r.kind = "download"
    BY <1>1, <1>2, <1>3, OneElement
  <1>5. PICK p \in Paths : p = cur
    BY <1>2
  <1>6. UNCHANGED <<op, remote, terminating, cur, nodes, excused, inputStream, offset>>
    BY <1>1, <1>2 DEF uiVars, historyVars, handlerVars
  <1>7. IsTree(local') /\ \A t : t = p \/ t \notin Paths \/ local'[t] = local[t]
    BY <1>1, <1>2, <1>5, TreeDownload
  <1>8. Source' = Source /\ (Whole' => Whole)
    BY <1>2, <1>6 DEF Source, Whole
  <1>9. stream'.pos = offset
    BY <1>1 DEF OpenStream
  <1>10. ASSUME ~terminating
         PROVE  AsksRight(r)'
    <2>1. ~IsFolder(remote, cur) /\ (Whole => /\ offset = 0 /\ inputStream.path = cur
                                              /\ inputStream.pos = 0)
      BY <1>2, <1>10 DEF ToldRight
    <2> SUFFICES ASSUME Whole
                 PROVE  /\ offset \in 0..Len(Source[cur].data)
                        /\ local'[cur] = File(SubSeq(Source[cur].data, 1, offset))
                        /\ inputStream.path = cur /\ inputStream.pos = offset
      BY <1>4, <1>6, <1>8, <1>9, <2>1 DEF AsksRight, InFile, Copied
    <2>2. Source[cur].data \in Seq(Chunks) /\ Len(Source[cur].data) \in Nat
      BY WholeFacts
    <2>3. local'[cur] = File(<<>>)
      BY <1>1, <1>2, <2>1, EmptiedForDownload
    <2>4. SubSeq(Source[cur].data, 1, 0) = <<>>
      BY <2>2, Prefixes
    <2>5. \A n \in Nat : 0 \in 0..n
      OBVIOUS
    <2> QED
      BY <2>1, <2>2, <2>3, <2>4, <2>5
  <1> QED
    BY <1>2, <1>4, <1>5, <1>6, <1>7, <1>10, DownloadAsks

\* The next chunk is written behind those that have come.
LEMMA DownloadChunkComplete ==
  ASSUME PInv, Complete, DownloadChunk
  PROVE  Complete'
  <1>1. /\ GotFor("download", "download") /\ Await([kind |-> "download"], cur, nodes)
        /\ local' = [local EXCEPT ![stream.path].data = Write(@, stream.pos, Head(replies).chunk)]
        /\ stream' = [stream EXCEPT !.pos = @ + 1]
        /\ UNCHANGED <<uiVars, historyVars, terminating>> /\ ~terminating
    BY DEF DownloadChunk
  <1>2. /\ op = "download" /\ requests = <<>> /\ replies' = <<>>
        /\ IsTold(Head(replies)) /\ Head(replies).kind = "download"
        /\ cur \in Paths /\ UNCHANGED <<remote, handlerVars>> /\ IsTree(local) /\ Source = remote
        /\ ToldRight(Head(replies))
    BY <1>1, DownloadTold
  <1>3. stream.open /\ stream.path = cur /\ IsFile(local, cur)
    BY <1>2 DEF IsTold, ListReply
  <1>4. stream \in FileStream /\ stream.pos \in Nat
    BY <1>3, OpenIsFileStream
  <1>5. stream'.pos = stream.pos + 1
    <2>1. stream' = [path |-> stream.path, pos |-> stream.pos + 1, open |-> stream.open]
      BY <1>1, <1>4 DEF FileStream
    <2> QED
      BY <2>1
  <1>6. PICK r : r = [kind |-> "download"]
    OBVIOUS
  <1>7. requests' = <<r>> /\ r.kind = "download" /\ cur' = cur /\ nodes' = nodes
    BY <1>1, <1>2, <1>6, OneElement DEF Await
  <1>8. PICK p \in Paths : p = cur
    BY <1>2
  <1>9. UNCHANGED <<op, remote, excused, inputStream>>
    BY <1>1, <1>2 DEF uiVars, historyVars, handlerVars
  <1>10. local \in [Paths -> Node]
    BY DEF PInv, ClientTypes, DataTypes
  <1>11. \A t : t = p \/ t \notin Paths \/ local'[t] = local[t]
    BY <1>1, <1>3, <1>8, <1>10
  <1>12. IsTree(local')
    <2>1. \A t \in Paths : local'[t].kind = local[t].kind
      <3>1. ASSUME NEW t \in Paths
            PROVE  local'[t].kind = local[t].kind
        <4>1. local[t] \in Node
          BY <1>10
        <4>2. DOMAIN local[t] = {"kind", "data"}
          BY <4>1 DEF Node, Absent, Folder
        <4> QED
          BY <1>1, <1>10, <4>2
      <3> QED
        BY <3>1
    <2> QED
      BY <1>2, <2>1, TreeWritten
  <1>13. Source' = Source /\ (Whole' => Whole)
    BY <1>2, <1>7, <1>9 DEF Source, Whole
  <1>14. AsksRight(r)'
    <2>1. ~IsFolder(remote, cur)
      BY <1>2 DEF ToldRight
    <2> SUFFICES ASSUME Whole
                 PROVE  /\ stream'.pos \in 0..Len(Source[cur].data)
                        /\ local'[cur] = File(SubSeq(Source[cur].data, 1, stream'.pos))
                        /\ inputStream.path = cur /\ inputStream.pos = stream'.pos
      BY <1>7, <1>9, <1>13, <2>1 DEF AsksRight, InFile, Copied
    <2>2. /\ inputStream.pos \in 0..Len(Source[cur].data) /\ inputStream.pos = stream.pos + 1
          /\ inputStream.path = cur /\ local[cur] = File(SubSeq(Source[cur].data, 1, stream.pos))
          /\ Head(replies).chunk = Source[cur].data[stream.pos + 1]
      BY <1>2 DEF ToldRight, InFile, Copied
    <2>3. PICK d \in Seq(Chunks) : d = Source[cur].data
      BY WholeFacts
    <2>4. PICK k \in Nat : k = stream.pos
      BY <1>4
    <2>5. k < Len(d)
      <3>1. Len(d) \in Nat /\ k + 1 \in 0..Len(d)
        BY <2>2, <2>3, <2>4
      <3> QED
        BY <3>1
    <2>6. local' = [local EXCEPT ![cur].data = Write(@, k, d[k + 1])]
      BY <1>1, <1>3, <2>2, <2>3, <2>4
    <2>7. local[p] = File(SubSeq(d, 1, k))
      BY <1>8, <2>2, <2>3, <2>4
    <2>8. [local EXCEPT ![p].data = Write(@, k, d[k + 1])][p] = File(SubSeq(d, 1, k + 1))
      BY <1>10, <2>5, <2>7, Written
    <2>9. local'[cur] = File(SubSeq(d, 1, k + 1))
      BY <1>8, <2>6, <2>8
    <2> QED
      BY <1>5, <2>2, <2>3, <2>4, <2>9
  <1> QED
    BY <1>1, <1>2, <1>7, <1>8, <1>9, <1>11, <1>12, <1>14, DownloadAsks


-----------------------------------------------------------------------------
(* Removals, and operations of one request. *)

\* A removal goes on.
LEMMA RemoveComplete ==
  ASSUME PInv, Complete, NEW kind, GotFor("remove", kind), NEW F, Goes(F),
         UNCHANGED <<dataVars, uiVars, terminating>>, excused \subseteq excused',
         ~terminating => /\ nodes'[<<>>] = nodes[<<>>]
                         /\ \A t \in Paths : ToDo(t) => Done(t)' \/ ToDo(t)'
  PROVE  Complete'
  <1>1. /\ Free /\ op = "remove" /\ replies' = <<>>
        /\ UNCHANGED <<remote, handlerVars, crashed>>
    BY ToldFacts DEF Walks
  <1>2. UNCHANGED <<op, local, remote, terminating>> /\ requests = <<>> /\ IsTree(local)
    BY <1>1 DEF Free, uiVars, dataVars, Complete
  <1>3. \A t \in Paths : Done(t) => Done(t)'
    BY <1>2, DoneSame
  <1> QED
    BY <1>1, <1>2, <1>3, CompleteGoes DEF Walks

\* The files in the folder come before it.
LEMMA RemoveListedComplete ==
  ASSUME PInv, Complete, RemoveListed
  PROVE  Complete'
  <1>1. PICK p : p = cur
    OBVIOUS
  <1>2. PICK names : names = Head(replies).names
    OBVIOUS
  <1> DEFINE nds == [nodes EXCEPT ![p] = names]
  <1>3. /\ GotFor("remove", "list")
        /\ \/ nds[p] # {} /\ RemoveUnlessFolder(FirstChild(nds, p), nds, FALSE)
           \/ nds[p] = {} /\ RemoveUnlessFolder(p, nds, TRUE)
        /\ UNCHANGED <<dataVars, uiVars, historyVars, terminating>>
    BY <1>1, <1>2 DEF RemoveListed, Quiet
  <1>4. /\ Free /\ op = "remove" /\ requests = <<>>
        /\ IsTold(Head(replies)) /\ Head(replies).kind = "list"
        /\ p \in Paths /\ Listing(nodes) /\ Placed(nodes, p)
        /\ goto \in {"none", "first", "child", "parent"}
        /\ UNCHANGED <<op, remote, excused>> /\ IsTree(remote)
        /\ ~terminating => ToldRight(Head(replies))
    BY <1>1, <1>3, ToldFacts, ToldRightly DEF Walks, Free, uiVars, historyVars, Complete
  <1>5. names \subseteq Names /\ \A n \in names : Append(p, n) \in Paths
    BY <1>1, <1>2, <1>4 DEF IsTold, ListReply
  <1>6. Listing(nds) /\ Placed(nds, p) /\ nds[<<>>] = nodes[<<>>] /\ nds[p] = names
    <2>1. Len(p) \in Nat /\ Len(p) >= Len(p) /\ p # <<>>
      BY <1>4, PathIsSeq
    <2>2. Listing(nds) /\ Placed(nds, p)
      BY <1>4, <1>5, <2>1, ListingExcept, PlacedExcept
    <2> QED
      BY <1>4, <2>1, <2>2 DEF Listing
  <1>7. ASSUME NEW t, Besides(nodes, p, t)
        PROVE  Besides(nds, p, t)
    <2>1. ASSUME NEW f \in Paths \cup {<<>>}, Len(f) < Len(p)
          PROVE  nds[f] = nodes[f]
      <3>1. f # p
        BY <1>4, <2>1, PathIsSeq
      <3> QED
        BY <3>1 DEF Listing
    <2> QED
      BY <1>4, <1>7, <2>1, BesidesElsewhere
  <1>8. ASSUME ~terminating, NEW t \in Under(p), t # p
        PROVE  Done(t)' \/ Beneath(nds, p, t)
    <2>1. names = NamesIn(remote, p)
      BY <1>1, <1>2, <1>4, <1>8 DEF ToldRight
    <2>2. PICK n \in Names : Append(p, n) \in Paths /\ t \in Under(Append(p, n))
      BY <1>4, <1>8, ChildOnTheWay
    <2>3. CASE n \in names
      BY <1>6, <2>2, <2>3 DEF Beneath
    <2>4. CASE n \notin names
      <3>1. ~Exists(remote, t)
        BY <1>4, <2>1, <2>2, <2>4, TreeFacts
      <3> QED
        BY <1>4, <3>1 DEF Done, Exists
    <2> QED
      BY <2>3, <2>4
  <1>9. ASSUME NEW t, ToDo(t)
        PROVE  Besides(nodes, p, t) \/ t \in Under(p) \/ t \in Above(p)
    BY <1>1, <1>4, <1>9, BeneathUnder DEF ToDo, Ahead
  <1>10. p \in Above(p)
    BY <1>4, AboveFacts
  <1> HIDE DEF nds
  <1>11. CASE nds[p] # {} /\ RemoveUnlessFolder(FirstChild(nds, p), nds, FALSE)
    <2>1. PICK c : c = FirstChild(nds, p)
      OBVIOUS
    <2>2. RemoveUnlessFolder(c, nds, FALSE)
      BY <1>11, <2>1
    <2>3. c \in Paths /\ Parent(c) = p /\ Placed(nds, c)
      BY <1>4, <1>6, <1>11, <2>1, FirstChildFacts
    <2>4. Above(c) = Above(p) \cup {c}
      <3>1. Len(p) = Len(c) - 1 /\ Len(c) \in Nat /\ Len(p) >= 1 /\ Len(p) \in Nat
        BY <1>4, <2>3, ParentFacts, PathIsSeq
      <3>2. Len(c) > 1
        BY <3>1
      <3> QED
        BY <2>3, <3>2, AboveParent
    <2>5. Goes(p)
      BY <1>4, <1>6, <2>2, <2>3, RemoveGoes
    <2>6. \A t : Ahead(nds, p, t) => t \in Under(c) \/ Besides(nds, c, t)
      BY <1>4, <1>6, <1>11, <2>1, ChildKeeps
    <2>7. ~terminating => /\ nodes'[<<>>] = nodes[<<>>]
                          /\ \A t : Besides(nds, c, t) \/ t \in Under(c) \/ t \in Above(c) => ToDo(t)'
      BY <1>4, <1>6, <2>2, <2>3, RemoveKeeps
    <2>8. ASSUME ~terminating, NEW t \in Paths, ToDo(t)
          PROVE  Done(t)' \/ ToDo(t)'
      <3>1. CASE Besides(nodes, p, t)
        BY <1>7, <2>6, <2>7, <2>8, <3>1 DEF Ahead
      <3>2. CASE t \in Above(p)
        BY <2>4, <2>7, <2>8, <3>2
      <3>3. CASE t \in Under(p) /\ t # p
        BY <1>8, <2>6, <2>7, <2>8, <3>3 DEF Ahead
      <3> QED
        BY <1>9, <1>10, <2>8, <3>1, <3>2, <3>3
    <2> QED
      BY <1>3, <1>4, <2>5, <2>7, <2>8, RemoveComplete
  <1>12. CASE RemoveUnlessFolder(p, nds, TRUE)
    <2>1. Goes(p)
      BY <1>4, <1>6, <1>12, RemoveGoes
    <2>2. ~terminating => /\ nodes'[<<>>] = nodes[<<>>]
                          /\ \A t : Besides(nds, p, t) \/ t \in Under(p) \/ t \in Above(p) => ToDo(t)'
      BY <1>4, <1>6, <1>12, RemoveKeeps
    <2> QED
      BY <1>3, <1>4, <1>7, <1>9, <2>1, <2>2, RemoveComplete
  <1> QED
    BY <1>3, <1>11, <1>12

\* What has been removed, or could not be, is done with.
LEMMA FileRemovedComplete ==
  ASSUME PInv, Complete, FileRemoved \/ RemoveFailed
  PROVE  Complete'
  <1>1. PICK p : p = cur
    OBVIOUS
  <1>2. PICK kind : /\ GotFor("remove", kind)
                    /\ \/ kind = "remove"
                       \/ Under(p) \subseteq excused'
    BY <1>1 DEF FileRemoved, RemoveFailed
  <1>3. DeleteNext /\ UNCHANGED <<dataVars, uiVars, terminating>> /\ excused \subseteq excused'
    BY DEF FileRemoved, RemoveFailed, Quiet, historyVars
  <1>4. /\ Free /\ op = "remove" /\ requests = <<>>
        /\ Head(replies).kind = kind
        /\ p \in Paths /\ Listing(nodes) /\ Placed(nodes, p)
        /\ goto \in {"none", "first", "child", "parent"}
        /\ UNCHANGED <<op, remote>> /\ IsTree(remote)
        /\ ~terminating => ToldRight(Head(replies))
    BY <1>1, <1>2, <1>3, ToldFacts, ToldRightly DEF Walks, Free, uiVars, Complete
  <1>5. ASSUME ~terminating, NEW t \in Under(p)
        PROVE  Done(t)'
    <2>1. CASE kind = "remove"
      <3>1. ~Exists(remote, p)
        BY <1>1, <1>4, <1>5, <2>1 DEF ToldRight
      <3>2. ~IsFolder(remote, p)
        BY <1>4, <3>1, PathIsSeq DEF IsFolder, Exists
      <3>3. ~Exists(remote, t)
        BY <1>4, <3>1, <3>2, TreeFacts
      <3> QED
        BY <1>4, <3>3 DEF Done, Exists
    <2>2. CASE Under(p) \subseteq excused'
      BY <1>4, <2>2, DoneUnder
    <2> QED
      BY <1>2, <2>1, <2>2
  <1>6. Goes(p)
    BY <1>1, <1>3, <1>4, DeleteNextGoes
  <1>7. ~terminating => /\ nodes'[<<>>] = nodes[<<>>]
                        /\ \A t \in Paths : ToDo(t) => Done(t)' \/ ToDo(t)'
    BY <1>1, <1>3, <1>4, <1>5, RemoveOver
  <1> QED
    BY <1>2, <1>3, <1>6, <1>7, RemoveComplete

\* Every reply.
LEMMA ReplyComplete ==
  ASSUME PInv, Complete, HandleReply
  PROVE  Complete'
  <1>1. CASE TransferTerminates \/ SimpleEnds
    <2>1. /\ UNCHANGED <<local, remote, op, terminating>>
          /\ terminating \/ op \in {"list", "mkdir", "rename"}
      BY <1>1 DEF TransferTerminates, SimpleEnds, GotFor, Got, Quiet, dataVars, uiVars
    <2> QED
      BY <2>1, CompleteNot DEF Complete, Walks
  <1> QED
    BY <1>1, UploadListedComplete, UploadEndedComplete, SendFileDataChunkComplete,
       SizeCalculatedComplete, DownloadListedComplete, DownloadRequestFailedComplete,
       DownloadStartedComplete, DownloadChunkComplete, DownloadEndedComplete,
       RemoveListedComplete, FileRemovedComplete
    DEF HandleReply

-----------------------------------------------------------------------------
(* startUpload and startDownload keep every file in view. *)

\* Nothing changes but who is about to return.
LEMMA CompleteSame ==
  ASSUME Complete, Here => Here',
         UNCHANGED <<op, terminating, cur, nodes, sizesLeft, local, remote, excused, stream,
                     outputStream, inputStream, offset, requests, replies>>
  PROVE  Complete'
  <1>1. Source' = Source /\ (Whole' <=> Whole)
    BY DEF Source, Whole
  <1>2. ASSUME NEW q, AsksRight(q)
        PROVE  AsksRight(q)'
    <2>1. /\ q.kind = "mkdir" => IsFolder(local', cur')
          /\ q.kind \in {"start download", "download"} => ~IsFolder(remote', cur')
      BY <1>2 DEF AsksRight
    <2>2. CASE ~Whole
      BY <1>1, <2>1, <2>2 DEF AsksRight
    <2>3. CASE Whole
      <3>1. /\ q.kind = "start upload" =>
                 q.overwrite /\ q.offset = 0 /\ stream'.path = cur' /\ stream'.pos = 0
            /\ (q.kind = "upload" =>
                 /\ stream.path = cur /\ stream.pos = outputStream.pos + 1 /\ InFile(stream.pos)
                 /\ Copied(remote, outputStream.pos) /\ q.chunk = Source[cur].data[stream.pos])'
            /\ q.kind = "end upload" => remote'[cur'] = Source'[cur']
        BY <1>1, <1>2, <2>3 DEF AsksRight, Copied, InFile
      <3>2. /\ q.kind = "start download" => offset' = 0 /\ q.offset = 0
            /\ (q.kind = "download" =>
                 /\ InFile(stream.pos) /\ Copied(local, stream.pos)
                 /\ inputStream.path = cur /\ inputStream.pos = stream.pos)'
        BY <1>1, <1>2, <2>3 DEF AsksRight, Copied, InFile
      <3> QED
        BY <2>1, <3>1, <3>2 DEF AsksRight
    <2> QED
      BY <2>2, <2>3
  <1>3. ASSUME NEW r, ToldRight(r)
        PROVE  ToldRight(r)'
    <2>1. /\ (r.kind = "list" /\ op # "upload" =>
                IsFolder(remote, cur) /\ r.names = NamesIn(remote, cur))'
          /\ (r.kind = "mkdir" => IsFolder(local, cur))'
          /\ (r.kind \in {"start download", "download", "end download"} =>
                ~IsFolder(remote, cur))'
          /\ (r.kind = "remove" => ~Exists(remote, cur))'
      BY <1>3 DEF ToldRight
    <2>2. CASE ~Whole
      BY <1>1, <2>1, <2>2 DEF ToldRight
    <2>3. CASE Whole
      <3>1. /\ (r.kind \in {"start upload", "upload"} =>
                   /\ stream.path = cur /\ stream.pos = outputStream.pos /\ InFile(stream.pos)
                   /\ Copied(remote, stream.pos))'
            /\ (r.kind = "end upload" => remote[cur] = Source[cur])'
            /\ (r.kind = "end download" => local[cur] = Source[cur])'
        BY <1>1, <1>3, <2>3 DEF ToldRight, Copied, InFile
      <3>2. /\ (r.kind = "start download" =>
                   offset = 0 /\ inputStream.path = cur /\ inputStream.pos = 0)'
            /\ (r.kind = "download" =>
                   /\ InFile(inputStream.pos) /\ inputStream.pos = stream.pos + 1
                   /\ inputStream.path = cur
                   /\ Copied(local, stream.pos)
                   /\ r.chunk = Source[cur].data[inputStream.pos])'
        BY <1>1, <1>3, <2>3 DEF ToldRight, Copied, InFile
      <3> QED
        BY <2>1, <3>1, <3>2 DEF ToldRight
    <2> QED
      BY <2>2, <2>3
  <1>4. Right => Right'
    BY <1>2, <1>3 DEF Right
  <1>5. \A t \in Paths : Done(t) \/ ToDo(t) => Done(t)' \/ ToDo(t)'
    BY DoneSame, ToDoSame
  <1>6. op \in Walks /\ ~terminating => Walked'
    BY <1>5, WalkedStep DEF Complete
  <1> QED
    BY <1>4, <1>6 DEF Complete

LEMMA UnwindComplete ==
  ASSUME PInv, Complete, Unwind
  PROVE  Complete'
  <1>1. UNCHANGED <<server, dataVars, uiVars, historyVars, sizesLeft, terminating>>
    BY DEF Unwind
  <1>2. CASE terminating
    BY <1>1, <1>2, CompleteNot DEF Complete, server, dataVars
  <1>3. CASE ~terminating
    <2>1. pc = "unwind" /\ UNCHANGED <<cur, nodes, goto, requests>>
      BY <1>3 DEF Unwind
    <2>2. Here => Here'
      BY <1>1, <2>1 DEF Here, uiVars, dataVars
    <2> QED
      BY <1>1, <2>1, <2>2, CompleteSame
      DEF server, dataVars, uiVars, historyVars, handlerVars
  <1> QED
    BY <1>2, <1>3

\* The folder's files come next.
LEMMA UploadFolderComplete ==
  ASSUME PInv, Complete, UploadFolder
  PROVE  Complete'
  <1>1. PICK p : p = cur
    OBVIOUS
  <1>2. PICK r : r = [kind |-> "mkdir", path |-> p]
    OBVIOUS
  <1>3. /\ Working /\ ~terminating /\ op = "upload" /\ IsFolder(local, p)
        /\ UNCHANGED <<remote, replies, goto, local, op, terminating>>
        /\ excused \subseteq excused'
    BY <1>1 DEF UploadFolder, dataVars, uiVars
  <1>4. PICK S : /\ Await(r, p, [nodes EXCEPT ![p] = S])
                 /\ S = NamesIn(local, p) \/ (S = {} /\ Under(p) \subseteq excused')
    BY <1>1, <1>2 DEF UploadFolder
  <1>5. /\ requests = <<>> /\ replies = <<>> /\ goto = "none"
        /\ p \in Paths /\ Listing(nodes)
    BY <1>1, <1>3, WorkingFacts
  <1>6. IsTree(local) /\ Source' = local /\ op' # "remove"
    BY <1>3 DEF Complete, Source
  <1>7. requests' = <<r>> /\ cur' = p /\ nodes' = [nodes EXCEPT ![p] = S]
    BY <1>4, <1>5, OneElement DEF Await
  <1>8. p # <<>> /\ nodes'[p] = S /\ \A f \in Paths \cup {<<>>} : f # p => nodes'[f] = nodes[f]
    BY <1>5, <1>7, PathIsSeq DEF Listing
  <1>9. AsksRight(r)'
    <2>1. r.kind = "mkdir"
      BY <1>2
    <2> QED
      BY <1>3, <1>7, <2>1 DEF AsksRight
  <1>10. ASSUME NEW t \in Under(p)
         PROVE  Done(t)' \/ ToDo(t)'
    <2>1. CASE t = p
      <3>1. ~IsFile(local, t)
        BY <1>3, <1>5, <2>1, PathIsSeq DEF IsFile, IsFolder
      <3> QED
        BY <1>6, <3>1, DoneAbsent
    <2>2. CASE S = {} /\ Under(p) \subseteq excused'
      BY <1>5, <2>2, DoneUnder
    <2>3. CASE t # p /\ S = NamesIn(local, p)
      <3>1. PICK n \in Names : Append(p, n) \in Paths /\ t \in Under(Append(p, n))
        BY <1>5, <2>3, ChildOnTheWay
      <3>2. CASE n \in S
        <4>1. Ahead(nodes', cur', t)
          BY <1>7, <1>8, <3>1, <3>2 DEF Ahead, Beneath
        <4> QED
          BY <1>5, <1>7, <4>1, ToDoThere
      <3>3. CASE n \notin S
        <4>1. ~Exists(local, t)
          BY <1>5, <1>6, <2>3, <3>1, <3>3, TreeFacts
        <4> QED
          BY <1>6, <4>1, DoneAbsent DEF IsFile, Exists
      <3> QED
        BY <3>2, <3>3
    <2> QED
      BY <1>4, <2>1, <2>2, <2>3
  <1>11. ASSUME NEW t, Besides(nodes, p, t)
         PROVE  ToDo(t)'
    <2>1. ASSUME NEW f \in Paths \cup {<<>>}, Len(f) < Len(p)
          PROVE  nodes'[f] = nodes[f]
      <3>1. f # p
        BY <1>5, <2>1, PathIsSeq
      <3> QED
        BY <1>8, <3>1
    <2>2. Besides(nodes', p, t)
      BY <1>5, <1>11, <2>1, BesidesElsewhere
    <2>3. Ahead(nodes', cur', t)
      BY <1>7, <2>2 DEF Ahead
    <2> QED
      BY <1>5, <1>7, <2>3, ToDoThere
  <1>12. ASSUME NEW t, ToDo(t)
         PROVE  Besides(nodes, p, t) \/ t \in Under(p)
    BY <1>1, <1>3, <1>5, <1>12, BeneathUnder DEF ToDo, Ahead
  <1>13. \A t \in Paths : Done(t) \/ ToDo(t) => Done(t)' \/ ToDo(t)'
    BY <1>3, <1>10, <1>11, <1>12, DoneSame
  <1>14. nodes'[<<>>] = nodes[<<>>]
    BY <1>8
  <1> QED
    BY <1>3, <1>5, <1>6, <1>7, <1>9, <1>13, <1>14, CompleteAsks DEF Walks

\* What a file's copying starts from, unless the user wants it appended.
LEMMA FromTheStart ==
  ASSUME NEW from, MayCopyFrom(from)
  PROVE  excused \subseteq excused' /\ (from = 0 \/ cur \in excused')
  BY DEF MayCopyFrom

LEMMA UploadFileStarts ==
  ASSUME PInv, Complete, UploadFile
  PROVE  Complete'
  <1>1. PICK from \in Offsets :
          /\ MayCopyFrom(from)
          /\ stream' = OpenStream(cur, from)
          /\ requests' = Append(requests, [kind |-> "start upload", path |-> cur,
                                           overwrite |-> from = 0, offset |-> from])
    BY DEF UploadFile
  <1>2. PICK r : r = [kind |-> "start upload", path |-> cur,
                      overwrite |-> from = 0, offset |-> from]
    OBVIOUS
  <1>3. /\ FileToCopy /\ Working /\ op = "upload" /\ ~terminating
        /\ UNCHANGED <<remote, replies, cur, nodes, goto, local, op, terminating>>
    BY DEF UploadFile, FileToCopy, server, uiVars
  <1>4. /\ requests = <<>> /\ replies = <<>> /\ goto = "none" /\ cur \in Paths
    BY <1>3, WorkingFacts
  <1>5. requests' = <<r>> /\ r.kind = "start upload" /\ r.offset = from
        /\ (from = 0 => r.overwrite)
    BY <1>1, <1>2, <1>4, OneElement
  <1>6. ~IsFolder(local, cur)
    BY <1>3 DEF FileToCopy, Source
  <1>7. excused \subseteq excused' /\ (from = 0 \/ cur \in excused')
    BY <1>1, FromTheStart
  <1>8. stream'.path = cur /\ stream'.pos = from
    BY <1>1 DEF OpenStream
  <1>9. AsksRight(r)'
    <2>1. Whole' => from = 0
      BY <1>3, <1>7 DEF Whole
    <2> QED
      BY <1>3, <1>5, <1>8, <2>1 DEF AsksRight
  <1>10. Here'
    BY <1>3, <1>4, <1>6 DEF Here
  <1>11. \A t \in Paths : Done(t) \/ ToDo(t) => Done(t)' \/ ToDo(t)'
    BY <1>3, <1>7, <1>10, DoneSame, ToDoSame
  <1> QED
    BY <1>3, <1>4, <1>5, <1>9, <1>11, CompleteAsks DEF Complete, Walks

\* A file that is skipped, or cannot be opened.
LEMMA FileLeftComplete ==
  ASSUME PInv, Complete, SkipFile \/ UploadFileFails
  PROVE  Complete'
  <1>1. /\ Working /\ FileToCopy /\ ~terminating
        /\ \/ op = "upload" /\ UploadNext(nodes, cur)
           \/ op = "download" /\ DownloadNext(nodes)
        /\ UNCHANGED <<remote, replies, local, op, terminating>>
        /\ excused' = excused \cup {cur}
    BY DEF SkipFile, UploadFileFails, FileToCopy, GotoNext, server, uiVars
  <1>2. /\ requests = <<>> /\ replies = <<>> /\ goto = "none" /\ cur \in Paths
        /\ Listing(nodes) /\ Placed(nodes, cur)
    BY <1>1, WorkingFacts
  <1>3. PICK p \in Paths : p = cur
    BY <1>2
  <1>4. Done(p)'
    BY <1>1, <1>3, UnderFacts, DoneExcused
  <1>5. IsTree(local) /\ IsTree(remote) /\ ~IsFolder(Source, p)
    BY <1>1, <1>3 DEF Complete, FileToCopy
  <1>6. CASE op = "upload" /\ UploadNext(nodes, cur)
    <2>1. ~IsFolder(local, cur)
      BY <1>3, <1>5, <1>6 DEF Source
    <2> QED
      BY <1>1, <1>2, <1>3, <1>4, <1>6, <2>1, UploadFileComplete
  <1>7. CASE op = "download" /\ DownloadNext(nodes)
    <2>1. ~IsFolder(remote, p)
      BY <1>5, <1>7 DEF Source
    <2>2. \A t \in Under(p) : Done(t)'
      BY <1>1, <1>3, <1>5, <1>7, <2>1, DownloadFileDone
    <2> QED
      BY <1>1, <1>2, <1>3, <1>5, <1>7, <2>2, DownloadComplete
  <1> QED
    BY <1>1, <1>6, <1>7

\* A folder that was made, or was there, is listed.
LEMMA DownloadFolderComplete ==
  ASSUME PInv, Complete, DownloadFolder \/ DownloadFolderFails
  PROVE  Complete'
  <1>1. PICK p : p = cur
    OBVIOUS
  <1>2. /\ Working /\ op = "download" /\ ~terminating
        /\ UNCHANGED <<remote, replies, op, terminating>>
    BY DEF DownloadFolder, DownloadFolderFails, server, uiVars
  <1>3. /\ requests = <<>> /\ replies = <<>> /\ p \in Paths
        /\ Listing(nodes) /\ Placed(nodes, p)
    BY <1>1, <1>2, WorkingFacts
  <1>4. IsTree(local) /\ local \in [Paths -> Node]
    BY DEF Complete, PInv, ClientTypes, DataTypes
  <1>5. CASE DownloadFolder
    <2>1. PICK r : r = List(p)
      OBVIOUS
    <2>2. r.kind = "list"
      BY <2>1 DEF List
    <2>3. /\ IsFolder(local, p) \/ CanCreate(local, p)
          /\ local' = IF IsFolder(local, p) THEN local ELSE [local EXCEPT ![p] = Folder]
          /\ Await(r, p, nodes) /\ UNCHANGED <<excused, stream>>
      BY <1>1, <1>5, <2>1 DEF DownloadFolder, historyVars
    <2>4. requests' = <<r>> /\ cur' = p /\ nodes' = nodes
      BY <1>3, <2>3, OneElement DEF Await
    <2>5. IsTree(local')
      <3>1. CASE IsFolder(local, p)
        BY <1>4, <2>3, <3>1
      <3>2. CASE ~IsFolder(local, p)
        BY <1>3, <1>4, <2>3, <3>2, TreeCreated
      <3> QED
        BY <3>1, <3>2
    <2>6. \A t : t = p \/ t \notin Paths \/ local'[t] = local[t]
      BY <1>4, <2>3
    <2>7. AsksRight(r)'
      BY <2>2 DEF AsksRight
    <2> QED
      BY <1>1, <1>2, <1>3, <2>3, <2>4, <2>5, <2>6, <2>7, DownloadAsks
  <1>6. CASE DownloadFolderFails
    <2>1. DownloadNext(nodes) /\ excused' = excused \cup Under(p) /\ UNCHANGED local
      BY <1>1, <1>6 DEF DownloadFolderFails, dataVars
    <2>2. \A t \in Under(p) : Done(t)'
      BY <1>3, <2>1, DoneUnder
    <2> QED
      BY <1>1, <1>2, <1>3, <1>4, <2>1, <2>2, DownloadComplete
  <1> QED
    BY <1>5, <1>6

LEMMA DownloadFileStarts ==
  ASSUME PInv, Complete, DownloadFile
  PROVE  Complete'
  <1>1. PICK from \in Offsets :
          /\ MayCopyFrom(from) /\ offset' = from
          /\ Await([kind |-> "start download", path |-> cur, offset |-> from], cur, nodes)
    BY DEF DownloadFile
  <1>2. PICK r : r = [kind |-> "start download", path |-> cur, offset |-> from]
    OBVIOUS
  <1>3. /\ FileToCopy /\ Working /\ op = "download" /\ ~terminating
        /\ UNCHANGED <<remote, replies, local, op, terminating, stream>>
    BY DEF DownloadFile, FileToCopy, server, uiVars
  <1>4. requests = <<>> /\ replies = <<>>
    BY <1>3, WorkingFacts
  <1>5. PICK p \in Paths : p = cur
    BY <1>3, WorkingFacts
  <1>6. requests' = <<r>> /\ r.kind = "start download" /\ r.offset = from
        /\ cur' = cur /\ nodes' = nodes
    BY <1>1, <1>2, <1>4, OneElement DEF Await
  <1>7. ~IsFolder(remote, cur)
    BY <1>3 DEF FileToCopy, Source
  <1>8. excused \subseteq excused' /\ (from = 0 \/ cur \in excused')
    BY <1>1, FromTheStart
  <1>9. AsksRight(r)'
    <2>1. Whole' => from = 0
      BY <1>6, <1>8 DEF Whole
    <2> QED
      BY <1>1, <1>3, <1>6, <1>7, <2>1 DEF AsksRight
  <1> QED
    BY <1>3, <1>4, <1>5, <1>6, <1>8, <1>9, DownloadAsks DEF Complete

LEMMA CopyComplete ==
  ASSUME PInv, Complete, CopyStep
  PROVE  Complete'
  <1>1. CASE CopyTerminates \/ CancelAtFile
    <2>1. UNCHANGED <<local, remote>> /\ terminating'
      BY <1>1 DEF CopyTerminates, CancelAtFile, server, serverVars, dataVars
    <2> QED
      BY <2>1, CompleteNot DEF Complete
  <1> QED
    BY <1>1, UnwindComplete, UploadFolderComplete, UploadFileStarts, FileLeftComplete,
       DownloadFolderComplete, DownloadFileStarts
    DEF CopyStep

-----------------------------------------------------------------------------
(* What the user starts takes in all the files he selected. *)

LEMMA SelectedToDo ==
  ASSUME ClientTypes, NEW fs, NEW names, names # {}, names \subseteq NamesIn(fs, <<>>),
         Select(names), Here'
  PROVE  Walked'
  <1> DEFINE s == Smallest(names)
  <1>1. /\ cur' \in Paths /\ cur' = <<s>> /\ Len(cur') = 1 /\ Parent(cur') = <<>>
        /\ Listing(nodes') /\ Placed(nodes', cur')
    BY SelectFacts
  <1>2. nodes'[<<>>] = names
    BY DEF Select, ClientTypes, Listing
  <1>3. names \subseteq Names
    BY ListedNames
  <1>4. s \in names /\ NameOf(cur') = s
    BY <1>1, <1>3, SmallestIn DEF NameOf
  <1>5. ASSUME NEW n \in names, NEW t \in Under(<<n>>)
        PROVE  ToDo(t)'
    <2>1. CASE n = s
      BY <1>1, <1>5, <2>1, ToDoThere
    <2>2. CASE n # s
      <3>1. n > s
        BY <1>3, <2>2, SmallestLeast
      <3>2. PICK p \in Paths : p = cur'
        BY <1>1
      <3>3. PICK nds : nds = nodes'
        OBVIOUS
      <3>4. n \in Later(nds, p)
        BY <1>1, <1>2, <1>4, <3>1, <3>2, <3>3 DEF Later
      <3>5. t \in Under(Append(Parent(p), n))
        BY <1>1, <1>5, <3>2, OneElement
      <3>6. Besides(nds, p, t)
        BY <3>4, <3>5, BesidesParent
      <3>7. Ahead(nodes', cur', t)
        BY <3>2, <3>3, <3>6 DEF Ahead
      <3> QED
        BY <1>1, <3>7, ToDoThere
    <2> QED
      BY <2>1, <2>2
  <1> QED
    BY <1>2, <1>5 DEF Walked, Selected

LEMMA StartComplete ==
  ASSUME PInv, Complete, StartOperation
  PROVE  Complete'
  <1>1. PICK o \in Operations :
          \/ o.kind = "upload" /\ StartUploading(o.names)
          \/ o.kind = "download" /\ StartDownloading(o.names)
          \/ o.kind = "remove" /\ StartRemoving(o.names)
          \/ o.kind \in {"mkdir", "rename"} /\ StartSimple(o)
    BY DEF StartOperation
  <1>2. /\ requests = <<>> /\ replies = <<>> /\ sizesLeft = 0 /\ ClientTypes
        /\ state = "nothing"
    BY RestingFacts DEF StartOperation
  <1>3. \A kind : Execute(kind) => /\ op' = kind /\ local' = local /\ remote' = remote
                                   /\ replies' = replies
    BY DEF Execute, server
  <1>4. IsTree(local) /\ IsTree(remote)
    BY DEF Complete
  <1>5. CASE o.kind = "upload" /\ StartUploading(o.names)
    <2>1. /\ o.names # {} /\ o.names \subseteq NamesIn(local, <<>>) /\ Select(o.names)
          /\ requests' = Append(requests, List(<<>>)) /\ goto' = "first" /\ Execute("upload")
      BY <1>5, OperationsAssumption DEF StartUploading
    <2>2. Walked'
      BY <1>2, <2>1, SelectedToDo DEF Here
    <2>3. PICK r : r = List(<<>>)
      OBVIOUS
    <2>4. requests' = <<r>> /\ r.kind = "list" /\ replies' = <<>>
      BY <1>2, <1>3, <2>1, <2>3, OneElement DEF List
    <2>5. Right'
      <3>1. AsksRight(r)'
        BY <2>4 DEF AsksRight
      <3> QED
        BY <2>4, <3>1, OneElement DEF Right
    <2> QED
      BY <1>3, <1>4, <2>1, <2>2, <2>5 DEF Complete
  <1>6. CASE o.kind = "remove" /\ StartRemoving(o.names)
    <2>1. /\ o.names # {} /\ o.names \subseteq NamesIn(remote, <<>>) /\ Select(o.names)
          /\ Execute("remove")
      BY <1>6, OperationsAssumption DEF StartRemoving
    <2>2. Walked'
      BY <1>2, <1>3, <2>1, SelectedToDo DEF Here
    <2>3. PICK r : /\ r.kind \in {"list", "remove"}
                   /\ requests' = Append(requests, r)
      <3>1. \A p : List(p).kind = "list"
        BY DEF List
      <3>2. \A p : [kind |-> "remove", path |-> p].kind = "remove"
        OBVIOUS
      <3>3. PICK r : /\ r = IF IsFolder(remote, <<Smallest(o.names)>>)
                            THEN List(<<Smallest(o.names)>>)
                            ELSE [kind |-> "remove", path |-> <<Smallest(o.names)>>]
                     /\ requests' = Append(requests, r)
        BY <1>6 DEF StartRemoving
      <3>4. r.kind \in {"list", "remove"}
        BY <3>1, <3>2, <3>3
      <3> QED
        BY <3>3, <3>4
    <2>4. requests' = <<r>> /\ replies' = <<>>
      BY <1>2, <1>3, <2>1, <2>3, OneElement
    <2>5. Right'
      <3>1. AsksRight(r)'
        BY <2>3 DEF AsksRight
      <3> QED
        BY <2>4, <3>1, OneElement DEF Right
    <2> QED
      BY <1>3, <1>4, <2>1, <2>2, <2>5 DEF Complete
  <1>7. CASE o.kind = "download" /\ StartDownloading(o.names)
    <2>1. /\ o.names # {} /\ o.names \subseteq NamesIn(remote, <<>>) /\ Select(o.names)
          /\ Execute("download") /\ (sizesLeft' # 0 \/ pc' = "copy")
      BY <1>7, OperationsAssumption DEF StartDownloading
    <2>2. Walked'
      BY <1>2, <1>3, <2>1, SelectedToDo DEF Here
    <2>3. Right'
      <3>1. CASE sizesLeft' # 0
        BY <3>1 DEF Right
      <3>2. CASE pc' = "copy"
        <4>1. PInv' /\ op' = "download"
          BY <1>2, <1>3, <1>7, <2>1, StartDownloadingInv
        <4>2. Silent'
          BY <3>2, <4>1 DEF PInv, Phases, Resting, Sizing, Simple, Waiting, Copying,
                            Cancelled, Finished
        <4> QED
          BY <4>2 DEF Silent, Right
      <3> QED
        BY <2>1, <3>1, <3>2
    <2> QED
      BY <1>3, <1>4, <2>1, <2>2, <2>3 DEF Complete
  <1>8. CASE o.kind \in {"mkdir", "rename"} /\ StartSimple(o)
    <2>1. op' \in {"mkdir", "rename"} /\ local' = local /\ remote' = remote
      BY <1>3, <1>8 DEF StartSimple
    <2> QED
      BY <1>4, <2>1, CompleteNot DEF Walks
  <1> QED
    BY <1>1, <1>5, <1>6, <1>7, <1>8

LEMMA UiComplete ==
  ASSUME PInv, Complete, StartOperation \/ OperationFinished \/ Cancel \/ CloseSession
  PROVE  Complete'
  <1>1. IsTree(local) /\ IsTree(remote)
    BY DEF Complete
  <1>2. CASE OperationFinished
    <2>1. UNCHANGED <<local, remote>>
      BY <1>2 DEF OperationFinished, server
    <2>2. CASE op' = "list"
      BY <1>1, <2>1, <2>2, CompleteNot DEF Walks
    <2>3. CASE op' # "list"
      <3>1. UNCHANGED <<op, terminating, cur, nodes, sizesLeft, local, remote, excused, stream,
                        outputStream, inputStream, offset, requests, replies, goto, pc>>
        BY <1>2, <2>3 DEF OperationFinished, server, handlerVars, historyVars
      <3>2. Here => Here'
        BY <3>1 DEF Here
      <3> QED
        BY <3>1, <3>2, CompleteSame
    <2> QED
      BY <2>2, <2>3
  <1>3. CASE Cancel
    <2>1. UNCHANGED <<local, remote>> /\ terminating'
      BY <1>3 DEF Cancel, serverVars, dataVars
    <2> QED
      BY <1>1, <2>1, CompleteNot
  <1>4. CASE CloseSession
    <2>1. UNCHANGED <<local, remote>> /\ op' = "none"
      BY <1>4 DEF CloseSession, Disconnect
    <2> QED
      BY <1>1, <2>1, CompleteNot DEF Walks
  <1> QED
    BY <1>2, <1>3, <1>4, StartComplete

-----------------------------------------------------------------------------
(* What the server answers is right. *)

\* An answer, and what it stands for.
LEMMA Handled ==
  ASSUME NEW q, requests = <<q>>, replies = <<>>, Handle, NEW r, replies' = <<r>>
  PROVE  \/ r.kind = "failed"
         \/ /\ q.kind = "list" /\ r.kind = "list" /\ UNCHANGED remote
            /\ IsFolder(remote, q.path) /\ r.names = NamesIn(remote, q.path)
         \/ q.kind \in {"size", "mkdir", "rename"} /\ r.kind = q.kind
         \/ /\ q.kind = "remove" /\ r.kind = "remove" /\ Exists(remote, q.path)
            /\ remote' = [remote EXCEPT ![q.path] = Absent]
         \/ /\ q.kind = "start upload" /\ r.kind = "start upload"
            /\ outputStream' = OpenStream(q.path, q.offset)
            /\ q.overwrite => remote' = Truncated(remote, q.path)
         \/ /\ q.kind = "upload" /\ r.kind = "upload"
            /\ remote' = [remote EXCEPT ![outputStream.path].data =
                            Write(@, outputStream.pos, q.chunk)]
            /\ outputStream' = [outputStream EXCEPT !.pos = @ + 1]
         \/ q.kind = "end upload" /\ r.kind = "end upload" /\ UNCHANGED remote
         \/ /\ q.kind = "start download" /\ r.kind = "start download" /\ UNCHANGED remote
            /\ inputStream' = OpenStream(q.path, q.offset)
         \/ /\ q.kind = "download" /\ r.kind = "download" /\ UNCHANGED remote
            /\ ~AtEnd(inputStream)
            /\ r.chunk = remote[inputStream.path].data[inputStream.pos + 1]
            /\ inputStream' = [inputStream EXCEPT !.pos = @ + 1]
         \/ /\ q.kind = "download" /\ r.kind = "end download" /\ UNCHANGED remote
            /\ AtEnd(inputStream)
  <1>1. Head(requests) = q
    BY OneElement
  <1>2. \A a : Answer(a) => r = a
    <2>1. ASSUME NEW a, Answer(a)
          PROVE  r = a
      <3>1. replies' = <<a>>
        BY <2>1, OneElement DEF Answer
      <3> QED
        BY <3>1, OneElement
    <2> QED
      BY <2>1
  <1>3. Failed.kind = "failed" /\ \A k : [kind |-> k].kind = k
    BY DEF Failed
  <1>4. ASSUME NEW stream1, CrashOnNull(stream1)
        PROVE  FALSE
    BY <1>4 DEF CrashOnNull
  <1>5. CASE Refuse \/ StartUploadFails \/ StartDownloadFails
    <2>1. Answer(Failed)
      BY <1>5 DEF Refuse, StartUploadFails, StartDownloadFails
    <2> QED
      BY <1>2, <1>3, <2>1
  <1>6. CASE ListFolder
    <2>1. PICK p : p = q.path
      OBVIOUS
    <2>2. q.kind = "list" /\ UNCHANGED remote
      BY <1>1, <1>6 DEF ListFolder, Asked
    <2>3. CASE ~IsFolder(remote, p)
      <3>1. Answer(Failed)
        BY <1>1, <1>6, <2>1, <2>3 DEF ListFolder
      <3> QED
        BY <1>2, <1>3, <3>1
    <2>4. CASE IsFolder(remote, p)
      <3>1. PICK a : /\ a = [kind |-> "list", names |-> NamesIn(remote, p),
                             sizes |-> [n \in NamesIn(remote, p) |->
                                          Len(remote[Append(p, n)].data)],
                             folders |-> {n \in NamesIn(remote, p) :
                                            IsFolder(remote, Append(p, n))}]
                     /\ Answer(a)
        BY <1>1, <1>6, <2>1, <2>4 DEF ListFolder
      <3>2. r.kind = "list" /\ r.names = NamesIn(remote, p)
        BY <1>2, <3>1
      <3> QED
        BY <2>1, <2>2, <2>4, <3>2
    <2> QED
      BY <2>3, <2>4
  <1>7. CASE MakeFolder
    <2>1. q.kind = "mkdir" /\ (Answer(Failed) \/ Answer([kind |-> "mkdir"]))
      BY <1>1, <1>7 DEF MakeFolder, Asked
    <2> QED
      BY <1>2, <1>3, <2>1
  <1>8. CASE RemoveFile
    <2>1. /\ q.kind = "remove"
          /\ \/ Answer(Failed)
             \/ /\ Answer([kind |-> "remove"]) /\ CanRemove(remote, openFiles, q.path)
                /\ remote' = [remote EXCEPT ![q.path] = Absent]
      BY <1>1, <1>8 DEF RemoveFile, Asked
    <2> QED
      BY <1>2, <1>3, <2>1 DEF CanRemove
  <1>9. CASE RenameFile
    <2>1. q.kind = "rename" /\ (Answer(Failed) \/ Answer([kind |-> "rename"]))
      BY <1>1, <1>9 DEF RenameFile, Asked
    <2> QED
      BY <1>2, <1>3, <2>1
  <1>10. CASE FolderSize
    <2>1. q.kind = "size" /\ (Answer(Failed) \/ Answer([kind |-> "size"]))
      BY <1>1, <1>10 DEF FolderSize, Asked
    <2> QED
      BY <1>2, <1>3, <2>1
  <1>11. CASE StartUpload
    <2>1. /\ q.kind = "start upload"
          /\ \/ Answer(Failed)
             \/ /\ Answer([kind |-> "start upload"])
                /\ outputStream' = OpenStream(q.path, q.offset)
                /\ q.overwrite => remote' = Truncated(remote, q.path)
      BY <1>1, <1>11 DEF StartUpload, StartUploadFrom, Asked, Sought
    <2> QED
      BY <1>2, <1>3, <2>1
  <1>12. CASE UploadData
    <2>1. /\ q.kind = "upload"
          /\ \/ Answer(Failed)
             \/ /\ Answer([kind |-> "upload"])
                /\ remote' = [remote EXCEPT ![outputStream.path].data =
                                Write(@, outputStream.pos, q.chunk)]
                /\ outputStream' = [outputStream EXCEPT !.pos = @ + 1]
      BY <1>1, <1>4, <1>12 DEF UploadData, Asked
    <2> QED
      BY <1>2, <1>3, <2>1
  <1>13. CASE EndUpload
    <2>1. /\ q.kind = "end upload" /\ UNCHANGED remote
          /\ Answer(Failed) \/ Answer([kind |-> "end upload"])
      BY <1>1, <1>4, <1>13 DEF EndUpload, Asked
    <2> QED
      BY <1>2, <1>3, <2>1
  <1>14. CASE StartDownload
    <2>1. /\ q.kind = "start download" /\ UNCHANGED remote
          /\ \/ Answer(Failed)
             \/ /\ Answer([kind |-> "start download"])
                /\ inputStream' = OpenStream(q.path, q.offset)
      BY <1>1, <1>14 DEF StartDownload, Asked, Sought
    <2> QED
      BY <1>2, <1>3, <2>1
  <1>15. CASE DownloadData
    <2>1. PICK a : a = [kind |-> "download",
                        chunk |-> remote[inputStream.path].data[inputStream.pos + 1]]
      OBVIOUS
    <2>2. /\ q.kind = "download" /\ UNCHANGED remote
          /\ \/ Answer(Failed)
             \/ /\ Answer(a) /\ ~AtEnd(inputStream)
                /\ inputStream' = [inputStream EXCEPT !.pos = @ + 1]
             \/ Answer([kind |-> "end download"]) /\ AtEnd(inputStream)
      BY <1>1, <1>4, <1>15, <2>1 DEF DownloadData, Asked
    <2>3. a.kind = "download" /\ a.chunk = remote[inputStream.path].data[inputStream.pos + 1]
      BY <2>1
    <2> QED
      BY <1>2, <1>3, <2>2, <2>3
  <1> QED
    BY <1>5, <1>6, <1>7, <1>8, <1>9, <1>10, <1>11, <1>12, <1>13, <1>14, <1>15 DEF Handle

\* What is asked for at cur.
LEMMA AskedThere ==
  ASSUME NEW q, Asks(q)
  PROVE  /\ q.kind \in {"list", "mkdir", "remove", "start upload", "upload", "end upload",
                        "start download", "download"}
         /\ q.kind = "list" /\ op # "upload" => q.path = cur
         /\ q.kind = "mkdir" => op = "upload" /\ goto = "none"
         /\ q.kind = "remove" => op = "remove" /\ q.path = cur
         /\ q.kind = "start upload" => op = "upload" /\ goto = "none" /\ q.path = cur
         /\ q.kind = "upload" =>
              op = "upload" /\ goto = "none" /\ outputStream.path = cur /\ outputStream.open
         /\ q.kind = "end upload" => op = "upload"
         /\ q.kind = "start download" => op = "download" /\ q.path = cur
         /\ q.kind = "download" => op = "download" /\ inputStream.open
  <1>1. \A p : List(p).kind = "list" /\ List(p).path = p
    BY DEF List
  <1>2. \A p : /\ [kind |-> "remove", path |-> p].kind = "remove"
               /\ [kind |-> "remove", path |-> p].path = p
    OBVIOUS
  <1>3. CASE WalkAsks(q)
    BY <1>1, <1>2, <1>3 DEF WalkAsks
  <1>4. CASE ~WalkAsks(q)
    <2>1. CASE q = List(cur) /\ op = "download"
      BY <1>1, <2>1
    <2>2. CASE ~(q = List(cur) /\ op = "download")
      BY <1>4, <2>2 DEF Asks
    <2> QED
      BY <2>1, <2>2
  <1> QED
    BY <1>3, <1>4

\* A stream that moves on by a chunk.
LEMMA MovedOn ==
  ASSUME NEW s \in Stream
  PROVE  /\ [s EXCEPT !.pos = @ + 1].pos = s.pos + 1 /\ [s EXCEPT !.pos = @ + 1].path = s.path
         /\ s.pos \in Nat
  <1>1. s = [path |-> s.path, pos |-> s.pos, open |-> s.open] /\ s.pos \in Nat
    BY DEF Stream
  <1>2. [s EXCEPT !.pos = @ + 1] = [path |-> s.path, pos |-> s.pos + 1, open |-> s.open]
    BY <1>1
  <1> QED
    BY <1>1, <1>2

\* Which request an answer is to.
LEMMA HandledKinds ==
  ASSUME NEW q, requests = <<q>>, replies = <<>>, Handle, NEW r, replies' = <<r>>
  PROVE  r.kind = "failed" \/ q.kind = r.kind \/ (q.kind = "download" /\ r.kind = "end download")
  BY Handled

\* What the answer says of the file at cur, when it is an upload's.
LEMMA UploadAnswered ==
  ASSUME PInv, NEW q, Asks(q), AsksRight(q), requests = <<q>>, replies = <<>>,
         Handle, NEW r, replies' = <<r>>, op = "upload", Whole
  PROVE  /\ r.kind \in {"start upload", "upload"} =>
              /\ stream.path = cur /\ stream.pos = outputStream'.pos
              /\ InFile(stream.pos) /\ Copied(remote', stream.pos)
         /\ r.kind = "end upload" => remote'[cur] = Source[cur]
  <1>1. /\ remote \in [Paths -> Node] /\ outputStream \in Stream
    BY DEF PInv, IInv, Types
  <1>2. PICK p \in Paths : p = cur
    BY WholeFacts
  <1>3. PICK d \in Seq(Chunks) : d = Source[cur].data /\ Source[cur] = File(d) /\ Len(d) \in Nat
    BY WholeFacts
  <1>4. \A k : InFile(k) <=> k \in 0..Len(d)
    BY <1>3 DEF InFile
  <1>5. \A fs, k : Copied(fs, k) <=> fs[p] = File(SubSeq(d, 1, k))
    BY <1>2, <1>3 DEF Copied
  <1>6. CASE q.kind = "start upload" /\ r.kind = "start upload"
    <2>1. q.overwrite /\ q.offset = 0 /\ stream.path = cur /\ stream.pos = 0
      BY <1>6 DEF AsksRight
    <2>2. outputStream' = OpenStream(q.path, 0) /\ remote' = Truncated(remote, p)
      BY <1>2, <1>6, <2>1, Handled, AskedThere
    <2>3. outputStream'.pos = 0
      BY <2>2 DEF OpenStream
    <2>4. remote'[p] = File(SubSeq(d, 1, 0))
      <3>1. SubSeq(d, 1, 0) = <<>>
        BY Prefixes
      <3> QED
        BY <1>1, <2>2, <3>1 DEF Truncated
    <2>5. 0 \in 0..Len(d)
      BY <1>3
    <2>6. Copied(remote', 0)
      BY <1>2, <1>3, <2>4 DEF Copied
    <2> QED
      BY <1>4, <1>6, <2>1, <2>3, <2>5, <2>6
  <1>7. CASE q.kind = "upload" /\ r.kind = "upload"
    <2>1. /\ stream.path = cur /\ stream.pos = outputStream.pos + 1 /\ InFile(stream.pos)
          /\ Copied(remote, outputStream.pos) /\ q.chunk = Source[cur].data[stream.pos]
      BY <1>7 DEF AsksRight
    <2>2. PICK k \in Nat : k = outputStream.pos
      BY <1>1, MovedOn
    <2>3. outputStream'.pos = k + 1
      BY <1>1, <1>7, <2>2, Handled, MovedOn
    <2>4. remote' = [remote EXCEPT ![p].data = Write(@, k, d[k + 1])]
      <3>1. q.chunk = d[k + 1]
        BY <1>3, <2>1, <2>2
      <3>2. outputStream.path = p
        BY <1>2, <1>7, AskedThere
      <3>3. remote' = [remote EXCEPT ![outputStream.path].data =
                         Write(@, outputStream.pos, q.chunk)]
        BY <1>7, Handled
      <3> QED
        BY <2>2, <3>1, <3>2, <3>3
    <2>5. k < Len(d)
      <3>1. k + 1 \in 0..Len(d)
        BY <1>4, <2>1, <2>2
      <3> QED
        BY <1>3, <3>1
    <2>6. remote[p] = File(SubSeq(d, 1, k))
      BY <1>5, <2>1, <2>2
    <2>7. [remote EXCEPT ![p].data = Write(@, k, d[k + 1])][p] = File(SubSeq(d, 1, k + 1))
      BY <1>1, <2>5, <2>6, Written
    <2>8. Copied(remote', k + 1)
      BY <1>2, <1>3, <2>4, <2>7 DEF Copied
    <2> QED
      BY <1>7, <2>1, <2>2, <2>3, <2>8
  <1>8. CASE q.kind = "end upload" /\ r.kind = "end upload"
    <2>1. remote[cur] = Source[cur] /\ remote' = remote
      BY <1>8, Handled DEF AsksRight
    <2> QED
      BY <1>8, <2>1
  <1>9. /\ r.kind = "start upload" => q.kind = r.kind
        /\ r.kind = "upload" => q.kind = r.kind
        /\ r.kind = "end upload" => q.kind = r.kind
    BY HandledKinds
  <1> QED
    BY <1>6, <1>7, <1>8, <1>9

\* And a download's.
LEMMA DownloadAnswered ==
  ASSUME PInv, NEW q, Asks(q), AsksRight(q), requests = <<q>>, replies = <<>>,
         Handle, NEW r, replies' = <<r>>, op = "download", Whole
  PROVE  /\ r.kind = "start download" =>
              offset = 0 /\ inputStream'.path = cur /\ inputStream'.pos = 0
         /\ r.kind = "download" =>
              /\ InFile(inputStream'.pos) /\ inputStream'.pos = stream.pos + 1
              /\ inputStream'.path = cur
              /\ Copied(local, stream.pos) /\ r.chunk = Source[cur].data[inputStream'.pos]
         /\ r.kind = "end download" => local[cur] = Source[cur]
  <1>1. Source = remote /\ inputStream \in Stream
    BY DEF Source, PInv, IInv, Types
  <1>2. PICK d \in Seq(Chunks) : d = Source[cur].data /\ Source[cur] = File(d) /\ Len(d) \in Nat
    BY WholeFacts
  <1>3. CASE q.kind = "start download" /\ r.kind = "start download"
    <2>1. offset = 0 /\ q.offset = 0 /\ q.path = cur
      BY <1>3, AskedThere DEF AsksRight
    <2>2. inputStream' = OpenStream(cur, 0)
      BY <1>3, <2>1, Handled
    <2> QED
      BY <1>3, <2>1, <2>2 DEF OpenStream
  <1>4. ASSUME q.kind = "download"
        PROVE  /\ InFile(stream.pos) /\ Copied(local, stream.pos)
               /\ inputStream.path = cur /\ inputStream.pos = stream.pos
    BY <1>4 DEF AsksRight
  <1>5. PICK k \in Nat : k = inputStream.pos
    BY <1>1, MovedOn
  <1>6. CASE q.kind = "download" /\ r.kind = "download"
    <2>1. inputStream' = [inputStream EXCEPT !.pos = @ + 1] /\ ~AtEnd(inputStream)
          /\ r.chunk = remote[inputStream.path].data[inputStream.pos + 1]
      BY <1>6, Handled
    <2>2. inputStream'.pos = k + 1 /\ inputStream'.path = cur
      BY <1>1, <1>4, <1>5, <1>6, <2>1, MovedOn
    <2>3. r.chunk = Source[cur].data[k + 1]
      BY <1>1, <1>4, <1>5, <1>6, <2>1
    <2>4. k + 1 \in 0..Len(d)
      <3>1. ~(k >= Len(d))
        BY <1>1, <1>2, <1>4, <1>5, <1>6, <2>1 DEF AtEnd
      <3>2. \A m, n \in Nat : ~(m >= n) => m + 1 \in 0..n
        OBVIOUS
      <3> QED
        BY <1>2, <3>1, <3>2, Zenon
    <2> QED
      BY <1>2, <1>4, <1>5, <1>6, <2>2, <2>3, <2>4 DEF InFile
  <1>7. CASE q.kind = "download" /\ r.kind = "end download"
    <2>1. AtEnd(inputStream)
      BY <1>7, Handled
    <2>2. k >= Len(d) /\ k \in 0..Len(d)
      BY <1>1, <1>2, <1>4, <1>5, <1>7, <2>1 DEF AtEnd, InFile
    <2>3. k = Len(d)
      BY <1>2, <2>2, Counting, Zenon
    <2>4. local[cur] = File(SubSeq(d, 1, k))
      BY <1>2, <1>4, <1>5, <1>7 DEF Copied
    <2>5. SubSeq(d, 1, Len(d)) = d
      BY Prefixes
    <2> QED
      BY <1>2, <1>7, <2>3, <2>4, <2>5
  <1>8. /\ r.kind = "start download" => q.kind = r.kind
        /\ r.kind \in {"download", "end download"} => q.kind = "download"
    BY Handled
  <1> QED
    BY <1>3, <1>6, <1>7, <1>8

\* What it says in any case.
LEMMA ListAnswered ==
  ASSUME PInv, NEW q, Asks(q), AsksRight(q), requests = <<q>>, replies = <<>>,
         Handle, NEW r, replies' = <<r>>, cur \in Paths
  PROVE  /\ r.kind = "list" /\ op # "upload" =>
              IsFolder(remote', cur) /\ r.names = NamesIn(remote', cur)
         /\ r.kind = "mkdir" => IsFolder(local, cur)
         /\ r.kind \in {"start download", "download", "end download"} =>
              ~IsFolder(remote', cur)
         /\ r.kind = "remove" => ~Exists(remote', cur)
         /\ r.kind \in {"start upload", "upload", "end upload"} => op = "upload"
         /\ r.kind \in {"start download", "download", "end download"} =>
              op = "download" /\ UNCHANGED remote
  <1>1. remote \in [Paths -> Node]
    BY DEF PInv, IInv, Types
  <1>2. CASE r.kind = "list" /\ op # "upload"
    <2>1. q.path = cur /\ remote' = remote /\ IsFolder(remote, q.path)
          /\ r.names = NamesIn(remote, q.path)
      BY <1>2, Handled, AskedThere
    <2> QED
      BY <1>2, <2>1
  <1>3. CASE r.kind = "list" /\ op = "upload"
    BY <1>3
  <1>4. CASE r.kind = "mkdir"
    <2>1. q.kind = "mkdir"
      BY <1>4, Handled
    <2> QED
      BY <1>4, <2>1 DEF AsksRight
  <1>5. CASE r.kind \in {"start download", "download", "end download"}
    <2>1. q.kind \in {"start download", "download"} /\ remote' = remote
      BY <1>5, Handled
    <2>2. ~IsFolder(remote, cur) /\ op = "download"
      BY <2>1, AskedThere DEF AsksRight
    <2> QED
      BY <1>5, <2>1, <2>2
  <1>6. CASE r.kind = "remove"
    <2>1. q.path = cur /\ remote' = [remote EXCEPT ![q.path] = Absent]
      BY <1>6, Handled, AskedThere
    <2>2. remote'[cur] = Absent
      BY <1>1, <2>1
    <2>3. ~Exists(remote', cur)
      BY <2>2 DEF Exists, Absent
    <2> QED
      BY <1>6, <2>3
  <1>7. CASE r.kind \in {"start upload", "upload", "end upload"}
    <2>1. q.kind = r.kind
      BY <1>7, HandledKinds
    <2> QED
      BY <1>7, <2>1, AskedThere
  <1> QED
    BY <1>2, <1>3, <1>4, <1>5, <1>6, <1>7

\* What is done stays done whatever the server does, or is at cur.
LEMMA ServeDone ==
  ASSUME PInv, Handle, UNCHANGED <<op, local, excused>>, op \in Walks,
         Head(requests).kind # "rename",
         Head(requests).kind \in {"mkdir", "start upload", "upload"} => op = "upload",
         Head(requests).kind = "remove" => op = "remove",
         Head(requests).kind = "start upload" => Head(requests).path = cur,
         Head(requests).kind = "upload" => outputStream.path = cur,
         NEW t \in Paths, Done(t)
  PROVE  Done(t)' \/ (t = cur /\ op = "upload" /\ IsFile(local, t))
  <1>1. IInv
    BY DEF PInv
  <1>2. CASE Under(t) \intersect excused # {}
    BY <1>2 DEF Done
  <1>3. CASE op = "remove" /\ ~Exists(remote, t)
    <2>1. Head(requests).kind \notin {"mkdir", "start upload", "upload"}
      BY <1>3
    <2>2. CASE Head(requests).kind # "remove"
      <3>1. remote'[t] = remote[t]
        BY <1>1, <2>1, <2>2, HandleChanges
      <3> QED
        BY <1>3, <3>1 DEF Done, Exists
    <2>3. CASE Head(requests).kind = "remove"
      <3>1. remote' = remote \/ remote' = [remote EXCEPT ![Head(requests).path] = Absent]
        BY <2>3
        DEF Handle, Refuse, ListFolder, MakeFolder, RemoveFile, RenameFile, FolderSize,
            StartUpload, StartUploadFrom, StartUploadFails, UploadData, EndUpload,
            StartDownload, StartDownloadFails, DownloadData, Asked
      <3>2. remote \in [Paths -> Node]
        BY <1>1 DEF IInv, Types
      <3>3. remote'[t] = remote[t] \/ remote'[t] = Absent
        BY <3>1, <3>2
      <3>4. remote[t].kind = "none" /\ Absent.kind = "none"
        BY <1>3 DEF Exists, Absent
      <3>5. remote'[t].kind = "none"
        BY <3>3, <3>4
      <3>6. op' = "remove" /\ ~Exists(remote', t)
        BY <1>3, <3>5 DEF Exists
      <3> QED
        BY <3>6 DEF Done
    <2> QED
      BY <2>2, <2>3
  <1>4. CASE op = "upload" /\ (IsFile(Source, t) => Target[t] = Source[t])
    <2>1. Source = local /\ Source' = local /\ Target = remote /\ Target' = remote'
          /\ op' # "remove"
      BY <1>4 DEF Source, Target
    <2>2. CASE remote'[t] = remote[t]
      BY <1>4, <2>1, <2>2 DEF Done
    <2>3. CASE ~IsFile(local, t)
      BY <2>1, <2>3, DoneAbsent
    <2>4. CASE remote'[t] # remote[t] /\ IsFile(local, t)
      <3>1. Exists(remote, t)
        BY <1>4, <2>1, <2>4 DEF IsFile, Exists
      <3>2. \/ remote'[t] = remote[t]
            \/ Head(requests).kind = "mkdir" /\ ~Exists(remote, t)
            \/ Head(requests).kind = "start upload" /\ t = Head(requests).path
            \/ Head(requests).kind = "upload" /\ t = outputStream.path
            \/ Head(requests).kind \in {"remove", "rename"}
        BY <1>1, HandleChanges
      <3>3. Head(requests).kind \notin {"remove", "rename"}
        BY <1>4
      <3>4. t = cur
        BY <2>4, <3>1, <3>2, <3>3
      <3> QED
        BY <1>4, <2>4, <3>4
    <2> QED
      BY <2>2, <2>3, <2>4
  <1>5. CASE op = "download" /\ (IsFile(Source, t) => Target[t] = Source[t])
    <2>1. remote'[t] = remote[t]
      BY <1>1, <1>5, HandleChanges
    <2>2. Source = remote /\ Source' = remote' /\ Target = local /\ Target' = local
          /\ op' # "remove"
      BY <1>5 DEF Source, Target
    <2> QED
      BY <1>5, <2>1, <2>2 DEF Done, IsFile
  <1> QED
    BY <1>2, <1>3, <1>4, <1>5 DEF Done, Walks

\* The server works for the operation.
LEMMA ServeComplete ==
  ASSUME PInv, Complete, Serve
  PROVE  Complete'
  <1>1. Handle /\ UNCHANGED clientVars
    BY DEF Serve
  <1>2. UNCHANGED <<op, terminating, cur, nodes, goto, pc, sizesLeft, local, excused, stream,
                    offset>>
    BY <1>1 DEF clientVars, walkVars, dataVars, uiVars, historyVars
  <1>3. IInv /\ PInv' /\ requests # <<>> /\ (Answered \/ Crashes(Head(requests)))
    BY <1>1, ServeInv, HandleAnswers DEF PInv
  <1>4. IsTree(local') /\ IsTree(remote')
    BY <1>1, <1>2, <1>3, TreeHandle DEF Complete
  <1> SUFFICES ASSUME op \in Walks, ~terminating PROVE Complete'
    BY <1>2, <1>4, CompleteNot
  <1>5. Walked /\ Right
    BY DEF Complete
  <1>6. Sizing \/ Waiting
    BY <1>3 DEF PInv, Phases, Resting, Simple, Copying, Cancelled, Finished, Silent, Walks
  <1>7. ASSUME \A t \in Paths : Done(t) => Done(t)' \/ (t = cur /\ Here /\ cur \in Paths)
        PROVE  Walked'
    <2>1. Here => Here'
      BY <1>2 DEF Here
    <2>2. ASSUME NEW t \in Paths, t = cur, Here, cur \in Paths
          PROVE  ToDo(t)'
      BY <1>2, <2>1, <2>2, UnderFacts, ToDoThere
    <2>3. \A t \in Paths : ToDo(t) => ToDo(t)'
      BY <1>2, <2>1, ToDoSame
    <2>4. \A t \in Paths : Done(t) \/ ToDo(t) => Done(t)' \/ ToDo(t)'
      BY <1>7, <2>2, <2>3
    <2> QED
      BY <1>2, <1>5, <2>4, WalkedStep
  <1>8. CASE Sizing
    <2>1. op = "download" /\ sizesLeft # 0
      <3>1. sizesLeft > 0 /\ sizesLeft \in 0..Cardinality(Names)
        BY <1>8 DEF Sizing, PInv, ClientTypes
      <3> QED
        BY <1>8, <3>1 DEF Sizing
    <2>2. Head(requests).kind = "size"
      <3>1. requests \in Seq([kind : {"size"}, path : Paths])
        BY <1>8 DEF Sizing
      <3>2. \A S : requests \in Seq(S) => Head(requests) \in S
        BY <1>3
      <3> QED
        BY <3>1, <3>2
    <2>3. \A t \in Paths : Done(t) => Done(t)'
      BY <1>1, <1>2, <2>1, <2>2, ServeDone
    <2>4. Walked' /\ Right'
      BY <1>2, <1>7, <2>1, <2>3 DEF Right
    <2> QED
      BY <1>4, <2>4 DEF Complete
  <1>9. CASE Waiting
    <2>1. PICK q : Asks(q) /\ requests = <<q>> /\ replies = <<>>
      BY <1>3, <1>9 DEF Waiting
    <2>2. Head(requests) = q /\ Tail(requests) = <<>>
      BY <2>1, OneElement
    <2>3. Answered
      BY <1>3, <2>1, <2>2, AskedSafely
    <2>4. PICK r : requests' = <<>> /\ replies' = Append(replies, r)
      BY <2>2, <2>3 DEF Answered
    <2>5. replies' = <<r>> /\ cur # NoPath /\ cur \in Paths /\ sizesLeft = 0
      BY <1>9, <2>1, <2>4, OneElement DEF Waiting, Walking, PInv, ClientTypes
    <2>6. AsksRight(q)
      BY <1>5, <2>1, <2>5 DEF Right
    <2>7. Walked'
      <3>1. /\ q.kind # "rename"
            /\ q.kind \in {"mkdir", "start upload", "upload"} => op = "upload"
            /\ q.kind \in {"start upload", "upload"} => goto = "none"
            /\ q.kind = "remove" => op = "remove"
            /\ q.kind = "start upload" => q.path = cur
            /\ q.kind = "upload" => outputStream.path = cur
        BY <2>1, AskedThere
      <3>2. ASSUME NEW t \in Paths, Done(t)
            PROVE  Done(t)' \/ (t = cur /\ op = "upload" /\ IsFile(local, t))
        BY <1>1, <1>2, <2>2, <3>1, <3>2, ServeDone
      <3>3. ASSUME NEW t \in Paths, Done(t), ~Done(t)'
            PROVE  t = cur /\ Here /\ cur \in Paths
        <4>1. t = cur /\ op = "upload" /\ IsFile(local, cur)
          BY <3>2, <3>3
        <4>2. ~IsFolder(local, cur)
          BY <2>5, <4>1, PathIsSeq DEF IsFolder, IsFile
        <4>3. goto = "none"
          <5>1. Source = local /\ Target = remote /\ Source' = local /\ Target' = remote'
            BY <1>2, <4>1 DEF Source, Target
          <5>2. remote'[t] # remote[t]
            BY <1>2, <3>3, <5>1, <4>1 DEF Done
          <5>3. remote[t] = local[t]
            BY <1>2, <3>3, <4>1, <5>1 DEF Done
          <5>4. Exists(remote, t)
            BY <4>1, <5>3 DEF Exists, IsFile
          <5> QED
            BY <1>1, <1>3, <2>2, <3>1, <4>1, <5>2, <5>4, HandleChanges
        <4> QED
          BY <2>5, <4>1, <4>2, <4>3 DEF Here
      <3> QED
        BY <1>7, <3>3
    <2>8. Right'
      <3>1. ToldRight(r)'
        <4>1. /\ r.kind = "list" /\ op # "upload" =>
                   IsFolder(remote', cur) /\ r.names = NamesIn(remote', cur)
              /\ r.kind = "mkdir" => IsFolder(local, cur)
              /\ r.kind \in {"start download", "download", "end download"} =>
                   ~IsFolder(remote', cur)
              /\ r.kind = "remove" => ~Exists(remote', cur)
              /\ r.kind \in {"start upload", "upload", "end upload"} => op = "upload"
              /\ r.kind \in {"start download", "download", "end download"} =>
                   op = "download" /\ UNCHANGED remote
          BY <1>1, <2>1, <2>5, <2>6, ListAnswered
        <4>2. CASE r.kind \in {"start upload", "upload", "end upload"}
          <5>1. Source = local /\ Source' = local /\ (Whole' => Whole) /\ op = "upload"
            BY <1>2, <4>1, <4>2 DEF Source, Whole
          <5>2. ASSUME Whole
                PROVE  /\ r.kind \in {"start upload", "upload"} =>
                            /\ stream.path = cur /\ stream.pos = outputStream'.pos
                            /\ InFile(stream.pos) /\ Copied(remote', stream.pos)
                       /\ r.kind = "end upload" => remote'[cur] = Source[cur]
            BY <1>1, <2>1, <2>5, <2>6, <5>1, <5>2, UploadAnswered
          <5> QED
            BY <1>2, <4>1, <4>2, <5>1, <5>2 DEF ToldRight, InFile, Copied
        <4>3. CASE r.kind \in {"start download", "download", "end download"}
          <5>1. Source' = Source /\ (Whole' => Whole) /\ op = "download"
            BY <1>2, <4>1, <4>3 DEF Source, Whole
          <5>2. ASSUME Whole
                PROVE  /\ r.kind = "start download" =>
                            offset = 0 /\ inputStream'.path = cur /\ inputStream'.pos = 0
                       /\ r.kind = "download" =>
                            /\ InFile(inputStream'.pos) /\ inputStream'.pos = stream.pos + 1
                            /\ inputStream'.path = cur
                            /\ Copied(local, stream.pos)
                            /\ r.chunk = Source[cur].data[inputStream'.pos]
                       /\ r.kind = "end download" => local[cur] = Source[cur]
            BY <1>1, <2>1, <2>5, <2>6, <5>1, <5>2, DownloadAnswered
          <5> QED
            BY <1>2, <4>1, <4>3, <5>1, <5>2 DEF ToldRight, InFile, Copied
        <4>4. CASE r.kind \notin {"start upload", "upload", "end upload",
                                  "start download", "download", "end download"}
          BY <1>2, <4>1, <4>4 DEF ToldRight
        <4> QED
          BY <4>2, <4>3, <4>4
      <3>2. \A s : replies' = <<s>> => s = r
        BY <2>5, OneElement
      <3>3. \A s : requests' # <<s>>
        BY <2>4, OneElement
      <3> QED
        BY <3>1, <3>2, <3>3 DEF Right
    <2> QED
      BY <1>4, <2>7, <2>8 DEF Complete
  <1> QED
    BY <1>6, <1>8, <1>9

\* What an ended operation has selected is done.
LEMMA CompleteEnds ==
  ASSUME PInv, Complete
  PROVE  NothingIsForgotten
  <1> SUFFICES ASSUME Ended, NEW n \in nodes[<<>>], NEW p \in Under(<<n>>)
               PROVE  Done(p)
    BY DEF NothingIsForgotten, Done
  <1>1. Walked /\ cur = NoPath
    BY DEF Complete, Ended
  <1>2. p \in Paths /\ Selected(nodes, p)
    BY DEF Selected, Under
  <1>3. ~ToDo(p)
    BY <1>1 DEF ToDo
  <1> QED
    BY <1>1, <1>2, <1>3 DEF Walked

\* An operation that ends by itself has copied, or removed, every file that was
\* selected, at any depth of the tree, except those for which a failure was reported or
\* the user's answer asked for something else: no failure of the server, and no turn of
\* the walk, passes a file over in silence, and a file that is copied is the same on
\* both sides.
THEOREM NothingForgotten ==
  ASSUME CancelAfterSkip = FALSE PROVE Spec => []NothingIsForgotten
  <1>1. Init => Complete
    BY TreesAssumption DEF Init, Complete, Walks
  <1>2. PInv /\ Complete /\ [Next]_vars => Complete'
    <2> SUFFICES ASSUME PInv, Complete, [Next]_vars PROVE Complete'
      OBVIOUS
    <2>1. CASE StartOperation \/ OperationFinished \/ Cancel \/ CloseSession
      BY <2>1, UiComplete
    <2>2. CASE CopyStep
      BY <2>2, CopyComplete
    <2>3. CASE HandleReply
      BY <2>3, ReplyComplete
    <2>4. CASE Serve
      BY <2>4, ServeComplete
    <2>5. CASE UNCHANGED vars
      <3>1. UNCHANGED <<op, terminating, cur, nodes, sizesLeft, local, remote, excused, stream,
                        outputStream, inputStream, offset, requests, replies, goto, pc>>
        BY <2>5
        DEF vars, serverVars, handlerVars, clientVars, walkVars, dataVars, uiVars, historyVars
      <3>2. Here => Here'
        BY <3>1 DEF Here
      <3> QED
        BY <3>1, <3>2, CompleteSame
    <2> QED
      BY <2>1, <2>2, <2>3, <2>4, <2>5 DEF Next
  <1>3. PInv /\ Complete => NothingIsForgotten
    BY CompleteEnds
  <1> QED
    BY SessionInv, <1>1, <1>2, <1>3, PTL DEF Spec
=============================================================================
