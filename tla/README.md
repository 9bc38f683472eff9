# TightVNC 2.8.23 in TLA+

Specifications, model-checking instances and machine-checked proofs about the
TightVNC server and viewer under `src/tightvnc/`. Paths below are relative to
that directory. The code is the reference: every definition names the lines it
stands for in `PROJECT.json` ("map").

TightVNC is two Windows programs made of threads. The server shows one desktop
to any number of viewers that speak RFB; the viewer shows it in a window. What
is hard to get right in them, and hard to test, is modelled first:

* **who may still use what** while connections come and go, the shared desktop
  is created and deleted, and the server is destroyed (`RfbClientManager`);
* **whether an update can get lost** on its way from the screen through four
  threads and two levels of "keepers" to the viewer (`UpdateContainers`,
  `UpdateKeeper`, `ScreenUpdates`), and, once it is there, through three threads
  to the window (`ViewerCore`);
* **who gets in**, while connections guess in parallel, settings change and the
  clock jumps (`Authentication`, `GuessLimit`);
* **what becomes of a conversation** when the process at the other end ends
  (`DesktopClient`), or when one of its steps fails (`FileTransferServer`,
  `FileTransfer`);
* **whether two ends agree** that tell each other of every change, their own
  included (`Clipboard`).

## 1. Inventory

### Modelled, in part

Every component below is "partly" modelled: what is left out is named in
section 2 and in the notes of `PROJECT.json`.

| Component | State it keeps | Operations | What makes it correct |
|---|---|---|---|
| RFB client manager (`tvnserver-app/RfbClientManager.cpp`) | two client lists under the recursive `m_clientListLocker`, the `Desktop` pointer, `m_listUnderflowingEvent`, the ban list | `addNewConnection`, `onClientAuth`, `onClientTerminate`/`validateClientList`, the walks `isReadyToSend`, `onSendUpdate`, `onClipboardUpdate`, `onAbnormalDesktopTerminate`, `disconnectAllClients`, the destructor | no walk calls a client whose modules are gone; a client's desktop outlives it; every lost client is removed and freed; the destructor returns and leaves nothing behind |
| RFB client thread (`rfb-sconn/RfbClient.cpp`) | `m_clientState`, the socket, its modules, the pointer to the desktop | the phases of `execute`, `disconnect`, `notifyAbStateChanging` | the state only grows; modules are freed after IN_PENDING_TO_REMOVE has passed the manager's mutex |
| Zombie killer and threads (`thread/ZombieKiller.cpp`, `thread/Thread.cpp`) | the list of finished threads under `m_lockObj`; `m_active`, `m_terminated` | `addZombie`, `deleteDeadZombies` every 50 ms, `killAllZombies`; `terminate`, `wait`, `resume` | a thread object is freed once, after its thread has ended; nobody waits for ever |
| Server shutdown (`tvnserver-app/TvnServer.cpp`) | the servers it owns | constructor, destructor, first/last client callbacks | shutdown completes |
| Desktop (`desktop/DesktopWinImpl.cpp`, `DesktopBaseImpl.cpp`, `WindowsClipboard.cpp`) | `m_newUpdateEvent`, `m_fullReqRegion`; two threads of its own | `onUpdate`, `onUpdateRequest`, `sendUpdate`, clipboard and input | events are never lost for good; it never outlives its last user, nor dies before |
| Update keeper and container (`desktop/UpdateKeeper.cpp`, `UpdateContainer.cpp`) | a changed region, one copied region with its source, flags | add changed/copied, dazzle, extract, check | what is kept is enough to make the receiver's pixels right |
| Update handler and detectors (`desktop/UpdateHandlerImpl.cpp`, `UpdateFilter.cpp`, `Poller.cpp`, ...) | the backup frame buffer, a keeper, `m_absoluteRect` | poll, detect cursor, detect window movements, `extract`, filter | the backup buffer and the extracted container agree |
| Update sender (`fb-update-sender/UpdateSender.cpp`) | requested regions and two flags, `m_busy`, a keeper, its own frame buffer | `readUpdateRequest`, `newUpdates`, `execute`/`sendUpdate` | every change reaches the viewer; updates only on demand; every request is answered |
| Authentication and bans (`rfb-sconn/RfbInitializer.cpp`, `tvnserver-app/RfbClientManager.cpp`, `server-config-lib/ServerConfig.cpp`) | the ban list under its mutex; the settings, each read under theirs | the handshake with its two ways to agree on a security type, two passwords compared, the query to the user, `checkForBan`, `updateIpInBan`, `onCheckAccessControl`, sharing | guesses are limited; nobody is let in without what the settings asked for |
| File transfer server (`ft-server-lib/`) | one upload, one download, the files they hold open | list, make, remove, rename, folder size, upload and download by chunks, the destructor | no handle is lost, no file in use is changed, a broken upload can be repeated |
| File transfer client (`ft-client-lib/`, `tvnviewer/FileTransferMainDialog.cpp`) | the current operation, its place in a tree of files, a local stream, listings | five operations that take a step at every reply, skip, append, cancel | each reply meets the step that asked for it; every operation ends; nothing is freed twice, overwritten unasked or forgotten |
| Desktop IPC (`desktop-ipc/`, `tvnserver-app/DesktopServerWatcher.cpp`, `DesktopClientImpl.cpp`) | two channels with the present and the last pipe, an event, `m_isClosed`; the process | the watcher starts the process again and replaces the pipes; conversations; the dispatcher; the destructor | messages stay whole, pipes are deleted once and unused, no waiting thread sleeps on, the destructor returns |
| Viewer core (`viewer-core/`) | `m_isNeedRequestUpdate`, the frame buffer and its format, the pause, a deferred request, news for the adapter | connect, receive, request, defer, pause, change the format, refresh, notify, `stop` | one request is under way; pixels fit their buffer; nothing stays black or unshown; stopping ends |
| Clipboard exchange (`rfb-sconn/ClipboardExchange.cpp`, `desktop/WindowsClipboard.cpp`, `tvnviewer/DesktopWindow.cpp`) | per desktop the text received last; per client a text, a flag and an event; in the viewer the text set last; both clipboards | read a changed clipboard and offer it, send, receive and set, on either side; the exchange's end | a text arrives, does not come back, and is not left behind in the exchange |

How they interact. The listening servers call `addNewConnection`. Each
`RfbClient` runs its own thread: its `RfbInitializer` asks the ban list and the
settings, then it calls back into the manager: `onClientAuth` (moves it to the
authorized list and creates the desktop for the first one) and, twice on its way
out, `onClientTerminate`, which is `validateClientList` over *all* clients. The
desktop's update thread and the clipboard's thread call the manager, which walks
over the authorized clients under its mutex and calls into those
IN_NORMAL_PHASE. The last client's thread deletes the desktop, joining those two
threads. Removed clients go to the ZombieKiller, whose thread frees them. For
updates: detectors fill the handler's keeper and signal the desktop; the desktop
thread asks whether any client is ready, extracts and filters, and gives the
container to the keeper of *every* client; each client's sender extracts from
its keeper what its viewer has requested, fetches the pixels from the handler's
backup buffer, and writes. When the server is a service the desktop lives in a
process of the session: detectors, keeper and input then are behind two pipes,
and everything said over them may be cut off. At the other end the viewer's
input thread decodes updates into a frame buffer, asks for the next one, and
leaves it to a notifier to tell the window. File transfers are requests and
replies in the same connection, handled by the client's thread on the server and
by the input thread in the viewer. So are texts for the clipboard, which another
thread of each client sends.

### Not modelled

| Component | Why |
|---|---|
| Control server (`tvnserver-app/ControlClient.cpp`) | planned; what its commands do to clients is in `RfbClientManager` (`ControlDisconnect`), the settings it writes are in `Authentication` |
| Cursor updates, view ports | only their effect on a container enters (`PrepareUpdate`); shapes, windows to follow and shared rectangles are data |
| Screen drivers, hooks, mirror driver | Windows graphics interfaces; their events enter as detectors |
| Client input handling | decodes and passes on messages |
| Encoders and decoders, pixel translation, JPEG/zlib, streams, sockets | pure computation or I/O; pixels are transmitted as they are |
| Viewer application (`tvnviewer/`) | windows and dialogs; as the owner of a core it is in `ViewerCore`, as a user in `FileTransfer`; the collector of several viewers is left out |
| TCP dispatcher, HTTP server, log server and writer, configuration storage, GUI, control application, utilities | I/O, wrappers or user interface |
| Vendored zlib, libjpeg | third-party |

Most lines of the repository are of the last four rows: tables of key symbols,
codecs, a Java applet stored as an array, dialogs, wrappers of Windows calls.
They hold data or computation on it and little control of their own; modelling
them would mean transcribing them.

## 2. Modules

Where a definition stands for a class, its variables carry the names of the
members; a comment gives the name where it differs. A step of a thread ends
where the code leaves a mutex, waits, or hands something to another thread.

### RfbClientManager

One module for the manager, the client threads, the desktop's two threads, the
ZombieKiller and the main thread, because the properties are about their
composition. Code to model:

* `pc[c]` is where the thread of a client is in `RfbClient::execute` and in the
  manager's code it calls; `clientState` is `m_clientState`; `modules`, `held`,
  `open` are its modules, `m_desktop` and socket.
* Code under `m_clientListLocker` is one action where nothing inside can be seen
  or delayed by others (`Connect`, `AdmitClient`, `NotifyUnderflow`, ...).
  `validateClientList` is split into `BeginScan`, `ScanClient` (which waits for
  the ZombieKiller's mutex) and `EndScan`, because that second mutex is what
  makes it hang; a walk of a desktop thread into `BeginWalk`, `CheckClientState`,
  `UseClient`, `EndWalk`, because the client's state is read under another mutex
  that is free again when the client is called.
* `delete objectToDestroy` is `TerminateDesktop`, `JoinDesktop`, and the callback
  after it `AfterLastClientDisconnect`. A desktop is named after the client that
  created it, so two desktops can be told apart.
* `AdmitWithoutDesktop` is `createDesktop` throwing after `m_clientList.push_back`.
  `RejectExclusive` and the choice in `AdmitClient` stand for the three settings
  and the client's shared flag, which `Authentication` spells out.
* `Shutdown` ... `WakeByUnderflow` is `~TvnServer`, which calls `killAllZombies`
  and then deletes the manager; `underflow` is the auto-reset event.

Abstractions: the protocol of each phase is "it ends, or it throws"; the order
of clients inside one list is left open (the code walks in list order, the
model in any order, non-authorized list first); `Thread::m_active` is taken as
"the thread has not ended". `Thread::resume` sets it after the thread was started
(`Thread.cpp:81`), so the flag of a thread that ends at once could stay set; a
client's thread cannot, because `addNewConnection` resumes it under the mutex it
needs to leave the lists.

### UpdateContainers, UpdateKeeper

`UpdateContainers` holds the data and pure operations: a container is a record
of the changed tiles, the copied tiles with a displacement, and two flags. The
screen is a strip of `NumTiles` tiles, which keeps what matters of rectangles:
overlap, clipping at a border, source and destination. `AddCopyRect` follows
`UpdateKeeper::addCopyRect` line by line: clip both ends, add what was lost,
degrade a second copy to changes, subtract the destination, carry the changed
part of the source along. `videoRegion` only selects another encoder and is
merged with `changed`; the excluded region of the hooks is left out.

A container that is added brings one rectangle only (`FirstRect`), as the FIXME in
`addUpdateContainer` says.

`UpdateKeeper` is the *abstract promise* of that class: with a desktop that adds
and a sender that extracts, each in one step, the viewer can be made right from
what is kept. One thing is excepted, because the code does it: a copy that
overlaps its own source, as the drag of a window makes, takes its destination out
of the changed region (`UpdateKeeper.cpp:117`) before it looks for changes in its
source, so a waiting change in the overlap is not carried along. `DroppedBy` is
exactly that, and the history variable `forgotten` follows these tiles until they
are changed again. `ScreenUpdates` uses the same operators with all the steps
taken apart.

### ScreenUpdates, OwedUpdates

The whole path. Per thread: detectors (`Poll`, `DetectCursor`, `OnUpdate`), the
desktop thread (`WakeDesktop`, `AskClient`, `IsReadyToSend`,
`ExtractFromHandler`, `FilterUpdates`, `ApplyNewScreenProperties` or
`NewScreenFails`, `DecideToSend`, `GiveUpdates`, `NotifySender`, `ClearFullReqRegion`), each
client's reading thread (`ReadUpdateRequest`, `CheckForKeptUpdates`,
`OnUpdateRequest`) and sender (`WakeSender`, `ExtractReqRegions`,
`ExtractUpdates`, `UpdateFrameBuffer`, `PrepareNewScreen` or `PrepareUpdate`,
`Flush` or `RestoreRequests`, `FinishSending`, `SenderFails`). The cuts are where
the code leaves one mutex and enters another; what a thread does between two
mutexes on its own data is in one step. Where the code reads a shared field
without its mutex (`m_fullReqRegion` in `DesktopBaseImpl::sendUpdate`) the read is
in a step of its own.

Pixels are numbers, and every drawing uses a new one, so a tile that shows old
pixels is told from one that shows new ones. `Flush` applies the message to
`viewer` as a viewer does: blank for a new size, copies first, then pixels. The
environment is `Draw`, `MoveWindow` (windows may reach beyond the screen),
`ResizeScreen` and the viewer's requests. A new screen need not have another size:
only if it has does `ApplyNewScreenProperties` report it. When the driver cannot
apply it (`NewScreenFails`) the exception leaves the container as far as it has got
and `sendUpdate` goes on with it; that the desktop then ends is in
`RfbClientManager`. For viewers that take JPEG `PrepareUpdate` may send any tiles
once more, which stand for those it refreshes without loss; which ones those are
is abstracted. The filter that shares the windows of one application only, and
viewports, are left out.

`OwedUpdates` is the abstract specification of the path: a picture, what every
viewer shows, the tiles it is owed and its unanswered requests. The picture may
change, but what a viewer then shows wrongly is owed to it (`Redraw`); a request is
counted (`Ask`); an answer takes one request, touches tiles that are owed and no
others, and what it strikes off the account is shown as it is (`Answer`). The
mapping (`Account`) takes the backup buffer for the picture and, for what a viewer
is owed, the tiles on their way in any container, or all of them while a new
screen is coming (`Debt`). `KeepsAccount` implies `NoLostUpdate`, and says more: no step
but an answer strikes anything off, and no answer is given without a request or
paints over what was right.

### Authentication, GuessLimit

Per connection, `pc[c]` is where its thread is between `accept` and the client
list: `ReadVersion`, `OfferSecurity`/`ImposeSecurity`/`OfferTight` by protocol
version, `SelectSecurity` and `SelectTight`, `Respond`, `ReadPasswordFlags`,
`ComparePrimary`, `CompareReadOnly`, `AuthFailed` (`updateIpInBan`), `CheckAccess`
and `AnswerQuery` or `StayUnanswered`, `ReadClientInit`, `PardonAddress` and `Admit` (`onClientAuth`
under two mutexes). `CallViewer` is a connection the server makes itself. Each
setting is read where the code reads it, and `ChangeSettings` may change all of
them between any two steps; `seen[c]` remembers which ones were in force since
`c` connected, for the properties only. The question to the user is put with the
default that is set when the rule is read (`Query`); the user answers it, or nobody
does, because the time passes, the process does not start or ends with a code
that is no answer, and the default is taken. `SetClock` sets the clock forwards and
backwards, as local time does.

A password is a value and the comparison of responses an equality; the
arithmetic of the challenge is left out. `getPeerHost` cannot fail, because
`SocketIPv4` keeps the address. `GuessLimit` is the abstract specification of the
ban list: an address guesses within a limit or is forgotten. `Authentication`
implements it with `guesses` standing for the failures counted plus those about
to be (`KeepsGuessLimit`).

### FileTransferServer, FileTransfer

`FileTransferServer` is `FileTransferRequestHandler`: the two files it keeps
between requests (`uploadFile`, `downloadFile`), their streams, the files the
process has open, and one action per request, success and failure. It has a
specification for itself, `AnyClient`, in which the client sends what it likes;
its theorems are about that. `FileTransfer` EXTENDS it with the viewer: the
operation, its place `cur` in the tree `nodes`, what `goto` is to follow a
listing, the local stream, the user's answers, and shows that the composition
implements `AnyClient`.

A failure that nothing in the two file systems explains is taken from a budget
(`MaxFailures`): access withdrawn, disk full after none or some of a chunk was
written, name in use. The others follow from the files: an offset past the end of
a file is refused (`CanSeek`), and leaves the stream open on either side, as
`WinFile::seek` does; a rename may go to any place that can be made. Not modelled: MD5 and compression requests, compression itself,
impersonation, removal of local files, the case `parentPathIsRoot`, and replies
that arrive after an operation was killed twice. `StartDownloading` is one step: that
the reply to its first request may race with the rest of `start()`
(`DownloadOperation.cpp:79-83`) is a data race on a counter and left out. Two
constants say which orders of the user's acts are left out because the code is
known to go wrong there (section 3, known): with `CancelAfterSkip` FALSE nobody
cancels right after skipping; with `AfterBroken` FALSE nobody skips or cancels, and
no file fails to open while a stream is left, right after a transfer that broke
or a file that could not be opened or sought in.

### DesktopClient

The service's side of a desktop in another process. `Watch` is
`DesktopServerWatcher::execute`: start the process (`LaunchServer`), greet it, publish
the two new pipes with `ReplaceChannel`. A pass may fail when the process cannot be
started (`LaunchFails`) or is gone before it was greeted (`GreetingFails`): then the
catch deletes the new pipes (`CatchDeletes`). It may also fail before that, when there
is no shared memory (`SharedMemoryFails`). `Converse(d)` is a message over channel `d`, part by
part (`GetChannel`, `Read` or `Write`, `PipeFails`, `WaitForEvent`, `Reconnected`); what a conversation
consists of is `Script`. The dispatcher listens on "From" for ever. `Destroy` is
`freeResource`, `Close` one channel's `close`. `Serve(g)` is the process: it reads
a request's parts, answers, sends notices, ends at any moment.

A message is parts; pipes are never full in the direction of requests and hold
`Capacity` parts of notices. Handles are synchronous, so a `ReadFile` that waits
keeps `m_hPipeMutex`. The greeting is one step with publishing. Not modelled: what messages say, the constructor's own
conversation, a race on a pipe's own handle in `AnonymousPipe::read`, and what a
keeper gets twice or half when a process ends within `extract`. An answer
is one part of `Script`, where the code reads several numbers in a row.

Two things the code does are undefined behaviour, and the property about pipes
says so instead of hiding them. A channel that is replaced twice with nobody
asking for it deletes a pipe and keeps it (`overrun`): this direction is exempt from
then on. A pass of the watcher that gets no shared memory throws at
`DesktopServerWatcher.cpp:82`, before it has reset its four pointers (88-89), so the
catch (142-145) deletes the pipes of the pass before, which were given away by
`onReconnect` ("The channels can be used", line 141), or whatever the pointers hold
(`astray`). Anything may happen after that, so `Sane` lets the model take no further
step.

### ViewerCore

Four threads of a viewer and a server at the other end. `inputAt` is where
`RemoteViewerCore::execute` is, `sending[t]` where thread t is in
`sendFbUpdateRequest`, which the input thread and the owner both call;
`requesterAt` and `notifierAt` are the two helpers' loops. The cuts are the
mutexes: `m_requestUpdateLock` (`TakeRequest`, `NeedRequest`), `m_pixelFormatLock`
and `m_fbLock` (`UpdatePixelFormat`, `CopyRectangle`, `ReportUpdate`),
`m_refreshingLock`, `m_freezeLock`, `m_updateLock` (`TakeNews`, `NotifyUpdate`).
The owner calls one function at a time (`MayCall`), and `Stop`, `TerminateThreads`,
`WaitTermination` are `stop()` and what follows. The server is external: it
reads, answers one update per request, may resize its screen, and may never
answer.

A picture is a size, a format and pixels that are "new", "old" or "black" by
comparison with the frame buffer; drawing makes what the window shows old.
Closing the connection drops what is under way. The handshake is one step;
`OnConnected` and `EnterWorkingPhase` are the two parts of what follows it.
The owner calls once the core is connected, as the viewer's window does, which is
shown by `onConnected`; `RemoteViewerCore.h:64-68` allows calls before, but a call
that sends would then find `m_output` null. Formats are of 8 and 32 bits, as the
windows set them, so the exception of `updatePixelFormat` is not met, and
`setProperties` fails only when `new[]` returns 0, which it does not in this build;
`forceFullUpdateRequests` and `deferUpdateRequests` are one step each. Not
modelled: cores started on a given socket or gates, the dispatcher, key, cut-text
and encoding messages, the bell, cursor shapes and the decoders' store (a map that the input
thread reads and the window's thread changes without a lock,
`DecoderStore.cpp:55`).

### Clipboard

On the server `watcher` is the thread of `WindowsClipboard` (`ReadClipboard`,
`OnClipboardUpdate`, `SendClipboard`), `reader[c]` a client's thread in
`ClipboardExchange::onRequest` and `setNewClipText`, `exchange[c]` the thread of
`ClipboardExchange::execute`, cut where it reads `m_hasNewClip` without the mutex.
In a viewer `input[c]` is the thread that receives a text and sets the clipboard,
`window[c]` the one that is told of its changes. Windows tells a watcher of every
change (`serverDraws`, `viewerDraws`), the ones it has made itself included; both
sides compare with the text they have set last. `End(c)` is the end of
`RfbClient::execute` with `~ClipboardExchange`, which joins its thread.

Users copy at either end (`Copy`); what is no text is the empty text for the
server and not read by a viewer. Another program may have a clipboard open
(`ClipboardIsBusy`): then the server reads an empty text, and a viewer nothing.
`calm` remembers whether everybody has copied in peace: each text once, when all
was at rest, with clipboards that open; `written`, `copied`, `lastCopy` and `calm`
are for the properties only. A text is a value: line ends and the conversion to
ANSI are left out, so the texts of the model are those they leave alone. Also
left out are hidden windows, the setting that disables the clipboard, clients
that come later, and a clipboard in another process: only there can setting it
throw (`UserInputClient`), which `setNewClipText` answers by disconnecting everybody.

### Operators that are mistakes

Each module defines, next to some actions, a variant with a plausible mistake
(comments start "A mistake:"). They are no part of the specifications: the
"mutants" of `PROJECT.json` put one in the place of the real definition and
expect the property to fail, which shows that the property depends on that code.

## 3. Runs

| Run | cfg | Checks | Bounds |
|---|---|---|---|
| `manager` | MCManager | `UsedModulesExist`, `HeldDesktopExists`, `DesktopHasClients`, `NothingOutlivesShutdown`; under fairness `LostClientIsFreed`, `ShutdownCompletes` | 2 connections, 1 wake of a desktop thread, shutdown at any time; 197,042 states |
| `manager_kill_all` | MCManagerKillAll | finds `KillAllZombiesReturns` violated | 2 connections |
| `update_keeper` | MCUpdateKeeper | `KeeperIsSound` | 3 tiles, 2 pixels, any region, any copy, overlapping its source or not, any sequence; 3,528 states |
| `updates_regions` | MCUpdatesRegions | implements `OwedUpdates` (`KeepsAccount`) | 2 tiles, a viewer that asks for one or both; one drawing or window movement, one grab that may fail, for a whole request; 1,529,806 states |
| `updates_events` | MCUpdatesEvents | `NoLostUpdate`, `UpdatesAreDemanded`, `RequestsAreFlagged` | 1 tile, up to 2 requests at a time of either kind, a resize and a grab or a new screen that fails, or a cursor move; a connection that breaks; 1,940,861 states |
| `updates_liveness` | MCUpdatesLiveness | `EventuallyShown` | 1 viewer, 1 tile, either kind of request, one drawing; 105,700 states |
| `updates_crop` | MCUpdatesCrop | finds `NoLostUpdate` violated | a viewer with CopyRect that asks for part of the screen |
| `file_transfer` | MCFileTransfer | `HandlesAreAccounted`, `RepliesMeetTheirOperation`, `ServerStreamsExist`, `NothingFreedIsUsed`, `NothingOverwrittenUnasked`, `NothingIsForgotten`; implements `AnyClient`; `BrokenUploadRestarts`; under fairness `OperationFinishes` | two operations of five kinds, a folder and a file on either side, a file that is longer on the other side, on either, one failure of any request, any answer; 114,381 states |
| `authentication` | MCAuthentication | `PasswordWasAsked`, `ReadOnlyPasswordOnlyViews`, `UserWasAsked`, `NeverSharedIsAlone`; implements `GuessLimit` (`KeepsGuessLimit`) | 2 connections from one address, made again and again, 3 settings that change once during a connection, a ban after one failure, a clock with 2 values; about 1.8 M states |
| `desktop_client` | MCDesktopClient | `ChannelsAreOwned`, `TalksAreWhole`, `WaitersAreWoken`; under fairness `DestructionCompletes` | 2 processes, 1 conversation beside the dispatcher's, launches that fail; 551,173 states |
| `viewer_core` | MCViewerCore | `OneRequestAtATime`, `FormatsAgree`, `BlackIsOwed`; under fairness `UpdatingGoesOn`, `PictureCatchesUp`, `StopCompletes` | 1 call of the owner, 1 resize, 2 sizes, 2 formats, the connection may break; 335,906 states |
| `clipboard` | MCClipboard | `SleepsOnlyWhenDone`, `NothingComesBack`, `ClipboardsAgree` | 1 viewer, 3 texts, 3 copies at either end, or 2 and a clipboard that is busy once; the connection may end; about 1.6 M states |

Why the bounds are enough for the interesting cases. Two connections let one
client's thread remove the other, a client arrive while the last one's desktop
is being deleted, and a zombie need the mutex that `killAllZombies` holds; more
connections are covered by the proofs, which hold for all of these invariants. One
wake is a whole walk (ask and send, or the clipboard's) against every other
step; walks exclude each other by the mutex. Two tiles tell a requested from an
unrequested tile and a copy's source from its destination; three tiles and all
copies at once are in `update_keeper`. The initial screen differs from every
viewer's, so there is an update on its way from the start, and the one drawing
comes in any of its phases. Two requests at a time are what a request overlapping
an update needs. `NotEverything` and
`FailsForWholeScreen` are explicit constraints that keep these instances small.
Two requests wait together only before anything has happened, or when both are
incremental and one thing has; a grab fails in `updates_regions` only for a viewer
that asks for all. Without these two limits the instances have 5,036,397 and
3,167,602 states and were explored too, without an error. Combinations of a
cursor move with a resize or a failure are *not* explored.
A grab that fails after a moved window was reproduced in the backup buffer
(`UpdateFilter.cpp:46`) is in `updates_regions`, where the viewer has no CopyRect.

Two file operations let the second one find what a failed first one has left
(open files, a stale listing, a kept pointer); one failure hits any request of
either. The folder that both sides have makes an upload merge, the files that
both have make it ask, and appending to the longer one seeks past the end. Two connections from one address are two guesses at once,
and the second one's success pardons the first; a client is reused, so that more
guesses follow. `OneChange` bounds the changes of the settings to one *during a
connection*; which of the many reads it falls between is open. The three settings
differ in what is asked for, in who is accepted without an answer, and in the rule
of the address. Two processes are
what a replacement needs; one conversation is in any of its parts when it
happens. One call of the viewer's owner comes at any moment, and a pause can be
ended in addition to it; two sizes and two formats tell the old buffer from the
new. With one viewer a text already passes all the threads there are; a third
copy finds a clipboard, and the text remembered from it, that have changed
hands in between.

Larger instances that take too long to be run every time were explored once,
without liveness, and found no error: two viewers in `ScreenUpdates` with a
single tile and drawing, one sender at work at a time (5.6 M states); three
processes in `DesktopClient` (5.0 M states); two calls of an owner that may also
stop early in `ViewerCore` (2.4 M states); two viewers that copy twice in peace in
`Clipboard`, both full (1.4 M states) or one that may only watch. The type
invariants of all components are proved, hold in general and are no part of the
runs. The inductive invariants of the file transfer (`PInv`, `Careful`, `Complete`)
were checked with TLC before they were proved, on the instance of `file_transfer`
and on two others with deeper trees (33,524 and 127,042 states), and found no error.
`GuessesAreBounded` is proved, and follows from `KeepsGuessLimit`, which a run
checks.

`CHECK_DEADLOCK FALSE` stands where the system may rest: a viewer need not ask,
the bounds on drawing and operations run out, a core or a desktop is destroyed
in the end, and `killAllZombies` may block the manager for good, which is a
finding and not part of what the `manager` run promises. Symmetry is used for
invariants and action properties only, never for liveness.

### Fairness

`RfbClientManager!FairSpec`: weak fairness of each client thread's progress, each
desktop thread, the ZombieKiller's thread and the main thread, as an operating
system schedules threads and as a mutex that stays free is entered. It includes
no promise that a client with an open socket leaves a phase (only `LeaveClosed`
is fair: a thread whose socket was closed meets the error), none that
connections arrive and none that the server is shut down.

`ScreenUpdates!FairSpec`: weak fairness of the Poller, of the detectors'
callback, of the desktop thread and of every sender and reading thread; and of
the viewer, which asks again when it has been answered, as viewers do
(`UpdatingGoesOn` is that promise, checked for the viewer's own code). `Poll` is
fair by itself: it is a loop with a sleep in a thread of its own.

`FileTransfer!FairSpec`: the two threads run and messages arrive; the user
answers a question that blocks the operation, but need not cancel nor start
anything.

`DesktopClient!FairSpec`: threads run; a process that runs reads its requests and
leaves when it is cut off (the GateKicker of the process and broken pipes see
to that); the minute of `ReconnectingChannel` passes. No process need be
startable or end, nobody need talk, the desktop need not be deleted.

`ViewerCore!FairSpec`: threads run, a connection attempt succeeds or fails, what
has been sent is read. The server need not answer, the handshake may last for
ever, nobody need stop the core.

### What the violations show

* `manager_kill_all`: `~TvnServer` calls `killAllZombies`, which holds `m_lockObj`
  while it waits for each zombie (`ZombieKiller.cpp:82`). A client is made a zombie
  by *another* client's `validateClientList` as soon as it is IN_READY_TO_REMOVE,
  so its thread may still be in its own and about to call `addZombie`: deadlock.
* `updates_crop`: `cropUpdContForReqRegions` computes what to put back before it
  degrades the copied region to a change; copied tiles outside the request are
  dropped (`UpdateSender.cpp:841`).

### Known, and no run kept for it

Disagreements met while modelling that other parts of the project say enough
about: a second desktop is created while the first is being deleted, against
the comment at `RfbClientManager.h:146`; `addCopyRect` forgets a change in the
overlap of a copy with its own source (`UpdateKeeper.cpp:117`, where line 119
announces the "intersection of changedRegion and srcCopyRect"), which `KeeperIsSound`
excepts tile by tile; a copy may move pixels that
are newer than their container (`UpdateSender.cpp:929`); a full request that comes
while the only asking client is busy waits for something else to happen
(`DesktopBaseImpl.cpp:243`); cancelling right after a file was skipped ends an
upload twice; an upload keeps the pointers to the file and the stream it has
deleted until the next file is opened, so that a skip, a cancel or a failed open
right after a broken transfer, or after a seek past the end, makes the next file
delete them again (`UploadOperation.cpp:287`, `:321`; the constants `CancelAfterSkip`
and `AfterBroken` switch them on); a channel replaced twice with nobody asking deletes
its pipe and keeps it (`ReconnectingChannel.cpp:70`), and a pass of the watcher
without shared memory deletes pipes that are in use (`DesktopServerWatcher.cpp:82`);
a rule that turns to "deny" after the connection was accepted is not obeyed by the
second check (`RfbClientManager.cpp:164`); every orderly end of a
desktop's dispatcher is reported as a failure (`DesktopSrvDispatcher.cpp:77`).
`RemoteViewerCore::stop` closes the stream only if `connect()` has made one
(`TcpConnection.cpp:133`): a core stopped before goes on connecting and then reads
the handshake from a connection nobody closes, so whoever destroys it waits as
long as the server is silent, against the comment at `RemoteViewerCore.h:243`
(with `StopsEarly` TRUE `StopCompletes` fails for this reason).

Of the clipboard: when users copy at both ends at once two texts can change
places for ever, each end taking the other's for its own user's (under weak
fairness of all threads `<>[]AtRest` fails with one viewer and two copies, and
`<>[](AtRest \/ ~calm)` holds; explored once, 73,105 states). The window that
opens this is `DesktopWindow.cpp:301`: the clipboard changes before
`m_strClipboard` does, so the comparison announced at line 287 may miss. A text
that was exchanged before is not sent again while it is the one remembered
(`m_receivedClip`, `m_storedClip`), and a text copied at one viewer does not reach
the others, because `m_receivedClip` is the desktop's and not the client's
(`DesktopBaseImpl.cpp:299`). These are why `calm` asks for new texts, and
`ClipboardsAgree` for the viewer where the text was copied.

## 4. Proofs

All theorems are about `Spec`, without fairness, and for every value of the
constants their modules' assumptions allow. Assumptions are about constants
only and are named (`ConstantsAssumption`, `ServerAssumption`,
`AuthenticationAssumption`, `BoundsAssumption`, ...). Those of `FileTransfer` say that
a folder lists finitely many files (`FinitelyMany`), that what the two sides start
with are trees (`TreesAssumption`), that a user who uploads, downloads or removes has
selected something (`OperationsAssumption`), and that "no file" is not a file
(`NullAssumption`).

### RfbClientManagerProofs

For any set of connections and any bound on wakes: `Invariance` (`Spec => []IInv`),
and from it `TypeCorrect`, `BarrierHolds` (`UsedModulesExist`),
`DesktopOutlivesItsClients` (`HeldDesktopExists`), `ListsAreClean`
(`ListedClientsExist`); then `DesktopIsServed` (`DesktopHasClients`) and
`ShutdownIsComplete` (`NothingOutlivesShutdown`).

None of these is inductive alone. `UsedModulesExist` needs to know that the mutex
is owned by the thread that is using the client (`LockMatchesLocation`), that a
client in use has not got past the mutex of its first notification
(`UsedClientIsHeldBack`), and what state goes with which place
(`StateMatchesLocation`). `HeldDesktopExists` needs that whoever holds a desktop and
is not ready to be removed is still on the authorized list (`DesktopLife`), so the
scan that dooms the desktop cannot find the list empty; and that in turn needs
the rule about who has left the lists (`RemovedClientsAreUnlisted`). `IInv` is
their conjunction. The proof has one step per action and one per conjunct the
action can disturb.

`DesktopHasClients` is inductive on top of `IInv`. `NothingOutlivesShutdown` needs an
account of everything that exists (`ShutdownInv`): a client is on a list or among
the zombies, a desktop is the manager's or being deleted by some client's thread,
modules belong to clients that may still be in use, and lists that the destructor
has found empty stay empty, because only a listed client can be authenticated.

### UpdateKeeperProofs

For any number of tiles, any set of pixels, and any changes and copies, those that
overlap their source included: `KeeperTypeCorrect` and `KeeperSound`
(`Spec => []KeeperIsSound`). The argument is a lemma about `AddCopyRect` in each of
its three cases, one about `AddChangedRegion`, the fact that the copy always lies
inside the border, and that a forgotten tile stays forgotten, or is moved by the
next copy, until it is changed. Nothing is assumed about copies: what an overlapping
one loses is in the statement.

### ScreenUpdatesProofs

For any screen, any number of viewers, and any drawings, movements, resizes,
requests and failures. `UpdateTypes` includes that no copy in any container reads
from outside the screen. It is not inductive alone: that an update has a request
to answer (`RequestInv`) bounds what the viewers are owed, and gives
`RegionsStayFlagged` (`RequestsAreFlagged`) and `UpdatesAnswerRequests`
(`UpdatesAreDemanded`).

`NothingIsLost` (`NoLostUpdate`) assumes `CopyRectClients = {}`: with a viewer that
knows CopyRect it is false, as `updates_crop` shows, and the theorem says that the
cropping of copies is the only place where an update is lost. It needs `ClientInv`:
what the sender's own buffer shows wrongly is owed to the client already or about
to be fetched (`BufferIsOwed`), since the buffer is refreshed at another time than
the containers are extracted; a container is held only between its extraction
and its end, and a new screen leaves everything in the keeper
(`ContainerIsRight`); and formats only grow (`FormatsGrow`), so that a change of the
screen's format makes every sender start anew. One lemma, `ClientStands`, covers
every step of the desktop: it may owe a client more, and whatever it changes in
the backup buffer it must owe.

`AccountIsKept` (`Spec => KeepsAccount`) is the refinement, under the same
assumption: with the lemmas of `NothingIsLost`, each of which also shows that its
step owes the viewer no less than before (`DebtStands`), every step is a `Redraw`
(`RedrawStep`) but a viewer's request, which is an `Ask`, and `Flush`, which is an
`Answer` (`AnswerStep`). That an answer has a request is `RequestInv`; that it paints
only what is owed, that the container is itself on the way.

### AuthenticationProofs

For any finite set of connections, any addresses, passwords and settings.
`GuessingIsBounded` rests on `BanInv`: an entry of the ban list has room for every
connection of its address that is between the question and the count
(`RoomForInFlight`), because each of them found the address not banned, and
nobody can be between them more than once; and the failures are those the list
has counted (`FailuresAreCounted`). `PromiseIsKept` is the refinement: with the
same invariant every step is one of `GuessLimit` or leaves the guesses alone. The
other theorems come from `AccessInv`, which follows a connection from place to
place: the settings in force are among those it has seen, the security type on
offer was one of them, who is past a comparison knows that password, and who
knows only the second one is marked, in the initializer first and in the client
later.

### FileTransferProofs

For any names, depth of folders, files on both sides and failures, and any answers
of the user.

*The server alone* (`AnyClient`, whatever its client sends): `HandlesSound` and
`UploadRestarts`. `HandlesAreAccounted` is inductive together with the types (`IInv`),
one lemma per request; that a file in use is no folder and stays where it is
comes from the files' own rules (`FilesInv`, `RenameFileInv`).

*The session.* The theorems about it assume `CancelAfterSkip = FALSE`, and
`NothingFreed` also `AfterBroken = FALSE`: an operation that is killed twice goes on in
a way its invariants exclude, and TLC then finds replies without an operation,
freed pointers and forgotten files (section 3, known). A seek that fails, on either
side, is no such case: it is part of what is proved. All rest on `PInv`, which gives the operation one of a
few phases: it is copying a file, waiting for the one reply to the one request its
place allows (`Asks`), counting the replies to its size requests, on its way out
of a cancel, finished and not yet told, or at rest. The invariant a run checks
("the reply meets its listener") says nothing about the requests that lead to
it, so it is not inductive; `PInv` says for every request and reply who made it
and from where, and that the walk's place exists in the tree that was listed
(`Placed`). From it come `SessionTypes`, `RepliesMeet` (`RepliesMeetTheirOperation`),
`StreamsExist` (`ServerStreamsExist`), `NothingFreed` (`NothingFreedIsUsed`), and
`ViewerIsAClient`, which is the refinement: every step of the session is one of
`AnyClient`, so the server's theorems hold of the pair.

`NothingOverwritten` (`NothingOverwrittenUnasked`) needs `Careful`: the names the
question depends on are those of the folder the walk is in (`Knows`), or that
folder could not be listed, whenever they are going to be looked at; and the
next file to be written is one the user was asked about, or was not there.

`NothingForgotten` (`NothingIsForgotten`) needs `Complete`. During an operation
every selected file is done or still ahead of the walk (`Walked`): below its place,
at a later name of its folder or of a folder above (`Ahead`), or right here; for a
removal also above, since a folder goes after its files. One lemma for each way
the walk moves says that what is ahead stays ahead or is where it has got to.
That what has been left behind is *copied* needs `Right`: what the requests and
replies under way say, where the two streams stand, and how much of the file is
at the other end go together, chunk by chunk. And both file systems stay trees,
so that a folder which is not listed, or is empty, holds nothing to be forgotten.

### DesktopClientProofs

For any number of processes, conversations and notices: `DesktopTypes`,
`WaitersWoken` (with `WakeInv`: whoever was given another channel than the one that
is there finds the event signalled, which also holds while he is still using
the old one), and `PipesAreOwned`. The last needs the order in which the desktop is
taken apart (`EndInv`: the watcher is joined before anything is closed, the
dispatcher before the GateKicker, and nobody talks when the channels are
deleted) and an account of the objects (`OwnInv`: newer pipes replace older ones,
what nobody owns was deleted once, what is in use is the present or the last
pipe), in the directions that are not `overrun` and while the watcher is not `astray`:
for those the statement is false. `TalksWhole`
(`TalksAreWhole`) is about three readers: the process, the thread that asked, and
the dispatcher. It needs where a conversation stands and over which pipe it goes
on (`FollowInv`), that the pipe in place is not deleted before it is closed
(`SoundInv`), what pipes nobody has used yet and processes that are gone hold
(`PipeInv`), and what the
requests and answers in a pipe are to the conversation (`SentInv`: half a request is
the present talk's, and its rest comes next; an answer is the present talk's, or
the pipe is never read again). For notices, `TellInv` says that beginnings and rests
alternate in the pipe and that the first one there is the one the dispatcher
expects.

### ViewerCoreProofs

For any formats, sizes and number of calls and resizes. `ViewerTypes` needs what
goes with a place: nothing is sent before the working phase, and in it there is
a buffer (`PhaseInv`). `OneRequest` (`OneRequestAtATime`) follows the request: every
step leaves it where it is, moves it to another of its places, or loses it with
the connection. That there is only one bounds what may be under way to the server
to a format and a request (`LineInv`), and with that `FitInv` is inductive: unless
it is told otherwise before the next request, the server encodes in the format of
the buffer, and the last size it has told is the buffer's (`PixelsFit`,
`FormatsAgree`). `BlackWillBePainted` (`BlackIsOwed`) rests on the same account.

### ClipboardProofs

For any number of clients, texts, copies and busy clipboards.
`NothingIsOverlooked` (`SleepsOnlyWhenDone`) needs `ExchangeInv`: whenever the text
that was given is not the one written last, the flag is set or the text is in
the thread's hands, and whenever the flag is set the event is signalled or the
thread is awake on its way to look; likewise for its end. `OwnTextStays`
(`NothingComesBack`) and `TextsArrive` (`ClipboardsAgree`) come from `CalmInv`: in
peace only one text is under way (`OnlyOneText`), no memory holds it before it has
got there (`TextIsNew`), and it is in exactly one part of its way, from the viewer
(`FromViewer`) or from the server (`FromServer`). When everything rests the way is at
its end (`RestIsQuiet`); a peaceful copy begins another one.

### Only model-checked

Liveness (`LostClientIsFreed`, `ShutdownCompletes`, `EventuallyShown`,
`OperationFinishes`, `DestructionCompletes`, `UpdatingGoesOn`, `PictureCatchesUp`,
`StopCompletes`) is outside the prover's reach, and so is everything about
fairness. Every invariant and every action property of a passing run, and the three
implementations of an abstract specification (`OwedUpdates`, `GuessLimit`,
`AnyClient`), are theorems; those that the code
satisfies only within limits say so, in their assumptions (`CopyRectClients = {}`,
`CancelAfterSkip = FALSE`, `AfterBroken = FALSE`) or in what they state (`forgotten`,
`overrun`, `astray`, `calm`).

## 5. Plan

Done: the manager, the keeper, the path of updates, the handshake, both ends of
file transfers, the desktop's client side, the viewer's core and the clipboard,
with their proofs. What is left, in this order:

1. The control server: authentication and dispatch of its commands.
2. The collector of viewers and cores that are started on a given socket.
