----------------------------- MODULE ViewerCore -----------------------------
(***************************************************************************)
(* The viewer's core: the input thread of RemoteViewerCore, which connects *)
(* and receives updates, the thread that owns the core (its window's), the *)
(* UpdateRequestSender's thread, which sends the requests that are         *)
(* deferred, and the FbUpdateNotifier's, which tells the adapter what has  *)
(* been drawn. At the other end of the connection is an RFB server that    *)
(* answers what it is asked, one update per request.                       *)
(*                                                                         *)
(* A picture is a size, a pixel format and pixels, which are new if the    *)
(* frame buffer holds them or a later message has not drawn over them. The *)
(* model begins after start().                                             *)
(***************************************************************************)
EXTENDS Naturals, Sequences

CONSTANTS
  Formats,     \* the pixel formats, by their bits per pixel
  Sizes,       \* the sizes of a screen
  ServerFormat, FirstSize,   \* of the server's screen to begin with
  ViewerFormat,              \* the format the viewer is set to before start()
  MaxCalls,    \* how often the core's owner calls one of its functions
  MaxResizes,  \* how often the server's screen changes its size
  StopsEarly   \* does the owner stop a core that has not connected yet?

ASSUME BoundsAssumption ==
  /\ MaxCalls \in Nat /\ MaxResizes \in Nat /\ StopsEarly \in BOOLEAN
  /\ Formats \subseteq Nat \ {0} /\ Sizes \subseteq Nat \ {0}
  /\ {ServerFormat, ViewerFormat} \subseteq Formats /\ FirstSize \in Sizes

NoFormat == 0
NoSize == 0                             \* of no picture, or no area to report
NoPicture == [size |-> NoSize, format |-> NoFormat, pixels |-> "black"]
Pictures ==                             \* black is what setColor(0, 0, 0) leaves
  [size : Sizes, format : Formats, pixels : {"black", "old", "new"}]

Senders == {"owner", "input"}           \* who calls sendFbUpdateRequest
Quiet == [at |-> "idle", full |-> FALSE, now |-> FALSE]

SetFormat(f) == [kind |-> "format", format |-> f]
Request(full) == [kind |-> "request", full |-> full]
NoUpdate == [kind |-> "none"]
Resize(s) == [kind |-> "size", size |-> s]
Pixels(s, f, whole) ==
  [kind |-> "pixels", size |-> s, format |-> f, whole |-> whole]

VARIABLES
  inputAt,              \* where RemoteViewerCore::execute is
  update,               \* the update it is receiving
  ownerAt,              \* where the owner is between start() and the end
  calls,                \* how often it has called a function
  wasConnected,         \* m_wasConnected; the window is shown
  isNeedRequestUpdate,  \* m_isNeedRequestUpdate
  isFreeze,             \* m_isFreeze
  isRefreshing,         \* m_isRefreshing
  newFormat,            \* m_viewerPixelFormat while m_isNewPixelFormat is set
  forceFull,            \* m_forceFullUpdate, and not m_isIncrimental
  isDeferred,           \* UpdateRequestSender::m_timeOut is positive
  sending,              \* per sender: where it is in sendFbUpdateRequest
  frameBuffer,          \* m_frameBuffer (m_rectangleFb has its properties)
  requesterAt,          \* where UpdateRequestSender::execute is
  wasUpdateReceived,    \* UpdateRequestSender::m_wasUpdateRecieved
  notifierAt,           \* where FbUpdateNotifier::execute is
  news,                 \* its m_isNewSize, m_isCursorChange and m_update
  taken,                \* what its thread has taken of them
  event,                \* m_eventUpdate is signalled
  pointer,              \* CursorPainter::m_pointerPosition
  shown,                \* the adapter's copy of the frame buffer
  shownPointer,         \* where the adapter sees the cursor
  connection,           \* "none", "open" or "closed"
  toServer, toViewer,   \* messages under way
  server                \* the server: its screen and what it was asked

ownerVars    == <<ownerAt, calls>>
settingVars  == <<isFreeze, newFormat, forceFull, isDeferred>>
requestVars  == <<isNeedRequestUpdate, sending>>
bufferVars   == <<frameBuffer, isRefreshing>>
deferredVars == <<requesterAt, wasUpdateReceived>>
noticeVars   == <<news, event>>
adapterVars  == <<notifierAt, taken, shown, shownPointer>>
netVars      == <<connection, toServer, toViewer, server>>
vars == <<inputAt, update, wasConnected, ownerVars, settingVars, requestVars,
          bufferVars, deferredVars, noticeVars, adapterVars, pointer, netVars>>

NoNews == [size |-> FALSE, cursor |-> FALSE, area |-> NoSize]
IsNews(n) == n.size \/ n.cursor \/ n.area # NoSize

Init ==
  /\ inputAt = "connect" /\ update = NoUpdate
  /\ ownerAt = "running" /\ calls = 0 /\ wasConnected = FALSE
  /\ isNeedRequestUpdate = TRUE /\ isFreeze = FALSE /\ isRefreshing = FALSE
  /\ newFormat = ViewerFormat
  /\ forceFull = FALSE /\ isDeferred = FALSE
  /\ sending = [t \in Senders |-> Quiet]
  /\ frameBuffer = NoPicture
  /\ requesterAt = "unstarted" /\ wasUpdateReceived = FALSE
  /\ notifierAt = "take" /\ news = NoNews /\ taken = NoNews /\ event = TRUE
  /\ pointer = 0 /\ shown = NoPicture /\ shownPointer = 0
  /\ connection = "none" /\ toServer = <<>> /\ toViewer = <<>>
  /\ server = [size |-> FirstSize, told |-> FirstSize, format |-> ServerFormat,
               asked |-> "nothing", resizes |-> 0]

\* stop() tells the requester first, the other two threads last.
RequesterTerminating == ownerAt # "running"
Terminating == ownerAt \in {"waiting", "destroyed"}

-----------------------------------------------------------------------------
(* Shared pieces *)

\* Nothing is read from a closed connection, and nothing answered.
CloseConnection ==
  /\ connection' = "closed"
  /\ toServer' = <<>> /\ toViewer' = <<>>
  /\ server' = [server EXCEPT !.asked = "nothing"]

\* onPropertiesFb: what was drawn in the old frame buffer is forgotten.
PropertiesChanged(n) == [n EXCEPT !.size = TRUE, !.area = NoSize]

\* A mistake: nobody asks for the pixels of the new buffer.
SetFbPropertiesOnly(s, f) ==
  /\ frameBuffer' = [size |-> s, format |-> f, pixels |-> "black"]
  /\ UNCHANGED isRefreshing
  /\ news' = PropertiesChanged(news)
  /\ event' = TRUE

\* setFbProperties, under m_fbLock: the buffers are new and black, a refresh
\* is asked for, and the notifier is told. That setProperties returns false takes
\* a new[] that returns 0 (FrameBuffer.cpp:542), which this build has not.
SetFbProperties(s, f) ==
  /\ frameBuffer' = [size |-> s, format |-> f, pixels |-> "black"]
  /\ isRefreshing' = TRUE
  /\ news' = PropertiesChanged(news)
  /\ event' = TRUE

\* Thread t has the buffers to itself and is at a step of its own.
StepSender(t, place) == sending' = [sending EXCEPT ![t].at = place]
FinishSending(t) == sending' = [sending EXCEPT ![t] = Quiet]
BeginSending(t, full) ==
  sending' = [sending EXCEPT ![t] = [at |-> "take", full |-> full, now |-> FALSE]]

\* A write throws once the connection is closed; that ends the input thread,
\* the owner catches it.
SendingFails(t) ==
  /\ connection = "closed"
  /\ sending[t].at \in {"tell", "request"}
  /\ sending[t].at = "request" => sending[t].now \/ ~isDeferred
  /\ FinishSending(t)
  /\ inputAt' = IF t = "input" THEN "ended" ELSE inputAt
  /\ UNCHANGED <<update, wasConnected, ownerVars, settingVars,
                 isNeedRequestUpdate, bufferVars, deferredVars, noticeVars,
                 adapterVars, pointer, netVars>>

-----------------------------------------------------------------------------
(* RemoteViewerCore::sendFbUpdateRequest, by either thread *)

\* A mistake: the flag stays set until the request has been answered.
TakeRequestAndKeep(t) ==
  /\ sending[t].at = "take"
  /\ UNCHANGED isNeedRequestUpdate
  /\ IF isNeedRequestUpdate THEN StepSender(t, "format") ELSE FinishSending(t)
  /\ UNCHANGED <<inputAt, update, wasConnected, ownerVars, settingVars,
                 bufferVars, deferredVars, noticeVars, adapterVars, pointer,
                 netVars>>

\* Only one of those who want to send a request finds the flag set.
TakeRequest(t) ==
  /\ sending[t].at = "take"
  /\ isNeedRequestUpdate' = FALSE
  /\ IF isNeedRequestUpdate THEN StepSender(t, "format") ELSE FinishSending(t)
  /\ UNCHANGED <<inputAt, update, wasConnected, ownerVars, settingVars,
                 bufferVars, deferredVars, noticeVars, adapterVars, pointer,
                 netVars>>

\* updatePixelFormat: the format that was set last, if it is another one. The
\* windows set formats of 8 and 32 bits only, none that it refuses.
UpdatePixelFormat(t) ==
  /\ sending[t].at = "format"
  /\ newFormat' = NoFormat
  /\ IF newFormat \in Formats \ {frameBuffer.format}
     THEN /\ SetFbProperties(frameBuffer.size, newFormat)
          /\ StepSender(t, "tell")
     ELSE /\ StepSender(t, "refresh")
          /\ UNCHANGED <<bufferVars, noticeVars>>
  /\ UNCHANGED <<inputAt, update, wasConnected, ownerVars, isFreeze, forceFull,
                 isDeferred, isNeedRequestUpdate, deferredVars, adapterVars,
                 pointer, netVars>>

\* ... and the server is told.
SendPixelFormat(t) ==
  /\ sending[t].at = "tell" /\ connection = "open"
  /\ toServer' = Append(toServer, SetFormat(frameBuffer.format))
  /\ sending' = [sending EXCEPT ![t].at = "refresh", ![t].now = TRUE]
  /\ UNCHANGED <<inputAt, update, wasConnected, ownerVars, settingVars,
                 isNeedRequestUpdate, bufferVars, deferredVars, noticeVars,
                 adapterVars, pointer, connection, toViewer, server>>

TakeRefresh(t) ==
  /\ sending[t].at = "refresh"
  /\ sending' = [sending EXCEPT ![t].at = "request",
                                ![t].now = @ \/ isRefreshing]
  /\ isRefreshing' = FALSE
  /\ UNCHANGED <<inputAt, update, wasConnected, ownerVars, settingVars,
                 isNeedRequestUpdate, frameBuffer, deferredVars, noticeVars,
                 adapterVars, pointer, netVars>>

\* A full request, or any if none are deferred, is sent at once.
SendRequest(t) ==
  /\ sending[t].at = "request" /\ connection = "open"
  /\ sending[t].now \/ ~isDeferred
  /\ toServer' = Append(toServer, Request(sending[t].full \/ sending[t].now))
  /\ FinishSending(t)
  /\ UNCHANGED <<inputAt, update, wasConnected, ownerVars, settingVars,
                 isNeedRequestUpdate, bufferVars, deferredVars, noticeVars,
                 adapterVars, pointer, connection, toViewer, server>>

\* setWasUpdated: the request is left to the UpdateRequestSender.
DeferRequest(t) ==
  /\ sending[t].at = "request" /\ ~sending[t].now /\ isDeferred
  /\ wasUpdateReceived' = TRUE
  /\ FinishSending(t)
  /\ UNCHANGED <<inputAt, update, wasConnected, ownerVars, settingVars,
                 isNeedRequestUpdate, bufferVars, requesterAt, noticeVars,
                 adapterVars, pointer, netVars>>

-----------------------------------------------------------------------------
(* The input thread *)

\* connectToHost has a stream; from now on close() closes it.
Connect ==
  /\ inputAt = "connect"
  /\ connection' = "open"
  /\ inputAt' = "established"
  /\ UNCHANGED <<update, wasConnected, ownerVars, settingVars, requestVars,
                 bufferVars, deferredVars, noticeVars, adapterVars, pointer,
                 toServer, toViewer, server>>

\* No server answers; the adapter hears of an error.
ConnectFails ==
  /\ inputAt = "connect"
  /\ inputAt' = "ended"
  /\ UNCHANGED <<update, wasConnected, ownerVars, settingVars, requestVars,
                 bufferVars, deferredVars, noticeVars, adapterVars, pointer,
                 netVars>>

\* setOutput starts the requester's thread.
Establish ==
  /\ inputAt = "established"
  /\ inputAt' = "handshake"
  /\ requesterAt' = "loop"
  /\ UNCHANGED <<update, wasConnected, ownerVars, settingVars, requestVars,
                 bufferVars, wasUpdateReceived, noticeVars, adapterVars,
                 pointer, netVars>>

\* handshake, authenticate, clientAndServerInit: the server has answered all
\* of it and told its screen's size and format.
ClientAndServerInit ==
  /\ inputAt = "handshake" /\ connection = "open"
  /\ SetFbProperties(server.size, server.format)
  /\ server' = [server EXCEPT !.told = server.size]
  /\ inputAt' = "initialized"
  /\ UNCHANGED <<update, wasConnected, ownerVars, settingVars, requestVars,
                 deferredVars, adapterVars, pointer, connection, toServer,
                 toViewer>>

\* The user or the server refuses, or the protocol is not understood: the
\* thread ends, and the connection stays as it is.
HandshakeFails ==
  /\ inputAt = "handshake"
  /\ inputAt' = "ended"
  /\ UNCHANGED <<update, wasConnected, ownerVars, settingVars, requestVars,
                 bufferVars, deferredVars, noticeVars, adapterVars, pointer,
                 netVars>>

\* onConnected shows the window and sets the same pixel format once more; from
\* now on the owner may call.
OnConnected ==
  /\ inputAt = "initialized"
  /\ wasConnected' = TRUE
  /\ inputAt' = "connected"
  /\ UNCHANGED <<update, ownerVars, settingVars, requestVars, bufferVars,
                 deferredVars, noticeVars, adapterVars, pointer, netVars>>

\* sendEncodings, then the first request is sent.
EnterWorkingPhase ==
  /\ inputAt = "connected" /\ connection = "open"
  /\ BeginSending("input", TRUE)
  /\ inputAt' = "loop"
  /\ UNCHANGED <<update, wasConnected, ownerVars, settingVars,
                 isNeedRequestUpdate, bufferVars, deferredVars, noticeVars,
                 adapterVars, pointer, netVars>>

\* while (!isTerminating()), then it waits for a message.
CheckTerminating ==
  /\ inputAt = "loop" /\ sending["input"].at = "idle"
  /\ inputAt' = IF Terminating THEN "ended" ELSE "read"
  /\ UNCHANGED <<update, wasConnected, ownerVars, settingVars, requestVars,
                 bufferVars, deferredVars, noticeVars, adapterVars, pointer,
                 netVars>>

\* The connection is closed, by either end: an IOException ends the thread.
ReadFails ==
  /\ inputAt \in {"read", "handshake", "connected"} /\ connection = "closed"
  /\ inputAt' = "ended"
  /\ UNCHANGED <<update, wasConnected, ownerVars, settingVars, requestVars,
                 bufferVars, deferredVars, noticeVars, adapterVars, pointer,
                 netVars>>

\* A rectangle is decoded into m_rectangleFb, or a new size is read.
ReceiveFbUpdate ==
  /\ inputAt = "read" /\ connection = "open" /\ toViewer # <<>>
  /\ update' = Head(toViewer)
  /\ toViewer' = Tail(toViewer)
  /\ inputAt' = "received"
  /\ UNCHANGED <<wasConnected, ownerVars, settingVars, requestVars, bufferVars,
                 deferredVars, noticeVars, adapterVars, pointer, connection,
                 toServer, server>>

\* DecoderOfRectangle::copy, under m_fbLock. Pixels of a part do not make a
\* black buffer good; what the adapter shows is old now.
CopyRectangle ==
  /\ inputAt = "received" /\ update.kind = "pixels"
  /\ LET paints == update.whole \/ frameBuffer.pixels # "black" IN
       /\ frameBuffer' = [frameBuffer EXCEPT !.pixels = IF paints THEN "new" ELSE @]
       /\ shown' = [shown EXCEPT !.pixels =
                       IF paints /\ @ = "new" THEN "old" ELSE @]
  /\ inputAt' = "copied"
  /\ UNCHANGED <<update, wasConnected, ownerVars, settingVars, requestVars,
                 isRefreshing, deferredVars, noticeVars, notifierAt, taken,
                 shownPointer, pointer, netVars>>

\* ... and the notifier is told: onUpdate.
NotifyUpdate ==
  /\ inputAt = "copied"
  /\ news' = [news EXCEPT !.area = frameBuffer.size]
  /\ event' = TRUE
  /\ update' = NoUpdate
  /\ inputAt' = "updated"
  /\ UNCHANGED <<wasConnected, ownerVars, settingVars, requestVars, bufferVars,
                 deferredVars, adapterVars, pointer, netVars>>

\* processPseudoEncoding of DESKTOP_SIZE, under m_fbLock.
ChangeDesktopSize ==
  /\ inputAt = "received" /\ update.kind = "size"
  /\ SetFbProperties(update.size, frameBuffer.format)
  /\ update' = NoUpdate
  /\ inputAt' = "updated"
  /\ UNCHANGED <<wasConnected, ownerVars, settingVars, requestVars,
                 deferredVars, adapterVars, pointer, netVars>>

\* A mistake: a paused viewer needs no request.
NeedRequestUnlessFrozen ==
  /\ inputAt = "updated"
  /\ isNeedRequestUpdate' = ~isFreeze
  /\ inputAt' = "answered"
  /\ UNCHANGED <<update, wasConnected, ownerVars, settingVars, sending,
                 bufferVars, deferredVars, noticeVars, adapterVars, pointer,
                 netVars>>

\* The end of receiveFbUpdate: first the flag ...
NeedRequest ==
  /\ inputAt = "updated"
  /\ isNeedRequestUpdate' = TRUE
  /\ inputAt' = "answered"
  /\ UNCHANGED <<update, wasConnected, ownerVars, settingVars, sending,
                 bufferVars, deferredVars, noticeVars, adapterVars, pointer,
                 netVars>>

\* ... then it looks whether the updates are paused.
RequestUnlessFrozen ==
  /\ inputAt = "answered"
  /\ inputAt' = "loop"
  /\ IF isFreeze THEN UNCHANGED sending ELSE BeginSending("input", forceFull)
  /\ UNCHANGED <<update, wasConnected, ownerVars, settingVars,
                 isNeedRequestUpdate, bufferVars, deferredVars, noticeVars,
                 adapterVars, pointer, netVars>>

-----------------------------------------------------------------------------
(* The owner: functions of the core its window calls *)

MayCall ==
  /\ ownerAt = "running" /\ wasConnected /\ calls < MaxCalls
  /\ sending["owner"].at = "idle"

\* stopUpdating(true)
Freeze ==
  /\ MayCall /\ ~isFreeze
  /\ isFreeze' = TRUE /\ calls' = calls + 1
  /\ UNCHANGED <<inputAt, update, wasConnected, ownerAt, newFormat, forceFull,
                 isDeferred, requestVars, bufferVars, deferredVars, noticeVars,
                 adapterVars, pointer, netVars>>

\* stopUpdating(false): the owner's thread sends the request that was not
\* sent, unless it is under way.
Unfreeze ==
  /\ ownerAt = "running" /\ isFreeze /\ sending["owner"].at = "idle"
  /\ isFreeze' = FALSE
  /\ BeginSending("owner", forceFull)
  /\ UNCHANGED <<inputAt, update, wasConnected, ownerVars, newFormat, forceFull,
                 isDeferred, isNeedRequestUpdate, bufferVars, deferredVars,
                 noticeVars, adapterVars, pointer, netVars>>

\* A mistake: the buffers are changed at once.
SetPixelFormatAtOnce(f) ==
  /\ MayCall
  /\ newFormat' = f /\ calls' = calls + 1
  /\ SetFbProperties(frameBuffer.size, f)
  /\ UNCHANGED <<inputAt, update, wasConnected, ownerAt, isFreeze, forceFull,
                 isDeferred, requestVars, deferredVars, adapterVars, pointer,
                 netVars>>

SetPixelFormat(f) ==
  /\ MayCall
  /\ newFormat' = f /\ calls' = calls + 1
  /\ UNCHANGED <<inputAt, update, wasConnected, ownerAt, isFreeze, forceFull,
                 isDeferred, requestVars, bufferVars, deferredVars, noticeVars,
                 adapterVars, pointer, netVars>>

RefreshFrameBuffer ==
  /\ MayCall
  /\ isRefreshing' = TRUE /\ calls' = calls + 1
  /\ UNCHANGED <<inputAt, update, wasConnected, ownerAt, settingVars,
                 requestVars, frameBuffer, deferredVars, noticeVars,
                 adapterVars, pointer, netVars>>

ForceFullUpdateRequests ==
  /\ MayCall
  /\ forceFull' = ~forceFull /\ calls' = calls + 1
  /\ UNCHANGED <<inputAt, update, wasConnected, ownerAt, isFreeze, newFormat,
                 isDeferred, requestVars, bufferVars, deferredVars, noticeVars,
                 adapterVars, pointer, netVars>>

DeferUpdateRequests ==
  /\ MayCall
  /\ isDeferred' = ~isDeferred /\ calls' = calls + 1
  /\ UNCHANGED <<inputAt, update, wasConnected, ownerAt, isFreeze, newFormat,
                 forceFull, requestVars, bufferVars, deferredVars, noticeVars,
                 adapterVars, pointer, netVars>>

\* sendPointerEvent, whose own message is not modelled: updatePointerPos.
MovePointer ==
  /\ MayCall
  /\ pointer' = pointer + 1 /\ calls' = calls + 1
  /\ news' = [news EXCEPT !.cursor = TRUE]
  /\ event' = TRUE
  /\ UNCHANGED <<inputAt, update, wasConnected, ownerAt, settingVars,
                 requestVars, bufferVars, deferredVars, adapterVars, netVars>>

\* stop(): the requester is told to end, and the stream is closed if there is
\* one. The window is closed by its user, or for an error it has heard of.
Stop ==
  /\ ownerAt = "running" /\ sending["owner"].at = "idle"
  /\ StopsEarly \/ wasConnected \/ inputAt = "ended"
  /\ ownerAt' = "stopping"
  /\ IF connection = "open" THEN CloseConnection ELSE UNCHANGED netVars
  /\ UNCHANGED <<inputAt, update, wasConnected, calls, settingVars,
                 requestVars, bufferVars, deferredVars, noticeVars,
                 adapterVars, pointer>>

\* A mistake: nobody wakes the notifier.
TerminateQuietly ==
  /\ ownerAt = "stopping"
  /\ ownerAt' = "waiting"
  /\ UNCHANGED <<inputAt, update, wasConnected, calls, settingVars,
                 requestVars, bufferVars, deferredVars, noticeVars, adapterVars,
                 pointer, netVars>>

\* ... then the notifier, which is woken, and the input thread are told.
TerminateThreads ==
  /\ ownerAt = "stopping"
  /\ ownerAt' = "waiting"
  /\ event' = TRUE
  /\ UNCHANGED <<inputAt, update, wasConnected, calls, settingVars,
                 requestVars, bufferVars, deferredVars, news, adapterVars,
                 pointer, netVars>>

\* waitTermination, and the destructors, which wait once more.
WaitTermination ==
  /\ ownerAt = "waiting"
  /\ notifierAt = "ended" /\ inputAt = "ended"
  /\ requesterAt \in {"unstarted", "ended"}
  /\ ownerAt' = "destroyed"
  /\ UNCHANGED <<inputAt, update, wasConnected, calls, settingVars,
                 requestVars, bufferVars, deferredVars, noticeVars,
                 adapterVars, pointer, netVars>>

-----------------------------------------------------------------------------
(* The UpdateRequestSender's thread, which looks every now and then *)

TakeDeferred ==
  /\ requesterAt = "loop" /\ ~RequesterTerminating /\ wasUpdateReceived
  /\ wasUpdateReceived' = FALSE
  /\ requesterAt' = "send"
  /\ UNCHANGED <<inputAt, update, wasConnected, ownerVars, settingVars,
                 requestVars, bufferVars, noticeVars, adapterVars, pointer,
                 netVars>>

SendDeferred ==
  /\ requesterAt = "send" /\ connection = "open"
  /\ toServer' = Append(toServer, Request(forceFull))
  /\ requesterAt' = "loop"
  /\ UNCHANGED <<inputAt, update, wasConnected, ownerVars, settingVars,
                 requestVars, bufferVars, wasUpdateReceived, noticeVars,
                 adapterVars, pointer, connection, toViewer, server>>

\* It was told to, or a write has thrown.
RequesterEnds ==
  /\ \/ requesterAt = "loop" /\ RequesterTerminating
     \/ requesterAt = "send" /\ connection = "closed"
  /\ requesterAt' = "ended"
  /\ UNCHANGED <<inputAt, update, wasConnected, ownerVars, settingVars,
                 requestVars, bufferVars, wasUpdateReceived, noticeVars,
                 adapterVars, pointer, netVars>>

-----------------------------------------------------------------------------
(* The FbUpdateNotifier's thread *)

\* What there is to tell is moved to local variables; a thread that finds
\* nothing goes to sleep.
TakeNews ==
  /\ notifierAt = "take" /\ ~Terminating
  /\ taken' = news /\ news' = NoNews
  /\ notifierAt' = IF news.size THEN "properties"
                   ELSE IF IsNews(news) THEN "report" ELSE "asleep"
  /\ UNCHANGED <<inputAt, update, wasConnected, ownerVars, settingVars,
                 requestVars, bufferVars, deferredVars, event, pointer, shown,
                 shownPointer, netVars>>

\* onFrameBufferPropChange and an update of everything, under m_fbLock; the
\* cursor is not painted in it.
ReportProperties ==
  /\ notifierAt = "properties"
  /\ shown' = frameBuffer /\ shownPointer' = 0
  /\ taken' = [taken EXCEPT !.size = FALSE]
  /\ notifierAt' = IF IsNews(taken') THEN "report" ELSE "take"
  /\ UNCHANGED <<inputAt, update, wasConnected, ownerVars, settingVars,
                 requestVars, bufferVars, deferredVars, noticeVars, pointer,
                 netVars>>

\* A mistake: the news are cleared when they have been reported.
ReportUpdateAndClear ==
  /\ notifierAt = "report"
  /\ shownPointer' = pointer
  /\ shown' = IF taken.area = frameBuffer.size THEN frameBuffer ELSE shown
  /\ taken' = NoNews /\ news' = NoNews
  /\ notifierAt' = "take"
  /\ UNCHANGED <<inputAt, update, wasConnected, ownerVars, settingVars,
                 requestVars, bufferVars, deferredVars, event, pointer, netVars>>

\* onFrameBufferUpdate with the cursor painted, under m_fbLock. The adapter's
\* copy takes no pixels of another format, and not all of another size.
ReportUpdate ==
  /\ notifierAt = "report"
  /\ shownPointer' = pointer
  /\ shown' = IF /\ taken.area = frameBuffer.size
                 /\ shown.size = frameBuffer.size
                 /\ shown.format = frameBuffer.format
              THEN frameBuffer ELSE shown
  /\ taken' = NoNews
  /\ notifierAt' = "take"
  /\ UNCHANGED <<inputAt, update, wasConnected, ownerVars, settingVars,
                 requestVars, bufferVars, deferredVars, noticeVars, pointer,
                 netVars>>

WakeNotifier ==
  /\ notifierAt = "asleep" /\ event
  /\ event' = FALSE
  /\ notifierAt' = "take"
  /\ UNCHANGED <<inputAt, update, wasConnected, ownerVars, settingVars,
                 requestVars, bufferVars, deferredVars, news, taken, pointer,
                 shown, shownPointer, netVars>>

NotifierEnds ==
  /\ notifierAt = "take" /\ Terminating
  /\ notifierAt' = "ended"
  /\ UNCHANGED <<inputAt, update, wasConnected, ownerVars, settingVars,
                 requestVars, bufferVars, deferredVars, noticeVars, taken,
                 pointer, shown, shownPointer, netVars>>

-----------------------------------------------------------------------------
(* The RFB server at the other end, and the connection *)

ServerReads ==
  /\ connection = "open" /\ toServer # <<>>
  /\ LET m == Head(toServer) IN
       server' = IF m.kind = "format"
                 THEN [server EXCEPT !.format = m.format]
                 ELSE [server EXCEPT !.asked = IF m.full THEN "all" ELSE "changes"]
  /\ toServer' = Tail(toServer)
  /\ UNCHANGED <<inputAt, update, wasConnected, ownerVars, settingVars,
                 requestVars, bufferVars, deferredVars, noticeVars,
                 adapterVars, pointer, connection, toViewer>>

\* A new size first, and nothing else with it; else pixels, when there are
\* new ones or all were asked for.
ServerAnswers ==
  /\ connection = "open" /\ server.asked # "nothing"
  /\ toViewer' = Append(toViewer,
                  IF server.size # server.told THEN Resize(server.size)
                  ELSE Pixels(server.size, server.format, server.asked = "all"))
  /\ server' = [server EXCEPT !.asked = "nothing", !.told = server.size]
  /\ UNCHANGED <<inputAt, update, wasConnected, ownerVars, settingVars,
                 requestVars, bufferVars, deferredVars, noticeVars,
                 adapterVars, pointer, connection, toServer>>

ScreenResizes ==
  /\ server.resizes < MaxResizes /\ connection = "open"
  /\ \E s \in Sizes \ {server.size} :
       server' = [server EXCEPT !.size = s, !.resizes = @ + 1]
  /\ UNCHANGED <<inputAt, update, wasConnected, ownerVars, settingVars,
                 requestVars, bufferVars, deferredVars, noticeVars,
                 adapterVars, pointer, connection, toServer, toViewer>>

BreakConnection ==
  /\ connection = "open"
  /\ CloseConnection
  /\ UNCHANGED <<inputAt, update, wasConnected, ownerVars, settingVars,
                 requestVars, bufferVars, deferredVars, noticeVars,
                 adapterVars, pointer>>

-----------------------------------------------------------------------------
SendingStep(t) ==
  \/ TakeRequest(t) \/ UpdatePixelFormat(t) \/ SendPixelFormat(t)
  \/ TakeRefresh(t) \/ SendRequest(t) \/ DeferRequest(t) \/ SendingFails(t)

ReceivingStep ==
  \/ Establish \/ OnConnected \/ EnterWorkingPhase \/ CheckTerminating
  \/ ReadFails
  \/ ReceiveFbUpdate \/ CopyRectangle \/ NotifyUpdate \/ ChangeDesktopSize
  \/ NeedRequest \/ RequestUnlessFrozen

OwnerCall ==
  \/ Freeze \/ Unfreeze \/ RefreshFrameBuffer \/ MovePointer
  \/ ForceFullUpdateRequests \/ DeferUpdateRequests
  \/ \E f \in Formats : SetPixelFormat(f)

RequesterStep == TakeDeferred \/ SendDeferred \/ RequesterEnds

NotifierStep ==
  \/ TakeNews \/ ReportProperties \/ ReportUpdate \/ WakeNotifier
  \/ NotifierEnds

Next ==
  \/ \E t \in Senders : SendingStep(t)
  \/ Connect \/ ConnectFails \/ ClientAndServerInit \/ HandshakeFails
  \/ ReceivingStep \/ RequesterStep \/ NotifierStep
  \/ OwnerCall \/ Stop \/ TerminateThreads \/ WaitTermination
  \/ ServerReads \/ ServerAnswers \/ ScreenResizes \/ BreakConnection

Spec == Init /\ [][Next]_vars

\* Threads run, a connection is made or refused, and what has been sent is
\* read. No server need answer and nobody need stop the core; a handshake
\* may last for ever.
FairSpec ==
  /\ Spec
  /\ \A t \in Senders : WF_vars(SendingStep(t))
  /\ WF_vars(Connect \/ ConnectFails) /\ WF_vars(ReceivingStep)
  /\ WF_vars(RequesterStep) /\ WF_vars(NotifierStep)
  /\ WF_vars(TerminateThreads) /\ WF_vars(WaitTermination)
  /\ WF_vars(ServerReads)

-----------------------------------------------------------------------------
InputPlaces == {"connect", "established", "handshake", "initialized",
                "connected", "loop",
                "read", "received", "copied", "updated", "answered", "ended"}
OwnerPlaces == {"running", "stopping", "waiting", "destroyed"}
SenderPlaces == {"idle", "take", "format", "tell", "refresh", "request"}
RequesterPlaces == {"unstarted", "loop", "send", "ended"}
NotifierPlaces == {"take", "properties", "report", "asleep", "ended"}

PicturesOrNone == Pictures \union {NoPicture}
News == [size : BOOLEAN, cursor : BOOLEAN, area : Sizes \union {NoSize}]
Requests == {Request(TRUE), Request(FALSE)}
Updates == {Resize(s) : s \in Sizes}
             \union {Pixels(s, f, whole) :
                       s \in Sizes, f \in Formats, whole \in BOOLEAN}

TypeOK ==
  /\ inputAt \in InputPlaces
  /\ update \in Updates \union {NoUpdate}
  /\ ownerAt \in OwnerPlaces /\ calls \in 0 .. MaxCalls
  /\ wasConnected \in BOOLEAN /\ isNeedRequestUpdate \in BOOLEAN
  /\ isFreeze \in BOOLEAN /\ isRefreshing \in BOOLEAN
  /\ newFormat \in Formats \union {NoFormat}
  /\ forceFull \in BOOLEAN /\ isDeferred \in BOOLEAN
  /\ sending \in [Senders -> [at : SenderPlaces, full : BOOLEAN,
                              now : BOOLEAN]]
  /\ frameBuffer \in PicturesOrNone
  /\ requesterAt \in RequesterPlaces /\ wasUpdateReceived \in BOOLEAN
  /\ notifierAt \in NotifierPlaces
  /\ news \in News /\ taken \in News /\ event \in BOOLEAN
  /\ pointer \in Nat /\ shownPointer \in Nat
  /\ shown \in PicturesOrNone
  /\ connection \in {"none", "open", "closed"}
  /\ toServer \in Seq(Requests \union {SetFormat(f) : f \in Formats})
  /\ toViewer \in Seq(Updates)
  /\ server \in [size : Sizes, told : Sizes, format : Formats,
                 asked : {"nothing", "changes", "all"},
                 resizes : 0 .. MaxResizes]

\* The places where the one request is that the viewer may have: still to be
\* sent, in the hands of a thread, deferred, on its way, with the server, or
\* answered by an update that has not been received to its end.
Places == {"flag", "owner", "input", "deferred", "requester", "toServer",
           "server", "toViewer", "received"}

IsAt(place) ==
  CASE place = "flag" -> isNeedRequestUpdate
    [] place \in Senders -> sending[place].at \notin {"idle", "take"}
    [] place = "deferred" -> wasUpdateReceived
    [] place = "requester" -> requesterAt = "send"
    [] place = "toServer" -> \E i \in DOMAIN toServer : toServer[i] \in Requests
    [] place = "server" -> server.asked # "nothing"
    [] place = "toViewer" -> toViewer # <<>>
    [] place = "received" -> inputAt \in {"received", "copied", "updated"}

\* "The next update request will not send until the response on the previous
\* request is recieved" (RemoteViewerCore.h:339), nor is it ever lost: of three
\* threads that may send one, exactly one has it, or it is under way.
OneRequestAtATime ==
  /\ \A p, q \in Places : IsAt(p) /\ IsAt(q) => p = q
  /\ \A i, j \in DOMAIN toServer :
       toServer[i] \in Requests /\ toServer[j] \in Requests => i = j
  /\ Len(toViewer) <= 1
  /\ connection # "closed" => \E p \in Places : IsAt(p)

UnderWay == {update} \union {toViewer[i] : i \in DOMAIN toViewer}

\* Pixels are decoded in the format they were encoded in and into a buffer of
\* the size they were drawn for, though the format is changed by any thread
\* that sends a request and the buffers are replaced without the input
\* thread's knowledge.
FormatsAgree ==
  \A m \in UnderWay :
    m.kind = "pixels" => /\ m.format = frameBuffer.format
                         /\ m.size = frameBuffer.size

\* What a new buffer needs will come with this message.
Repaints(m) == m.kind = "size" \/ (m.kind = "pixels" /\ m.whole)

\* A buffer is black as long as all of the screen has been asked for, or will
\* be with the next request: no resize, change of format or pause forgets it.
BlackIsOwed ==
  (connection = "open" /\ frameBuffer # NoPicture /\ frameBuffer.pixels = "black")
  => \/ isRefreshing
     \/ \E t \in Senders : sending[t].at = "request" /\ sending[t].now
     \/ \E i \in DOMAIN toServer : toServer[i] = Request(TRUE)
     \/ server.asked = "all"
     \/ \E i \in DOMAIN toViewer : Repaints(toViewer[i])
     \/ inputAt = "received" /\ Repaints(update)

Updating == wasConnected /\ ~isFreeze /\ connection = "open" /\ ownerAt = "running"

\* Unless it is paused, the viewer asks for the next update again and again,
\* whichever thread finds out first that it may: updates never stop for good.
UpdatingGoesOn ==
  Updating ~> (~Updating \/ server.asked # "nothing" \/ toViewer # <<>>)

\* What was drawn is shown in the end, with the cursor where it is: news that
\* come while the notifier is about to sleep, or is reporting, are not lost.
PictureCatchesUp ==
  []<>(\/ ownerAt # "running"
       \/ shown = frameBuffer
          /\ (shownPointer = pointer \/ frameBuffer.pixels = "black"))

\* A core that is told to stop is destroyed: no thread it waits for sleeps on,
\* reads on, or sends on.
StopCompletes == (ownerAt # "running") ~> (ownerAt = "destroyed")
=============================================================================
