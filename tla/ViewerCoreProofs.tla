-------------------------- MODULE ViewerCoreProofs --------------------------
(***************************************************************************)
(* Proofs about ViewerCore, for any number of calls, resizes, formats and  *)
(* sizes: there is one request, pixels fit the buffer they are decoded     *)
(* into, and a black buffer will be painted.                               *)
(***************************************************************************)
EXTENDS ViewerCore, SequenceTheorems, TLAPS

\* Nothing is sent before the working phase, in which there is a buffer ...
WorkingInv ==
  /\ inputAt \in {"connect", "established", "handshake", "initialized"}
       => ~wasConnected
  /\ ~wasConnected => /\ inputAt \in {"connect", "established", "handshake",
                                      "initialized", "ended"}
                      /\ isNeedRequestUpdate /\ ~isFreeze
                      /\ \A t \in Senders : sending[t].at = "idle"
  /\ inputAt # "loop" => sending["input"].at = "idle"

BufferInv ==
  /\ inputAt = "initialized" \/ wasConnected => frameBuffer # NoPicture
  /\ inputAt \in {"connect", "established", "handshake"} => frameBuffer = NoPicture

\* ... and a closed connection holds nothing.
ConnectionInv ==
  /\ inputAt = "connect" => connection = "none"
  /\ connection = "none" => inputAt \in {"connect", "ended"} /\ ~wasConnected
  /\ connection = "closed" =>
       toServer = <<>> /\ toViewer = <<>> /\ server.asked = "nothing"

PhaseInv == WorkingInv /\ BufferInv /\ ConnectionInv

\* An update is received while the input thread is at one of two places.
UpdateInv ==
  /\ inputAt = "received" => update \in Updates
  /\ inputAt = "copied" => update \in Updates /\ update.kind = "pixels"
  /\ inputAt \notin {"received", "copied"} => update = NoUpdate

\* What may be under way to the server: a format, a request, or the one and
\* then the other; a format alone is followed by a request at once.
FollowsAtOnce(t) == sending[t].at \in {"refresh", "request"} /\ sending[t].now

LineInv ==
  \/ toServer = <<>>
  \/ /\ toServer = <<SetFormat(frameBuffer.format)>>
     /\ \E t \in Senders : FollowsAtOnce(t)
  \/ \E m \in Requests : toServer \in {<<m>>, <<SetFormat(frameBuffer.format), m>>}

\* The server encodes for the buffers there are, unless it is told otherwise
\* first.
FormatIsSettled ==
  /\ \A t \in Senders : sending[t].at # "tell"
  /\ \A i \in DOMAIN toServer : toServer[i] \in Requests

ServerInv ==
  connection = "open" /\ frameBuffer # NoPicture =>
    /\ FormatIsSettled => server.format = frameBuffer.format
    /\ \A m \in UnderWay : m.kind = "size" => m.size = server.told
    /\ (\A m \in UnderWay : m.kind # "size") => server.told = frameBuffer.size

-----------------------------------------------------------------------------
\* The steps that only the notifier, the adapter and the settings see, ...
QuietStep ==
  \/ TakeNews \/ ReportProperties \/ ReportUpdate \/ WakeNotifier \/ NotifierEnds
  \/ MovePointer \/ ForceFullUpdateRequests \/ DeferUpdateRequests
  \/ (\E f \in Formats : SetPixelFormat(f))
  \/ TerminateThreads \/ WaitTermination

\* ... and what they all leave alone.
core == <<inputAt, update, wasConnected, isNeedRequestUpdate, sending, isFreeze,
          isRefreshing, frameBuffer, requesterAt, wasUpdateReceived,
          connection, toServer, toViewer, server>>

LEMMA QuietStepsAreQuiet == QuietStep => UNCHANGED core
BY DEF QuietStep, core, TakeNews, ReportProperties, ReportUpdate, WakeNotifier,
   NotifierEnds, MovePointer, ForceFullUpdateRequests, DeferUpdateRequests,
   SetPixelFormat, TerminateThreads, WaitTermination, ownerVars, settingVars,
   requestVars, bufferVars, deferredVars, noticeVars, adapterVars, netVars

SenderStates == [at : SenderPlaces, full : BOOLEAN, now : BOOLEAN]

\* TypeOK in parts: places, flags, numbers, and records and sequences.
PlaceTypes ==
  /\ inputAt \in InputPlaces /\ ownerAt \in OwnerPlaces
  /\ requesterAt \in RequesterPlaces /\ notifierAt \in NotifierPlaces
  /\ connection \in {"none", "open", "closed"}

FlagTypes ==
  /\ wasConnected \in BOOLEAN /\ isNeedRequestUpdate \in BOOLEAN
  /\ isFreeze \in BOOLEAN /\ isRefreshing \in BOOLEAN
  /\ forceFull \in BOOLEAN /\ isDeferred \in BOOLEAN
  /\ wasUpdateReceived \in BOOLEAN /\ event \in BOOLEAN

NumberTypes ==
  /\ calls \in 0 .. MaxCalls /\ newFormat \in Formats \union {NoFormat}
  /\ pointer \in Nat /\ shownPointer \in Nat

Servers == [size : Sizes, told : Sizes, format : Formats,
            asked : {"nothing", "changes", "all"}, resizes : 0 .. MaxResizes]
ToServer == Requests \union {SetFormat(f) : f \in Formats}

DataTypes ==
  /\ update \in Updates \union {NoUpdate}
  /\ sending \in [Senders -> SenderStates]
  /\ frameBuffer \in PicturesOrNone /\ shown \in PicturesOrNone
  /\ news \in News /\ taken \in News
  /\ toServer \in Seq(ToServer) /\ toViewer \in Seq(Updates)
  /\ server \in Servers

Parts == PlaceTypes /\ FlagTypes /\ NumberTypes /\ DataTypes

LEMMA TypesInParts == TypeOK <=> Parts
BY DEF TypeOK, Parts, PlaceTypes, FlagTypes, NumberTypes, DataTypes, Servers,
   ToServer, SenderStates

LEMMA InitialTypes == ASSUME Init PROVE Parts
<1> USE DEF Init
<1>1. PlaceTypes
  BY DEF PlaceTypes, InputPlaces, OwnerPlaces, RequesterPlaces, NotifierPlaces
<1>2. FlagTypes
  BY DEF FlagTypes
<1>3. NumberTypes
  BY BoundsAssumption DEF NumberTypes
<1>4. sending \in [Senders -> SenderStates]
  BY DEF SenderStates, Quiet, SenderPlaces
<1>5. news \in News /\ taken \in News
  BY DEF News, NoNews
<1>6. server \in Servers
  BY BoundsAssumption DEF Servers
<1> QED
  BY <1>1, <1>2, <1>3, <1>4, <1>5, <1>6 DEF Parts, DataTypes, PicturesOrNone

\* What a step does to its thread's entry.
LEMMA SendingTyped ==
  ASSUME sending \in [Senders -> SenderStates], NEW t \in Senders,
         NEW place \in SenderPlaces, NEW b \in BOOLEAN
  PROVE  /\ [sending EXCEPT ![t].at = place] \in [Senders -> SenderStates]
         /\ [sending EXCEPT ![t].at = place, ![t].now = b]
               \in [Senders -> SenderStates]
         /\ [sending EXCEPT ![t] = Quiet] \in [Senders -> SenderStates]
         /\ [sending EXCEPT ![t] = [at |-> "take", full |-> b, now |-> FALSE]]
               \in [Senders -> SenderStates]
<1>1. sending[t] \in SenderStates
  OBVIOUS
<1>2. /\ [sending[t] EXCEPT !.at = place] \in SenderStates
      /\ [[sending[t] EXCEPT !.at = place] EXCEPT !.now = b] \in SenderStates
      /\ Quiet \in SenderStates
      /\ [at |-> "take", full |-> b, now |-> FALSE] \in SenderStates
  BY <1>1 DEF SenderStates, Quiet, SenderPlaces
<1> QED
  BY <1>2

LEMMA PlacesKept ==
  ASSUME PlaceTypes, Next
  PROVE  PlaceTypes'
<1> USE BoundsAssumption DEF PlaceTypes, InputPlaces, OwnerPlaces, RequesterPlaces,
      NotifierPlaces
<1>1. CASE \/ Connect \/ ConnectFails \/ Establish \/ HandshakeFails
           \/ EnterWorkingPhase \/ CheckTerminating \/ OnConnected \/ ReadFails
  BY <1>1 DEF Connect, ConnectFails, Establish, HandshakeFails, EnterWorkingPhase,
     CheckTerminating, OnConnected, ReadFails, BeginSending, ownerVars, settingVars,
     requestVars, bufferVars, deferredVars, noticeVars, adapterVars, netVars
<1>2. CASE \/ ReceiveFbUpdate \/ CopyRectangle \/ NotifyUpdate
           \/ NeedRequest \/ RequestUnlessFrozen
  BY <1>2 DEF ReceiveFbUpdate, CopyRectangle, NotifyUpdate, NeedRequest,
     RequestUnlessFrozen, BeginSending, ownerVars, settingVars, requestVars,
     bufferVars, deferredVars, noticeVars, adapterVars, netVars
<1>3. CASE \/ ClientAndServerInit \/ ChangeDesktopSize
  BY <1>3 DEF ClientAndServerInit, ChangeDesktopSize, SetFbProperties, ownerVars,
     settingVars, requestVars, bufferVars, deferredVars, noticeVars,
     adapterVars, netVars
<1>4. CASE \/ Freeze \/ Unfreeze \/ RefreshFrameBuffer \/ MovePointer
           \/ ForceFullUpdateRequests \/ DeferUpdateRequests
  BY <1>4 DEF Freeze, Unfreeze, RefreshFrameBuffer, MovePointer,
     ForceFullUpdateRequests, DeferUpdateRequests, MayCall, BeginSending,
     ownerVars, settingVars, requestVars, bufferVars, deferredVars, noticeVars,
     adapterVars, netVars
<1>5. CASE \/ Stop \/ TerminateThreads \/ WaitTermination
           \/ BreakConnection
  BY <1>5 DEF Stop, TerminateThreads, WaitTermination, BreakConnection, CloseConnection,
     ownerVars, settingVars, requestVars, bufferVars, deferredVars, noticeVars,
     adapterVars, netVars
<1>6. CASE \/ TakeDeferred \/ SendDeferred \/ RequesterEnds
  BY <1>6 DEF TakeDeferred, SendDeferred, RequesterEnds, ownerVars, settingVars,
     requestVars, bufferVars, deferredVars, noticeVars, adapterVars, netVars
<1>7. CASE \/ TakeNews \/ ReportProperties \/ ReportUpdate
           \/ WakeNotifier \/ NotifierEnds
  BY <1>7 DEF TakeNews, ReportProperties, ReportUpdate, WakeNotifier, NotifierEnds,
     ownerVars, settingVars, requestVars, bufferVars, deferredVars, noticeVars,
     adapterVars, netVars
<1>8. CASE ServerReads \/ ServerAnswers \/ ScreenResizes
  <2>1. UNCHANGED <<inputAt, wasConnected, ownerVars, settingVars, requestVars,
                    bufferVars, deferredVars, noticeVars, adapterVars, pointer,
                    connection>>
    BY <1>8 DEF ServerReads, ServerAnswers, ScreenResizes
  <2> QED
    BY <2>1 DEF ownerVars, settingVars, requestVars, bufferVars, deferredVars,
       noticeVars, adapterVars
<1>9. ASSUME NEW f \in Formats, SetPixelFormat(f) PROVE PlaceTypes'
  BY <1>9 DEF SetPixelFormat, MayCall, ownerVars, settingVars, requestVars, bufferVars,
     deferredVars, noticeVars, adapterVars, netVars
<1>10. ASSUME NEW t \in Senders,
              TakeRequest(t) \/ SendPixelFormat(t) \/ TakeRefresh(t)
                \/ SendRequest(t) \/ DeferRequest(t) \/ SendingFails(t)
       PROVE  PlaceTypes'
  BY <1>10 DEF TakeRequest, SendPixelFormat, TakeRefresh, SendRequest, DeferRequest,
     SendingFails, ownerVars, settingVars, requestVars, bufferVars,
     deferredVars, noticeVars, adapterVars, netVars
<1>11. ASSUME NEW t \in Senders, UpdatePixelFormat(t) PROVE PlaceTypes'
  BY <1>11 DEF UpdatePixelFormat, SetFbProperties, ownerVars, settingVars, requestVars,
     bufferVars, deferredVars, noticeVars, adapterVars, netVars
<1> QED
  BY <1>1, <1>2, <1>3, <1>4, <1>5, <1>6, <1>7, <1>8, <1>9, <1>10, <1>11
     DEF Next, SendingStep, ReceivingStep, RequesterStep, NotifierStep, OwnerCall

LEMMA FlagsKept ==
  ASSUME FlagTypes, Next
  PROVE  FlagTypes'
<1> USE BoundsAssumption DEF FlagTypes
<1>1. CASE \/ Connect \/ ConnectFails \/ Establish \/ HandshakeFails
           \/ EnterWorkingPhase \/ CheckTerminating \/ OnConnected \/ ReadFails
  BY <1>1 DEF Connect, ConnectFails, Establish, HandshakeFails, EnterWorkingPhase,
     CheckTerminating, OnConnected, ReadFails, BeginSending, ownerVars, settingVars,
     requestVars, bufferVars, deferredVars, noticeVars, adapterVars, netVars
<1>2. CASE \/ ReceiveFbUpdate \/ CopyRectangle \/ NotifyUpdate
           \/ NeedRequest \/ RequestUnlessFrozen
  BY <1>2 DEF ReceiveFbUpdate, CopyRectangle, NotifyUpdate, NeedRequest,
     RequestUnlessFrozen, BeginSending, ownerVars, settingVars, requestVars,
     bufferVars, deferredVars, noticeVars, adapterVars, netVars
<1>3. CASE \/ ClientAndServerInit \/ ChangeDesktopSize
  BY <1>3 DEF ClientAndServerInit, ChangeDesktopSize, SetFbProperties, ownerVars,
     settingVars, requestVars, bufferVars, deferredVars, noticeVars,
     adapterVars, netVars
<1>4. CASE \/ Freeze \/ Unfreeze \/ RefreshFrameBuffer \/ MovePointer
           \/ ForceFullUpdateRequests \/ DeferUpdateRequests
  BY <1>4 DEF Freeze, Unfreeze, RefreshFrameBuffer, MovePointer,
     ForceFullUpdateRequests, DeferUpdateRequests, MayCall, BeginSending,
     ownerVars, settingVars, requestVars, bufferVars, deferredVars, noticeVars,
     adapterVars, netVars
<1>5. CASE \/ Stop \/ TerminateThreads \/ WaitTermination
           \/ BreakConnection
  BY <1>5 DEF Stop, TerminateThreads, WaitTermination, BreakConnection, CloseConnection,
     ownerVars, settingVars, requestVars, bufferVars, deferredVars, noticeVars,
     adapterVars, netVars
<1>6. CASE \/ TakeDeferred \/ SendDeferred \/ RequesterEnds
  BY <1>6 DEF TakeDeferred, SendDeferred, RequesterEnds, ownerVars, settingVars,
     requestVars, bufferVars, deferredVars, noticeVars, adapterVars, netVars
<1>7. CASE \/ TakeNews \/ ReportProperties \/ ReportUpdate
           \/ WakeNotifier \/ NotifierEnds
  BY <1>7 DEF TakeNews, ReportProperties, ReportUpdate, WakeNotifier, NotifierEnds,
     ownerVars, settingVars, requestVars, bufferVars, deferredVars, noticeVars,
     adapterVars, netVars
<1>8. CASE ServerReads \/ ServerAnswers \/ ScreenResizes
  <2>1. UNCHANGED <<inputAt, wasConnected, ownerVars, settingVars, requestVars,
                    bufferVars, deferredVars, noticeVars, adapterVars, pointer,
                    connection>>
    BY <1>8 DEF ServerReads, ServerAnswers, ScreenResizes
  <2> QED
    BY <2>1 DEF ownerVars, settingVars, requestVars, bufferVars, deferredVars,
       noticeVars, adapterVars
<1>9. ASSUME NEW f \in Formats, SetPixelFormat(f) PROVE FlagTypes'
  BY <1>9 DEF SetPixelFormat, MayCall, ownerVars, settingVars, requestVars, bufferVars,
     deferredVars, noticeVars, adapterVars, netVars
<1>10. ASSUME NEW t \in Senders,
              TakeRequest(t) \/ SendPixelFormat(t) \/ TakeRefresh(t)
                \/ SendRequest(t) \/ DeferRequest(t) \/ SendingFails(t)
       PROVE  FlagTypes'
  BY <1>10 DEF TakeRequest, SendPixelFormat, TakeRefresh, SendRequest, DeferRequest,
     SendingFails, ownerVars, settingVars, requestVars, bufferVars,
     deferredVars, noticeVars, adapterVars, netVars
<1>11. ASSUME NEW t \in Senders, UpdatePixelFormat(t) PROVE FlagTypes'
  BY <1>11 DEF UpdatePixelFormat, SetFbProperties, ownerVars, settingVars, requestVars,
     bufferVars, deferredVars, noticeVars, adapterVars, netVars
<1> QED
  BY <1>1, <1>2, <1>3, <1>4, <1>5, <1>6, <1>7, <1>8, <1>9, <1>10, <1>11
     DEF Next, SendingStep, ReceivingStep, RequesterStep, NotifierStep, OwnerCall

LEMMA NumbersKept ==
  ASSUME NumberTypes, Next
  PROVE  NumberTypes'
<1> USE BoundsAssumption DEF NumberTypes
<1>1. CASE \/ Connect \/ ConnectFails \/ Establish \/ HandshakeFails
           \/ EnterWorkingPhase \/ CheckTerminating \/ OnConnected \/ ReadFails
  BY <1>1 DEF Connect, ConnectFails, Establish, HandshakeFails, EnterWorkingPhase,
     CheckTerminating, OnConnected, ReadFails, BeginSending, ownerVars, settingVars,
     requestVars, bufferVars, deferredVars, noticeVars, adapterVars, netVars
<1>2. CASE \/ ReceiveFbUpdate \/ CopyRectangle \/ NotifyUpdate
           \/ NeedRequest \/ RequestUnlessFrozen
  BY <1>2 DEF ReceiveFbUpdate, CopyRectangle, NotifyUpdate, NeedRequest,
     RequestUnlessFrozen, BeginSending, ownerVars, settingVars, requestVars,
     bufferVars, deferredVars, noticeVars, adapterVars, netVars
<1>3. CASE \/ ClientAndServerInit \/ ChangeDesktopSize
  BY <1>3 DEF ClientAndServerInit, ChangeDesktopSize, SetFbProperties, ownerVars,
     settingVars, requestVars, bufferVars, deferredVars, noticeVars,
     adapterVars, netVars
<1>4. CASE \/ Freeze \/ Unfreeze \/ RefreshFrameBuffer \/ MovePointer
           \/ ForceFullUpdateRequests \/ DeferUpdateRequests
  BY <1>4 DEF Freeze, Unfreeze, RefreshFrameBuffer, MovePointer,
     ForceFullUpdateRequests, DeferUpdateRequests, MayCall, BeginSending,
     ownerVars, settingVars, requestVars, bufferVars, deferredVars, noticeVars,
     adapterVars, netVars
<1>5. CASE \/ Stop \/ TerminateThreads \/ WaitTermination
           \/ BreakConnection
  BY <1>5 DEF Stop, TerminateThreads, WaitTermination, BreakConnection, CloseConnection,
     ownerVars, settingVars, requestVars, bufferVars, deferredVars, noticeVars,
     adapterVars, netVars
<1>6. CASE \/ TakeDeferred \/ SendDeferred \/ RequesterEnds
  BY <1>6 DEF TakeDeferred, SendDeferred, RequesterEnds, ownerVars, settingVars,
     requestVars, bufferVars, deferredVars, noticeVars, adapterVars, netVars
<1>7. CASE \/ TakeNews \/ ReportProperties \/ ReportUpdate
           \/ WakeNotifier \/ NotifierEnds
  BY <1>7 DEF TakeNews, ReportProperties, ReportUpdate, WakeNotifier, NotifierEnds,
     ownerVars, settingVars, requestVars, bufferVars, deferredVars, noticeVars,
     adapterVars, netVars
<1>8. CASE ServerReads \/ ServerAnswers \/ ScreenResizes
  <2>1. UNCHANGED <<inputAt, wasConnected, ownerVars, settingVars, requestVars,
                    bufferVars, deferredVars, noticeVars, adapterVars, pointer,
                    connection>>
    BY <1>8 DEF ServerReads, ServerAnswers, ScreenResizes
  <2> QED
    BY <2>1 DEF ownerVars, settingVars, requestVars, bufferVars, deferredVars,
       noticeVars, adapterVars
<1>9. ASSUME NEW f \in Formats, SetPixelFormat(f) PROVE NumberTypes'
  BY <1>9 DEF SetPixelFormat, MayCall, ownerVars, settingVars, requestVars, bufferVars,
     deferredVars, noticeVars, adapterVars, netVars
<1>10. ASSUME NEW t \in Senders,
              TakeRequest(t) \/ SendPixelFormat(t) \/ TakeRefresh(t)
                \/ SendRequest(t) \/ DeferRequest(t) \/ SendingFails(t)
       PROVE  NumberTypes'
  BY <1>10 DEF TakeRequest, SendPixelFormat, TakeRefresh, SendRequest, DeferRequest,
     SendingFails, ownerVars, settingVars, requestVars, bufferVars,
     deferredVars, noticeVars, adapterVars, netVars
<1>11. ASSUME NEW t \in Senders, UpdatePixelFormat(t) PROVE NumberTypes'
  BY <1>11 DEF UpdatePixelFormat, SetFbProperties, ownerVars, settingVars, requestVars,
     bufferVars, deferredVars, noticeVars, adapterVars, netVars
<1> QED
  BY <1>1, <1>2, <1>3, <1>4, <1>5, <1>6, <1>7, <1>8, <1>9, <1>10, <1>11
     DEF Next, SendingStep, ReceivingStep, RequesterStep, NotifierStep, OwnerCall

-----------------------------------------------------------------------------
LEMMA BuffersTyped ==
  ASSUME NEW s \in Sizes, NEW f \in Formats, news \in News, SetFbProperties(s, f)
  PROVE  /\ frameBuffer' \in PicturesOrNone /\ frameBuffer' # NoPicture
         /\ news' \in News
<1>1. frameBuffer' \in Pictures
  BY DEF SetFbProperties, Pictures
<1>3. NoPicture \notin Pictures
  BY BoundsAssumption DEF NoPicture, Pictures, NoSize
<1>2. news' \in News
  BY DEF SetFbProperties, PropertiesChanged, News
<1> QED
  BY <1>1, <1>2, <1>3 DEF PicturesOrNone

\* The records and sequences that nobody but the sending threads, the two
\* receiving ones and the server change.
LEMMA DataKept ==
  ASSUME Parts, PhaseInv, UpdateInv, Next
  PROVE  DataTypes'
<1> USE DEF DataTypes
<1>0. DataTypes /\ NumberTypes /\ FlagTypes
  BY DEF Parts
<1>1. CASE \/ Connect \/ ConnectFails \/ Establish \/ HandshakeFails
           \/ CheckTerminating \/ OnConnected \/ ReadFails \/ NeedRequest \/ Freeze
           \/ RefreshFrameBuffer \/ ForceFullUpdateRequests
           \/ DeferUpdateRequests \/ TerminateThreads
           \/ WaitTermination \/ TakeDeferred \/ RequesterEnds
           \/ WakeNotifier \/ NotifierEnds
  BY <1>0, <1>1 DEF Connect, ConnectFails, Establish, HandshakeFails, CheckTerminating,
     OnConnected, ReadFails, NeedRequest, Freeze, RefreshFrameBuffer,
     ForceFullUpdateRequests, DeferUpdateRequests, TerminateThreads,
     WaitTermination, TakeDeferred, RequesterEnds, WakeNotifier, NotifierEnds,
     ownerVars, settingVars, requestVars, bufferVars, deferredVars, noticeVars,
     adapterVars, netVars
<1>2. ASSUME NEW f \in Formats, SetPixelFormat(f) PROVE DataTypes'
  BY <1>0, <1>2 DEF SetPixelFormat, ownerVars, settingVars, requestVars, bufferVars,
     deferredVars, noticeVars, adapterVars, netVars
<1>3. CASE EnterWorkingPhase \/ RequestUnlessFrozen \/ Unfreeze
  <2>1. ASSUME NEW t \in Senders, NEW b \in BOOLEAN, BeginSending(t, b)
        PROVE  sending' \in [Senders -> SenderStates]
    BY <1>0, <2>1, SendingTyped DEF BeginSending, SenderPlaces
  <2>2. sending' \in [Senders -> SenderStates]
    BY <1>0, <1>3, <2>1 DEF EnterWorkingPhase, RequestUnlessFrozen, Unfreeze,
       FlagTypes, Senders
  <2> QED
    BY <1>0, <1>3, <2>2 DEF EnterWorkingPhase, RequestUnlessFrozen, Unfreeze, ownerVars,
       settingVars, requestVars, bufferVars, deferredVars, noticeVars,
       adapterVars, netVars
<1>4. CASE ClientAndServerInit
  <2>1. server.size \in Sizes /\ server.format \in Formats
    BY <1>0 DEF Servers
  <2>2. frameBuffer' \in PicturesOrNone /\ news' \in News
    BY <1>0, <1>4, <2>1, BuffersTyped DEF ClientAndServerInit
  <2>3. server' \in Servers
    BY <1>0, <1>4, <2>1 DEF ClientAndServerInit, Servers
  <2> QED
    BY <1>0, <1>4, <2>2, <2>3 DEF ClientAndServerInit, ownerVars, settingVars, requestVars,
       bufferVars,
       deferredVars, noticeVars, adapterVars, netVars
<1>5. CASE ReceiveFbUpdate
  <2>1. update' \in Updates /\ toViewer' \in Seq(Updates)
    BY <1>0, <1>5 DEF ReceiveFbUpdate
  <2> QED
    BY <1>0, <1>5, <2>1 DEF ReceiveFbUpdate, ownerVars, settingVars, requestVars, bufferVars,
       deferredVars, noticeVars, adapterVars, netVars
<1>6. CASE CopyRectangle
  <2>1. ASSUME NEW p \in PicturesOrNone, NEW c \in {"old", "new"}, p # NoPicture
        PROVE  [p EXCEPT !.pixels = c] \in PicturesOrNone
    BY <2>1 DEF PicturesOrNone, Pictures
  <2>2. frameBuffer # NoPicture
    BY <1>6 DEF CopyRectangle, PhaseInv, WorkingInv, BufferInv
  <2>3. frameBuffer' \in PicturesOrNone
    BY <1>0, <1>6, <2>1, <2>2 DEF CopyRectangle, PicturesOrNone, Pictures
  <2>4. shown' \in PicturesOrNone
    BY <1>0, <1>6, <2>1 DEF CopyRectangle, PicturesOrNone, Pictures, NoPicture
  <2> QED
    BY <1>0, <1>6, <2>3, <2>4 DEF CopyRectangle, ownerVars, settingVars, requestVars, bufferVars,
       deferredVars, noticeVars, adapterVars, netVars
<1>7. CASE NotifyUpdate
  <2>1. frameBuffer.size \in Sizes \union {NoSize}
    BY <1>0 DEF PicturesOrNone, Pictures, NoPicture
  <2>2. news' \in News
    BY <1>0, <1>7, <2>1 DEF NotifyUpdate, News
  <2> QED
    BY <1>0, <1>7, <2>2 DEF NotifyUpdate, ownerVars, settingVars, requestVars, bufferVars,
       deferredVars, noticeVars, adapterVars, netVars
<1>8. CASE ChangeDesktopSize
  <2>1. update.size \in Sizes
    BY <1>8 DEF ChangeDesktopSize, UpdateInv, Updates, Resize, Pixels
  <2>2. frameBuffer.format \in Formats
    BY <1>0, <1>8 DEF ChangeDesktopSize, PhaseInv, WorkingInv,
       BufferInv, PicturesOrNone, Pictures
  <2>3. frameBuffer' \in PicturesOrNone /\ news' \in News
    BY <1>0, <1>8, <2>1, <2>2, BuffersTyped DEF ChangeDesktopSize
  <2> QED
    BY <1>0, <1>8, <2>3 DEF ChangeDesktopSize, ownerVars, settingVars, requestVars, bufferVars,
       deferredVars, noticeVars, adapterVars, netVars
<1>9. CASE MovePointer \/ TakeNews
  <2>1. news' \in News /\ taken' \in News
    <3>1. NoNews \in News /\ [news EXCEPT !.cursor = TRUE] \in News
      BY <1>0 DEF News, NoNews
    <3> QED
      BY <1>0, <1>9, <3>1 DEF MovePointer, TakeNews, adapterVars
  <2> QED
    BY <1>0, <1>9, <2>1 DEF MovePointer, TakeNews, ownerVars, settingVars, requestVars, bufferVars,
       deferredVars, noticeVars, adapterVars, netVars
<1>10. CASE ReportProperties \/ ReportUpdate
  <2>1. taken' \in News
    <3>1. NoNews \in News /\ [taken EXCEPT !.size = FALSE] \in News
      BY <1>0 DEF News, NoNews
    <3> QED
      BY <1>10, <3>1 DEF ReportProperties, ReportUpdate
  <2>2. shown' \in PicturesOrNone
    BY <1>0, <1>10 DEF ReportProperties, ReportUpdate
  <2> QED
    BY <1>0, <1>10, <2>1, <2>2 DEF ReportProperties, ReportUpdate, ownerVars, settingVars,
       requestVars,
       bufferVars, deferredVars, noticeVars, adapterVars, netVars
<1>11. CASE Stop \/ BreakConnection
  <2>1. server' \in Servers /\ toServer' \in Seq(ToServer)
        /\ toViewer' \in Seq(Updates)
    <3>1. CASE CloseConnection
      BY <1>0, <3>1 DEF CloseConnection, Servers
    <3>2. CASE UNCHANGED netVars
      BY <1>0, <3>2 DEF netVars
    <3> QED
      BY <1>11, <3>1, <3>2 DEF Stop, BreakConnection
  <2> QED
    BY <1>0, <1>11, <2>1 DEF Stop, BreakConnection, settingVars, requestVars,
       bufferVars, deferredVars, noticeVars, adapterVars
<1>12. CASE SendDeferred
  <2>1. Request(forceFull) \in ToServer
    BY <1>0, Zenon DEF FlagTypes, Requests, ToServer
  <2> QED
    BY <1>0, <1>12, <2>1 DEF SendDeferred, ownerVars, settingVars, requestVars, bufferVars,
       deferredVars, noticeVars, adapterVars, netVars
<1>13. CASE ServerReads
  <2>1. toServer' \in Seq(ToServer) /\ Head(toServer) \in ToServer
    BY <1>0, <1>13 DEF ServerReads
  <2>2. server' \in Servers
    <3>1. CASE Head(toServer) \in Requests
      <4>1. Head(toServer).kind = "request"
        BY <3>1 DEF Requests, Request
      <4>2. server' = [server EXCEPT !.asked =
                         IF Head(toServer).full THEN "all" ELSE "changes"]
        BY <1>13, <4>1 DEF ServerReads
      <4>3. (IF Head(toServer).full THEN "all" ELSE "changes")
              \in {"nothing", "changes", "all"}
        OBVIOUS
      <4> QED
        BY <1>0, <4>2, <4>3 DEF Servers
    <3>2. ASSUME NEW f \in Formats, Head(toServer) = SetFormat(f)
          PROVE  server' \in Servers
      <4>1. server' = [server EXCEPT !.format = f]
        BY <1>13, <3>2 DEF ServerReads, SetFormat
      <4> QED
        BY <1>0, <4>1 DEF Servers
    <3> QED
      BY <2>1, <3>1, <3>2 DEF ToServer
  <2> QED
    BY <1>0, <1>13, <2>1, <2>2 DEF ServerReads, settingVars, requestVars,
       bufferVars, deferredVars, noticeVars, adapterVars
<1>14. CASE ServerAnswers
  <2>1. server.size \in Sizes /\ server.format \in Formats
    BY <1>0 DEF Servers
  <2>2. /\ Resize(server.size) \in Updates
        /\ Pixels(server.size, server.format, server.asked = "all") \in Updates
    <3>1. (server.asked = "all") \in BOOLEAN
      OBVIOUS
    <3>2. Resize(server.size) \in Updates
      BY <2>1 DEF Updates
    <3>3. ASSUME NEW b \in BOOLEAN
          PROVE  Pixels(server.size, server.format, b) \in Updates
      BY <2>1 DEF Updates
    <3> QED
      BY <3>1, <3>2, <3>3
  <2>3. toViewer' \in Seq(Updates)
    BY <1>0, <1>14, <2>2 DEF ServerAnswers
  <2>4. server' \in Servers
    BY <1>0, <1>14, <2>1 DEF ServerAnswers, Servers
  <2> QED
    BY <1>0, <1>14, <2>3, <2>4 DEF ServerAnswers, ownerVars, settingVars, requestVars, bufferVars,
       deferredVars, noticeVars, adapterVars, netVars
<1>15. CASE ScreenResizes
  <2>1. server' \in Servers
    <3>1. PICK s \in Sizes \ {server.size} :
            server' = [server EXCEPT !.size = s, !.resizes = @ + 1]
      BY <1>15 DEF ScreenResizes
    <3>2. server.resizes + 1 \in 0 .. MaxResizes
      BY <1>0, <1>15, BoundsAssumption DEF ScreenResizes, Servers
    <3> QED
      BY <1>0, <3>1, <3>2 DEF Servers
  <2> QED
    BY <1>0, <1>15, <2>1 DEF ScreenResizes, ownerVars, settingVars, requestVars, bufferVars,
       deferredVars, noticeVars, adapterVars, netVars
<1>16. ASSUME NEW t \in Senders,
              \/ TakeRequest(t) \/ DeferRequest(t) \/ TakeRefresh(t)
              \/ SendingFails(t)
       PROVE  DataTypes'
  <2>1. {"take", "format", "tell", "refresh", "request"} \subseteq SenderPlaces
    BY DEF SenderPlaces
  <2>2. (sending[t].now \/ isRefreshing) \in BOOLEAN
    OBVIOUS
  <2>3. sending' \in [Senders -> SenderStates]
    <3>1. CASE TakeRefresh(t)
      <4>1. sending' = [sending EXCEPT ![t].at = "request",
                                       ![t].now = sending[t].now \/ isRefreshing]
        BY <1>0, <3>1 DEF TakeRefresh, SenderStates
      <4> QED
        BY <1>0, <2>1, <2>2, <4>1, SendingTyped
    <3>2. CASE ~TakeRefresh(t)
      <4>1. sending' \in {[sending EXCEPT ![t].at = "format"],
                         [sending EXCEPT ![t] = Quiet]}
        BY <1>16, <3>2 DEF TakeRequest, DeferRequest, SendingFails, StepSender,
           FinishSending
      <4>2. /\ [sending EXCEPT ![t].at = "format"] \in [Senders -> SenderStates]
            /\ [sending EXCEPT ![t] = Quiet] \in [Senders -> SenderStates]
        BY <1>0, <2>1, SendingTyped
      <4> QED
        BY <4>1, <4>2
    <3> QED
      BY <3>1, <3>2
  <2> QED
    BY <1>0, <1>16, <2>3 DEF TakeRequest, DeferRequest, TakeRefresh, SendingFails, ownerVars,
       settingVars, requestVars, bufferVars, deferredVars, noticeVars,
       adapterVars, netVars
<1>17. ASSUME NEW t \in Senders, UpdatePixelFormat(t) PROVE DataTypes'
  <2>1. sending' \in [Senders -> SenderStates]
    <3>1. sending' \in {[sending EXCEPT ![t].at = "tell"],
                       [sending EXCEPT ![t].at = "refresh"]}
      BY <1>17 DEF UpdatePixelFormat, StepSender
    <3>2. "tell" \in SenderPlaces /\ "refresh" \in SenderPlaces
      BY DEF SenderPlaces
    <3>3. /\ [sending EXCEPT ![t].at = "tell"] \in [Senders -> SenderStates]
          /\ [sending EXCEPT ![t].at = "refresh"] \in [Senders -> SenderStates]
      BY <1>0, <3>2, SendingTyped
    <3> QED
      BY <3>1, <3>3
  <2>2. frameBuffer.size \in Sizes
    BY <1>0, <1>17 DEF UpdatePixelFormat, PhaseInv, WorkingInv,
       BufferInv, PicturesOrNone, Pictures
  <2>3. frameBuffer' \in PicturesOrNone /\ news' \in News
    BY <1>0, <1>17, <2>2, BuffersTyped DEF UpdatePixelFormat, bufferVars, noticeVars
  <2> QED
    BY <1>0, <1>17, <2>1, <2>3 DEF UpdatePixelFormat, ownerVars, settingVars, requestVars,
       bufferVars,
       deferredVars, noticeVars, adapterVars, netVars
<1>18. ASSUME NEW t \in Senders, SendPixelFormat(t) PROVE DataTypes'
  <2>1. sending' \in [Senders -> SenderStates]
    BY <1>0, <1>18, SendingTyped DEF SendPixelFormat, SenderPlaces
  <2>2. frameBuffer.format \in Formats
    BY <1>0, <1>18 DEF SendPixelFormat, PhaseInv, WorkingInv,
       BufferInv, PicturesOrNone, Pictures
  <2>3. SetFormat(frameBuffer.format) \in ToServer
    BY <2>2, Zenon DEF ToServer
  <2> QED
    BY <1>0, <1>18, <2>1, <2>3 DEF SendPixelFormat, ownerVars, settingVars, requestVars, bufferVars,
       deferredVars, noticeVars, adapterVars, netVars
<1>19. ASSUME NEW t \in Senders, SendRequest(t) PROVE DataTypes'
  <2>1. sending' \in [Senders -> SenderStates]
    BY <1>0, <1>19, SendingTyped DEF SendRequest, FinishSending, SenderPlaces
  <2>2. (sending[t].full \/ sending[t].now) \in BOOLEAN
    OBVIOUS
  <2>3. Request(sending[t].full \/ sending[t].now) \in ToServer
    BY <2>2, Zenon DEF Requests, ToServer
  <2> QED
    BY <1>0, <1>19, <2>1, <2>3 DEF SendRequest, ownerVars, settingVars, requestVars, bufferVars,
       deferredVars, noticeVars, adapterVars, netVars
<1> QED
  BY <1>1, <1>2, <1>3, <1>4, <1>5, <1>6, <1>7, <1>8, <1>9, <1>10, <1>11, <1>12,
     <1>13, <1>14, <1>15, <1>16, <1>17, <1>18, <1>19
     DEF Next, SendingStep, ReceivingStep, RequesterStep, NotifierStep, OwnerCall

LEMMA TypesKept ==
  ASSUME TypeOK, PhaseInv, UpdateInv, [Next]_vars
  PROVE  TypeOK'
<1>1. Parts
  BY TypesInParts
<1>2. CASE Next
  <2>1. Parts'
    BY <1>1, <1>2, PlacesKept, FlagsKept, NumbersKept, DataKept DEF Parts
  <2> QED
    BY <2>1 DEF TypeOK, Parts, PlaceTypes, FlagTypes, NumberTypes, DataTypes,
       Servers, ToServer, SenderStates
<1>3. CASE UNCHANGED vars
  BY <1>3 DEF TypeOK, vars, ownerVars, settingVars, requestVars, bufferVars, deferredVars,
     noticeVars,
     adapterVars, netVars
<1> QED
  BY <1>2, <1>3

-----------------------------------------------------------------------------
(* The phases of a connection, and the update that is being received *)

LEMMA WorkingKept ==
  ASSUME Parts, PhaseInv, Next
  PROVE  WorkingInv'
<1> USE DEF WorkingInv, PhaseInv
<1>0. sending \in [Senders -> SenderStates]
  BY DEF Parts, DataTypes
<1>1. CASE \/ Connect \/ ConnectFails \/ Establish \/ HandshakeFails
           \/ CheckTerminating \/ OnConnected \/ ReadFails
  BY <1>0, <1>1 DEF Connect, ConnectFails, Establish, HandshakeFails, CheckTerminating,
     OnConnected, ReadFails, ownerVars, settingVars, requestVars, bufferVars, deferredVars,
     noticeVars, adapterVars, netVars
<1>2. CASE \/ ClientAndServerInit \/ ChangeDesktopSize
  BY <1>0, <1>2 DEF ClientAndServerInit, ChangeDesktopSize, SetFbProperties, ownerVars,
     settingVars, requestVars, bufferVars, deferredVars, noticeVars,
     adapterVars, netVars
<1>3. CASE \/ EnterWorkingPhase \/ RequestUnlessFrozen \/ Unfreeze
  BY <1>0, <1>3 DEF EnterWorkingPhase, RequestUnlessFrozen, Unfreeze, BeginSending, Senders,
     ownerVars, settingVars, requestVars, bufferVars, deferredVars, noticeVars,
     adapterVars, netVars
<1>4. CASE \/ ReceiveFbUpdate \/ CopyRectangle \/ NotifyUpdate
           \/ NeedRequest
  BY <1>0, <1>4 DEF ReceiveFbUpdate, CopyRectangle, NotifyUpdate, NeedRequest, ownerVars,
     settingVars, requestVars, bufferVars, deferredVars, noticeVars,
     adapterVars, netVars
<1>5. CASE \/ Freeze \/ RefreshFrameBuffer \/ TakeDeferred
           \/ SendDeferred \/ RequesterEnds
  BY <1>0, <1>5 DEF Freeze, RefreshFrameBuffer, TakeDeferred, SendDeferred, RequesterEnds,
     MayCall, ownerVars, settingVars, requestVars, bufferVars, deferredVars,
     noticeVars, adapterVars, netVars
<1>6. CASE \/ Stop \/ BreakConnection
  BY <1>0, <1>6 DEF Stop, BreakConnection, CloseConnection, ownerVars, settingVars,
     requestVars, bufferVars, deferredVars, noticeVars, adapterVars, netVars
<1>7. CASE ServerReads \/ ServerAnswers \/ ScreenResizes
  <2>1. UNCHANGED <<inputAt, wasConnected, settingVars, requestVars>>
    BY <1>7 DEF ServerReads, ServerAnswers, ScreenResizes
  <2> QED
    BY <2>1 DEF settingVars, requestVars
<1>8. CASE QuietStep
  BY <1>8, QuietStepsAreQuiet DEF core
<1>9. ASSUME NEW t \in Senders, SendingStep(t) PROVE WorkingInv'
  <2>0. sending[t].at # "idle" =>
          wasConnected /\ (t = "input" => inputAt = "loop") /\ isFreeze' = isFreeze
    BY <1>0, <1>9 DEF SendingStep, TakeRequest, UpdatePixelFormat, SendPixelFormat,
       TakeRefresh, SendRequest, DeferRequest, SendingFails, settingVars
  <2>1. CASE TakeRequest(t)
    <3>1. /\ sending[t].at # "idle"
          /\ UNCHANGED <<inputAt, wasConnected>>
          /\ \A u \in Senders : u # t => sending'[u] = sending[u]
      BY <1>0, <2>1 DEF TakeRequest, StepSender, FinishSending
    <3> QED
      BY <2>0, <3>1 DEF Senders
  <2>2. CASE UpdatePixelFormat(t)
    <3>1. /\ sending[t].at # "idle"
          /\ UNCHANGED <<inputAt, wasConnected>>
          /\ \A u \in Senders : u # t => sending'[u] = sending[u]
      BY <1>0, <2>2 DEF UpdatePixelFormat, StepSender
    <3> QED
      BY <2>0, <3>1 DEF Senders
  <2>3. CASE SendPixelFormat(t)
    <3>1. /\ sending[t].at # "idle"
          /\ UNCHANGED <<inputAt, wasConnected>>
          /\ \A u \in Senders : u # t => sending'[u] = sending[u]
      BY <1>0, <2>3 DEF SendPixelFormat
    <3> QED
      BY <2>0, <3>1 DEF Senders
  <2>4. CASE TakeRefresh(t)
    <3>1. /\ sending[t].at # "idle"
          /\ UNCHANGED <<inputAt, wasConnected>>
          /\ \A u \in Senders : u # t => sending'[u] = sending[u]
      BY <1>0, <2>4 DEF TakeRefresh
    <3> QED
      BY <2>0, <3>1 DEF Senders
  <2>5. CASE SendRequest(t)
    BY <1>0, <2>5 DEF SendRequest, FinishSending, Quiet, ownerVars, settingVars, requestVars,
       bufferVars, deferredVars, noticeVars, adapterVars, netVars
  <2>6. CASE DeferRequest(t)
    BY <1>0, <2>6 DEF DeferRequest, FinishSending, Quiet, ownerVars, settingVars, requestVars,
       bufferVars, deferredVars, noticeVars, adapterVars, netVars
  <2>7. CASE SendingFails(t)
    BY <1>0, <2>7 DEF SendingFails, FinishSending, Quiet, ownerVars, settingVars, requestVars,
       bufferVars, deferredVars, noticeVars, adapterVars, netVars
  <2> QED
    BY <1>9, <2>1, <2>2, <2>3, <2>4, <2>5, <2>6, <2>7 DEF SendingStep
<1> QED
  BY <1>1, <1>2, <1>3, <1>4, <1>5, <1>6, <1>7, <1>8, <1>9 DEF Next, QuietStep,
     ReceivingStep, RequesterStep, NotifierStep, OwnerCall

LEMMA ConnectionKept ==
  ASSUME Parts, PhaseInv, Next
  PROVE  ConnectionInv'
<1> USE DEF ConnectionInv, WorkingInv, PhaseInv
<1>0. sending \in [Senders -> SenderStates]
  BY DEF Parts, DataTypes
<1>1. CASE \/ Connect \/ ConnectFails \/ Establish \/ HandshakeFails
           \/ CheckTerminating \/ OnConnected \/ ReadFails
  BY <1>0, <1>1 DEF Connect, ConnectFails, Establish, HandshakeFails, CheckTerminating,
     OnConnected, ReadFails, ownerVars, settingVars, requestVars, bufferVars, deferredVars,
     noticeVars, adapterVars, netVars
<1>2. CASE \/ ClientAndServerInit \/ ChangeDesktopSize
  BY <1>0, <1>2 DEF ClientAndServerInit, ChangeDesktopSize, SetFbProperties, ownerVars,
     settingVars, requestVars, bufferVars, deferredVars, noticeVars,
     adapterVars, netVars
<1>3. CASE \/ EnterWorkingPhase \/ RequestUnlessFrozen \/ Unfreeze
  BY <1>0, <1>3 DEF EnterWorkingPhase, RequestUnlessFrozen, Unfreeze, BeginSending, Senders,
     ownerVars, settingVars, requestVars, bufferVars, deferredVars, noticeVars,
     adapterVars, netVars
<1>4. CASE \/ ReceiveFbUpdate \/ CopyRectangle \/ NotifyUpdate
           \/ NeedRequest
  BY <1>0, <1>4 DEF ReceiveFbUpdate, CopyRectangle, NotifyUpdate, NeedRequest, ownerVars,
     settingVars, requestVars, bufferVars, deferredVars, noticeVars,
     adapterVars, netVars
<1>5. CASE \/ Freeze \/ RefreshFrameBuffer \/ TakeDeferred
           \/ SendDeferred \/ RequesterEnds
  BY <1>0, <1>5 DEF Freeze, RefreshFrameBuffer, TakeDeferred, SendDeferred, RequesterEnds,
     MayCall, ownerVars, settingVars, requestVars, bufferVars, deferredVars,
     noticeVars, adapterVars, netVars
<1>6. CASE Stop \/ BreakConnection
  <2>1. UNCHANGED <<inputAt, wasConnected>>
    BY <1>6 DEF Stop, BreakConnection
  <2>2. CASE UNCHANGED netVars
    BY <2>1, <2>2 DEF netVars
  <2>3. CASE CloseConnection /\ connection = "open"
    <3>1. server'.asked = "nothing"
      BY <2>3 DEF CloseConnection, Parts, DataTypes, Servers
    <3> QED
      BY <2>1, <2>3, <3>1 DEF CloseConnection
  <2> QED
    BY <1>6, <2>2, <2>3 DEF Stop, BreakConnection
<1>7. CASE \/ ServerReads \/ ServerAnswers \/ ScreenResizes
  BY <1>0, <1>7 DEF ServerReads, ServerAnswers, ScreenResizes, ownerVars, settingVars,
     requestVars, bufferVars, deferredVars, noticeVars, adapterVars, netVars
<1>8. CASE QuietStep
  BY <1>8, QuietStepsAreQuiet DEF core
<1>9. ASSUME NEW t \in Senders, SendingStep(t) PROVE ConnectionInv'
  <2>1. CASE TakeRequest(t)
    BY <1>0, <2>1 DEF TakeRequest, StepSender, FinishSending, Quiet, ownerVars, settingVars,
       requestVars, bufferVars, deferredVars, noticeVars, adapterVars, netVars
  <2>2. CASE UpdatePixelFormat(t)
    BY <1>0, <2>2 DEF UpdatePixelFormat, StepSender, SetFbProperties, Quiet, ownerVars,
       settingVars, requestVars, bufferVars, deferredVars, noticeVars,
       adapterVars, netVars
  <2>3. CASE SendPixelFormat(t)
    BY <1>0, <2>3 DEF SendPixelFormat, Quiet, ownerVars, settingVars, requestVars, bufferVars,
       deferredVars, noticeVars, adapterVars, netVars
  <2>4. CASE TakeRefresh(t)
    BY <1>0, <2>4 DEF TakeRefresh, Quiet, ownerVars, settingVars, requestVars, bufferVars,
       deferredVars, noticeVars, adapterVars, netVars
  <2>5. CASE SendRequest(t)
    BY <1>0, <2>5 DEF SendRequest, FinishSending, Quiet, ownerVars, settingVars, requestVars,
       bufferVars, deferredVars, noticeVars, adapterVars, netVars
  <2>6. CASE DeferRequest(t)
    BY <1>0, <2>6 DEF DeferRequest, FinishSending, Quiet, ownerVars, settingVars, requestVars,
       bufferVars, deferredVars, noticeVars, adapterVars, netVars
  <2>7. CASE SendingFails(t)
    BY <1>0, <2>7 DEF SendingFails, FinishSending, Quiet, ownerVars, settingVars, requestVars,
       bufferVars, deferredVars, noticeVars, adapterVars, netVars
  <2> QED
    BY <1>9, <2>1, <2>2, <2>3, <2>4, <2>5, <2>6, <2>7 DEF SendingStep
<1> QED
  BY <1>1, <1>2, <1>3, <1>4, <1>5, <1>6, <1>7, <1>8, <1>9 DEF Next, QuietStep,
     ReceivingStep, RequesterStep, NotifierStep, OwnerCall

LEMMA UpdateKept ==
  ASSUME Parts, PhaseInv, UpdateInv, Next
  PROVE  UpdateInv'
<1> USE DEF UpdateInv, WorkingInv, PhaseInv
<1>0. sending \in [Senders -> SenderStates]
  BY DEF Parts, DataTypes
<1>1. CASE \/ Connect \/ ConnectFails \/ Establish \/ HandshakeFails
           \/ CheckTerminating \/ OnConnected \/ ReadFails
  BY <1>0, <1>1 DEF Connect, ConnectFails, Establish, HandshakeFails, CheckTerminating,
     OnConnected, ReadFails, ownerVars, settingVars, requestVars, bufferVars, deferredVars,
     noticeVars, adapterVars, netVars
<1>2. CASE \/ ClientAndServerInit \/ ChangeDesktopSize
  BY <1>0, <1>2 DEF ClientAndServerInit, ChangeDesktopSize, SetFbProperties, ownerVars,
     settingVars, requestVars, bufferVars, deferredVars, noticeVars,
     adapterVars, netVars
<1>3. CASE \/ EnterWorkingPhase \/ RequestUnlessFrozen \/ Unfreeze
  BY <1>0, <1>3 DEF EnterWorkingPhase, RequestUnlessFrozen, Unfreeze, BeginSending, Senders,
     ownerVars, settingVars, requestVars, bufferVars, deferredVars, noticeVars,
     adapterVars, netVars
<1>4. CASE ReceiveFbUpdate \/ CopyRectangle \/ NotifyUpdate \/ NeedRequest
  <2>1. CASE ReceiveFbUpdate
    <3>1. update' \in Updates
      BY <2>1 DEF ReceiveFbUpdate, Parts, DataTypes
    <3> QED
      BY <2>1, <3>1 DEF ReceiveFbUpdate
  <2>2. CASE CopyRectangle
    BY <2>2 DEF CopyRectangle
  <2>3. CASE NotifyUpdate \/ NeedRequest
    BY <2>3 DEF NotifyUpdate, NeedRequest
  <2> QED
    BY <1>4, <2>1, <2>2, <2>3
<1>5. CASE \/ Freeze \/ RefreshFrameBuffer \/ TakeDeferred
           \/ SendDeferred \/ RequesterEnds
  BY <1>0, <1>5 DEF Freeze, RefreshFrameBuffer, TakeDeferred, SendDeferred, RequesterEnds,
     MayCall, ownerVars, settingVars, requestVars, bufferVars, deferredVars,
     noticeVars, adapterVars, netVars
<1>6. CASE \/ Stop \/ BreakConnection
  BY <1>0, <1>6 DEF Stop, BreakConnection, CloseConnection, ownerVars, settingVars,
     requestVars, bufferVars, deferredVars, noticeVars, adapterVars, netVars
<1>7. CASE \/ ServerReads \/ ServerAnswers \/ ScreenResizes
  BY <1>0, <1>7 DEF ServerReads, ServerAnswers, ScreenResizes, ownerVars, settingVars,
     requestVars, bufferVars, deferredVars, noticeVars, adapterVars, netVars
<1>8. CASE QuietStep
  BY <1>8, QuietStepsAreQuiet DEF core
<1>9. ASSUME NEW t \in Senders, SendingStep(t) PROVE UpdateInv'
  <2>1. CASE TakeRequest(t)
    BY <1>0, <2>1 DEF TakeRequest, StepSender, FinishSending, Quiet, ownerVars, settingVars,
       requestVars, bufferVars, deferredVars, noticeVars, adapterVars, netVars
  <2>2. CASE UpdatePixelFormat(t)
    BY <1>0, <2>2 DEF UpdatePixelFormat, StepSender, SetFbProperties, Quiet, ownerVars,
       settingVars, requestVars, bufferVars, deferredVars, noticeVars,
       adapterVars, netVars
  <2>3. CASE SendPixelFormat(t)
    BY <1>0, <2>3 DEF SendPixelFormat, Quiet, ownerVars, settingVars, requestVars, bufferVars,
       deferredVars, noticeVars, adapterVars, netVars
  <2>4. CASE TakeRefresh(t)
    BY <1>0, <2>4 DEF TakeRefresh, Quiet, ownerVars, settingVars, requestVars, bufferVars,
       deferredVars, noticeVars, adapterVars, netVars
  <2>5. CASE SendRequest(t)
    BY <1>0, <2>5 DEF SendRequest, FinishSending, Quiet, ownerVars, settingVars, requestVars,
       bufferVars, deferredVars, noticeVars, adapterVars, netVars
  <2>6. CASE DeferRequest(t)
    BY <1>0, <2>6 DEF DeferRequest, FinishSending, Quiet, ownerVars, settingVars, requestVars,
       bufferVars, deferredVars, noticeVars, adapterVars, netVars
  <2>7. CASE SendingFails(t)
    BY <1>0, <2>7 DEF SendingFails, FinishSending, Quiet, ownerVars, settingVars, requestVars,
       bufferVars, deferredVars, noticeVars, adapterVars, netVars
  <2> QED
    BY <1>9, <2>1, <2>2, <2>3, <2>4, <2>5, <2>6, <2>7 DEF SendingStep
<1> QED
  BY <1>1, <1>2, <1>3, <1>4, <1>5, <1>6, <1>7, <1>8, <1>9 DEF Next, QuietStep,
     ReceivingStep, RequesterStep, NotifierStep, OwnerCall

LEMMA BufferKept ==
  ASSUME Parts, PhaseInv, UpdateInv, Next
  PROVE  BufferInv'
<1> USE DEF BufferInv, PhaseInv, WorkingInv
<1>0. DataTypes
  BY DEF Parts
<1>1. CASE \/ Connect \/ ConnectFails \/ Establish \/ HandshakeFails
           \/ EnterWorkingPhase \/ CheckTerminating \/ OnConnected \/ ReadFails
  <2>1. UNCHANGED frameBuffer
    BY <1>1 DEF Connect, ConnectFails, Establish, HandshakeFails, EnterWorkingPhase,
       CheckTerminating, OnConnected, ReadFails, bufferVars
  <2>2. CASE Connect \/ Establish \/ OnConnected \/ EnterWorkingPhase
    <3>1. CASE Connect
      BY <2>1, <3>1 DEF Connect
    <3>2. CASE Establish
      BY <2>1, <3>2 DEF Establish
    <3>3. CASE EnterWorkingPhase
      BY <2>1, <3>3 DEF EnterWorkingPhase
    <3>4. CASE OnConnected
      BY <2>1, <3>4 DEF OnConnected
    <3> QED
      BY <2>2, <3>1, <3>2, <3>3, <3>4
  <2>3. CASE ConnectFails \/ HandshakeFails \/ CheckTerminating \/ ReadFails
    <3>1. wasConnected' = wasConnected /\ inputAt' \in {"ended", "read"}
      BY <2>3 DEF ConnectFails, HandshakeFails, CheckTerminating, ReadFails
    <3> QED
      BY <2>1, <3>1
  <2> QED
    BY <1>1, <2>2, <2>3
<1>2. CASE \/ ReceiveFbUpdate \/ NotifyUpdate \/ NeedRequest
           \/ RequestUnlessFrozen \/ Freeze \/ Unfreeze
           \/ RefreshFrameBuffer \/ TakeDeferred \/ SendDeferred
           \/ RequesterEnds
  BY <1>2 DEF ReceiveFbUpdate, NotifyUpdate, NeedRequest, RequestUnlessFrozen, Freeze,
     Unfreeze, RefreshFrameBuffer, TakeDeferred, SendDeferred, RequesterEnds,
     ownerVars, settingVars, requestVars, bufferVars, deferredVars, noticeVars,
     adapterVars, netVars
<1>3. CASE \/ Stop \/ BreakConnection \/ ServerReads \/ ServerAnswers
           \/ ScreenResizes
  <2>1. UNCHANGED <<inputAt, wasConnected, frameBuffer>>
    BY <1>3 DEF Stop, BreakConnection, ServerReads, ServerAnswers, ScreenResizes,
       bufferVars
  <2> QED
    BY <2>1
<1>4. CASE ClientAndServerInit
  <2>1. server.size \in Sizes /\ server.format \in Formats
    BY <1>0 DEF DataTypes, Servers
  <2>2. frameBuffer' # NoPicture
    BY <1>0, <1>4, <2>1, BuffersTyped DEF ClientAndServerInit, DataTypes
  <2> QED
    BY <1>4, <2>2 DEF ClientAndServerInit
<1>5. CASE CopyRectangle
  <2>1. frameBuffer'.format = frameBuffer.format
    BY <1>0, <1>5 DEF CopyRectangle, DataTypes, PicturesOrNone, Pictures, NoPicture
  <2>2. frameBuffer.format # NoFormat
    BY <1>0, <1>5, BoundsAssumption DEF CopyRectangle, DataTypes, PicturesOrNone,
       Pictures, NoFormat
  <2> QED
    BY <1>5, <2>1, <2>2 DEF CopyRectangle, NoPicture
<1>6. CASE ChangeDesktopSize
  <2>1. update.size \in Sizes
    BY <1>6 DEF ChangeDesktopSize, UpdateInv, Updates, Resize, Pixels
  <2>2. frameBuffer.format \in Formats
    BY <1>0, <1>6 DEF ChangeDesktopSize, DataTypes, PicturesOrNone, Pictures
  <2>3. frameBuffer' # NoPicture
    BY <1>0, <1>6, <2>1, <2>2, BuffersTyped DEF ChangeDesktopSize, DataTypes
  <2> QED
    BY <1>6, <2>3 DEF ChangeDesktopSize
<1>7. CASE QuietStep
  BY <1>7, QuietStepsAreQuiet DEF core
<1>8. ASSUME NEW t \in Senders, UpdatePixelFormat(t) PROVE BufferInv'
  <2>1. frameBuffer.size \in Sizes /\ wasConnected
    BY <1>0, <1>8 DEF UpdatePixelFormat, DataTypes, PicturesOrNone, Pictures
  <2>2. frameBuffer' # NoPicture
    BY <1>0, <1>8, <2>1, BuffersTyped DEF UpdatePixelFormat, DataTypes, bufferVars
  <2> QED
    BY <1>8, <2>1, <2>2 DEF UpdatePixelFormat
<1>9. ASSUME NEW t \in Senders, SendingStep(t), ~UpdatePixelFormat(t)
      PROVE  BufferInv'
  <2>1. UNCHANGED <<wasConnected, frameBuffer>> /\ inputAt' \in {inputAt, "ended"}
    BY <1>9 DEF SendingStep, TakeRequest, SendPixelFormat, TakeRefresh,
       SendRequest, DeferRequest, SendingFails, bufferVars
  <2> QED
    BY <2>1
<1> QED
  BY <1>1, <1>2, <1>3, <1>4, <1>5, <1>6, <1>7, <1>8, <1>9 DEF Next, QuietStep,
     ReceivingStep, RequesterStep, NotifierStep, OwnerCall


\* Types, phases and the update belong together: no record of the wrong shape
\* is made, since nothing is sent or received before there are buffers.
TypeInv == TypeOK /\ PhaseInv /\ UpdateInv

LEMMA TypesInitially == Init => TypeInv
<1>1. ASSUME Init PROVE WorkingInv
  <2>1. \A t \in Senders : sending[t].at = "idle"
    BY <1>1 DEF Init, Quiet
  <2> QED
    BY <1>1, <2>1 DEF Init, WorkingInv, Senders
<1>2. ASSUME Init PROVE BufferInv /\ ConnectionInv /\ UpdateInv
  BY <1>2 DEF Init, BufferInv, ConnectionInv, UpdateInv
<1> QED
  BY <1>1, <1>2, InitialTypes, TypesInParts DEF TypeInv, PhaseInv

LEMMA TypesStep == TypeInv /\ [Next]_vars => TypeInv'
<1> SUFFICES ASSUME TypeInv, [Next]_vars PROVE TypeInv'
  OBVIOUS
<1>1. TypeOK'
  BY TypesKept DEF TypeInv
<1>2. CASE Next
  <2>1. WorkingInv' /\ BufferInv' /\ ConnectionInv' /\ UpdateInv'
    BY <1>2, TypesInParts, WorkingKept, BufferKept, ConnectionKept, UpdateKept
       DEF TypeInv
  <2> QED
    BY <1>1, <2>1 DEF TypeInv, PhaseInv
<1>3. CASE UNCHANGED vars
  BY <1>1, <1>3 DEF TypeInv, PhaseInv, WorkingInv, BufferInv, ConnectionInv,
     UpdateInv, vars, requestVars, settingVars, bufferVars, netVars
<1> QED
  BY <1>2, <1>3

\* Every variable keeps its type: what is sent, received, decoded and reported
\* has a format and a size of a screen, for any number of calls and resizes
\* (RemoteViewerCore.cpp, UpdateRequestSender.cpp, FbUpdateNotifier.cpp).
THEOREM ViewerTypes == Spec => []TypeOK
<1>1. TypeInv => TypeOK
  BY DEF TypeInv
<1> QED
  BY <1>1, TypesInitially, TypesStep, PTL DEF Spec

-----------------------------------------------------------------------------
(* There is one request. *)

\* What every place looks like.
LEMMA Where ==
  /\ IsAt("flag") <=> isNeedRequestUpdate
  /\ \A t \in Senders : IsAt(t) <=> sending[t].at \notin {"idle", "take"}
  /\ IsAt("deferred") <=> wasUpdateReceived
  /\ IsAt("requester") <=> requesterAt = "send"
  /\ IsAt("toServer") <=> \E i \in DOMAIN toServer : toServer[i] \in Requests
  /\ IsAt("server") <=> server.asked # "nothing"
  /\ IsAt("toViewer") <=> toViewer # <<>>
  /\ IsAt("received") <=> inputAt \in {"received", "copied", "updated"}
BY DEF IsAt, Senders

LEMMA WhereNext ==
  /\ IsAt("flag")' <=> isNeedRequestUpdate'
  /\ \A t \in Senders : IsAt(t)' <=> sending'[t].at \notin {"idle", "take"}
  /\ IsAt("deferred")' <=> wasUpdateReceived'
  /\ IsAt("requester")' <=> requesterAt' = "send"
  /\ IsAt("toServer")' <=> \E i \in DOMAIN toServer' : toServer'[i] \in Requests
  /\ IsAt("server")' <=> server'.asked # "nothing"
  /\ IsAt("toViewer")' <=> toViewer' # <<>>
  /\ IsAt("received")' <=> inputAt' \in {"received", "copied", "updated"}
BY DEF IsAt, Senders

\* Wherever it is, it is nowhere else.
AtOnePlace == \A p, q \in Places : IsAt(p) /\ IsAt(q) => p = q
AtSomePlace == connection # "closed" => \E p \in Places : IsAt(p)

LEMMA ItMoves ==
  ASSUME AtOnePlace, NEW a \in Places, NEW b \in Places, IsAt(a), IsAt(b)',
         \A p \in Places \ {b} : IsAt(p)' => p # a /\ IsAt(p)
  PROVE  AtOnePlace' /\ AtSomePlace'
BY DEF AtOnePlace, AtSomePlace

LEMMA ItStays ==
  ASSUME AtOnePlace, AtSomePlace, connection' = "closed" => connection = "closed",
         connection = "closed" => connection' = "closed",
         \A p \in Places : IsAt(p)' <=> IsAt(p)
  PROVE  AtOnePlace' /\ AtSomePlace'
BY DEF AtOnePlace, AtSomePlace

LEMMA ItIsLost ==
  ASSUME AtOnePlace, connection' = "closed", \A p \in Places : IsAt(p)' => IsAt(p)
  PROVE  AtOnePlace' /\ AtSomePlace'
BY DEF AtOnePlace, AtSomePlace

\* One request and one answer at most are on their way.
OneInLine ==
  /\ \A i, j \in DOMAIN toServer :
       toServer[i] \in Requests /\ toServer[j] \in Requests => i = j
  /\ Len(toViewer) <= 1

\* Steps that touch no place, or that one place becomes another of its own.
Received == inputAt \in {"received", "copied", "updated"}
StaysPut ==
  /\ UNCHANGED <<isNeedRequestUpdate, wasUpdateReceived, toServer, toViewer>>
  /\ \A t \in Senders :
       sending'[t].at \in {"idle", "take"} <=> sending[t].at \in {"idle", "take"}
  /\ requesterAt' = "send" <=> requesterAt = "send"
  /\ server'.asked = server.asked
  /\ Received' <=> Received
  /\ connection' = "closed" <=> connection = "closed"

LEMMA StaysPutStays ==
  ASSUME AtOnePlace, AtSomePlace, OneInLine, StaysPut
  PROVE  AtOnePlace' /\ AtSomePlace' /\ OneInLine'
<1>1. \A p \in Places : IsAt(p)' <=> IsAt(p)
  BY Where, WhereNext DEF Places, Senders, StaysPut, Received
<1>2. OneInLine'
  BY DEF OneInLine, StaysPut
<1> QED
  BY <1>1, <1>2, ItStays DEF StaysPut

LEMMA QuietStays == QuietStep => StaysPut
BY QuietStepsAreQuiet DEF core, StaysPut, Received

LEMMA InputStays ==
  ASSUME \/ Connect \/ ConnectFails \/ HandshakeFails \/ CheckTerminating
         \/ OnConnected \/ ReadFails \/ ClientAndServerInit \/ CopyRectangle \/ NotifyUpdate
         \/ ChangeDesktopSize,
         TypeInv
  PROVE  StaysPut
<1>1. UNCHANGED <<isNeedRequestUpdate, wasUpdateReceived, toServer, toViewer,
                  sending, requesterAt>>
  BY DEF Connect, ConnectFails, HandshakeFails, CheckTerminating, OnConnected, ReadFails,
     ClientAndServerInit, CopyRectangle, NotifyUpdate, ChangeDesktopSize,
     requestVars, deferredVars, netVars
<1>2. Received' <=> Received
  BY DEF Connect, ConnectFails, HandshakeFails, CheckTerminating, OnConnected, ReadFails,
     ClientAndServerInit, CopyRectangle, NotifyUpdate, ChangeDesktopSize, Received
<1>3. server'.asked = server.asked
  BY DEF Connect, ConnectFails, HandshakeFails, CheckTerminating, OnConnected, ReadFails,
     ClientAndServerInit, CopyRectangle, NotifyUpdate, ChangeDesktopSize, netVars,
     TypeInv, TypeOK
<1>4. connection' = "closed" <=> connection = "closed"
  BY DEF Connect, ConnectFails, HandshakeFails, CheckTerminating, OnConnected, ReadFails,
     ClientAndServerInit, CopyRectangle, NotifyUpdate, ChangeDesktopSize, netVars,
     TypeInv, PhaseInv, ConnectionInv
<1> QED
  BY <1>1, <1>2, <1>3, <1>4 DEF StaysPut

LEMMA OwnerAndServerStay ==
  ASSUME Freeze \/ RefreshFrameBuffer \/ ScreenResizes, TypeInv
  PROVE  StaysPut
<1>1. /\ UNCHANGED <<isNeedRequestUpdate, wasUpdateReceived, toServer, toViewer,
                     sending, requesterAt, inputAt, connection>>
      /\ server'.asked = server.asked
  BY DEF Freeze, RefreshFrameBuffer, ScreenResizes, requestVars, deferredVars,
     netVars, TypeInv, TypeOK
<1> QED
  BY <1>1 DEF StaysPut, Received

LEMMA BeginningStays ==
  ASSUME EnterWorkingPhase \/ RequestUnlessFrozen \/ Unfreeze, TypeInv
  PROVE  StaysPut
<1>1. UNCHANGED <<isNeedRequestUpdate, wasUpdateReceived, requesterAt, netVars>>
      /\ (Received' <=> Received)
  BY DEF EnterWorkingPhase, RequestUnlessFrozen, Unfreeze, deferredVars, Received
<1>2. \E t \in Senders, b \in BOOLEAN : (sending[t].at = "idle" /\ BeginSending(t, b))
        \/ UNCHANGED sending
  BY DEF EnterWorkingPhase, RequestUnlessFrozen, Unfreeze, Senders, TypeInv,
     PhaseInv, WorkingInv, TypeOK
<1>3. \A t \in Senders :
        sending'[t].at \in {"idle", "take"} <=> sending[t].at \in {"idle", "take"}
  BY <1>2 DEF BeginSending, TypeInv, TypeOK
<1> QED
  BY <1>1, <1>3 DEF StaysPut, netVars

\* What an end of the queue to the server does to the requests in it.
Waits(q) == \E i \in DOMAIN q : q[i] \in Requests
AtMostOne(q) == \A i, j \in DOMAIN q : q[i] \in Requests /\ q[j] \in Requests => i = j

LEMMA FormatsAreNoRequests == \A f \in Formats : SetFormat(f) \notin Requests
BY DEF SetFormat, Requests, Request

LEMMA AppendingRequest ==
  ASSUME NEW q \in Seq(ToServer), NEW m \in Requests, ~Waits(q)
  PROVE  Waits(Append(q, m)) /\ AtMostOne(Append(q, m))
<1>1. m \in ToServer
  BY DEF ToServer
<1>2. /\ Append(q, m) \in Seq(ToServer) /\ Len(Append(q, m)) = Len(q) + 1
      /\ Append(q, m)[Len(q) + 1] = m
      /\ \A i \in 1 .. Len(q) : Append(q, m)[i] = q[i]
  BY <1>1
<1>3. DOMAIN q = 1 .. Len(q) /\ DOMAIN Append(q, m) = 1 .. Len(q) + 1
  BY <1>2
<1> QED
  BY <1>2, <1>3 DEF Waits, AtMostOne

LEMMA AppendingFormat ==
  ASSUME NEW q \in Seq(ToServer), NEW f \in Formats, AtMostOne(q)
  PROVE  /\ Waits(Append(q, SetFormat(f))) <=> Waits(q)
         /\ AtMostOne(Append(q, SetFormat(f)))
<1> DEFINE m == SetFormat(f)
<1> HIDE DEF m
<1>1. m \in ToServer /\ m \notin Requests
  BY FormatsAreNoRequests, Zenon DEF ToServer, m
<1>2. /\ Append(q, m) \in Seq(ToServer) /\ Len(Append(q, m)) = Len(q) + 1
      /\ Append(q, m)[Len(q) + 1] = m
      /\ \A i \in 1 .. Len(q) : Append(q, m)[i] = q[i]
  BY <1>1
<1>3. DOMAIN q = 1 .. Len(q) /\ DOMAIN Append(q, m) = 1 .. Len(q) + 1
  BY <1>2
<1>4. Waits(Append(q, m)) <=> Waits(q)
  BY <1>1, <1>2, <1>3 DEF Waits
<1>5. AtMostOne(Append(q, m))
  BY <1>1, <1>2, <1>3 DEF AtMostOne
<1> QED
  BY <1>4, <1>5 DEF m

LEMMA TakingFirst ==
  ASSUME NEW q \in Seq(ToServer), q # <<>>, AtMostOne(q)
  PROVE  /\ Head(q) \in Requests => ~Waits(Tail(q)) /\ Waits(q)
         /\ Head(q) \notin Requests => (Waits(Tail(q)) <=> Waits(q))
         /\ AtMostOne(Tail(q))
<1>1. /\ Tail(q) \in Seq(ToServer) /\ Len(Tail(q)) = Len(q) - 1
      /\ \A i \in 1 .. Len(q) - 1 : Tail(q)[i] = q[i + 1]
      /\ Head(q) = q[1] /\ Len(q) \in Nat \ {0}
  OBVIOUS
<1>2. DOMAIN q = 1 .. Len(q) /\ DOMAIN Tail(q) = 1 .. Len(q) - 1
  BY <1>1
<1>3. \A i \in 1 .. Len(q) : i = 1 \/ (i - 1 \in 1 .. Len(q) - 1 /\ q[i] = Tail(q)[i - 1])
  BY <1>1
<1>4. Waits(Tail(q)) => \E i \in 2 .. Len(q) : q[i] \in Requests
  BY <1>1, <1>2 DEF Waits
<1>5. Head(q) \in Requests => ~Waits(Tail(q)) /\ Waits(q)
  BY <1>1, <1>2, <1>4 DEF Waits, AtMostOne
<1>6. Head(q) \notin Requests => (Waits(Tail(q)) <=> Waits(q))
  <2>1. Waits(Tail(q)) => Waits(q)
    BY <1>2, <1>4 DEF Waits
  <2>2. ASSUME Head(q) \notin Requests, NEW i \in DOMAIN q, q[i] \in Requests
        PROVE  Waits(Tail(q))
    <3>1. i # 1
      BY <1>1, <2>2
    <3> QED
      BY <1>2, <1>3, <2>2, <3>1 DEF Waits
  <2> QED
    BY <2>1, <2>2 DEF Waits
<1>7. AtMostOne(Tail(q))
  BY <1>1, <1>2 DEF AtMostOne
<1> QED
  BY <1>5, <1>6, <1>7

\* What the sending threads do with the request.
LEMMA SendersMoveIt ==
  ASSUME TypeInv, AtOnePlace, AtSomePlace, OneInLine, NEW t \in Senders,
         SendingStep(t)
  PROVE  AtOnePlace' /\ AtSomePlace' /\ OneInLine'
<1>0. /\ sending \in [Senders -> SenderStates] /\ t \in Places
      /\ toServer \in Seq(ToServer) /\ AtMostOne(toServer) /\ ConnectionInv
  BY TypesInParts DEF TypeInv, PhaseInv, Parts, DataTypes, Senders, Places,
     OneInLine, AtMostOne
<1>1. CASE TakeRequest(t)
  <2>1. UNCHANGED <<inputAt, wasUpdateReceived, requesterAt, netVars>>
    BY <1>1 DEF TakeRequest, deferredVars
  <2>2. CASE isNeedRequestUpdate
    <3>1. sending' = [sending EXCEPT ![t].at = "format"]
      BY <1>1, <2>2 DEF TakeRequest, StepSender
    <3>2. IsAt("flag") /\ IsAt(t)' /\ ~IsAt("flag")'
      BY <1>0, <1>1, <2>2, <3>1, Where, WhereNext DEF TakeRequest
    <3>3. \A p \in Places \ {t, "flag"} : IsAt(p)' => IsAt(p)
      BY <1>0, <2>1, <3>1, Where, WhereNext DEF Places, Senders, netVars
    <3>4. "flag" \in Places
      BY DEF Places
    <3> QED
      BY <1>0, <2>1, <3>2, <3>3, <3>4, ItMoves DEF OneInLine, netVars
  <2>3. CASE ~isNeedRequestUpdate
    <3>1. sending' = [sending EXCEPT ![t] = Quiet] /\ sending[t].at = "take"
          /\ UNCHANGED isNeedRequestUpdate
      BY <1>1, <2>3 DEF TakeRequest, FinishSending, TypeInv, TypeOK
    <3>2. StaysPut
      BY <1>0, <2>1, <3>1 DEF StaysPut, Received, netVars, Quiet
    <3> QED
      BY <3>2, StaysPutStays
  <2> QED
    BY <2>2, <2>3
<1>2. CASE UpdatePixelFormat(t)
  <2>1. /\ UNCHANGED <<isNeedRequestUpdate, inputAt, deferredVars, netVars>>
        /\ sending[t].at = "format"
        /\ \/ sending' = [sending EXCEPT ![t].at = "tell"]
           \/ sending' = [sending EXCEPT ![t].at = "refresh"]
    BY <1>2 DEF UpdatePixelFormat, StepSender
  <2>2. /\ sending'[t].at \in {"tell", "refresh"}
        /\ \A u \in Senders \ {t} : sending'[u] = sending[u]
    <3>1. CASE sending' = [sending EXCEPT ![t].at = "tell"]
      BY <1>0, <3>1 DEF SenderStates
    <3>2. CASE sending' = [sending EXCEPT ![t].at = "refresh"]
      BY <1>0, <3>2 DEF SenderStates
    <3> QED
      BY <2>1, <3>1, <3>2
  <2>3. StaysPut
    BY <1>0, <2>1, <2>2 DEF StaysPut, Received, netVars, deferredVars
  <2> QED
    BY <2>3, StaysPutStays
<1>3. CASE SendPixelFormat(t)
  <2>1. /\ UNCHANGED <<isNeedRequestUpdate, inputAt, deferredVars, toViewer, server>>
        /\ sending[t].at = "tell"
        /\ sending' = [sending EXCEPT ![t].at = "refresh", ![t].now = TRUE]
        /\ toServer' = Append(toServer, SetFormat(frameBuffer.format))
        /\ UNCHANGED connection
    BY <1>3 DEF SendPixelFormat
  <2>2. frameBuffer.format \in Formats
    BY <1>0, <2>1 DEF TypeInv, TypeOK, PhaseInv, WorkingInv, BufferInv,
       PicturesOrNone, Pictures
  <2>3. (Waits(toServer') <=> Waits(toServer)) /\ AtMostOne(toServer')
    BY <1>0, <2>1, <2>2, AppendingFormat
  <2>4. \A p \in Places \ {"toServer"} : IsAt(p)' <=> IsAt(p)
    BY <1>0, <2>1, Where, WhereNext DEF Places, Senders, deferredVars
  <2>5. IsAt("toServer")' <=> IsAt("toServer")
    BY <2>3, Where, WhereNext DEF Waits
  <2>6. AtOnePlace' /\ AtSomePlace'
    BY <2>1, <2>4, <2>5, ItStays
  <2> QED
    BY <2>1, <2>3, <2>6 DEF OneInLine, AtMostOne
<1>4. CASE TakeRefresh(t)
  <2>1. /\ UNCHANGED <<isNeedRequestUpdate, inputAt, deferredVars, netVars>>
        /\ sending[t].at = "refresh" /\ sending'[t].at = "request"
        /\ \A u \in Senders \ {t} : sending'[u] = sending[u]
    BY <1>0, <1>4 DEF TakeRefresh
  <2>2. StaysPut
    BY <1>0, <2>1 DEF StaysPut, Received, netVars, deferredVars
  <2> QED
    BY <2>2, StaysPutStays
<1>5. CASE SendRequest(t)
  <2>1. /\ UNCHANGED <<isNeedRequestUpdate, inputAt, deferredVars, toViewer, server>>
        /\ sending[t].at = "request"
        /\ sending' = [sending EXCEPT ![t] = Quiet]
        /\ toServer' = Append(toServer, Request(sending[t].full \/ sending[t].now))
    BY <1>5 DEF SendRequest, FinishSending
  <2>2. IsAt(t) /\ ~IsAt(t)' /\ t # "toServer"
    BY <1>0, <2>1, Where, WhereNext DEF Quiet, Senders
  <2>3. ~Waits(toServer)
    <3>1. ~IsAt("toServer")
      BY <1>0, <2>2 DEF AtOnePlace, Places
    <3> QED
      BY <3>1, Where DEF Waits
  <2>4. (sending[t].full \/ sending[t].now) \in BOOLEAN
    OBVIOUS
  <2>5. Request(sending[t].full \/ sending[t].now) \in Requests
    BY <2>4, Zenon DEF Requests
  <2>6. Waits(toServer') /\ AtMostOne(toServer')
    BY <1>0, <2>1, <2>3, <2>5, AppendingRequest
  <2>7. IsAt("toServer")'
    BY <2>6, WhereNext DEF Waits
  <2>8. \A p \in Places \ {"toServer", t} : IsAt(p)' => IsAt(p)
    BY <1>0, <2>1, Where, WhereNext DEF Places, Senders, deferredVars
  <2>9. AtOnePlace' /\ AtSomePlace'
    <3>1. "toServer" \in Places
      BY DEF Places
    <3> QED
      BY <1>0, <2>2, <2>7, <2>8, <3>1, ItMoves
  <2> QED
    BY <2>1, <2>6, <2>9 DEF OneInLine, AtMostOne
<1>6. CASE DeferRequest(t)
  <2>1. /\ UNCHANGED <<isNeedRequestUpdate, inputAt, requesterAt, netVars>>
        /\ sending[t].at = "request" /\ wasUpdateReceived'
        /\ sending' = [sending EXCEPT ![t] = Quiet]
    BY <1>6 DEF DeferRequest, FinishSending
  <2>2. IsAt(t) /\ ~IsAt(t)' /\ IsAt("deferred")'
    BY <1>0, <2>1, Where, WhereNext DEF Quiet
  <2>3. \A p \in Places \ {"deferred", t} : IsAt(p)' => IsAt(p)
    BY <1>0, <2>1, Where, WhereNext DEF Places, Senders, netVars
  <2>4. "deferred" \in Places
    BY DEF Places
  <2>5. AtOnePlace' /\ AtSomePlace'
    BY <1>0, <2>2, <2>3, <2>4, ItMoves
  <2> QED
    BY <2>1, <2>5 DEF OneInLine, netVars
<1>7. CASE SendingFails(t)
  <2>1. /\ UNCHANGED <<isNeedRequestUpdate, deferredVars, netVars>>
        /\ sending' = [sending EXCEPT ![t] = Quiet]
        /\ inputAt' \in {inputAt, "ended"} /\ connection = "closed"
    BY <1>7 DEF SendingFails, FinishSending
  <2>2. \A p \in Places : IsAt(p)' => IsAt(p)
    BY <1>0, <2>1, Where, WhereNext DEF Places, Senders, netVars, deferredVars, Quiet
  <2>3. connection' = "closed"
    BY <2>1 DEF netVars
  <2>4. AtOnePlace' /\ AtSomePlace'
    BY <2>2, <2>3, ItIsLost
  <2> QED
    BY <2>1, <2>4 DEF OneInLine, netVars
<1> QED
  BY <1>1, <1>2, <1>3, <1>4, <1>5, <1>6, <1>7 DEF SendingStep

LEMMA OneRequestKept ==
  ASSUME TypeInv, AtOnePlace, AtSomePlace, OneInLine, Next
  PROVE  AtOnePlace' /\ AtSomePlace' /\ OneInLine'
<1>0. /\ toServer \in Seq(ToServer) /\ AtMostOne(toServer) /\ ConnectionInv
      /\ toViewer \in Seq(Updates) /\ WorkingInv
  BY TypesInParts DEF TypeInv, PhaseInv, Parts, DataTypes, OneInLine, AtMostOne
<1>1. CASE \/ Connect \/ ConnectFails \/ HandshakeFails \/ CheckTerminating
           \/ OnConnected \/ ReadFails \/ ClientAndServerInit \/ CopyRectangle
           \/ NotifyUpdate \/ ChangeDesktopSize
  BY <1>1, InputStays, StaysPutStays
<1>2. CASE \/ Freeze \/ RefreshFrameBuffer \/ ScreenResizes
           \/ EnterWorkingPhase \/ RequestUnlessFrozen \/ Unfreeze
  BY <1>2, OwnerAndServerStay, BeginningStays, StaysPutStays
<1>3. CASE QuietStep
  BY <1>3, QuietStays, StaysPutStays
<1>4. ASSUME NEW t \in Senders, SendingStep(t)
      PROVE  AtOnePlace' /\ AtSomePlace' /\ OneInLine'
  BY <1>4, SendersMoveIt
<1>5. CASE Establish
  <2>1. IsAt("flag") /\ ~IsAt("requester")
    BY <1>0, <1>5, Where DEF Establish, WorkingInv, AtOnePlace, Places
  <2>2. StaysPut
    BY <1>5, <2>1, Where DEF Establish, StaysPut, Received, requestVars, netVars
  <2> QED
    BY <2>2, StaysPutStays
<1>6. CASE ReceiveFbUpdate
  <2>1. /\ UNCHANGED <<isNeedRequestUpdate, sending, deferredVars, toServer, server>>
        /\ toViewer # <<>> /\ toViewer' = Tail(toViewer)
        /\ inputAt = "read" /\ inputAt' = "received"
    BY <1>6 DEF ReceiveFbUpdate, requestVars
  <2>2. toViewer' = <<>>
    BY <1>0, <2>1 DEF OneInLine
  <2>3. IsAt("toViewer") /\ ~IsAt("toViewer")' /\ IsAt("received")'
    BY <2>1, <2>2, Where, WhereNext
  <2>4. \A p \in Places \ {"received", "toViewer"} : IsAt(p)' => IsAt(p)
    BY <2>1, Where, WhereNext DEF Places, Senders, deferredVars
  <2>5. "toViewer" \in Places /\ "received" \in Places
    BY DEF Places
  <2>6. AtOnePlace' /\ AtSomePlace'
    BY <2>3, <2>4, <2>5, ItMoves
  <2> QED
    BY <2>1, <2>2, <2>6 DEF OneInLine
<1>7. CASE NeedRequest
  <2>1. /\ UNCHANGED <<sending, deferredVars, netVars>> /\ isNeedRequestUpdate'
        /\ inputAt = "updated" /\ inputAt' = "answered"
    BY <1>7 DEF NeedRequest
  <2>2. IsAt("received") /\ ~IsAt("received")' /\ IsAt("flag")'
    BY <2>1, Where, WhereNext
  <2>3. \A p \in Places \ {"flag", "received"} : IsAt(p)' => IsAt(p)
    BY <2>1, Where, WhereNext DEF Places, Senders, deferredVars, netVars
  <2>4. "flag" \in Places /\ "received" \in Places
    BY DEF Places
  <2>5. AtOnePlace' /\ AtSomePlace'
    BY <2>2, <2>3, <2>4, ItMoves
  <2> QED
    BY <2>1, <2>5 DEF OneInLine, netVars
<1>8. CASE TakeDeferred
  <2>1. /\ UNCHANGED <<requestVars, inputAt, netVars>>
        /\ wasUpdateReceived /\ ~wasUpdateReceived' /\ requesterAt' = "send"
    BY <1>8 DEF TakeDeferred
  <2>2. IsAt("deferred") /\ ~IsAt("deferred")' /\ IsAt("requester")'
    BY <2>1, Where, WhereNext
  <2>3. \A p \in Places \ {"requester", "deferred"} : IsAt(p)' => IsAt(p)
    BY <2>1, Where, WhereNext DEF Places, Senders, requestVars, netVars
  <2>4. "requester" \in Places /\ "deferred" \in Places
    BY DEF Places
  <2>5. AtOnePlace' /\ AtSomePlace'
    BY <2>2, <2>3, <2>4, ItMoves
  <2> QED
    BY <2>1, <2>5 DEF OneInLine, netVars
<1>9. CASE SendDeferred
  <2>1. /\ UNCHANGED <<requestVars, inputAt, wasUpdateReceived, toViewer, server>>
        /\ requesterAt = "send" /\ requesterAt' = "loop"
        /\ toServer' = Append(toServer, Request(forceFull))
    BY <1>9 DEF SendDeferred
  <2>2. IsAt("requester") /\ ~IsAt("requester")'
    BY <2>1, Where, WhereNext
  <2>3. ~Waits(toServer)
    <3>1. ~IsAt("toServer")
      BY <2>2 DEF AtOnePlace, Places
    <3> QED
      BY <3>1, Where DEF Waits
  <2>4. Request(forceFull) \in Requests
    <3>1. forceFull \in BOOLEAN
      BY DEF TypeInv, TypeOK
    <3> QED
      BY <3>1, Zenon DEF Requests
  <2>5. Waits(toServer') /\ AtMostOne(toServer')
    BY <1>0, <2>1, <2>3, <2>4, AppendingRequest
  <2>6. IsAt("toServer")'
    BY <2>5, WhereNext DEF Waits
  <2>7. \A p \in Places \ {"toServer", "requester"} : IsAt(p)' => IsAt(p)
    BY <2>1, Where, WhereNext DEF Places, Senders, requestVars
  <2>8. "toServer" \in Places /\ "requester" \in Places
    BY DEF Places
  <2>9. AtOnePlace' /\ AtSomePlace'
    BY <2>2, <2>6, <2>7, <2>8, ItMoves
  <2> QED
    BY <2>1, <2>5, <2>9 DEF OneInLine, AtMostOne
<1>10. CASE RequesterEnds
  <2>1. UNCHANGED <<requestVars, inputAt, wasUpdateReceived, netVars>>
        /\ requesterAt' = "ended"
    BY <1>10 DEF RequesterEnds
  <2>2. CASE requesterAt = "loop"
    <3>1. StaysPut
      BY <2>1, <2>2 DEF StaysPut, Received, requestVars, netVars
    <3> QED
      BY <3>1, StaysPutStays
  <2>3. CASE connection = "closed"
    <3>1. \A p \in Places : IsAt(p)' => IsAt(p)
      BY <2>1, Where, WhereNext DEF Places, Senders, requestVars, netVars
    <3>2. connection' = "closed"
      BY <2>1, <2>3 DEF netVars
    <3>3. AtOnePlace' /\ AtSomePlace'
      BY <3>1, <3>2, ItIsLost
    <3> QED
      BY <2>1, <3>3 DEF OneInLine, netVars
  <2> QED
    BY <1>10, <2>2, <2>3 DEF RequesterEnds
<1>11. CASE Stop \/ BreakConnection
  <2>1. UNCHANGED <<requestVars, inputAt, deferredVars>>
    BY <1>11 DEF Stop, BreakConnection
  <2>2. CASE UNCHANGED netVars
    <3>1. StaysPut
      BY <2>1, <2>2 DEF StaysPut, Received, requestVars, deferredVars, netVars
    <3> QED
      BY <3>1, StaysPutStays
  <2>3. CASE CloseConnection
    <3>1. /\ connection' = "closed" /\ toServer' = <<>> /\ toViewer' = <<>>
          /\ server'.asked = "nothing"
      BY <2>3 DEF CloseConnection, TypeInv, TypeOK
    <3>2. \A p \in Places : IsAt(p)' => IsAt(p)
      BY <2>1, <3>1, Where, WhereNext DEF Places, Senders, requestVars, deferredVars
    <3>3. AtOnePlace' /\ AtSomePlace'
      BY <3>1, <3>2, ItIsLost
    <3> QED
      BY <3>1, <3>3 DEF OneInLine
  <2> QED
    BY <1>11, <2>2, <2>3 DEF Stop, BreakConnection
<1>12. CASE ServerReads
  <2>1. /\ UNCHANGED <<requestVars, inputAt, deferredVars, toViewer, connection>>
        /\ toServer # <<>> /\ toServer' = Tail(toServer)
    BY <1>12 DEF ServerReads
  <2>2. AtMostOne(toServer')
    BY <1>0, <2>1, TakingFirst
  <2>3. Head(toServer) \in ToServer
    BY <1>0, <2>1
  <2>4. CASE Head(toServer) \in Requests
    <3>1. Head(toServer).kind = "request"
      BY <2>4 DEF Requests, Request
    <3>2. server'.asked # "nothing"
      BY <1>12, <3>1 DEF ServerReads, TypeInv, TypeOK
    <3>3. Waits(toServer) /\ ~Waits(toServer')
      BY <1>0, <2>1, <2>4, TakingFirst
    <3>4. IsAt("toServer") /\ ~IsAt("toServer")' /\ IsAt("server")'
      BY <3>2, <3>3, Where, WhereNext DEF Waits
    <3>5. \A p \in Places \ {"server", "toServer"} : IsAt(p)' => IsAt(p)
      BY <2>1, Where, WhereNext DEF Places, Senders, requestVars, deferredVars
    <3>6. "server" \in Places /\ "toServer" \in Places
      BY DEF Places
    <3>7. AtOnePlace' /\ AtSomePlace'
      BY <3>4, <3>5, <3>6, ItMoves
    <3> QED
      BY <2>1, <2>2, <3>7 DEF OneInLine, AtMostOne
  <2>5. CASE Head(toServer) \notin Requests
    <3>1. PICK f \in Formats : Head(toServer) = SetFormat(f)
      BY <2>3, <2>5 DEF ToServer
    <3>2. server'.asked = server.asked
      BY <1>12, <3>1 DEF ServerReads, SetFormat, TypeInv, TypeOK
    <3>3. Waits(toServer') <=> Waits(toServer)
      BY <1>0, <2>1, <2>5, TakingFirst
    <3>4. IsAt("toServer")' <=> IsAt("toServer")
      BY <3>3, Where, WhereNext DEF Waits
    <3>5. \A p \in Places \ {"toServer"} : IsAt(p)' <=> IsAt(p)
      BY <2>1, <3>2, Where, WhereNext DEF Places, Senders, requestVars, deferredVars
    <3>6. AtOnePlace' /\ AtSomePlace'
      BY <2>1, <3>4, <3>5, ItStays
    <3> QED
      BY <2>1, <2>2, <3>6 DEF OneInLine, AtMostOne
  <2> QED
    BY <2>4, <2>5
<1>13. CASE ServerAnswers
  <2>1. /\ UNCHANGED <<requestVars, inputAt, deferredVars, toServer>>
        /\ server.asked # "nothing" /\ server'.asked = "nothing"
        /\ \E m : toViewer' = Append(toViewer, m)
    BY <1>13 DEF ServerAnswers, TypeInv, TypeOK
  <2>2. IsAt("server") /\ ~IsAt("server")'
    BY <2>1, Where, WhereNext
  <2>3. ~IsAt("toViewer")
    BY <2>2 DEF AtOnePlace, Places
  <2>4. toViewer = <<>>
    BY <2>3, Where
  <2>5. toViewer' # <<>> /\ Len(toViewer') <= 1
    BY <2>1, <2>4
  <2>6. IsAt("toViewer")'
    BY <2>5, WhereNext
  <2>7. \A p \in Places \ {"toViewer", "server"} : IsAt(p)' => IsAt(p)
    BY <2>1, Where, WhereNext DEF Places, Senders, requestVars, deferredVars
  <2>8. "toViewer" \in Places /\ "server" \in Places
    BY DEF Places
  <2>9. AtOnePlace' /\ AtSomePlace'
    BY <2>2, <2>6, <2>7, <2>8, ItMoves
  <2> QED
    BY <2>1, <2>5, <2>9 DEF OneInLine
<1> QED
  BY <1>1, <1>2, <1>3, <1>4, <1>5, <1>6, <1>7, <1>8, <1>9, <1>10, <1>11, <1>12,
     <1>13 DEF Next, QuietStep, ReceivingStep, RequesterStep, NotifierStep, OwnerCall

RequestInv == TypeInv /\ OneRequestAtATime

LEMMA RequestInitially == Init => RequestInv
<1> SUFFICES ASSUME Init PROVE RequestInv
  OBVIOUS
<1>1. /\ IsAt("flag") /\ "flag" \in Places
      /\ \A p \in Places : IsAt(p) => p = "flag"
  BY Where DEF Init, Places, Senders, Quiet
<1>2. Len(toViewer) <= 1 /\ DOMAIN toServer = {}
  BY DEF Init
<1> QED
  BY <1>1, <1>2, TypesInitially DEF RequestInv, OneRequestAtATime

LEMMA RequestStep == RequestInv /\ [Next]_vars => RequestInv'
<1> SUFFICES ASSUME RequestInv, [Next]_vars PROVE RequestInv'
  OBVIOUS
<1>1. AtOnePlace /\ AtSomePlace /\ OneInLine /\ TypeInv
  BY DEF RequestInv, OneRequestAtATime, AtOnePlace, AtSomePlace, OneInLine
<1>2. AtOnePlace' /\ AtSomePlace' /\ OneInLine'
  <2>1. CASE Next
    BY <1>1, <2>1, OneRequestKept
  <2>2. CASE UNCHANGED vars
    <3>1. StaysPut
      BY <2>2 DEF vars, StaysPut, Received, requestVars, deferredVars, netVars
    <3> QED
      BY <1>1, <3>1, StaysPutStays
  <2> QED
    BY <2>1, <2>2
<1>3. TypeInv'
  BY <1>1, TypesStep
<1> QED
  BY <1>2, <1>3 DEF RequestInv, OneRequestAtATime, AtOnePlace, AtSomePlace, OneInLine

\* The viewer has one request: whichever of its three threads takes it, it is
\* not sent twice, and it is not lost before the connection is
\* (RemoteViewerCore::sendFbUpdateRequest, UpdateRequestSender::execute).
THEOREM OneRequest == Spec => []OneRequestAtATime
<1>1. RequestInv => OneRequestAtATime
  BY DEF RequestInv
<1> QED
  BY <1>1, RequestInitially, RequestStep, PTL DEF Spec

-----------------------------------------------------------------------------
(* A black buffer will be painted. *)

LEMMA HeadAndTail ==
  ASSUME NEW q \in Seq(ToServer), q # <<>>
  PROVE  /\ Head(q) = q[1]
         /\ \A i \in DOMAIN q : i # 1 => i - 1 \in DOMAIN Tail(q) /\ Tail(q)[i - 1] = q[i]
OBVIOUS

LEMMA Appended ==
  ASSUME NEW q \in Seq(ToServer), NEW m \in ToServer
  PROVE  /\ Len(q) + 1 \in DOMAIN Append(q, m) /\ Append(q, m)[Len(q) + 1] = m
         /\ \A i \in DOMAIN q : i \in DOMAIN Append(q, m) /\ Append(q, m)[i] = q[i]
OBVIOUS

LEMMA BlackInitially == Init => BlackIsOwed
BY DEF Init, BlackIsOwed

LEMMA BlackKept ==
  ASSUME RequestInv, BlackIsOwed, [Next]_vars
  PROVE  BlackIsOwed'
<1>0. /\ sending \in [Senders -> SenderStates] /\ toServer \in Seq(ToServer)
      /\ toViewer \in Seq(Updates) /\ frameBuffer \in PicturesOrNone
      /\ OneInLine /\ AtOnePlace /\ WorkingInv /\ TypeOK
  BY TypesInParts DEF RequestInv, TypeInv, PhaseInv, Parts, DataTypes, OneInLine,
     AtOnePlace, OneRequestAtATime
<1>1. SUFFICES ASSUME (connection = "open")', (frameBuffer # NoPicture)',
                      (frameBuffer.pixels = "black")', ~isRefreshing'
               PROVE  BlackIsOwed'
  BY DEF BlackIsOwed
<1>2. CASE UNCHANGED <<frameBuffer, isRefreshing, sending, toServer, toViewer,
                       connection, server, inputAt, update>>
  BY <1>2 DEF BlackIsOwed
<1>3. CASE QuietStep \/ UNCHANGED vars
  BY <1>2, <1>3, QuietStepsAreQuiet DEF core, vars, requestVars, bufferVars, netVars
<1>4. CASE \/ ClientAndServerInit \/ ChangeDesktopSize \/ RefreshFrameBuffer
           \/ Stop \/ BreakConnection \/ Connect
  <2>1. CASE ClientAndServerInit \/ ChangeDesktopSize \/ RefreshFrameBuffer
    BY <1>1, <2>1 DEF ClientAndServerInit, ChangeDesktopSize, RefreshFrameBuffer,
       SetFbProperties
  <2>2. CASE Stop \/ BreakConnection
    BY <1>1, <1>2, <2>2 DEF Stop, BreakConnection, CloseConnection, netVars,
       requestVars, bufferVars
  <2>3. CASE Connect
    BY <1>1, <2>3 DEF Connect, bufferVars, RequestInv, TypeInv, PhaseInv, BufferInv
  <2> QED
    BY <1>4, <2>1, <2>2, <2>3
<1>5. CASE \/ ConnectFails \/ HandshakeFails \/ CheckTerminating \/ OnConnected \/ ReadFails
           \/ Establish \/ NotifyUpdate \/ NeedRequest \/ Freeze
           \/ TakeDeferred \/ RequesterEnds
  <2>1. /\ UNCHANGED <<frameBuffer, isRefreshing, sending, toServer, toViewer,
                       connection, server>>
        /\ inputAt = "received" => inputAt' = "received" /\ update' = update
    BY <1>5 DEF ConnectFails, HandshakeFails, CheckTerminating, OnConnected, ReadFails, Establish,
       NotifyUpdate, NeedRequest, Freeze, TakeDeferred, RequesterEnds, requestVars,
       bufferVars, netVars
  <2> QED
    BY <1>1, <2>1 DEF BlackIsOwed
<1>6. CASE EnterWorkingPhase \/ RequestUnlessFrozen \/ Unfreeze
  <2>1. /\ UNCHANGED <<frameBuffer, isRefreshing, toServer, toViewer, connection,
                       server, update>>
        /\ inputAt = "received" => inputAt' = "received"
    BY <1>6 DEF EnterWorkingPhase, RequestUnlessFrozen, Unfreeze, bufferVars, netVars
  <2>2. \E t \in Senders, b \in BOOLEAN : (sending[t].at = "idle" /\ BeginSending(t, b))
          \/ UNCHANGED sending
    BY <1>0, <1>6 DEF EnterWorkingPhase, RequestUnlessFrozen, Unfreeze, Senders,
       WorkingInv, TypeOK
  <2>3. \A t \in Senders : sending[t].at = "request" => sending'[t] = sending[t]
    BY <1>0, <2>2 DEF BeginSending
  <2> QED
    BY <1>1, <2>1, <2>3 DEF BlackIsOwed
<1>7. CASE ReceiveFbUpdate
  <2>1. /\ UNCHANGED <<frameBuffer, isRefreshing, sending, toServer, connection, server>>
        /\ update' = Head(toViewer) /\ inputAt' = "received" /\ toViewer # <<>>
        /\ inputAt = "read"
    BY <1>7 DEF ReceiveFbUpdate, requestVars, bufferVars
  <2>2. \A i \in DOMAIN toViewer : toViewer[i] = Head(toViewer)
    BY <1>0, <2>1 DEF OneInLine
  <2> QED
    BY <1>1, <2>1, <2>2 DEF BlackIsOwed, Repaints
<1>8. CASE CopyRectangle
  <2>1. /\ UNCHANGED <<isRefreshing, sending, toServer, toViewer, connection, server>>
        /\ inputAt = "received" /\ update.kind = "pixels"
        /\ frameBuffer' = [frameBuffer EXCEPT !.pixels =
                             IF update.whole \/ frameBuffer.pixels # "black"
                             THEN "new" ELSE @]
    BY <1>8 DEF CopyRectangle, requestVars, netVars
  <2>2. frameBuffer # NoPicture
    BY <1>0, <2>1 DEF WorkingInv, RequestInv, TypeInv, PhaseInv, BufferInv
  <2>3. ~update.whole /\ frameBuffer.pixels = "black"
    BY <1>0, <1>1, <2>1 DEF PicturesOrNone, Pictures, NoPicture
  <2> QED
    BY <1>1, <2>1, <2>2, <2>3 DEF BlackIsOwed, Repaints
<1>9. CASE SendDeferred
  <2>1. /\ UNCHANGED <<frameBuffer, isRefreshing, sending, toViewer, connection,
                       server, inputAt, update>>
        /\ toServer' = Append(toServer, Request(forceFull))
    BY <1>9 DEF SendDeferred, requestVars, bufferVars
  <2>2. ASSUME NEW i \in DOMAIN toServer
        PROVE  i \in DOMAIN toServer' /\ toServer'[i] = toServer[i]
    BY <1>0, <2>1
  <2> QED
    BY <1>1, <2>1, <2>2 DEF BlackIsOwed
<1>10. CASE ServerReads
  <2>1. /\ UNCHANGED <<frameBuffer, isRefreshing, sending, toViewer, connection,
                       inputAt, update>>
        /\ toServer' = Tail(toServer) /\ toServer # <<>>
    BY <1>10 DEF ServerReads, requestVars, bufferVars
  <2>2. CASE \E i \in DOMAIN toServer : toServer[i] = Request(TRUE)
    <3>1. PICK i \in DOMAIN toServer : toServer[i] = Request(TRUE)
      BY <2>2
    <3>2. CASE i = 1
      <4>1. Head(toServer) = Request(TRUE)
        BY <1>0, <2>1, <3>1, <3>2, HeadAndTail
      <4>2. server'.asked = "all"
        BY <1>0, <1>10, <4>1 DEF ServerReads, Request, TypeOK
      <4> QED
        BY <4>2 DEF BlackIsOwed
    <3>3. CASE i # 1
      <4>1. i - 1 \in DOMAIN toServer' /\ toServer'[i - 1] = Request(TRUE)
        BY <1>0, <2>1, <3>1, <3>3, HeadAndTail
      <4> QED
        BY <4>1 DEF BlackIsOwed
    <3> QED
      BY <3>2, <3>3
  <2>3. CASE server.asked = "all"
    <3>1. ~IsAt("toServer")
      <4>1. IsAt("server")
        BY <2>3, Where
      <4> QED
        BY <1>0, <4>1 DEF AtOnePlace, Places
    <3>2. Head(toServer) \notin Requests /\ Head(toServer) \in ToServer
      BY <1>0, <2>1, <3>1, Where
    <3>3. PICK f \in Formats : Head(toServer) = SetFormat(f)
      BY <3>2 DEF ToServer
    <3>4. server'.asked = "all"
      BY <1>0, <1>10, <2>3, <3>3 DEF ServerReads, SetFormat, TypeOK
    <3> QED
      BY <3>4 DEF BlackIsOwed
  <2> QED
    BY <1>1, <2>1, <2>2, <2>3 DEF BlackIsOwed
<1>11. CASE ServerAnswers
  <2>1. UNCHANGED <<frameBuffer, isRefreshing, sending, toServer, connection,
                    inputAt, update>>
    BY <1>11 DEF ServerAnswers, requestVars, bufferVars
  <2>2. PICK m : /\ toViewer' = Append(toViewer, m)
                 /\ m = IF server.size # server.told THEN Resize(server.size)
                        ELSE Pixels(server.size, server.format, server.asked = "all")
    BY <1>11 DEF ServerAnswers
  <2>3. ~IsAt("toViewer")
    <3>1. IsAt("server")
      BY <1>11, Where DEF ServerAnswers
    <3> QED
      BY <1>0, <3>1 DEF AtOnePlace, Places
  <2>4. toViewer = <<>>
    BY <2>3, Where
  <2>5. CASE server.asked = "all"
    <3>1. Repaints(m)
      BY <2>2, <2>5 DEF Repaints, Resize, Pixels
    <3>2. 1 \in DOMAIN toViewer' /\ toViewer'[1] = m
      BY <2>2, <2>4
    <3> QED
      BY <3>1, <3>2 DEF BlackIsOwed
  <2>6. CASE server.asked # "all"
    <3>1. DOMAIN toViewer = {}
      BY <2>4
    <3> QED
      BY <1>1, <2>1, <2>6, <3>1 DEF BlackIsOwed
  <2> QED
    BY <2>5, <2>6
<1>12. CASE ScreenResizes
  <2>1. /\ UNCHANGED <<frameBuffer, isRefreshing, sending, toServer, toViewer,
                       connection, inputAt, update>>
        /\ server'.asked = server.asked
    BY <1>0, <1>12 DEF ScreenResizes, requestVars, bufferVars, TypeOK
  <2> QED
    BY <1>1, <2>1 DEF BlackIsOwed
<1>13. ASSUME NEW t \in Senders, SendingStep(t) PROVE BlackIsOwed'
  <2>1. CASE TakeRequest(t) \/ DeferRequest(t)
    <3>1. UNCHANGED <<frameBuffer, isRefreshing, toServer, toViewer, connection,
                      server, inputAt, update>>
      BY <2>1 DEF TakeRequest, DeferRequest, bufferVars, netVars
    <3>2. sending[t].at = "request" => ~sending[t].now
      BY <2>1 DEF TakeRequest, DeferRequest
    <3>3. \A u \in Senders \ {t} : sending'[u] = sending[u]
      BY <1>0, <2>1 DEF TakeRequest, DeferRequest, StepSender, FinishSending
    <3> QED
      BY <1>1, <3>1, <3>2, <3>3 DEF BlackIsOwed
  <2>2. CASE UpdatePixelFormat(t)
    <3>1. UNCHANGED <<frameBuffer, isRefreshing, toServer, toViewer, connection,
                      server, inputAt, update>>
      BY <1>1, <2>2 DEF UpdatePixelFormat, SetFbProperties, bufferVars, netVars
    <3>2. sending[t].at = "format" /\ \A u \in Senders \ {t} : sending'[u] = sending[u]
      BY <1>0, <2>2 DEF UpdatePixelFormat, StepSender
    <3> QED
      BY <1>1, <3>1, <3>2 DEF BlackIsOwed
  <2>3. CASE SendPixelFormat(t)
    <3>1. /\ UNCHANGED <<frameBuffer, isRefreshing, toViewer, connection, server,
                         inputAt, update>>
          /\ sending[t].at = "tell" /\ \A u \in Senders \ {t} : sending'[u] = sending[u]
          /\ toServer' = Append(toServer, SetFormat(frameBuffer.format))
      BY <1>0, <2>3 DEF SendPixelFormat, bufferVars
    <3>2. ASSUME NEW i \in DOMAIN toServer
          PROVE  i \in DOMAIN toServer' /\ toServer'[i] = toServer[i]
      BY <1>0, <3>1
    <3> QED
      BY <1>1, <3>1, <3>2 DEF BlackIsOwed
  <2>4. CASE TakeRefresh(t)
    <3>1. /\ UNCHANGED <<frameBuffer, toServer, toViewer, connection, server,
                         inputAt, update>>
          /\ sending[t].at = "refresh" /\ \A u \in Senders \ {t} : sending'[u] = sending[u]
      BY <1>0, <2>4 DEF TakeRefresh, netVars
    <3>2. sending'[t].at = "request" /\ sending'[t].now = (sending[t].now \/ isRefreshing)
      BY <1>0, <2>4 DEF TakeRefresh, SenderStates
    <3> QED
      BY <1>1, <3>1, <3>2 DEF BlackIsOwed
  <2>5. CASE SendRequest(t)
    <3>1. /\ UNCHANGED <<frameBuffer, isRefreshing, toViewer, connection, server,
                         inputAt, update>>
          /\ \A u \in Senders \ {t} : sending'[u] = sending[u]
          /\ toServer' = Append(toServer, Request(sending[t].full \/ sending[t].now))
      BY <1>0, <2>5 DEF SendRequest, FinishSending, bufferVars
    <3>2. ASSUME NEW i \in DOMAIN toServer
          PROVE  i \in DOMAIN toServer' /\ toServer'[i] = toServer[i]
      BY <1>0, <3>1
    <3>3. CASE sending[t].now
      <4>1. (sending[t].full \/ sending[t].now) = TRUE
        BY <3>3
      <4>2. toServer' = Append(toServer, Request(TRUE))
        BY <3>1, <4>1
      <4>3. Len(toServer) + 1 \in DOMAIN toServer'
            /\ toServer'[Len(toServer) + 1] = Request(TRUE)
        <5>1. Request(TRUE) \in ToServer
          BY Zenon DEF ToServer, Requests
        <5> QED
          BY <1>0, <4>2, <5>1, Appended
      <4> QED
        BY <4>3 DEF BlackIsOwed
    <3>4. CASE ~sending[t].now
      BY <1>1, <3>1, <3>2, <3>4 DEF BlackIsOwed
    <3> QED
      BY <3>3, <3>4
  <2>6. CASE SendingFails(t)
    BY <1>1, <2>6 DEF SendingFails, netVars
  <2> QED
    BY <1>13, <2>1, <2>2, <2>3, <2>4, <2>5, <2>6 DEF SendingStep
<1> QED
  BY <1>3, <1>4, <1>5, <1>6, <1>7, <1>8, <1>9, <1>10, <1>11, <1>12, <1>13
     DEF Next, QuietStep, ReceivingStep, RequesterStep, NotifierStep, OwnerCall

\* As long as the buffer is black, all of the screen has been or will be asked
\* for: no resize, change of format or pause of the updates forgets it
\* (RemoteViewerCore::setFbProperties, sendFbUpdateRequest).
THEOREM BlackWillBePainted == Spec => []BlackIsOwed
<1>1. RequestInv /\ BlackIsOwed /\ [Next]_vars => (RequestInv /\ BlackIsOwed)'
  BY RequestStep, BlackKept
<1> QED
  BY <1>1, RequestInitially, BlackInitially, PTL DEF Spec

-----------------------------------------------------------------------------
(* What is on its way to the server *)

LEMMA NothingAnswered ==
  ASSUME RequestInv, NEW p \in Places \ {"toViewer", "received"}, IsAt(p)
  PROVE  toViewer = <<>> /\ update = NoUpdate /\ UnderWay = {NoUpdate}
<1>1. ~IsAt("toViewer") /\ ~IsAt("received")
  BY DEF RequestInv, OneRequestAtATime, Places
<1>2. toViewer = <<>> /\ update = NoUpdate
  BY <1>1, Where DEF RequestInv, TypeInv, UpdateInv
<1>3. DOMAIN toViewer = {}
  BY <1>2
<1> QED
  BY <1>2, <1>3 DEF UnderWay

LEMMA NothingSent ==
  ASSUME RequestInv, LineInv, NEW p \in Places \ {"toServer"}, IsAt(p),
         p \in Senders => ~FollowsAtOnce(p)
  PROVE  toServer = <<>>
<1>1. ~Waits(toServer)
  <2>1. ~IsAt("toServer")
    BY DEF RequestInv, OneRequestAtATime, Places
  <2> QED
    BY <2>1, Where DEF Waits
<1>2. ASSUME NEW t \in Senders, FollowsAtOnce(t) PROVE FALSE
  <2>1. IsAt(t) /\ t \in Places
    BY <1>2, Where DEF FollowsAtOnce, Senders, Places
  <2> QED
    BY <1>2, <2>1 DEF RequestInv, OneRequestAtATime, Places
<1>3. ASSUME NEW m \in Requests, NEW x,
             toServer \in {<<m>>, <<x, m>>}
      PROVE  FALSE
  <2>1. CASE toServer = <<m>>
    <3>1. 1 \in DOMAIN toServer /\ toServer[1] = m
      BY <2>1
    <3> QED
      BY <1>1, <3>1 DEF Waits
  <2>2. CASE toServer = <<x, m>>
    <3>1. 2 \in DOMAIN toServer /\ toServer[2] = m
      BY <2>2
    <3> QED
      BY <1>1, <3>1 DEF Waits
  <2> QED
    BY <1>3, <2>1, <2>2
<1> QED
  BY <1>2, <1>3 DEF LineInv

LEMMA AloneInLine ==
  ASSUME RequestInv, LineInv, NEW t \in Senders, IsAt(t)
  PROVE  \/ toServer = <<>>
         \/ toServer = <<SetFormat(frameBuffer.format)>> /\ FollowsAtOnce(t)
<1>1. CASE ~FollowsAtOnce(t)
  <2>1. t \in Places \ {"toServer"}
    BY DEF Senders, Places
  <2> QED
    BY <1>1, <2>1, NothingSent
<1>2. CASE FollowsAtOnce(t)
  <2>1. ~Waits(toServer)
    <3>1. ~IsAt("toServer")
      BY DEF RequestInv, OneRequestAtATime, Places, Senders
    <3> QED
      BY <3>1, Where DEF Waits
  <2>2. ASSUME NEW m \in Requests, NEW x, toServer \in {<<m>>, <<x, m>>} PROVE FALSE
    <3>1. CASE toServer = <<m>>
      <4>1. 1 \in DOMAIN toServer /\ toServer[1] = m
        BY <3>1
      <4> QED
        BY <2>1, <4>1 DEF Waits
    <3>2. CASE toServer = <<x, m>>
      <4>1. 2 \in DOMAIN toServer /\ toServer[2] = m
        BY <3>2
      <4> QED
        BY <2>1, <4>1 DEF Waits
    <3> QED
      BY <2>2, <3>1, <3>2
  <2> QED
    BY <1>2, <2>2 DEF LineInv
<1> QED
  BY <1>1, <1>2

\* Before the working phase the request waits in its flag.
LEMMA NotYetWorking ==
  ASSUME RequestInv, LineInv, ~wasConnected
  PROVE  toServer = <<>> /\ UnderWay = {NoUpdate}
<1>1. IsAt("flag") /\ "flag" \in Places \ {"toServer", "toViewer", "received"}
      /\ "flag" \notin Senders
  BY Where DEF RequestInv, TypeInv, PhaseInv, WorkingInv, Places, Senders
<1> QED
  BY <1>1, NothingSent, NothingAnswered

\* The line is kept by a step that leaves it, the format and who follows.
LineStays ==
  /\ toServer' = toServer /\ frameBuffer'.format = frameBuffer.format
  /\ \A t \in Senders : FollowsAtOnce(t) => FollowsAtOnce(t)'

LEMMA LineStaysKept == ASSUME LineInv, LineStays PROVE LineInv'
BY DEF LineInv, LineStays

LEMMA AppendedToOne ==
  ASSUME NEW x, NEW m
  PROVE  Append(<<x>>, m) = <<x, m>>
<1> DEFINE S == {x, m}
<1>1. <<x>> \in Seq(S) /\ m \in S /\ Len(<<x>>) = 1
  OBVIOUS
<1>2. /\ Append(<<x>>, m) \in Seq(S) /\ Len(Append(<<x>>, m)) = 2
      /\ <<x, m>> \in Seq(S) /\ Len(<<x, m>>) = 2
  BY <1>1
<1>3. Append(<<x>>, m)[1] = x /\ Append(<<x>>, m)[2] = m
  BY <1>1
<1>4. \A i \in 1 .. 2 : Append(<<x>>, m)[i] = <<x, m>>[i]
  BY <1>3
<1> HIDE DEF S
<1> QED
  BY <1>2, <1>4, SeqEqual

LEMMA LineKept ==
  ASSUME RequestInv, LineInv, [Next]_vars
  PROVE  LineInv'
<1>0. /\ sending \in [Senders -> SenderStates] /\ frameBuffer \in PicturesOrNone
      /\ WorkingInv /\ BufferInv /\ ConnectionInv /\ TypeOK
  BY TypesInParts DEF RequestInv, TypeInv, PhaseInv, Parts, DataTypes
<1>1. CASE UNCHANGED <<toServer, frameBuffer, sending>>
  BY <1>1, LineStaysKept DEF LineStays, FollowsAtOnce
<1>2. CASE \/ QuietStep \/ UNCHANGED vars \/ Connect \/ ConnectFails \/ HandshakeFails
           \/ CheckTerminating \/ OnConnected \/ ReadFails \/ Establish \/ NotifyUpdate
           \/ NeedRequest \/ Freeze \/ RefreshFrameBuffer \/ TakeDeferred
           \/ RequesterEnds \/ ReceiveFbUpdate \/ ServerAnswers \/ ScreenResizes
  <2>1. CASE QuietStep \/ UNCHANGED vars
    BY <1>1, <2>1, QuietStepsAreQuiet DEF core, vars, requestVars, bufferVars, netVars
  <2>2. CASE \/ Connect \/ ConnectFails \/ HandshakeFails \/ CheckTerminating
             \/ OnConnected \/ ReadFails \/ Establish \/ NotifyUpdate \/ NeedRequest
    BY <1>1, <2>2 DEF Connect, ConnectFails, HandshakeFails, CheckTerminating,
       OnConnected, ReadFails, Establish, NotifyUpdate, NeedRequest, requestVars, bufferVars,
       netVars
  <2>3. CASE \/ Freeze \/ RefreshFrameBuffer \/ TakeDeferred \/ RequesterEnds
             \/ ReceiveFbUpdate \/ ServerAnswers \/ ScreenResizes
    BY <1>1, <2>3 DEF Freeze, RefreshFrameBuffer, TakeDeferred, RequesterEnds,
       ReceiveFbUpdate, ServerAnswers, ScreenResizes, requestVars, bufferVars,
       netVars
  <2> QED
    BY <1>2, <2>1, <2>2, <2>3
<1>3. CASE EnterWorkingPhase \/ RequestUnlessFrozen \/ Unfreeze
  <2>1. UNCHANGED <<toServer, frameBuffer>>
    BY <1>3 DEF EnterWorkingPhase, RequestUnlessFrozen, Unfreeze, bufferVars, netVars
  <2>2. \E t \in Senders, b \in BOOLEAN : (sending[t].at = "idle" /\ BeginSending(t, b))
          \/ UNCHANGED sending
    BY <1>0, <1>3 DEF EnterWorkingPhase, RequestUnlessFrozen, Unfreeze, Senders,
       WorkingInv, TypeOK
  <2>3. \A t \in Senders : sending[t].at # "idle" => sending'[t] = sending[t]
    BY <1>0, <2>2 DEF BeginSending
  <2> QED
    BY <2>1, <2>3, LineStaysKept DEF LineStays, FollowsAtOnce
<1>4. CASE ClientAndServerInit
  <2>1. toServer = <<>> /\ toServer' = toServer
    BY <1>0, <1>4, NotYetWorking DEF ClientAndServerInit, WorkingInv
  <2> QED
    BY <2>1 DEF LineInv
<1>5. CASE CopyRectangle \/ ChangeDesktopSize
  <2>1. frameBuffer'.format = frameBuffer.format
    BY <1>0, <1>5 DEF CopyRectangle, ChangeDesktopSize, SetFbProperties,
       PicturesOrNone, Pictures, NoPicture
  <2>2. UNCHANGED <<toServer, sending>>
    BY <1>5 DEF CopyRectangle, ChangeDesktopSize, requestVars, netVars
  <2> QED
    BY <2>1, <2>2, LineStaysKept DEF LineStays, FollowsAtOnce
<1>6. CASE Stop \/ BreakConnection
  <2>1. UNCHANGED <<frameBuffer, sending>> /\ (toServer' = toServer \/ toServer' = <<>>)
    BY <1>6 DEF Stop, BreakConnection, CloseConnection, bufferVars, requestVars, netVars
  <2> QED
    BY <1>1, <2>1 DEF LineInv
<1>7. CASE SendDeferred
  <2>1. toServer = <<>>
    <3>1. IsAt("requester") /\ "requester" \in Places \ {"toServer"}
          /\ "requester" \notin Senders
      BY <1>7, Where DEF SendDeferred, Places, Senders
    <3> QED
      BY <3>1, NothingSent
  <2>2. toServer' = <<Request(forceFull)>>
    BY <1>7, <2>1 DEF SendDeferred
  <2>3. Request(forceFull) \in Requests
    <3>1. forceFull \in BOOLEAN
      BY <1>0 DEF TypeOK
    <3> QED
      BY <3>1, Zenon DEF Requests
  <2> QED
    BY <2>2, <2>3 DEF LineInv
<1>8. CASE ServerReads
  <2>1. UNCHANGED <<frameBuffer, sending>> /\ toServer' = Tail(toServer) /\ toServer # <<>>
    BY <1>8 DEF ServerReads, bufferVars, requestVars
  <2>2. ASSUME NEW x, toServer = <<x>> PROVE LineInv'
    BY <2>1, <2>2 DEF LineInv
  <2>3. ASSUME NEW m \in Requests, NEW x, toServer = <<x, m>> PROVE LineInv'
    <3>1. toServer' = <<m>>
      BY <2>1, <2>3
    <3> QED
      BY <3>1 DEF LineInv
  <2> QED
    BY <2>1, <2>2, <2>3 DEF LineInv
<1>9. ASSUME NEW t \in Senders, SendingStep(t) PROVE LineInv'
  <2>1. CASE TakeRequest(t) \/ TakeRefresh(t)
    <3>1. /\ UNCHANGED <<frameBuffer, toServer>>
          /\ \A u \in Senders \ {t} : sending'[u] = sending[u]
      BY <1>0, <2>1 DEF TakeRequest, TakeRefresh, StepSender, FinishSending, bufferVars,
         netVars
    <3>2. FollowsAtOnce(t) => FollowsAtOnce(t)'
      <4>1. CASE TakeRequest(t)
        BY <4>1 DEF TakeRequest, FollowsAtOnce
      <4>2. CASE TakeRefresh(t)
        <5>1. sending'[t].at = "request" /\ sending'[t].now = (sending[t].now \/ isRefreshing)
          BY <1>0, <4>2 DEF TakeRefresh, SenderStates
        <5> QED
          BY <5>1 DEF FollowsAtOnce
      <4> QED
        BY <2>1, <4>1, <4>2
    <3>3. LineStays
      BY <3>1, <3>2 DEF LineStays, FollowsAtOnce
    <3> QED
      BY <3>3, LineStaysKept
  <2>2. CASE UpdatePixelFormat(t)
    <3>1. IsAt(t) /\ ~FollowsAtOnce(t) /\ toServer' = toServer
      BY <2>2, Where DEF UpdatePixelFormat, FollowsAtOnce, netVars
    <3>2. toServer = <<>>
      BY <3>1, AloneInLine
    <3> QED
      BY <3>1, <3>2 DEF LineInv
  <2>3. CASE SendPixelFormat(t)
    <3>1. IsAt(t) /\ ~FollowsAtOnce(t)
      BY <2>3, Where DEF SendPixelFormat, FollowsAtOnce
    <3>2. toServer = <<>>
      BY <3>1, AloneInLine
    <3>3. toServer' = <<SetFormat(frameBuffer.format)>> /\ UNCHANGED frameBuffer
      BY <2>3, <3>2 DEF SendPixelFormat, bufferVars
    <3>4. FollowsAtOnce(t)'
      BY <1>0, <2>3 DEF SendPixelFormat, FollowsAtOnce, SenderStates
    <3> QED
      BY <3>3, <3>4 DEF LineInv
  <2>4. CASE SendRequest(t)
    <3>1. IsAt(t)
      BY <2>4, Where DEF SendRequest
    <3>2. PICK m \in Requests : toServer' = Append(toServer, m)
      <4>1. (sending[t].full \/ sending[t].now) \in BOOLEAN
        OBVIOUS
      <4>2. Request(sending[t].full \/ sending[t].now) \in Requests
        BY <4>1, Zenon DEF Requests
      <4> QED
        BY <2>4, <4>2 DEF SendRequest
    <3>3. UNCHANGED frameBuffer
      BY <2>4 DEF SendRequest, bufferVars
    <3>4. CASE toServer = <<>>
      BY <3>2, <3>4 DEF LineInv
    <3>5. CASE toServer = <<SetFormat(frameBuffer.format)>>
      <4>1. toServer' = <<SetFormat(frameBuffer'.format), m>>
        BY <3>2, <3>3, <3>5, AppendedToOne
      <4> QED
        BY <4>1 DEF LineInv
    <3> QED
      BY <3>1, <3>4, <3>5, AloneInLine
  <2>5. CASE DeferRequest(t)
    <3>1. IsAt(t) /\ ~FollowsAtOnce(t) /\ toServer' = toServer
      BY <2>5, Where DEF DeferRequest, FollowsAtOnce, netVars
    <3>2. toServer = <<>>
      BY <3>1, AloneInLine
    <3> QED
      BY <3>1, <3>2 DEF LineInv
  <2>6. CASE SendingFails(t)
    BY <1>0, <2>6 DEF SendingFails, netVars, ConnectionInv, LineInv
  <2> QED
    BY <1>9, <2>1, <2>2, <2>3, <2>4, <2>5, <2>6 DEF SendingStep
<1> QED
  BY <1>2, <1>3, <1>4, <1>5, <1>6, <1>7, <1>8, <1>9
     DEF Next, ReceivingStep, RequesterStep, NotifierStep, OwnerCall, QuietStep

-----------------------------------------------------------------------------
(* Pixels fit the buffers. *)

Fits(m) == m.kind = "pixels" => /\ m.format = frameBuffer.format
                                /\ m.size = frameBuffer.size
SizeIsTold == \A m \in UnderWay : m.kind = "size" => m.size = server.told
ToldIsSize == (\A m \in UnderWay : m.kind # "size") => server.told = frameBuffer.size

FitInv == FormatsAgree /\ ServerInv

\* Steps that change nothing of it.
FitStays ==
  /\ UNCHANGED <<update, toViewer, toServer>>
  /\ frameBuffer'.size = frameBuffer.size /\ frameBuffer'.format = frameBuffer.format
  /\ frameBuffer' = NoPicture <=> frameBuffer = NoPicture
  /\ server'.told = server.told /\ server'.format = server.format
  /\ connection' = "open" => connection = "open" \/ frameBuffer = NoPicture
  /\ \A t \in Senders : sending'[t].at = "tell" <=> sending[t].at = "tell"

LEMMA FitStaysKept == ASSUME FitInv, FitStays PROVE FitInv'
<1>1. UnderWay' = UnderWay
  BY DEF UnderWay, FitStays
<1>2. FormatIsSettled' <=> FormatIsSettled
  BY DEF FormatIsSettled, FitStays
<1> QED
  BY <1>1, <1>2 DEF FitStays, FitInv, FormatsAgree, ServerInv

\* When nothing is under way, new buffers fit.
LEMMA NothingFits ==
  ASSUME UnderWay' = {NoUpdate},
         (connection = "open" /\ frameBuffer # NoPicture)' =>
            /\ server'.told = frameBuffer'.size
            /\ FormatIsSettled' => server'.format = frameBuffer'.format
  PROVE  FitInv'
<1>1. \A m \in UnderWay' : m.kind = "none"
  BY DEF NoUpdate
<1>2. FormatsAgree'
  BY <1>1 DEF FormatsAgree
<1> QED
  BY <1>1, <1>2 DEF FitInv, ServerInv

LEMMA FitKept ==
  ASSUME RequestInv, LineInv, FitInv, [Next]_vars
  PROVE  FitInv'
<1>0. /\ sending \in [Senders -> SenderStates] /\ frameBuffer \in PicturesOrNone
      /\ toServer \in Seq(ToServer) /\ toViewer \in Seq(Updates) /\ server \in Servers
      /\ WorkingInv /\ BufferInv /\ ConnectionInv /\ UpdateInv /\ TypeOK /\ OneInLine
  BY TypesInParts DEF RequestInv, TypeInv, PhaseInv, Parts, DataTypes,
     OneRequestAtATime, OneInLine
<1>1. CASE UNCHANGED <<update, toViewer, toServer, frameBuffer, server, connection,
                       sending>>
  BY <1>1, FitStaysKept DEF FitStays
<1>2. CASE \/ QuietStep \/ UNCHANGED vars \/ ConnectFails \/ HandshakeFails
           \/ CheckTerminating \/ OnConnected \/ ReadFails \/ Establish
           \/ NeedRequest \/ Freeze \/ RefreshFrameBuffer \/ TakeDeferred
           \/ RequesterEnds
  <2>1. CASE QuietStep \/ UNCHANGED vars
    BY <1>1, <2>1, QuietStepsAreQuiet DEF core, vars, requestVars, bufferVars, netVars
  <2>2. CASE \/ ConnectFails \/ HandshakeFails \/ CheckTerminating
             \/ OnConnected \/ ReadFails \/ Establish \/ NeedRequest
    BY <1>1, <2>2 DEF ConnectFails, HandshakeFails, CheckTerminating,
       OnConnected, ReadFails, Establish, NeedRequest, requestVars, bufferVars, netVars
  <2>3. CASE \/ Freeze \/ RefreshFrameBuffer \/ TakeDeferred \/ RequesterEnds
    BY <1>1, <2>3 DEF Freeze, RefreshFrameBuffer, TakeDeferred, RequesterEnds,
       requestVars, bufferVars, netVars
  <2> QED
    BY <1>2, <2>1, <2>2, <2>3
<1>3. CASE EnterWorkingPhase \/ RequestUnlessFrozen \/ Unfreeze
  <2>1. UNCHANGED <<update, toViewer, toServer, frameBuffer, server, connection>>
    BY <1>3 DEF EnterWorkingPhase, RequestUnlessFrozen, Unfreeze, bufferVars, netVars
  <2>2. \E t \in Senders, b \in BOOLEAN : (sending[t].at = "idle" /\ BeginSending(t, b))
          \/ UNCHANGED sending
    BY <1>0, <1>3 DEF EnterWorkingPhase, RequestUnlessFrozen, Unfreeze, Senders,
       WorkingInv, TypeOK
  <2>3. \A t \in Senders : sending'[t].at = "tell" <=> sending[t].at = "tell"
    BY <1>0, <2>2 DEF BeginSending
  <2> QED
    BY <2>1, <2>3, FitStaysKept DEF FitStays
<1>4. CASE Connect \/ ScreenResizes \/ CopyRectangle
  <2>1. CASE Connect
    BY <1>0, <2>1, FitStaysKept DEF Connect, FitStays, requestVars, bufferVars, BufferInv
  <2>2. CASE ScreenResizes
    <3>1. server'.told = server.told /\ server'.format = server.format
      BY <1>0, <2>2 DEF ScreenResizes, Servers
    <3> QED
      BY <2>2, <3>1, FitStaysKept DEF ScreenResizes, FitStays, requestVars, bufferVars
  <2>3. CASE CopyRectangle
    <3>1. frameBuffer # NoPicture
      BY <1>0, <2>3 DEF CopyRectangle, WorkingInv, BufferInv
    <3>2. frameBuffer'.size = frameBuffer.size /\ frameBuffer'.format = frameBuffer.format
      BY <1>0, <2>3, <3>1 DEF CopyRectangle, PicturesOrNone, Pictures
    <3>3. frameBuffer' # NoPicture
      BY <1>0, <2>3, BufferKept, TypesInParts DEF RequestInv, TypeInv, BufferInv,
         CopyRectangle, WorkingInv, Next, ReceivingStep
    <3>4. UNCHANGED <<update, toViewer, toServer, server, connection, sending>>
      BY <2>3 DEF CopyRectangle, requestVars, netVars
    <3> QED
      BY <3>1, <3>2, <3>3, <3>4, FitStaysKept DEF FitStays
  <2> QED
    BY <1>4, <2>1, <2>2, <2>3
<1>5. CASE Stop \/ BreakConnection
  <2>1. UNCHANGED <<frameBuffer, sending, update>>
    BY <1>5 DEF Stop, BreakConnection, bufferVars, requestVars
  <2>2. CASE UNCHANGED netVars
    BY <1>1, <2>1, <2>2 DEF netVars
  <2>3. CASE CloseConnection
    <3>1. connection' = "closed" /\ toViewer' = <<>>
      BY <2>3 DEF CloseConnection
    <3>2. DOMAIN toViewer' = {}
      BY <3>1
    <3>3. \A m \in UnderWay' : m \in UnderWay
      BY <2>1, <3>2 DEF UnderWay
    <3> QED
      BY <2>1, <3>1, <3>3 DEF FitInv, FormatsAgree, ServerInv
  <2> QED
    BY <1>5, <2>2, <2>3 DEF Stop, BreakConnection
<1>6. CASE ClientAndServerInit
  <2>1. UnderWay = {NoUpdate} /\ UNCHANGED <<update, toViewer>>
    BY <1>0, <1>6, NotYetWorking DEF ClientAndServerInit, WorkingInv
  <2>2. UnderWay' = {NoUpdate}
    BY <2>1 DEF UnderWay
  <2>3. server'.told = frameBuffer'.size /\ server'.format = frameBuffer'.format
    BY <1>0, <1>6 DEF ClientAndServerInit, SetFbProperties, Servers
  <2> QED
    BY <2>2, <2>3, NothingFits
<1>7. CASE ReceiveFbUpdate
  <2>1. /\ UNCHANGED <<frameBuffer, sending, toServer, connection, server>>
        /\ update = NoUpdate /\ update' = Head(toViewer) /\ toViewer # <<>>
        /\ toViewer' = Tail(toViewer)
    BY <1>0, <1>7 DEF ReceiveFbUpdate, bufferVars, requestVars, UpdateInv
  <2>2. toViewer' = <<>> /\ 1 \in DOMAIN toViewer /\ Head(toViewer) = toViewer[1]
    BY <1>0, <2>1 DEF OneInLine
  <2>3. DOMAIN toViewer' = {} /\ \A i \in DOMAIN toViewer : i = 1
    BY <1>0, <2>1, <2>2 DEF OneInLine
  <2>4. UnderWay' = {toViewer[1]} /\ UnderWay = {NoUpdate, toViewer[1]}
    BY <2>1, <2>2, <2>3 DEF UnderWay
  <2>5. FormatIsSettled' <=> FormatIsSettled
    BY <2>1 DEF FormatIsSettled
  <2>6. NoUpdate.kind = "none"
    BY DEF NoUpdate
  <2> QED
    BY <2>1, <2>4, <2>5, <2>6 DEF FitInv, FormatsAgree, ServerInv
<1>8. CASE NotifyUpdate
  <2>1. /\ UNCHANGED <<frameBuffer, sending, toServer, toViewer, connection, server>>
        /\ update.kind = "pixels" /\ update' = NoUpdate
    BY <1>0, <1>8 DEF NotifyUpdate, bufferVars, requestVars, netVars, UpdateInv
  <2>2. NoUpdate.kind = "none"
    BY DEF NoUpdate
  <2>3. \A m : (m \in UnderWay' => m \in UnderWay \/ m.kind = "none")
               /\ (m \in UnderWay => m \in UnderWay' \/ m.kind = "pixels")
    BY <2>1, <2>2 DEF UnderWay
  <2>4. FormatIsSettled' <=> FormatIsSettled
    BY <2>1 DEF FormatIsSettled
  <2>5. FormatsAgree'
    BY <2>1, <2>3 DEF FitInv, FormatsAgree
  <2>6. ServerInv'
    BY <2>1, <2>3, <2>4 DEF FitInv, ServerInv
  <2> QED
    BY <2>5, <2>6 DEF FitInv
<1>9. CASE ChangeDesktopSize
  <2>1. /\ UNCHANGED <<sending, toServer, toViewer, connection, server>>
        /\ update.kind = "size" /\ update' = NoUpdate /\ wasConnected
        /\ frameBuffer' = [size |-> update.size, format |-> frameBuffer.format,
                           pixels |-> "black"]
    BY <1>0, <1>9 DEF ChangeDesktopSize, SetFbProperties, requestVars, netVars, WorkingInv
  <2>2. DOMAIN toViewer = {}
    <3>1. IsAt("received") /\ ~IsAt("toViewer")
      BY <1>9, Where DEF ChangeDesktopSize, RequestInv, OneRequestAtATime, Places
    <3> QED
      BY <3>1, Where
  <2>3. UnderWay' = {NoUpdate}
    BY <2>1, <2>2 DEF UnderWay
  <2>4. update \in UnderWay /\ frameBuffer # NoPicture
    BY <1>0, <2>1 DEF UnderWay, BufferInv
  <2>5. connection = "open" => update.size = server.told
    BY <2>1, <2>4 DEF FitInv, ServerInv
  <2>6. FormatIsSettled' <=> FormatIsSettled
    BY <2>1 DEF FormatIsSettled
  <2> QED
    BY <2>1, <2>3, <2>4, <2>5, <2>6, NothingFits DEF FitInv, ServerInv
<1>10. CASE SendDeferred
  <2>1. UNCHANGED <<update, toViewer, frameBuffer, server, connection, sending>>
        /\ toServer' = Append(toServer, Request(forceFull))
    BY <1>10 DEF SendDeferred, bufferVars, requestVars
  <2>2. Request(forceFull) \in ToServer
    <3>1. forceFull \in BOOLEAN
      BY <1>0 DEF TypeOK
    <3> QED
      BY <3>1, Zenon DEF Requests, ToServer
  <2>3. FormatIsSettled' => FormatIsSettled
    BY <1>0, <2>1, <2>2, Appended DEF FormatIsSettled
  <2>4. UnderWay' = UnderWay
    BY <2>1 DEF UnderWay
  <2> QED
    BY <2>1, <2>3, <2>4 DEF FitInv, FormatsAgree, ServerInv
<1>11. CASE ServerReads
  <2>1. /\ UNCHANGED <<update, toViewer, frameBuffer, connection, sending>>
        /\ toServer' = Tail(toServer) /\ toServer # <<>>
        /\ server'.told = server.told
    BY <1>0, <1>11 DEF ServerReads, bufferVars, requestVars, Servers
  <2>2. UnderWay' = UnderWay
    BY <2>1 DEF UnderWay
  <2>3. CASE Head(toServer) \in Requests
    <3>1. server'.format = server.format
      BY <1>0, <1>11, <2>3 DEF ServerReads, Servers, Requests, Request
    <3>2. FormatIsSettled' => FormatIsSettled
      <4>1. ASSUME FormatIsSettled', NEW i \in DOMAIN toServer
            PROVE  toServer[i] \in Requests
        <5>1. CASE i = 1
          BY <1>0, <2>1, <2>3, <5>1, HeadAndTail
        <5>2. CASE i # 1
          BY <1>0, <2>1, <4>1, <5>2, HeadAndTail DEF FormatIsSettled
        <5> QED
          BY <5>1, <5>2
      <4> QED
        BY <2>1, <4>1 DEF FormatIsSettled
    <3> QED
      BY <2>1, <2>2, <3>1, <3>2 DEF FitInv, FormatsAgree, ServerInv
  <2>4. CASE Head(toServer) \notin Requests
    <3>1. Head(toServer) = SetFormat(frameBuffer.format)
      <4>1. ASSUME NEW x, NEW y PROVE Head(<<x>>) = x /\ Head(<<x, y>>) = x
        OBVIOUS
      <4> QED
        BY <2>1, <2>4, <4>1 DEF LineInv
    <3>2. server'.format = frameBuffer.format
      BY <1>0, <1>11, <3>1 DEF ServerReads, SetFormat, Servers
    <3> QED
      BY <2>1, <2>2, <3>2 DEF FitInv, FormatsAgree, ServerInv
  <2> QED
    BY <2>3, <2>4
<1>12. CASE ServerAnswers
  <2>1. /\ UNCHANGED <<update, toServer, frameBuffer, connection, sending>>
        /\ connection = "open" /\ server'.told = server.size
        /\ server'.format = server.format /\ server'.size = server.size
    BY <1>0, <1>12 DEF ServerAnswers, bufferVars, requestVars, Servers
  <2>2. IsAt("server") /\ "server" \in Places \ {"toServer", "toViewer", "received"}
        /\ "server" \notin Senders
    BY <1>12, Where DEF ServerAnswers, Places, Senders
  <2>3. toServer = <<>> /\ toViewer = <<>> /\ UnderWay = {NoUpdate} /\ update = NoUpdate
    BY <2>2, NothingSent, NothingAnswered
  <2>4. FormatIsSettled
    <3>1. ASSUME NEW t \in Senders PROVE sending[t].at # "tell"
      <4>1. ~IsAt(t)
        BY <2>2 DEF RequestInv, OneRequestAtATime, Places, Senders
      <4> QED
        BY <4>1, Where
    <3>2. DOMAIN toServer = {}
      BY <2>3
    <3> QED
      BY <3>1, <3>2 DEF FormatIsSettled
  <2>5. frameBuffer # NoPicture
    <3>1. ~IsAt("flag")
      BY <2>2 DEF RequestInv, OneRequestAtATime, Places
    <3> QED
      BY <1>0, <3>1, Where DEF WorkingInv, BufferInv
  <2>6. server.told = frameBuffer.size /\ server.format = frameBuffer.format
    BY <2>1, <2>3, <2>4, <2>5 DEF FitInv, ServerInv, NoUpdate
  <2>7. PICK m : /\ toViewer' = Append(toViewer, m)
                 /\ m = IF server.size # server.told THEN Resize(server.size)
                        ELSE Pixels(server.size, server.format, server.asked = "all")
    BY <1>12 DEF ServerAnswers
  <2>8. UnderWay' = {NoUpdate, m}
    <3>1. toViewer' = <<m>>
      BY <2>3, <2>7
    <3>2. DOMAIN toViewer' = {1} /\ toViewer'[1] = m
      BY <3>1
    <3> QED
      BY <2>1, <2>3, <3>2 DEF UnderWay
  <2>9. CASE server.size # server.told
    <3>1. m.kind = "size" /\ m.size = server.size
      BY <2>7, <2>9 DEF Resize
    <3>2. FormatIsSettled' => server'.format = frameBuffer'.format
      BY <2>1, <2>6
    <3> QED
      BY <2>1, <2>8, <3>1, <3>2 DEF FitInv, FormatsAgree, ServerInv, NoUpdate
  <2>10. CASE server.size = server.told
    <3>1. m.kind = "pixels" /\ m.size = server.size /\ m.format = server.format
      BY <2>7, <2>10 DEF Pixels
    <3> QED
      BY <2>1, <2>6, <2>8, <2>10, <3>1 DEF FitInv, FormatsAgree, ServerInv, NoUpdate
  <2> QED
    BY <2>9, <2>10
<1>13. ASSUME NEW t \in Senders, SendingStep(t) PROVE FitInv'
  <2>1. CASE TakeRequest(t) \/ TakeRefresh(t) \/ DeferRequest(t)
    <3>1. UNCHANGED <<update, toViewer, toServer, frameBuffer, server, connection>>
      BY <2>1 DEF TakeRequest, TakeRefresh, DeferRequest, bufferVars, netVars
    <3>2. \A u \in Senders \ {t} : sending'[u] = sending[u]
      BY <1>0, <2>1 DEF TakeRequest, TakeRefresh, DeferRequest, StepSender, FinishSending
    <3>3. sending[t].at # "tell" /\ sending'[t].at # "tell"
      <4>1. CASE TakeRequest(t)
        <5>1. sending'[t].at = "format" \/ sending'[t] = Quiet
          BY <1>0, <4>1 DEF TakeRequest, StepSender, FinishSending, SenderStates
        <5> QED
          BY <4>1, <5>1 DEF TakeRequest, Quiet
      <4>2. CASE TakeRefresh(t)
        BY <1>0, <4>2 DEF TakeRefresh, SenderStates
      <4>3. CASE DeferRequest(t)
        BY <1>0, <4>3 DEF DeferRequest, FinishSending, Quiet
      <4> QED
        BY <2>1, <4>1, <4>2, <4>3
    <3> QED
      BY <3>1, <3>2, <3>3, FitStaysKept DEF FitStays
  <2>2. CASE UpdatePixelFormat(t)
    <3>1. IsAt(t) /\ t \in Places \ {"toViewer", "received"}
      BY <2>2, Where DEF UpdatePixelFormat, Senders, Places
    <3>2. UnderWay = {NoUpdate} /\ UNCHANGED <<update, toViewer, toServer, server, connection>>
      BY <2>2, <3>1, NothingAnswered DEF UpdatePixelFormat, netVars
    <3>3. UnderWay' = {NoUpdate}
      BY <3>2 DEF UnderWay
    <3>4. frameBuffer # NoPicture
      BY <1>0, <2>2 DEF UpdatePixelFormat, WorkingInv, BufferInv
    <3>5. connection = "open" => server.told = frameBuffer.size
      BY <3>2, <3>4 DEF FitInv, ServerInv, NoUpdate
    <3>6. CASE newFormat \in Formats \ {frameBuffer.format}
      <4>1. frameBuffer'.size = frameBuffer.size
        BY <2>2, <3>6 DEF UpdatePixelFormat, SetFbProperties
      <4>2. ~FormatIsSettled'
        <5>1. sending'[t].at = "tell"
          BY <1>0, <2>2, <3>6 DEF UpdatePixelFormat, StepSender, SenderStates
        <5> QED
          BY <5>1 DEF FormatIsSettled
      <4> QED
        BY <3>2, <3>3, <3>5, <4>1, <4>2, NothingFits
    <3>7. CASE newFormat \notin Formats \ {frameBuffer.format}
      <4>1. UNCHANGED frameBuffer
            /\ sending' = [sending EXCEPT ![t].at = "refresh"]
        BY <2>2, <3>7 DEF UpdatePixelFormat, StepSender, bufferVars
      <4>2. sending[t].at = "format" /\ sending'[t].at = "refresh"
            /\ \A u \in Senders \ {t} : sending'[u] = sending[u]
        BY <1>0, <2>2, <4>1 DEF UpdatePixelFormat, SenderStates
      <4> QED
        BY <3>2, <4>1, <4>2, FitStaysKept DEF FitStays
    <3> QED
      BY <3>6, <3>7
  <2>3. CASE SendPixelFormat(t)
    <3>1. /\ UNCHANGED <<update, toViewer, frameBuffer, server, connection>>
          /\ toServer' = Append(toServer, SetFormat(frameBuffer.format))
      BY <2>3 DEF SendPixelFormat, bufferVars
    <3>2. frameBuffer.format \in Formats
      BY <1>0, <2>3 DEF SendPixelFormat, WorkingInv, BufferInv, PicturesOrNone, Pictures
    <3>3. SetFormat(frameBuffer.format) \in ToServer \ Requests
      BY <3>2, FormatsAreNoRequests, Zenon DEF ToServer
    <3>4. ~FormatIsSettled'
      BY <1>0, <3>1, <3>3, Appended DEF FormatIsSettled
    <3>5. UnderWay' = UnderWay
      BY <3>1 DEF UnderWay
    <3> QED
      BY <3>1, <3>4, <3>5 DEF FitInv, FormatsAgree, ServerInv
  <2>4. CASE SendRequest(t)
    <3>1. /\ UNCHANGED <<update, toViewer, frameBuffer, server, connection>>
          /\ toServer' = Append(toServer, Request(sending[t].full \/ sending[t].now))
          /\ sending[t].at = "request"
      BY <2>4 DEF SendRequest, bufferVars
    <3>2. \A u \in Senders \ {t} : sending'[u] = sending[u]
      BY <1>0, <2>4 DEF SendRequest, FinishSending
    <3>3. Request(sending[t].full \/ sending[t].now) \in ToServer
      <4>1. (sending[t].full \/ sending[t].now) \in BOOLEAN
        OBVIOUS
      <4> QED
        BY <4>1, Zenon DEF Requests, ToServer
    <3>4. FormatIsSettled' => FormatIsSettled
      BY <1>0, <3>1, <3>2, <3>3, Appended DEF FormatIsSettled
    <3>5. UnderWay' = UnderWay
      BY <3>1 DEF UnderWay
    <3> QED
      BY <3>1, <3>4, <3>5 DEF FitInv, FormatsAgree, ServerInv
  <2>5. CASE SendingFails(t)
    <3>1. UNCHANGED <<update, toViewer, frameBuffer, connection>> /\ connection = "closed"
      BY <2>5 DEF SendingFails, bufferVars, netVars
    <3>2. UnderWay' = UnderWay
      BY <3>1 DEF UnderWay
    <3> QED
      BY <3>1, <3>2 DEF FitInv, FormatsAgree, ServerInv
  <2> QED
    BY <1>13, <2>1, <2>2, <2>3, <2>4, <2>5 DEF SendingStep
<1> QED
  BY <1>2, <1>3, <1>4, <1>5, <1>6, <1>7, <1>8, <1>9, <1>10, <1>11, <1>12, <1>13
     DEF Next, ReceivingStep, RequesterStep, NotifierStep, OwnerCall, QuietStep

IInv == RequestInv /\ LineInv /\ FitInv

LEMMA FitInitially == Init => LineInv /\ FitInv
<1> SUFFICES ASSUME Init PROVE LineInv /\ FitInv
  OBVIOUS
<1>1. toServer = <<>> /\ UnderWay = {NoUpdate}
  <2>1. update = NoUpdate /\ toServer = <<>> /\ DOMAIN toViewer = {}
    BY DEF Init
  <2> QED
    BY <2>1 DEF UnderWay
<1>2. connection = "none"
  BY DEF Init
<1> QED
  BY <1>1, <1>2 DEF LineInv, FitInv, FormatsAgree, ServerInv, NoUpdate

\* An update is decoded in the format it was encoded in, into buffers of the
\* size it was made for, though formats and buffers are replaced by whichever
\* thread sends a request (RemoteViewerCore::updatePixelFormat, setFbProperties,
\* receiveFbUpdateRectangle).
THEOREM PixelsFit == Spec => []FormatsAgree
<1>1. IInv /\ [Next]_vars => IInv'
  BY RequestStep, LineKept, FitKept DEF IInv
<1>2. Init => IInv
  BY RequestInitially, FitInitially DEF IInv
<1>3. IInv => FormatsAgree
  BY DEF IInv, FitInv
<1> QED
  BY <1>1, <1>2, <1>3, PTL DEF Spec

=============================================================================
