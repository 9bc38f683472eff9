---------------------------- MODULE ScreenUpdates ----------------------------
(***************************************************************************)
(* The way of a screen update from the screen to the viewers: the Poller   *)
(* and the other detectors, the UpdateHandlerImpl with its keeper and its  *)
(* backup frame buffer, the desktop thread (DesktopBaseImpl::sendUpdate),  *)
(* and for every client its UpdateKeeper, its UpdateSender's thread, and   *)
(* the client's own thread that reads FramebufferUpdateRequest messages.   *)
(*                                                                         *)
(* The pixels of a tile are a number: every drawing gives the tiles drawn  *)
(* a number never used before.  A resize changes the format of the screen, *)
(* not the number of its tiles.                                            *)
(***************************************************************************)
EXTENDS UpdateContainers, FiniteSets

CONSTANTS
  Clients,
  NoClient,
  CopyRectClients,     \* those whose viewer supports CopyRect
  DesktopSizeClients,  \* those whose viewer supports DesktopSize
  JpegClients,         \* those whose viewer lets its pictures lose quality
  BreakingClients,     \* those whose connection may break
  InitialPixel,        \* what the screen shows when the server starts
  Displacements,       \* by how much windows move
  Regions,             \* the regions a viewer may request
  Kinds,               \* whether it requests incrementally, in full, or both
  MaxOutstanding,      \* how many requests a viewer lets go unanswered
  MaxDrawings,         \* how often the screen changes
  MaxResizes,          \* how often its format does
  MaxCursorMoves,      \* how often the cursor does
  MaxGrabFailures      \* how often it cannot be grabbed, or a new format applied

ASSUME UpdatesAssumption ==
  /\ NoClient \notin Clients
  /\ CopyRectClients \subseteq Clients /\ DesktopSizeClients \subseteq Clients
  /\ JpegClients \subseteq Clients /\ BreakingClients \subseteq Clients
  /\ Regions \subseteq SUBSET Tiles /\ {} \notin Regions
  /\ Displacements \subseteq (-NumTiles..NumTiles) \ {0}
  /\ InitialPixel \in {0, 1} /\ Kinds \subseteq BOOLEAN
  /\ MaxOutstanding \in Nat /\ MaxDrawings \in Nat
  /\ MaxResizes \in Nat /\ MaxCursorMoves \in Nat /\ MaxGrabFailures \in Nat

VARIABLES
  screen,        \* the pixels on the screen
  screenFormat,  \* the screen's properties, by how often they have changed
  moved,         \* the window movement getCopiedRegion will report
  drawings,      \* how often the screen has changed
  cursorMoves,   \* how often the cursor has moved
  grabFailures,  \* how often grabbing, or applying a new format, has failed
  keeper,        \* the handler's m_updateKeeper
  detected,      \* a detector is about to call onUpdate
  backup,        \* m_backupFrameBuffer
  format,        \* the backup frame buffer's properties
  absolute,      \* m_absoluteRect is not empty
  event,         \* m_newUpdateEvent of the desktop
  fullReqRegion, \* m_fullReqRegion of the desktop
  dpc,           \* where the desktop thread is
  update,        \* updCont in DesktopBaseImpl::sendUpdate
  toVisit,       \* the clients the walk has not come to yet
  giving,        \* the client whose newUpdates() runs
  ready,         \* isReady in isReadyToSend
  kept,          \* each client's m_updateKeeper
  reqIncr,       \* m_requestedIncrReg
  reqFull,       \* m_requestedFullReg
  incrUpdIsReq, fullUpdIsReq, busy,
  newUpdates,    \* m_newUpdatesEvent
  spc,           \* where the sender thread is
  taken,         \* the requests that sendUpdate has extracted
  cont,          \* updCont in UpdateSender::sendUpdate
  fb,            \* the sender's m_frameBuffer
  fbFormat,      \* its properties
  rpc,           \* where the client's reading thread is
  asking,        \* the request it is dealing with
  credit,        \* requests sent by the viewer less updates received
  viewer         \* the pixels the viewer shows

screenVars  == <<screen, screenFormat, moved, drawings, cursorMoves, grabFailures>>
handlerVars == <<keeper, detected, backup, format, absolute>>
desktopVars == <<event, fullReqRegion, dpc, update, toVisit, giving, ready>>
requestVars == <<reqIncr, reqFull, incrUpdIsReq, fullUpdIsReq>>
senderVars  == <<busy, newUpdates, spc, taken, cont, fb, fbFormat>>
readerVars  == <<rpc, asking>>
viewerVars  == <<credit, viewer>>
vars == <<screenVars, handlerVars, desktopVars, kept, requestVars, senderVars,
          readerVars, viewerVars>>

Blank == 0
PixelValues == 0..(MaxDrawings + MaxResizes + 1)
NoFormat == -1
NoMove == [rect |-> {}, delta |-> 0]

SenderLocations ==
  {"wait", "take", "extract", "refresh", "prepare", "flush", "finish", "dead"}
DesktopLocations ==
  {"wait", "ask", "extract", "filter", "decide", "send", "notify"}

NoRequest ==
  [incr |-> {}, full |-> {}, incrIsReq |-> FALSE, fullIsReq |-> FALSE]
NothingAsked == [region |-> {}, incremental |-> TRUE, combined |-> {}]

\* The handler's constructor takes the whole screen for changed and says so.
Init ==
  /\ screen = [t \in Tiles |-> InitialPixel] /\ screenFormat = 0
  /\ moved = NoMove /\ drawings = 0 /\ cursorMoves = 0
  /\ grabFailures = 0
  /\ keeper = [EmptyContainer EXCEPT !.changed = Tiles]
  /\ detected = FALSE
  /\ backup = [t \in Tiles |-> Blank] /\ format = 0 /\ absolute = TRUE
  /\ event = TRUE /\ fullReqRegion = {}
  /\ dpc = "wait" /\ update = EmptyContainer
  /\ toVisit = {} /\ giving = NoClient /\ ready = FALSE
  /\ kept = [c \in Clients |-> EmptyContainer]
  /\ reqIncr = [c \in Clients |-> {}] /\ reqFull = [c \in Clients |-> {}]
  /\ incrUpdIsReq = [c \in Clients |-> FALSE]
  /\ fullUpdIsReq = [c \in Clients |-> FALSE]
  /\ busy = [c \in Clients |-> FALSE] /\ newUpdates = [c \in Clients |-> FALSE]
  /\ spc = [c \in Clients |-> "wait"]
  /\ taken = [c \in Clients |-> NoRequest]
  /\ cont = [c \in Clients |-> EmptyContainer]
  /\ fb = [c \in Clients |-> [t \in Tiles |-> Blank]]
  /\ fbFormat = [c \in Clients |-> NoFormat]
  /\ rpc = [c \in Clients |-> "idle"]
  /\ asking = [c \in Clients |-> NothingAsked]
  /\ credit = [c \in Clients |-> 0]
  /\ viewer = [c \in Clients |-> [t \in Tiles |-> Blank]]

Set(f, c, v) == [f EXCEPT ![c] = v]

-----------------------------------------------------------------------------
(* The screen and the detectors                                            *)

NewPixel == drawings + screenFormat + 2

Draw(t) ==
  /\ drawings < MaxDrawings /\ drawings' = drawings + 1
  /\ screen' = [screen EXCEPT ![t] = NewPixel]
  /\ UNCHANGED <<screenFormat, moved, cursorMoves, grabFailures, handlerVars,
                 desktopVars, kept, requestVars, senderVars, readerVars, viewerVars>>

\* A window moves by d: what it uncovers is drawn anew, and what it brings from
\* outside the screen.  CopyRectDetector sees one movement between two extractions.
MoveWindow(window, d) ==
  /\ drawings < MaxDrawings /\ drawings' = drawings + 1
  /\ moved = NoMove
  /\ moved' = [rect |-> Translate(window, d), delta |-> d]
  /\ screen' = PaintPixels(CopyPixels(screen, moved'.rect, d),
                           (window \ moved'.rect) \union
                             {t \in moved'.rect : t - d \notin Tiles},
                           [t \in Tiles |-> NewPixel])
  /\ UNCHANGED <<screenFormat, cursorMoves, grabFailures, handlerVars, desktopVars,
                 kept, requestVars, senderVars, readerVars, viewerVars>>

ResizeScreen ==
  /\ screenFormat < MaxResizes /\ screenFormat' = screenFormat + 1
  /\ screen' = [t \in Tiles |-> NewPixel]
  /\ UNCHANGED <<moved, drawings, cursorMoves, grabFailures, handlerVars,
                 desktopVars, kept, requestVars, senderVars, readerVars, viewerVars>>

Differing == {t \in Tiles : screen[t] # backup[t]}

\* A mistake: what the keeper holds already is not reported again.
PollNewlyChanged ==
  /\ ~detected
  /\ screenFormat = format /\ ~(Differing \subseteq keeper.changed)
  /\ keeper' = AddChangedRegion(keeper, Differing)
  /\ detected' = TRUE
  /\ UNCHANGED <<screenVars, backup, format, absolute, desktopVars, kept,
                 requestVars, senderVars, readerVars, viewerVars>>

\* One turn of the Poller: it compares the screen with the backup frame buffer
\* under the buffer's mutex.
Poll ==
  /\ ~detected
  /\ IF screenFormat # format
       THEN /\ keeper' = [keeper EXCEPT !.size = TRUE]
            /\ UNCHANGED detected
       ELSE /\ Differing # {}
            /\ keeper' = AddChangedRegion(keeper, Differing)
            /\ detected' = TRUE
  /\ UNCHANGED <<screenVars, backup, format, absolute, desktopVars, kept,
                 requestVars, senderVars, readerVars, viewerVars>>

\* CursorPositionDetector and CursorShapeDetector.
DetectCursor ==
  /\ ~detected
  /\ cursorMoves < MaxCursorMoves /\ cursorMoves' = cursorMoves + 1
  /\ keeper' = [keeper EXCEPT !.cursor = TRUE]
  /\ detected' = TRUE
  /\ UNCHANGED <<screen, screenFormat, moved, drawings, grabFailures, backup, format,
                 absolute, desktopVars, kept, requestVars, senderVars,
                 readerVars, viewerVars>>

\* doUpdate(): the handler passes it on if its keeper is not empty (by now the
\* desktop thread may have extracted it).
OnUpdate ==
  /\ detected /\ detected' = FALSE
  /\ event' = (event \/ ~IsEmpty(keeper))
  /\ UNCHANGED <<screenVars, keeper, backup, format, absolute, fullReqRegion,
                 dpc, update, toVisit, giving, ready, kept, requestVars,
                 senderVars, readerVars, viewerVars>>

-----------------------------------------------------------------------------
(* The desktop thread                                                      *)

DGoto(from, to) == dpc = from /\ dpc' = to

WakeDesktop ==
  /\ event /\ event' = FALSE
  /\ DGoto("wait", "ask")
  /\ toVisit' = Clients /\ ready' = FALSE
  /\ UNCHANGED <<screenVars, handlerVars, fullReqRegion, update, giving, kept,
                 requestVars, senderVars, readerVars, viewerVars>>

ClientIsReady(c) == (incrUpdIsReq[c] \/ fullUpdIsReq[c]) /\ ~busy[c]

\* isReadyToSend: each client answers under its own mutex.
AskClient(c) ==
  /\ dpc = "ask" /\ c \in toVisit
  /\ toVisit' = toVisit \ {c}
  /\ ready' = (ready \/ ClientIsReady(c))
  /\ UNCHANGED <<screenVars, handlerVars, event, fullReqRegion, dpc, update,
                 giving, kept, requestVars, senderVars, readerVars, viewerVars>>

IsReadyToSend ==
  /\ toVisit = {}
  /\ DGoto("ask", IF ready THEN "extract" ELSE "wait")
  /\ ready' = FALSE
  /\ UNCHANGED <<screenVars, handlerVars, event, fullReqRegion, update, toVisit,
                 giving, kept, requestVars, senderVars, readerVars,
                 viewerVars>>

\* setFullUpdateRequested() for what is requested by now (read without
\* m_reqRegMutex), then the handler's extract() up to the filter.
ExtractFromHandler ==
  /\ DGoto("extract", "filter")
  /\ update' = AddCopyRect(AddChangedRegion(keeper, fullReqRegion),
                           moved.rect, moved.delta)
  /\ moved' = NoMove
  /\ keeper' = EmptyContainer
  /\ UNCHANGED <<screen, screenFormat, drawings, cursorMoves, grabFailures, detected,
                 backup, format, absolute, event, fullReqRegion, toVisit, giving, ready,
                 kept, requestVars, senderVars, readerVars, viewerVars>>

\* UpdateFilter::filter: the copy is reproduced in the backup buffer, the screen
\* is grabbed, and what really differs becomes the changed region.  After an
\* exception of the grabber the container stays as it is.
FilterUpdates ==
  /\ screenFormat = format
  /\ DGoto("filter", "decide")
  /\ LET moves   == CopyPixels(backup, update.copied, update.delta)
         differs == {t \in update.changed \union update.copied :
                       moves[t] # screen[t]}
     IN \/ /\ backup' = PaintPixels(moves, differs, screen)
           /\ update' = [update EXCEPT !.changed = IF absolute THEN Tiles ELSE differs]
           /\ UNCHANGED grabFailures
        \/ /\ grabFailures < MaxGrabFailures /\ grabFailures' = grabFailures + 1
           /\ backup' = moves
           /\ update' = [update EXCEPT !.changed = IF absolute THEN Tiles ELSE @]
  /\ absolute' = FALSE
  /\ UNCHANGED <<screen, screenFormat, moved, drawings, cursorMoves, keeper, detected, format, event, fullReqRegion,
                 toVisit, giving, ready, kept, requestVars, senderVars,
                 readerVars, viewerVars>>

\* The rest of UpdateHandlerImpl::extract when the screen's properties have
\* changed, perhaps its size: the backup becomes a copy of the driver's new, empty
\* buffer.
ApplyNewScreenProperties ==
  /\ screenFormat # format
  /\ DGoto("filter", "decide")
  /\ format' = screenFormat
  /\ backup' = [t \in Tiles |-> Blank]
  /\ \E resized \in BOOLEAN :
       update' = [update EXCEPT !.changed = {}, !.copied = {}, !.delta = 0,
                                !.size = @ \/ resized]
  /\ absolute' = TRUE
  /\ UNCHANGED <<screenVars, keeper, detected, event, fullReqRegion, toVisit,
                 giving, ready, kept, requestVars, senderVars, readerVars,
                 viewerVars>>

\* They cannot be applied: the exception leaves the container as it is so far, and
\* sendUpdate goes on with it when it has reported the end of the desktop.
NewScreenFails ==
  /\ screenFormat # format
  /\ grabFailures < MaxGrabFailures /\ grabFailures' = grabFailures + 1
  /\ DGoto("filter", "decide")
  /\ \E resized \in BOOLEAN :
       update' = [update EXCEPT !.changed = IF absolute THEN Tiles ELSE @,
                                !.size = @ \/ resized]
  /\ absolute' = FALSE
  /\ UNCHANGED <<screen, screenFormat, moved, drawings, cursorMoves, keeper, detected,
                 backup, format, event, fullReqRegion, toVisit, giving, ready, kept,
                 requestVars, senderVars, readerVars, viewerVars>>

\* Whether there is anything to give, or a full request to answer; the region
\* is read again, and again without its mutex.
DecideToSend ==
  /\ IF IsEmpty(update) /\ fullReqRegion = {}
       THEN DGoto("decide", "wait") /\ UNCHANGED toVisit
       ELSE DGoto("decide", "send") /\ toVisit' = Clients
  /\ UNCHANGED <<screenVars, handlerVars, event, fullReqRegion, update, giving,
                 ready, kept, requestVars, senderVars, readerVars, viewerVars>>

\* newUpdates(): every client gets the container, ready or not ...
GiveUpdates(c) ==
  /\ c \in toVisit
  /\ DGoto("send", "notify")
  /\ kept' = Set(kept, c, AddUpdateContainer(kept[c], update))
  /\ toVisit' = toVisit \ {c} /\ giving' = c
  /\ UNCHANGED <<screenVars, handlerVars, event, fullReqRegion, update, ready,
                 requestVars, senderVars, readerVars, viewerVars>>

\* ... and its sender is woken.
NotifySender ==
  /\ DGoto("notify", "send")
  /\ busy' = Set(busy, giving, TRUE)
  /\ newUpdates' = Set(newUpdates, giving, TRUE)
  /\ giving' = NoClient
  /\ UNCHANGED <<screenVars, handlerVars, event, fullReqRegion, update, toVisit,
                 ready, kept, requestVars, spc, taken, cont, fb, fbFormat,
                 readerVars, viewerVars>>

ClearFullReqRegion ==
  /\ dpc = "send" /\ toVisit = {} /\ dpc' = "wait"
  /\ fullReqRegion' = {} /\ update' = EmptyContainer
  /\ UNCHANGED <<screenVars, handlerVars, event, toVisit, giving, ready, kept,
                 requestVars, senderVars, readerVars, viewerVars>>

-----------------------------------------------------------------------------
(* A client's reading thread: UpdateSender::readUpdateRequest              *)

RGoto(c, from, to) == rpc[c] = from /\ rpc' = Set(rpc, c, to)

\* The viewer's request has come in and is recorded under m_reqRectLocMut.
ReadUpdateRequest(c, region, incremental) ==
  /\ credit[c] < MaxOutstanding /\ credit' = Set(credit, c, credit[c] + 1)
  /\ RGoto(c, "idle", "check")
  /\ IF incremental
       THEN /\ reqIncr' = Set(reqIncr, c, reqIncr[c] \union region)
            /\ incrUpdIsReq' = Set(incrUpdIsReq, c, TRUE)
            /\ UNCHANGED <<reqFull, fullUpdIsReq>>
       ELSE /\ reqFull' = Set(reqFull, c, reqFull[c] \union region)
            /\ fullUpdIsReq' = Set(fullUpdIsReq, c, TRUE)
            /\ UNCHANGED <<reqIncr, incrUpdIsReq>>
  /\ asking' = Set(asking, c,
                   [region |-> region, incremental |-> incremental,
                    combined |-> reqIncr[c] \union reqFull[c] \union region])
  /\ UNCHANGED <<screenVars, handlerVars, desktopVars, kept, senderVars, viewer>>

\* The sender is woken at once if it has something for the request.
CheckForKeptUpdates(c) ==
  /\ RGoto(c, "check", "tell")
  /\ asking' = [asking EXCEPT ![c].combined = {}]
  /\ newUpdates' = Set(newUpdates, c,
                       newUpdates[c] \/ CheckForUpdates(kept[c], asking[c].combined))
  /\ UNCHANGED <<screenVars, handlerVars, desktopVars, kept, requestVars, busy,
                 spc, taken, cont, fb, fbFormat, viewerVars>>

\* DesktopBaseImpl::onUpdateRequest
OnUpdateRequest(c) ==
  /\ RGoto(c, "tell", "idle")
  /\ fullReqRegion' = IF asking[c].incremental
                        THEN fullReqRegion ELSE fullReqRegion \union asking[c].region
  /\ event' = TRUE
  /\ asking' = Set(asking, c, NothingAsked)
  /\ UNCHANGED <<screenVars, handlerVars, dpc, update, toVisit, giving, ready,
                 kept, requestVars, senderVars, viewerVars>>

-----------------------------------------------------------------------------
(* A client's sender thread: UpdateSender::execute and sendUpdate          *)

SGoto(c, from, to) == spc[c] = from /\ spc' = Set(spc, c, to)

WakeSender(c) ==
  /\ newUpdates[c] /\ newUpdates' = Set(newUpdates, c, FALSE)
  /\ SGoto(c, "wait", "take")
  /\ busy' = Set(busy, c, TRUE)
  /\ UNCHANGED <<screenVars, handlerVars, desktopVars, kept, requestVars, taken,
                 cont, fb, fbFormat, readerVars, viewerVars>>

\* A mistake: an update is sent without being asked whether it is requested.
ExtractReqRegionsAlways(c) ==
  /\ SGoto(c, "take", "extract")
  /\ taken' = Set(taken, c,
                  [incr |-> reqIncr[c], full |-> reqFull[c],
                   incrIsReq |-> incrUpdIsReq[c], fullIsReq |-> fullUpdIsReq[c]])
  /\ reqIncr' = Set(reqIncr, c, {}) /\ reqFull' = Set(reqFull, c, {})
  /\ incrUpdIsReq' = Set(incrUpdIsReq, c, FALSE)
  /\ fullUpdIsReq' = Set(fullUpdIsReq, c, FALSE)
  /\ UNCHANGED <<screenVars, handlerVars, desktopVars, kept, busy, newUpdates,
                 cont, fb, fbFormat, readerVars, viewerVars>>

ExtractReqRegions(c) ==
  /\ SGoto(c, "take",
           IF incrUpdIsReq[c] \/ fullUpdIsReq[c] THEN "extract" ELSE "finish")
  /\ taken' = Set(taken, c,
                  [incr |-> reqIncr[c], full |-> reqFull[c],
                   incrIsReq |-> incrUpdIsReq[c], fullIsReq |-> fullUpdIsReq[c]])
  /\ reqIncr' = Set(reqIncr, c, {}) /\ reqFull' = Set(reqFull, c, {})
  /\ incrUpdIsReq' = Set(incrUpdIsReq, c, FALSE)
  /\ fullUpdIsReq' = Set(fullUpdIsReq, c, FALSE)
  /\ UNCHANGED <<screenVars, handlerVars, desktopVars, kept, busy, newUpdates,
                 cont, fb, fbFormat, readerVars, viewerVars>>

ExtractUpdates(c) ==
  /\ SGoto(c, "extract", "refresh")
  /\ cont' = Set(cont, c, kept[c])
  /\ kept' = Set(kept, c, EmptyContainer)
  /\ UNCHANGED <<screenVars, handlerVars, desktopVars, requestVars, busy,
                 newUpdates, taken, fb, fbFormat, readerVars, viewerVars>>

\* updateFrameBuffer: the pixels of the container, and of the full requests
\* that have come in since, are fetched from the backup buffer under its mutex,
\* unless the formats differ: then the sender's buffer is made anew.
UpdateFrameBuffer(c) ==
  /\ SGoto(c, "refresh", "prepare")
  /\ IF fbFormat[c] = format
       THEN /\ fb' = Set(fb, c,
                 PaintPixels(fb[c],
                             cont[c].changed \union cont[c].copied \union reqFull[c],
                             backup))
            /\ UNCHANGED <<cont, fbFormat>>
       ELSE /\ fb' = Set(fb, c, [t \in Tiles |-> Blank])
            /\ fbFormat' = Set(fbFormat, c, format)
            /\ cont' = [cont EXCEPT ![c].size = TRUE]
  /\ UNCHANGED <<screenVars, handlerVars, desktopVars, kept, requestVars, busy,
                 newUpdates, taken, readerVars, viewerVars>>

\* A new size, or a blank screen for a viewer without DesktopSize that asked for
\* a full update: everything has to be sent again with the next request.
AnswersWithNewScreen(c) ==
  cont[c].size \/ (taken[c].full # {} /\ c \notin DesktopSizeClients)

\* A mistake: nothing is dazzled.
PrepareNewScreenOnly(c) ==
  /\ AnswersWithNewScreen(c)
  /\ SGoto(c, "prepare", "flush")
  /\ cont' = Set(cont, c, [EmptyContainer EXCEPT !.size = TRUE])
  /\ UNCHANGED <<screenVars, handlerVars, desktopVars, kept, requestVars, busy,
                 newUpdates, taken, fb, fbFormat, readerVars, viewerVars>>

PrepareNewScreen(c) ==
  /\ AnswersWithNewScreen(c)
  /\ SGoto(c, "prepare", "flush")
  /\ cont' = Set(cont, c, [EmptyContainer EXCEPT !.size = TRUE])
  /\ kept' = Set(kept, c, DazzleChangedReg(kept[c]))
  /\ UNCHANGED <<screenVars, handlerVars, desktopVars, requestVars, busy,
                 newUpdates, taken, fb, fbFormat, readerVars, viewerVars>>

\* A mistake: what is outside the request is not put back.
CropAndForget(u, requested) ==
  [sent |-> [u EXCEPT !.changed = @ \intersect requested,
                      !.copied = {}, !.delta = 0],
   back |-> {}]

\* cropUpdContForReqRegions: a copy that leaves the requested region at either
\* end becomes a change; what is outside goes back to the keeper.
CropToRequest(u, requested) ==
  LET inscribed == u.copied \union Translate(u.copied, -u.delta) \subseteq requested
      changed   == IF inscribed THEN u.changed ELSE u.changed \union u.copied
  IN  [sent |-> [u EXCEPT !.changed = changed \intersect requested,
                          !.copied = IF inscribed THEN @ ELSE {},
                          !.delta = IF inscribed THEN @ ELSE 0],
       back |-> u.changed \ requested]

\* Of the cursor only what the viewer's encodings and CursorUpdates let through
\* is sent: a move that the viewer made itself is not.  To a viewer that takes
\* JPEG some tiles are sent again without loss, wherever they are and whether they
\* were requested or not (which ones m_losslessClean holds is left open).
PrepareUpdate(c) ==
  /\ ~AnswersWithNewScreen(c)
  /\ SGoto(c, "prepare", "flush")
  /\ LET plain   == IF c \in CopyRectClients THEN cont[c]
                    ELSE [cont[c] EXCEPT !.changed = @ \union cont[c].copied,
                                         !.copied = {}, !.delta = 0]
         whole   == [plain EXCEPT !.changed = @ \union taken[c].full]
         cropped == CropToRequest(whole, taken[c].incr \union taken[c].full)
     IN /\ \E cursor \in BOOLEAN :
             /\ cursor => cont[c].cursor \/ taken[c].full # {}
             /\ \E lossless \in SUBSET (IF c \in JpegClients THEN Tiles ELSE {}) :
                  cont' = Set(cont, c, [cropped.sent EXCEPT !.changed = @ \union lossless,
                                                            !.cursor = cursor])
        /\ kept' = Set(kept, c, AddChangedRegion(kept[c], cropped.back))
  /\ UNCHANGED <<screenVars, handlerVars, desktopVars, requestVars, busy,
                 newUpdates, taken, fb, fbFormat, readerVars, viewerVars>>

\* The message reaches the viewer, which empties its screen for a new size and
\* performs the copies before it paints.
Flush(c) ==
  /\ ~IsEmpty(cont[c])
  /\ SGoto(c, "flush", "finish")
  /\ viewer' = Set(viewer, c,
       IF cont[c].size
         THEN IF c \in DesktopSizeClients THEN [t \in Tiles |-> Blank] ELSE fb[c]
         ELSE PaintPixels(CopyPixels(viewer[c], cont[c].copied, cont[c].delta),
                          cont[c].changed, fb[c]))
  /\ credit' = Set(credit, c, credit[c] - 1)
  /\ cont' = Set(cont, c, EmptyContainer) /\ taken' = Set(taken, c, NoRequest)
  /\ UNCHANGED <<screenVars, handlerVars, desktopVars, kept, requestVars, busy,
                 newUpdates, fb, fbFormat, readerVars>>

\* A mistake: the regions are restored without their flags.
RestoreRegions(c) ==
  /\ IsEmpty(cont[c])
  /\ SGoto(c, "flush", "finish")
  /\ reqFull' = Set(reqFull, c, reqFull[c] \union taken[c].full)
  /\ reqIncr' = Set(reqIncr, c, reqIncr[c] \union taken[c].incr)
  /\ taken' = Set(taken, c, NoRequest)
  /\ UNCHANGED <<screenVars, handlerVars, desktopVars, kept, incrUpdIsReq,
                 fullUpdIsReq, busy, newUpdates, cont, fb, fbFormat,
                 readerVars, viewerVars>>

\* "Nothing to send, restoring requested regions"
RestoreRequests(c) ==
  /\ IsEmpty(cont[c])
  /\ SGoto(c, "flush", "finish")
  /\ reqFull' = Set(reqFull, c, reqFull[c] \union taken[c].full)
  /\ reqIncr' = Set(reqIncr, c, reqIncr[c] \union taken[c].incr)
  /\ incrUpdIsReq' = Set(incrUpdIsReq, c, taken[c].incrIsReq)
  /\ fullUpdIsReq' = Set(fullUpdIsReq, c, taken[c].fullIsReq)
  /\ taken' = Set(taken, c, NoRequest)
  /\ UNCHANGED <<screenVars, handlerVars, desktopVars, kept, busy, newUpdates,
                 cont, fb, fbFormat, readerVars, viewerVars>>

FinishSending(c) ==
  /\ SGoto(c, "finish", "wait")
  /\ busy' = Set(busy, c, FALSE)
  /\ taken' = Set(taken, c, NoRequest)
  /\ UNCHANGED <<screenVars, handlerVars, desktopVars, kept, requestVars,
                 newUpdates, cont, fb, fbFormat, readerVars, viewerVars>>

\* An exception while encoding or writing: the thread ends and stays busy.
SenderFails(c) ==
  /\ c \in BreakingClients
  /\ SGoto(c, "flush", "dead")
  /\ cont' = Set(cont, c, EmptyContainer) /\ taken' = Set(taken, c, NoRequest)
  /\ UNCHANGED <<screenVars, handlerVars, desktopVars, kept, requestVars, busy,
                 newUpdates, fb, fbFormat, readerVars, viewerVars>>

-----------------------------------------------------------------------------
Screen ==
  \/ \E t \in Tiles : Draw(t)
  \/ \E first \in 0..NumTiles, last \in 1..(NumTiles + 1), d \in Displacements :
       first <= last /\ MoveWindow(first..last, d)
  \/ ResizeScreen \/ DetectCursor

Detectors == Poll \/ OnUpdate

DesktopThread ==
  \/ WakeDesktop
  \/ \E c \in Clients : AskClient(c)
  \/ IsReadyToSend \/ ExtractFromHandler
  \/ FilterUpdates \/ ApplyNewScreenProperties \/ NewScreenFails \/ DecideToSend
  \/ \E c \in Clients : GiveUpdates(c)
  \/ NotifySender \/ ClearFullReqRegion

Viewer(c) ==
  \E region \in Regions, incremental \in Kinds :
    ReadUpdateRequest(c, region, incremental)

Reader(c) == CheckForKeptUpdates(c) \/ OnUpdateRequest(c)

Sender(c) ==
  \/ WakeSender(c) \/ ExtractReqRegions(c) \/ ExtractUpdates(c)
  \/ UpdateFrameBuffer(c) \/ PrepareNewScreen(c) \/ PrepareUpdate(c)
  \/ Flush(c) \/ RestoreRequests(c) \/ FinishSending(c)

Next ==
  \/ Screen \/ Detectors \/ DesktopThread
  \/ \E c \in Clients : Viewer(c) \/ Reader(c) \/ Sender(c) \/ SenderFails(c)

Spec == Init /\ [][Next]_vars

\* Every thread is scheduled; the Poller has its own, so its turns and the
\* desktop's are fair to each other.  A viewer asks again when it may.
FairSpec ==
  /\ Spec
  /\ WF_vars(Poll) /\ WF_vars(OnUpdate) /\ WF_vars(DesktopThread)
  /\ \A c \in Clients :
       WF_vars(Viewer(c)) /\ WF_vars(Reader(c)) /\ WF_vars(Sender(c))

-----------------------------------------------------------------------------
(* Correctness                                                             *)

\* Every variable stays in its domain, no copy reads from outside the screen, and
\* what the desktop copies is one rectangle.
TypeOK ==
  /\ screen \in [Tiles -> PixelValues] /\ backup \in [Tiles -> PixelValues]
  /\ screenFormat \in 0..MaxResizes /\ format \in 0..MaxResizes
  /\ moved.rect \subseteq Int /\ moved.delta \in -NumTiles..NumTiles
  /\ drawings \in 0..MaxDrawings /\ cursorMoves \in 0..MaxCursorMoves
  /\ grabFailures \in 0..MaxGrabFailures
  /\ keeper \in UpdateContainer /\ update \in UpdateContainer
  /\ kept \in [Clients -> UpdateContainer] /\ cont \in [Clients -> UpdateContainer]
  /\ IsClipped(keeper) /\ IsClipped(update)
  /\ \A c \in Clients : IsClipped(kept[c]) /\ IsClipped(cont[c])
  /\ IsRect(moved.rect) /\ IsRect(update.copied) /\ keeper.copied = {}
  /\ {detected, absolute, event, ready} \subseteq BOOLEAN
  /\ fullReqRegion \subseteq Tiles /\ dpc \in DesktopLocations
  /\ toVisit \subseteq Clients /\ giving \in Clients \union {NoClient}
  /\ reqIncr \in [Clients -> SUBSET Tiles] /\ reqFull \in [Clients -> SUBSET Tiles]
  /\ {incrUpdIsReq, fullUpdIsReq, busy, newUpdates} \subseteq [Clients -> BOOLEAN]
  /\ spc \in [Clients -> SenderLocations]
  /\ taken \in [Clients -> [incr : SUBSET Tiles, full : SUBSET Tiles,
                            incrIsReq : BOOLEAN, fullIsReq : BOOLEAN]]
  /\ fb \in [Clients -> [Tiles -> PixelValues]]
  /\ fbFormat \in [Clients -> {NoFormat} \union 0..MaxResizes]
  /\ rpc \in [Clients -> {"idle", "check", "tell"}]
  /\ asking \in [Clients -> [region : SUBSET Tiles, incremental : BOOLEAN,
                             combined : SUBSET Tiles]]
  /\ credit \in [Clients -> 0..MaxOutstanding]
  /\ viewer \in [Clients -> [Tiles -> PixelValues]]

\* The tiles some container on its way to a client still holds.
Holds(k) == k.changed \union k.copied
OnTheWay(c) ==
  Holds(kept[c]) \union Holds(cont[c]) \union
    (IF dpc = "decide" \/ (dpc \in {"send", "notify"} /\ c \in toVisit)
       THEN Holds(update) ELSE {})

\* A new screen is on its way to the client.
NewScreenComes(c) ==
  fbFormat[c] # format \/ (spc[c] \in {"prepare", "flush"} /\ AnswersWithNewScreen(c))

\* "The sendUpdate() function sends all stored updates to the client"
\* (UpdateSender.h:112): a tile that the viewer shows wrongly is on its way to
\* it, whatever the viewer requested and however the threads interleave.
NoLostUpdate ==
  \A c \in Clients : spc[c] # "dead" =>
    \/ NewScreenComes(c)
    \/ \A t \in Tiles : viewer[c][t] # backup[t] => t \in OnTheWay(c)

\* What a viewer is owed: a new screen is all of it, and who is gone gets no more.
Debt(c) == IF spc[c] = "dead" \/ NewScreenComes(c) THEN Tiles ELSE OnTheWay(c)

\* No step of any thread drops what is owed: the whole way of updates keeps the
\* promise of OwedUpdates.
Account == INSTANCE OwedUpdates WITH
  picture <- backup, shown <- viewer, asked <- credit, Pixels <- PixelValues,
  owed <- [c \in Clients |-> Debt(c)]
KeepsAccount == Account!Spec

\* A requested region is never left without a flag that says so, or the client
\* would not count as ready for it (restored requests overwrite the flags).
RequestsAreFlagged ==
  \A c \in Clients :
    reqIncr[c] \union reqFull[c] # {} => incrUpdIsReq[c] \/ fullUpdIsReq[c]

\* Updates are sent on demand: there are never more updates than requests.
UpdatesAreDemanded == \A c \in Clients : credit[c] >= 0

\* Once the screen stops changing every viewer that asks comes to show it,
\* although a busy client makes the desktop drop the events of the others.
EventuallyShown ==
  \A c \in Clients : <>[](spc[c] = "dead" \/ viewer[c] = screen)

=============================================================================
