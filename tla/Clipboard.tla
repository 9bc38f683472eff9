------------------------------ MODULE Clipboard ------------------------------
(***************************************************************************)
(* A text that is copied on the server's computer goes to its viewers, and *)
(* one that is copied at a viewer goes to the server. Windows tells        *)
(* everybody who watches a clipboard of every change, those a watcher has  *)
(* made itself included, so each side tries to recognise its own.          *)
(*                                                                         *)
(* On the server: the clipboard's thread (WindowsClipboard), and for each  *)
(* client the thread that reads its messages and the one of its            *)
(* ClipboardExchange, which sends. In each viewer: the core's input thread *)
(* and the window's. The model begins when the clients are in the normal   *)
(* phase; how they come is in RfbClientManager.                            *)
(***************************************************************************)
EXTENDS Naturals, Sequences

CONSTANTS
  Clients,     \* the connections, each with the viewer at its other end
  ViewOnly,    \* those that may only watch
  Texts,       \* the texts that users copy: those that line ends and ANSI leave as they are
  Empty,       \* the empty text, which is also "no text" in the code
  MaxCopies,   \* how often somebody copies
  MaxBusy      \* how often a clipboard cannot be opened: another program has it

Server == "server"   \* as a place where texts are copied

ASSUME ClipboardAssumption ==
  /\ ViewOnly \subseteq Clients
  /\ Empty \notin Texts /\ Server \notin Clients
  /\ MaxCopies \in Nat /\ MaxBusy \in Nat

Clips == Texts \union {Empty}

\* A thread that is at a place with a text in its hands.
At(place, text) == [at |-> place, text |-> text]
Idle == At("idle", Empty)

VARIABLES
  serverClip,    \* what the server's clipboard holds
  serverDraws,   \* WM_DRAWCLIPBOARD messages that are on their way to it
  watcher,       \* the thread of WindowsClipboard
  receivedClip,  \* DesktopBaseImpl::m_receivedClip (m_sentClip is never set)
  reader,        \* per client: its RfbDispatcher's thread, in onRequest
  storedClip,    \* ClipboardExchange::m_storedClip
  hasNewClip,    \* m_hasNewClip
  newClipWaiter, \* m_newClipWaiter, an event that resets itself
  exchange,      \* the thread of ClipboardExchange
  terminating,   \* its m_terminated
  life,          \* how far RfbClient::execute is with ending the client
  connected,     \* is the connection open?
  toServer, toViewer,  \* cut text on its way
  viewerClip, viewerDraws,  \* the viewer's clipboard and its notices
  strClipboard,  \* DesktopWindow::m_strClipboard
  input,         \* the thread in RemoteViewerCore::receiveServerCutText
  window,        \* the thread in DesktopWindow::onDrawClipboard
  copies, busy,  \* how often somebody has copied, a clipboard was not opened
  \* For the properties only:
  written,       \* per client: the text its exchange wrote last
  copied,        \* the texts that were copied, by where they were
  lastCopy,      \* what was copied last, and where
  calm           \* has everybody copied in peace, and each text once?

serverVars == <<serverClip, serverDraws, watcher, receivedClip>>
exchangeVars == <<storedClip, hasNewClip, newClipWaiter, exchange, terminating, written>>
viewerVars == <<viewerClip, viewerDraws, strClipboard, input, window>>
userVars == <<copies, copied, lastCopy>>
vars == <<serverVars, reader, exchangeVars, life, connected, toServer, toViewer,
          viewerVars, userVars, busy, calm>>

Init ==
  /\ serverClip = Empty /\ serverDraws = 0 /\ watcher = Idle /\ receivedClip = Empty
  /\ reader = [c \in Clients |-> Idle]
  /\ storedClip = [c \in Clients |-> Empty]
  /\ hasNewClip = [c \in Clients |-> FALSE]
  /\ newClipWaiter = [c \in Clients |-> FALSE]
  /\ exchange = [c \in Clients |-> At("loop", Empty)]
  /\ terminating = [c \in Clients |-> FALSE]
  /\ life = [c \in Clients |-> "normal"]
  /\ connected = [c \in Clients |-> TRUE]
  /\ toServer = [c \in Clients |-> <<>>] /\ toViewer = [c \in Clients |-> <<>>]
  /\ viewerClip = [c \in Clients |-> Empty]
  /\ viewerDraws = [c \in Clients |-> 0]
  /\ strClipboard = [c \in Clients |-> Empty]
  /\ input = [c \in Clients |-> Idle] /\ window = [c \in Clients |-> Idle]
  /\ copies = 0 /\ busy = 0
  /\ written = [c \in Clients |-> Empty]
  /\ copied = [u \in Clients \union {Server} |-> {}]
  /\ lastCopy = [by |-> Server, text |-> Empty] /\ calm = TRUE

-----------------------------------------------------------------------------
(* Windows, and the users. *)

\* Nothing is under way: only a user or the network can do something.
AtRest ==
  /\ serverDraws = 0 /\ watcher.at = "idle"
  /\ \A c \in Clients :
       /\ reader[c].at = "idle"
       /\ life[c] = "normal" =>
            toServer[c] = <<>> /\ exchange[c].at = "wait" /\ ~newClipWaiter[c]
       /\ connected[c] => /\ toViewer[c] = <<>> /\ viewerDraws[c] = 0
                          /\ input[c].at = "idle" /\ window[c].at = "idle"

\* OpenClipboard succeeds, or another program has the clipboard open.
ClipboardOpens == UNCHANGED <<busy, calm>>
ClipboardIsBusy == busy < MaxBusy /\ busy' = busy + 1 /\ calm' = FALSE

SetServerClip(text) == serverClip' = text /\ serverDraws' = serverDraws + 1
SetViewerClip(c, text) ==
  /\ viewerClip' = [viewerClip EXCEPT ![c] = text]
  /\ viewerDraws' = [viewerDraws EXCEPT ![c] = @ + 1]

UserCopies(user, text) ==
  /\ copies < MaxCopies
  /\ copies' = copies + 1
  /\ copied' = [copied EXCEPT ![user] = @ \union {text}]
  /\ lastCopy' = [by |-> user, text |-> text]
  /\ calm' = (calm /\ AtRest /\ text # Empty /\ \A u \in DOMAIN copied : text \notin copied[u])

\* What is not a text is read as the empty text (readFromClipBoard).
CopyAtServer(text) ==
  /\ UserCopies(Server, text)
  /\ SetServerClip(text)
  /\ UNCHANGED <<watcher, receivedClip, reader, exchangeVars, life, connected,
                 toServer, toViewer, viewerVars, busy>>

CopyAtViewer(c, text) ==
  /\ connected[c]
  /\ UserCopies(c, text)
  /\ SetViewerClip(c, text)
  /\ UNCHANGED <<serverVars, reader, exchangeVars, life, connected, toServer, toViewer,
                 strClipboard, input, window, busy>>

-----------------------------------------------------------------------------
(* From the server to the viewers. *)

\* wndProc, WM_DRAWCLIPBOARD: a clipboard that is busy is read as empty.
ReadClipboard ==
  /\ watcher.at = "idle" /\ serverDraws > 0
  /\ serverDraws' = serverDraws - 1
  /\ \/ ClipboardOpens /\ watcher' = At("compare", serverClip)
     \/ ClipboardIsBusy /\ watcher' = At("compare", Empty)
  /\ UNCHANGED <<serverClip, receivedClip, reader, exchangeVars, life, connected,
                 toServer, toViewer, viewerVars, userVars>>

\* A mistake: the text is compared with m_sentClip, which nobody sets.
OnClipboardUpdateSent ==
  /\ watcher.at = "compare"
  /\ watcher' = IF watcher.text = Empty THEN Idle ELSE [watcher EXCEPT !.at = "offer"]
  /\ UNCHANGED <<serverClip, serverDraws, receivedClip, reader, exchangeVars, life, connected,
                 toServer, toViewer, viewerVars, userVars, busy, calm>>

\* DesktopBaseImpl::onClipboardUpdate: a text that a client has sent is not new.
OnClipboardUpdate ==
  /\ watcher.at = "compare"
  /\ watcher' = IF watcher.text = receivedClip THEN Idle ELSE [watcher EXCEPT !.at = "offer"]
  /\ UNCHANGED <<serverClip, serverDraws, receivedClip, reader, exchangeVars, life, connected,
                 toServer, toViewer, viewerVars, userVars, busy, calm>>

\* RfbClientManager::onClipboardUpdate calls ClipboardExchange::sendClipboard for
\* the clients in the normal phase.
IsNews(c) == life[c] = "normal" /\ storedClip[c] # watcher.text

SendClipboard ==
  /\ watcher.at = "offer"
  /\ storedClip' = [c \in Clients |-> IF IsNews(c) THEN watcher.text ELSE storedClip[c]]
  /\ hasNewClip' = [c \in Clients |-> IsNews(c) \/ hasNewClip[c]]
  /\ newClipWaiter' = [c \in Clients |-> IsNews(c) \/ newClipWaiter[c]]
  /\ watcher' = Idle
  /\ UNCHANGED <<serverClip, serverDraws, receivedClip, reader, exchange, terminating, written,
                 life, connected, toServer, toViewer, viewerVars, userVars, busy, calm>>

\* ClipboardExchange::execute: while (!isTerminating()).
Loop(c) ==
  /\ exchange[c].at = "loop"
  /\ exchange' = [exchange EXCEPT ![c] = At(IF terminating[c] THEN "ended" ELSE "wait", Empty)]
  /\ UNCHANGED <<serverVars, reader, storedClip, hasNewClip, newClipWaiter, terminating, written,
                 life, connected, toServer, toViewer, viewerVars, userVars, busy, calm>>

WaitForEvent(c) ==
  /\ exchange[c].at = "wait" /\ newClipWaiter[c]
  /\ newClipWaiter' = [newClipWaiter EXCEPT ![c] = FALSE]
  /\ exchange' = [exchange EXCEPT ![c] = At("look", Empty)]
  /\ UNCHANGED <<serverVars, reader, storedClip, hasNewClip, terminating, written,
                 life, connected, toServer, toViewer, viewerVars, userVars, busy, calm>>

\* m_hasNewClip is read without its mutex.
LookForNewClip(c) ==
  /\ exchange[c].at = "look"
  /\ exchange' = [exchange EXCEPT ![c] = At(
       IF hasNewClip[c] /\ ~terminating[c] /\ c \notin ViewOnly THEN "take" ELSE "loop", Empty)]
  /\ UNCHANGED <<serverVars, reader, storedClip, hasNewClip, newClipWaiter, terminating, written,
                 life, connected, toServer, toViewer, viewerVars, userVars, busy, calm>>

\* An exception while writing: terminate(), which also notifies (onTerminate).
WritingFails(c) ==
  /\ exchange[c].at \in {"take", "write"} /\ ~connected[c]
  /\ terminating' = [terminating EXCEPT ![c] = TRUE]
  /\ newClipWaiter' = [newClipWaiter EXCEPT ![c] = TRUE]
  /\ exchange' = [exchange EXCEPT ![c] = At("loop", Empty)]
  /\ UNCHANGED <<serverVars, reader, storedClip, hasNewClip, written,
                 life, connected, toServer, toViewer, viewerVars, userVars, busy, calm>>

TakeClip(c) ==
  /\ exchange[c].at = "take"
  /\ exchange' = [exchange EXCEPT ![c] = At("write", storedClip[c])]
  /\ hasNewClip' = [hasNewClip EXCEPT ![c] = FALSE]
  /\ UNCHANGED <<serverVars, reader, storedClip, newClipWaiter, terminating, written,
                 life, connected, toServer, toViewer, viewerVars, userVars, busy, calm>>

\* A mistake: the flag is cleared after the text is written, not when it is taken.
WriteClipThenClear(c) ==
  /\ exchange[c].at = "write" /\ connected[c]
  /\ toViewer' = [toViewer EXCEPT ![c] = Append(@, exchange[c].text)]
  /\ written' = [written EXCEPT ![c] = exchange[c].text]
  /\ exchange' = [exchange EXCEPT ![c] = At("loop", Empty)]
  /\ hasNewClip' = [hasNewClip EXCEPT ![c] = FALSE]
  /\ UNCHANGED <<serverVars, reader, storedClip, newClipWaiter, terminating,
                 life, connected, toServer, viewerVars, userVars, busy, calm>>

WriteClip(c) ==
  /\ exchange[c].at = "write" /\ connected[c]
  /\ toViewer' = [toViewer EXCEPT ![c] = Append(@, exchange[c].text)]
  /\ written' = [written EXCEPT ![c] = exchange[c].text]
  /\ exchange' = [exchange EXCEPT ![c] = At("loop", Empty)]
  /\ UNCHANGED <<serverVars, reader, storedClip, hasNewClip, newClipWaiter, terminating,
                 life, connected, toServer, viewerVars, userVars, busy, calm>>

\* RemoteViewerCore::receiveServerCutText, and setClipboardData in two steps:
\* the clipboard changes before the window knows where the text is from.
ReceiveServerCutText(c) ==
  /\ connected[c] /\ input[c].at = "idle" /\ toViewer[c] # <<>>
  /\ toViewer' = [toViewer EXCEPT ![c] = Tail(@)]
  /\ input' = [input EXCEPT ![c] = At("set", Head(toViewer[c]))]
  /\ UNCHANGED <<serverVars, reader, exchangeVars, life, connected, toServer,
                 viewerClip, viewerDraws, strClipboard, window, userVars, busy, calm>>

SetClipboardData(c) ==
  /\ connected[c] /\ input[c].at = "set"
  /\ \/ ClipboardOpens /\ SetViewerClip(c, input[c].text)
     \/ ClipboardIsBusy /\ UNCHANGED <<viewerClip, viewerDraws>>
  /\ input' = [input EXCEPT ![c].at = "remember"]
  /\ UNCHANGED <<serverVars, reader, exchangeVars, life, connected, toServer, toViewer,
                 strClipboard, window, userVars>>

RememberText(c) ==
  /\ connected[c] /\ input[c].at = "remember"
  /\ strClipboard' = [strClipboard EXCEPT ![c] = input[c].text]
  /\ input' = [input EXCEPT ![c] = Idle]
  /\ UNCHANGED <<serverVars, reader, exchangeVars, life, connected, toServer, toViewer,
                 viewerClip, viewerDraws, window, userVars, busy, calm>>

-----------------------------------------------------------------------------
(* From a viewer to the server. *)

\* DesktopWindow::onDrawClipboard: a clipboard that is busy is not read.
OnDrawClipboard(c) ==
  /\ connected[c] /\ window[c].at = "idle" /\ viewerDraws[c] > 0
  /\ viewerDraws' = [viewerDraws EXCEPT ![c] = @ - 1]
  /\ \/ ClipboardOpens /\ window' = [window EXCEPT ![c] = At("compare", viewerClip[c])]
     \/ ClipboardIsBusy /\ UNCHANGED window
  /\ UNCHANGED <<serverVars, reader, exchangeVars, life, connected, toServer, toViewer,
                 viewerClip, strClipboard, input, userVars>>

\* A mistake: any change after a text of the server's is taken for that text.
SendCutTextEventOnce(c) ==
  /\ connected[c] /\ window[c].at = "compare"
  /\ toServer' = IF strClipboard[c] # Empty THEN toServer
                 ELSE [toServer EXCEPT ![c] = Append(@, window[c].text)]
  /\ strClipboard' = [strClipboard EXCEPT ![c] = Empty]
  /\ window' = [window EXCEPT ![c] = Idle]
  /\ UNCHANGED <<serverVars, reader, exchangeVars, life, connected, toViewer,
                 viewerClip, viewerDraws, input, userVars, busy, calm>>

\* "if string in clipboard got from server, then don't send him too".
SendCutTextEvent(c) ==
  /\ connected[c] /\ window[c].at = "compare"
  /\ toServer' = IF window[c].text = strClipboard[c] THEN toServer
                 ELSE [toServer EXCEPT ![c] = Append(@, window[c].text)]
  /\ strClipboard' = [strClipboard EXCEPT ![c] = Empty]
  /\ window' = [window EXCEPT ![c] = Idle]
  /\ UNCHANGED <<serverVars, reader, exchangeVars, life, connected, toViewer,
                 viewerClip, viewerDraws, input, userVars, busy, calm>>

\* ClipboardExchange::onRequest, and the comparison in setNewClipText: m_sentClip
\* is always empty, so that an empty text is never taken over.
OnRequest(c) ==
  /\ life[c] = "normal" /\ reader[c].at = "idle" /\ toServer[c] # <<>>
  /\ toServer' = [toServer EXCEPT ![c] = Tail(@)]
  /\ reader' = IF c \in ViewOnly \/ Head(toServer[c]) \in {Empty, receivedClip} THEN reader
               ELSE [reader EXCEPT ![c] = At("receive", Head(toServer[c]))]
  /\ UNCHANGED <<serverVars, exchangeVars, life, connected, toViewer,
                 viewerVars, userVars, busy, calm>>

\* DesktopBaseImpl::setNewClipText enters m_storedClipCritSec a second time.
SetReceivedClip(c) ==
  /\ reader[c].at = "receive"
  /\ receivedClip' = reader[c].text
  /\ reader' = [reader EXCEPT ![c].at = "write"]
  /\ UNCHANGED <<serverClip, serverDraws, watcher, exchangeVars, life, connected,
                 toServer, toViewer, viewerVars, userVars, busy, calm>>

\* WindowsUserInput::setNewClipboard: writeToClipBoard's result is ignored. Only a
\* desktop in another process can throw here (UserInputClient), which ends all
\* clients.
WriteToClipBoard(c) ==
  /\ reader[c].at = "write"
  /\ \/ ClipboardOpens /\ SetServerClip(reader[c].text)
     \/ ClipboardIsBusy /\ UNCHANGED <<serverClip, serverDraws>>
  /\ reader' = [reader EXCEPT ![c] = Idle]
  /\ UNCHANGED <<watcher, receivedClip, exchangeVars, life, connected,
                 toServer, toViewer, viewerVars, userVars>>

-----------------------------------------------------------------------------
(* The end of a connection. *)

\* The viewer leaves, or the server disconnects it.
Disconnect(c) ==
  /\ connected[c]
  /\ connected' = [connected EXCEPT ![c] = FALSE]
  /\ toViewer' = [toViewer EXCEPT ![c] = <<>>]
  /\ UNCHANGED <<serverVars, reader, exchangeVars, life, toServer,
                 viewerVars, userVars, busy, calm>>

\* RfbClient::execute: the dispatcher's thread has ended, and with the client's
\* state changed nobody calls the exchange any more.
LeaveNormalPhase(c) ==
  /\ life[c] = "normal" /\ ~connected[c] /\ reader[c].at = "idle"
  /\ life' = [life EXCEPT ![c] = "leaving"]
  /\ UNCHANGED <<serverVars, reader, exchangeVars, connected, toServer, toViewer,
                 viewerVars, userVars, busy, calm>>

\* ~ClipboardExchange: terminate(), which is m_terminated and onTerminate(), wait().
Terminate(c) ==
  /\ life[c] = "leaving"
  /\ terminating' = [terminating EXCEPT ![c] = TRUE]
  /\ life' = [life EXCEPT ![c] = "terminating"]
  /\ UNCHANGED <<serverVars, reader, storedClip, hasNewClip, newClipWaiter, exchange, written,
                 connected, toServer, toViewer, viewerVars, userVars, busy, calm>>

OnTerminate(c) ==
  /\ life[c] = "terminating"
  /\ newClipWaiter' = [newClipWaiter EXCEPT ![c] = TRUE]
  /\ life' = [life EXCEPT ![c] = "waiting"]
  /\ UNCHANGED <<serverVars, reader, storedClip, hasNewClip, exchange, terminating, written,
                 connected, toServer, toViewer, viewerVars, userVars, busy, calm>>

Wait(c) ==
  /\ life[c] = "waiting" /\ exchange[c].at = "ended"
  /\ life' = [life EXCEPT ![c] = "gone"]
  /\ UNCHANGED <<serverVars, reader, exchangeVars, connected, toServer, toViewer,
                 viewerVars, userVars, busy, calm>>

-----------------------------------------------------------------------------
Watch == ReadClipboard \/ OnClipboardUpdate \/ SendClipboard
Exchange(c) ==
  Loop(c) \/ WaitForEvent(c) \/ LookForNewClip(c) \/ WritingFails(c) \/ TakeClip(c) \/ WriteClip(c)
Read(c) == OnRequest(c) \/ SetReceivedClip(c) \/ WriteToClipBoard(c)
Receive(c) == ReceiveServerCutText(c) \/ SetClipboardData(c) \/ RememberText(c)
Window(c) == OnDrawClipboard(c) \/ SendCutTextEvent(c)
End(c) == LeaveNormalPhase(c) \/ Terminate(c) \/ OnTerminate(c) \/ Wait(c)
Copy ==
  \/ \E text \in Clips : CopyAtServer(text)
  \/ \E c \in Clients, text \in Texts : CopyAtViewer(c, text)

Next ==
  \/ Copy
  \/ Watch
  \/ \E c \in Clients :
       Exchange(c) \/ Read(c) \/ Receive(c) \/ Window(c) \/ End(c) \/ Disconnect(c)

Spec == Init /\ [][Next]_vars

-----------------------------------------------------------------------------
Threads(places) == [at : places, text : Clips]

ServerTypes ==
  /\ serverClip \in Clips /\ serverDraws \in Nat /\ receivedClip \in Clips
  /\ watcher \in Threads({"idle", "compare", "offer"})
  /\ reader \in [Clients -> Threads({"idle", "receive", "write"})]
ExchangeTypes ==
  /\ storedClip \in [Clients -> Clips] /\ written \in [Clients -> Clips]
  /\ hasNewClip \in [Clients -> BOOLEAN] /\ newClipWaiter \in [Clients -> BOOLEAN]
  /\ exchange \in [Clients -> Threads({"loop", "wait", "look", "take", "write", "ended"})]
  /\ terminating \in [Clients -> BOOLEAN]
ConnectionTypes ==
  /\ life \in [Clients -> {"normal", "leaving", "terminating", "waiting", "gone"}]
  /\ connected \in [Clients -> BOOLEAN]
  /\ toServer \in [Clients -> Seq(Clips)] /\ toViewer \in [Clients -> Seq(Clips)]
ViewerTypes ==
  /\ viewerClip \in [Clients -> Clips] /\ strClipboard \in [Clients -> Clips]
  /\ viewerDraws \in [Clients -> Nat]
  /\ input \in [Clients -> Threads({"idle", "set", "remember"})]
  /\ window \in [Clients -> Threads({"idle", "compare"})]
UserTypes ==
  /\ copies \in Nat /\ busy \in Nat /\ calm \in BOOLEAN
  /\ copied \in [Clients \union {Server} -> SUBSET Clips]
  /\ lastCopy \in [by : Clients \union {Server}, text : Clips]
TypeOK == ServerTypes /\ ExchangeTypes /\ ConnectionTypes /\ ViewerTypes /\ UserTypes

\* The exchange's thread sleeps only if there is nothing for it to do: what it
\* wrote last is what it was given last (unless it may not write), and nobody
\* waits for its end. The flag, the text and the event are three things, and the
\* flag is read without the mutex.
Asleep(c) == exchange[c].at = "wait" /\ ~newClipWaiter[c]
SleepsOnlyWhenDone ==
  \A c \in Clients : Asleep(c) =>
    /\ c \notin ViewOnly => written[c] = storedClip[c]
    /\ life[c] # "waiting"

\* A viewer is not sent a text that its own user has copied, if everybody copies
\* in peace: m_receivedClip is set before the clipboard is.
NothingComesBack ==
  calm => \A c \in Clients :
    \A i \in DOMAIN toViewer[c] : toViewer[c][i] \notin copied[c]

\* A text copied in peace arrives: at rest, each viewer that may has what was
\* copied on the server last, or the server has what was copied at that viewer,
\* although the window may have taken the server's text for its user's.
ClipboardsAgree ==
  calm /\ AtRest => \A c \in Clients \ ViewOnly :
    connected[c] /\ lastCopy.by \in {Server, c} => viewerClip[c] = serverClip
=============================================================================
