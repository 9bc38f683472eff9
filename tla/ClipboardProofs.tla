--------------------------- MODULE ClipboardProofs ---------------------------
(***************************************************************************)
(* Proofs about Clipboard, for any number of viewers, texts and copies: no *)
(* text is overlooked by the thread that is to send it, and if users copy  *)
(* in peace, no text comes back and both ends agree in the end.            *)
(***************************************************************************)
EXTENDS Clipboard, TLAPS, SequenceTheorems

USE DEF At, Idle, serverVars, exchangeVars, viewerVars, userVars

-----------------------------------------------------------------------------
(* Types. *)

LEMMA InitTypes == Init => TypeOK
BY ClipboardAssumption DEF Init, TypeOK, ServerTypes, ExchangeTypes, ConnectionTypes, ViewerTypes,
   UserTypes, Threads, Clips

LEMMA OpeningTypes ==
  ASSUME TypeOK, ClipboardOpens \/ ClipboardIsBusy
  PROVE  busy' \in Nat /\ calm' \in BOOLEAN
<1>1. busy \in Nat /\ calm \in BOOLEAN
  BY DEF TypeOK, UserTypes
<1>2. CASE ClipboardOpens
  BY <1>1, <1>2 DEF ClipboardOpens
<1>3. CASE ClipboardIsBusy
  <2>1. busy' = busy + 1 /\ calm' = FALSE
    BY <1>3 DEF ClipboardIsBusy
  <2>2. busy' \in Nat
    BY <1>1, <2>1
  <2> QED
    BY <2>1, <2>2
<1> QED
  BY <1>2, <1>3

LEMMA SetClipboardTypes ==
  ASSUME ViewerTypes, NEW c \in Clients, SetClipboardData(c)
  PROVE  ViewerTypes'
<1>1. input[c].text \in Clips
  BY DEF ViewerTypes, Threads
<1>2. /\ input' = [input EXCEPT ![c].at = "remember"]
      /\ strClipboard' = strClipboard /\ window' = window
  BY DEF SetClipboardData
<1>3. viewerClip' \in [Clients -> Clips] /\ viewerDraws' \in [Clients -> Nat]
  <2>1. CASE SetViewerClip(c, input[c].text)
    <3>1. viewerClip' \in [Clients -> Clips]
      BY <1>1, <2>1 DEF SetViewerClip, ViewerTypes
    <3>2. viewerDraws' \in [Clients -> Nat]
      BY <2>1 DEF SetViewerClip, ViewerTypes
    <3> QED
      BY <3>1, <3>2
  <2>2. CASE UNCHANGED <<viewerClip, viewerDraws>>
    BY <2>2 DEF ViewerTypes
  <2> QED
    BY <2>1, <2>2 DEF SetClipboardData
<1> QED
  BY <1>2, <1>3 DEF ViewerTypes, Threads

LEMMA OnDrawTypes ==
  ASSUME ViewerTypes, NEW c \in Clients, OnDrawClipboard(c)
  PROVE  ViewerTypes'
<1>1. /\ viewerDraws' = [viewerDraws EXCEPT ![c] = @ - 1] /\ viewerDraws[c] > 0
      /\ UNCHANGED <<viewerClip, strClipboard, input>>
  BY DEF OnDrawClipboard
<1>2. viewerDraws' \in [Clients -> Nat]
  <2>1. viewerDraws[c] - 1 \in Nat
    BY <1>1 DEF ViewerTypes
  <2> QED
    BY <1>1, <2>1 DEF ViewerTypes
<1>3. window' \in [Clients -> Threads({"idle", "compare"})]
  <2>1. CASE window' = [window EXCEPT ![c] = At("compare", viewerClip[c])]
    BY <2>1 DEF ViewerTypes, Threads
  <2>2. CASE window' = window
    BY <2>2 DEF ViewerTypes
  <2> QED
    BY <2>1, <2>2 DEF OnDrawClipboard
<1> QED
  BY <1>1, <1>2, <1>3 DEF ViewerTypes

LEMMA TypeStep == ASSUME TypeOK, [Next]_vars PROVE TypeOK'
<1> USE DEF TypeOK, ServerTypes, ExchangeTypes, ConnectionTypes, ViewerTypes, UserTypes, Threads
<1>e. Empty \in Clips /\ Texts \subseteq Clips
  BY DEF Clips
<1>1. ASSUME NEW t \in Clips, CopyAtServer(t) PROVE TypeOK'
  BY <1>1, <1>e DEF CopyAtServer, UserCopies, SetServerClip
<1>2. ASSUME NEW c \in Clients, NEW t \in Texts, CopyAtViewer(c, t) PROVE TypeOK'
  BY <1>2, <1>e DEF CopyAtViewer, UserCopies, SetViewerClip
<1>3. CASE ReadClipboard
  <2>1. busy' \in Nat /\ calm' \in BOOLEAN
    BY <1>3, OpeningTypes DEF ReadClipboard
  <2>2. /\ watcher' = At("compare", serverClip) \/ watcher' = At("compare", Empty)
        /\ serverDraws > 0 /\ serverDraws' = serverDraws - 1
    BY <1>3 DEF ReadClipboard
  <2>3. watcher' \in [at : {"idle", "compare", "offer"}, text : Clips]
    BY <2>2, <1>e
  <2> QED
    BY <1>3, <2>1, <2>2, <2>3 DEF ReadClipboard
<1>4. CASE OnClipboardUpdate
  BY <1>4, <1>e DEF OnClipboardUpdate
<1>5. CASE SendClipboard
  BY <1>5, <1>e DEF SendClipboard, IsNews
<1>6. ASSUME NEW c \in Clients, Loop(c) PROVE TypeOK'
  BY <1>6, <1>e DEF Loop
<1>7. ASSUME NEW c \in Clients, WaitForEvent(c) PROVE TypeOK'
  BY <1>7, <1>e DEF WaitForEvent
<1>8. ASSUME NEW c \in Clients, LookForNewClip(c) PROVE TypeOK'
  BY <1>8, <1>e DEF LookForNewClip
<1>9. ASSUME NEW c \in Clients, WritingFails(c) PROVE TypeOK'
  BY <1>9, <1>e DEF WritingFails
<1>10. ASSUME NEW c \in Clients, TakeClip(c) PROVE TypeOK'
  BY <1>10, <1>e DEF TakeClip
<1>11. ASSUME NEW c \in Clients, WriteClip(c) PROVE TypeOK'
  BY <1>11, <1>e DEF WriteClip
<1>12. ASSUME NEW c \in Clients, ReceiveServerCutText(c) PROVE TypeOK'
  BY <1>12, <1>e DEF ReceiveServerCutText
<1>13. ASSUME NEW c \in Clients, SetClipboardData(c) PROVE TypeOK'
  <2>1. busy' \in Nat /\ calm' \in BOOLEAN
    BY <1>13, OpeningTypes DEF SetClipboardData
  <2>2. ViewerTypes'
    BY <1>13, SetClipboardTypes
  <2> QED
    BY <1>13, <2>1, <2>2 DEF SetClipboardData
<1>14. ASSUME NEW c \in Clients, RememberText(c) PROVE TypeOK'
  BY <1>14, <1>e DEF RememberText
<1>15. ASSUME NEW c \in Clients, OnDrawClipboard(c) PROVE TypeOK'
  <2>1. busy' \in Nat /\ calm' \in BOOLEAN
    BY <1>15, OpeningTypes DEF OnDrawClipboard
  <2>2. ViewerTypes'
    BY <1>15, OnDrawTypes
  <2> QED
    BY <1>15, <2>1, <2>2 DEF OnDrawClipboard
<1>16. ASSUME NEW c \in Clients, SendCutTextEvent(c) PROVE TypeOK'
  BY <1>16, <1>e DEF SendCutTextEvent
<1>17. ASSUME NEW c \in Clients, OnRequest(c) PROVE TypeOK'
  BY <1>17, <1>e DEF OnRequest
<1>18. ASSUME NEW c \in Clients, SetReceivedClip(c) PROVE TypeOK'
  <2>1. reader[c].text \in Clips /\ [reader[c] EXCEPT !.at = "write"] \in Threads({"idle", "receive", "write"})
    <3>1. reader[c] \in Threads({"idle", "receive", "write"})
      OBVIOUS
    <3> HIDE DEF TypeOK
    <3> QED
      BY <3>1
  <2>2. /\ receivedClip' = reader[c].text
        /\ reader' = [reader EXCEPT ![c] = [@ EXCEPT !.at = "write"]]
    BY <1>18 DEF SetReceivedClip
  <2>3. reader' \in [Clients -> Threads({"idle", "receive", "write"})] /\ receivedClip' \in Clips
    BY <2>1, <2>2
  <2> QED
    BY <1>18, <2>3 DEF SetReceivedClip
<1>19. ASSUME NEW c \in Clients, WriteToClipBoard(c) PROVE TypeOK'
  <2>1. busy' \in Nat /\ calm' \in BOOLEAN
    BY <1>19, OpeningTypes DEF WriteToClipBoard
  <2>2. SetServerClip(reader[c].text) \/ UNCHANGED <<serverClip, serverDraws>>
    BY <1>19 DEF WriteToClipBoard
  <2>3. serverClip' \in Clips /\ serverDraws' \in Nat
    BY <2>2 DEF SetServerClip
  <2> QED
    BY <1>19, <2>1, <2>3, <1>e DEF WriteToClipBoard
<1>20. ASSUME NEW c \in Clients, Disconnect(c) PROVE TypeOK'
  BY <1>20, <1>e DEF Disconnect
<1>21. ASSUME NEW c \in Clients, LeaveNormalPhase(c) PROVE TypeOK'
  BY <1>21, <1>e DEF LeaveNormalPhase
<1>22. ASSUME NEW c \in Clients, Terminate(c) PROVE TypeOK'
  BY <1>22, <1>e DEF Terminate
<1>23. ASSUME NEW c \in Clients, OnTerminate(c) PROVE TypeOK'
  BY <1>23, <1>e DEF OnTerminate
<1>24. ASSUME NEW c \in Clients, Wait(c) PROVE TypeOK'
  BY <1>24, <1>e DEF Wait
<1>25. CASE UNCHANGED vars
  BY <1>25 DEF vars
<1> QED
  BY <1>1, <1>2, <1>3, <1>4, <1>5, <1>6, <1>7, <1>8, <1>9, <1>10, <1>11, <1>12, <1>13, <1>14,
     <1>15, <1>16, <1>17, <1>18, <1>19, <1>20, <1>21, <1>22, <1>23, <1>24, <1>25 DEF Next, Copy,
     Watch, Exchange, Read, Receive, Window, End

LEMMA TypeInvariance == Spec => []TypeOK
<1> QED
  BY InitTypes, TypeStep, PTL DEF Spec

-----------------------------------------------------------------------------
(* The exchange's thread. *)

\* Before its end, a text that waits is noticed, and if none waits, the last one
\* is written or about to be.
Fed(c) ==
  c \notin ViewOnly /\ ~terminating[c] =>
    /\ hasNewClip[c] => newClipWaiter[c] \/ exchange[c].at \in {"look", "take"}
    /\ ~hasNewClip[c] =>
         storedClip[c] = IF exchange[c].at = "write" THEN exchange[c].text ELSE written[c]

Ending(c) ==
  /\ connected[c] => life[c] = "normal" /\ ~terminating[c]
  /\ ~connected[c] => toViewer[c] = <<>>
  /\ life[c] \in {"terminating", "waiting", "gone"} => terminating[c]
  /\ exchange[c].at = "wait" /\ terminating[c] => newClipWaiter[c] \/ life[c] = "terminating"
  /\ exchange[c].at = "take" => hasNewClip[c]
  /\ c \in ViewOnly => exchange[c].at \notin {"take", "write"}
  /\ Asleep(c) /\ c \notin ViewOnly => written[c] = storedClip[c]

ExchangeInv == \A c \in Clients : Fed(c) /\ Ending(c)

LEMMA ExchangeStep == ASSUME TypeOK, ExchangeInv, [Next]_vars PROVE ExchangeInv'
<1> SUFFICES ASSUME NEW x \in Clients PROVE Fed(x)' /\ Ending(x)'
  BY DEF ExchangeInv
<1>f. Fed(x) /\ Ending(x)
  BY DEF ExchangeInv
<1>t. ExchangeTypes /\ ConnectionTypes
  BY DEF TypeOK
<1> USE DEF Fed, Ending, Asleep, ExchangeTypes, ConnectionTypes, Threads
<1>1. CASE Copy \/ ReadClipboard \/ OnClipboardUpdate
  BY <1>1, <1>f DEF Copy, CopyAtServer, CopyAtViewer, ReadClipboard, OnClipboardUpdate
<1>2. ASSUME NEW c \in Clients, Receive(c) \/ Window(c) \/ Read(c) PROVE Fed(x)' /\ Ending(x)'
  BY <1>2, <1>f, <1>t DEF Receive, ReceiveServerCutText, SetClipboardData, RememberText, Window,
     OnDrawClipboard, SendCutTextEvent, Read, OnRequest, SetReceivedClip, WriteToClipBoard
<1>3. CASE SendClipboard
  BY <1>3, <1>f, <1>t DEF SendClipboard, IsNews
<1>4. ASSUME NEW c \in Clients, Loop(c) PROVE Fed(x)' /\ Ending(x)'
  BY <1>4, <1>f, <1>t DEF Loop
<1>5. ASSUME NEW c \in Clients, WaitForEvent(c) PROVE Fed(x)' /\ Ending(x)'
  BY <1>5, <1>f, <1>t DEF WaitForEvent
<1>6. ASSUME NEW c \in Clients, LookForNewClip(c) PROVE Fed(x)' /\ Ending(x)'
  BY <1>6, <1>f, <1>t DEF LookForNewClip
<1>7. ASSUME NEW c \in Clients, WritingFails(c) PROVE Fed(x)' /\ Ending(x)'
  BY <1>7, <1>f, <1>t DEF WritingFails
<1>8. ASSUME NEW c \in Clients, TakeClip(c) PROVE Fed(x)' /\ Ending(x)'
  BY <1>8, <1>f, <1>t DEF TakeClip
<1>9. ASSUME NEW c \in Clients, WriteClip(c) PROVE Fed(x)' /\ Ending(x)'
  BY <1>9, <1>f, <1>t DEF WriteClip
<1>10. ASSUME NEW c \in Clients, ReceiveServerCutText(c) PROVE Fed(x)' /\ Ending(x)'
  BY <1>10, <1>f, <1>t DEF ReceiveServerCutText
<1>11. ASSUME NEW c \in Clients, Disconnect(c) PROVE Fed(x)' /\ Ending(x)'
  BY <1>11, <1>f, <1>t DEF Disconnect
<1>12. ASSUME NEW c \in Clients, LeaveNormalPhase(c) PROVE Fed(x)' /\ Ending(x)'
  BY <1>12, <1>f, <1>t DEF LeaveNormalPhase
<1>13. ASSUME NEW c \in Clients, Terminate(c) PROVE Fed(x)' /\ Ending(x)'
  BY <1>13, <1>f, <1>t DEF Terminate
<1>14. ASSUME NEW c \in Clients, OnTerminate(c) PROVE Fed(x)' /\ Ending(x)'
  BY <1>14, <1>f, <1>t DEF OnTerminate
<1>15. ASSUME NEW c \in Clients, Wait(c) PROVE Fed(x)' /\ Ending(x)'
  BY <1>15, <1>f, <1>t DEF Wait
<1>16. CASE UNCHANGED vars
  BY <1>16, <1>f DEF vars
<1> QED
  BY <1>1, <1>2, <1>3, <1>4, <1>5, <1>6, <1>7, <1>8, <1>9, <1>10, <1>11, <1>12, <1>13, <1>14,
     <1>15, <1>16 DEF Next, Watch, Exchange, End

LEMMA ExchangeInvariance == Spec => []ExchangeInv
<1>1. Init => ExchangeInv
  <2> SUFFICES ASSUME Init, NEW c \in Clients PROVE Fed(c) /\ Ending(c)
    BY DEF ExchangeInv
  <2>1. /\ exchange[c].at = "loop" /\ life[c] = "normal" /\ toViewer[c] = <<>>
        /\ storedClip[c] = Empty /\ written[c] = Empty
    BY DEF Init
  <2>2. connected[c] /\ ~terminating[c] /\ ~hasNewClip[c]
    BY Zenon DEF Init
  <2> QED
    BY <2>1, <2>2 DEF Fed, Ending, Asleep
<1> QED
  BY <1>1, TypeInvariance, ExchangeStep, PTL DEF Spec

\* The thread of ClipboardExchange::execute sleeps only when there is nothing for
\* it to do, for any number of clients and texts.
THEOREM NothingIsOverlooked == Spec => []SleepsOnlyWhenDone
<1>1. TypeOK /\ ExchangeInv => SleepsOnlyWhenDone
  BY DEF TypeOK, ExchangeTypes, ConnectionTypes, Threads, ExchangeInv, Fed, Ending, Asleep,
     SleepsOnlyWhenDone
<1> QED
  BY <1>1, TypeInvariance, ExchangeInvariance, PTL
-----------------------------------------------------------------------------
(* Copying in peace. *)

\* What was copied last, and where.
Text == lastCopy.text
Place == lastCopy.by

\* Whatever is under way is the text that was copied last.
All(s) == \A i \in 1 .. Len(s) : s[i] = Text

OnServer ==
  /\ serverDraws > 0 => serverClip = Text
  /\ watcher.at # "idle" => watcher.text = Text
  /\ \A c \in Clients :
       /\ reader[c].at # "idle" => reader[c].text = Text
       /\ life[c] = "normal" => All(toServer[c])
InViewer(c) ==
  /\ All(toViewer[c])
  /\ exchange[c].at = "write" => exchange[c].text = Text
  /\ hasNewClip[c] /\ c \notin ViewOnly => storedClip[c] = Text
  /\ viewerDraws[c] > 0 => viewerClip[c] = Text
  /\ input[c].at # "idle" => input[c].text = Text
  /\ window[c].at # "idle" => window[c].text = Text
OnlyOneText == OnServer /\ \A c \in Clients : connected[c] => InViewer(c)

\* The text was copied at one place only, and what is kept has been copied.
Copied == UNION {copied[u] : u \in Clients \union {Server}}
Seen == Copied \union {Empty}
TextIsNew ==
  /\ Place \in Clients => Text # Empty
  /\ \A u \in Clients \union {Server} : u # Place => Text \notin copied[u]
  /\ Text \in Seen /\ receivedClip \in Seen
  /\ \A c \in Clients : storedClip[c] \in Seen /\ strClipboard[c] \in Seen

\* Nothing is on its way from the server to viewer c, or has just arrived.
NothingForViewer(c) ==
  /\ toViewer[c] = <<>> /\ exchange[c].at \notin {"take", "write"}
  /\ hasNewClip[c] => c \in ViewOnly
  /\ input[c].at = "idle"
\* Nothing is on its way from viewer c.
NothingFromViewer(c) ==
  /\ reader[c].at = "idle"
  /\ life[c] = "normal" => toServer[c] = <<>>
  /\ connected[c] => viewerDraws[c] = 0 /\ window[c].at = "idle"

\* A text from a viewer stays on the server, and gets there unless it is lost with
\* the connection.
FromViewer ==
  Place \in Clients =>
    /\ serverDraws > 0 \/ watcher.at = "compare" => receivedClip = Text
    /\ watcher.at # "offer"
    /\ \A c \in Clients : connected[c] => NothingForViewer(c)
    /\ \A c \in Clients \ {Place} : NothingFromViewer(c)
    /\ reader[Place].at = "write" => receivedClip = Text
    /\ receivedClip = Text => serverClip = Text \/ reader[Place].at = "write"
    /\ connected[Place] /\ Place \notin ViewOnly =>
         /\ viewerClip[Place] = Text /\ strClipboard[Place] # Text
         /\ serverClip = Text \/ ~NothingFromViewer(Place)

\* A text from the server is first offered to all viewers, and then on its way to
\* each of them.
Offered == \A c \in Clients \ ViewOnly : connected[c] => storedClip[c] = Text
NotOffered ==
  /\ serverDraws > 0 \/ watcher.at # "idle"
  /\ receivedClip # Text
  /\ \A c \in Clients : NothingFromViewer(c) /\ (connected[c] => NothingForViewer(c))
FromServer ==
  Place = Server =>
    /\ serverClip = Text
    /\ Offered \/ NotOffered
    /\ \A c \in Clients \ ViewOnly :
         connected[c] /\ storedClip[c] = Text =>
           \/ viewerClip[c] = Text \/ hasNewClip[c] \/ exchange[c].at = "write"
           \/ toViewer[c] # <<>> \/ input[c].at = "set"

CalmInv == calm => OnlyOneText /\ TextIsNew /\ FromViewer /\ FromServer

LEMMA AppendIsAll ==
  ASSUME NEW s \in Seq(Clips), All(s)
  PROVE  All(Append(s, Text))
BY DEF All

LEMMA AppendIsNotEmpty ==
  ASSUME NEW s \in Seq(Clips), NEW t
  PROVE  Append(s, t) # <<>>
<1>1. Len(s) \in Nat
  OBVIOUS
<1>2. Len(Append(s, t)) = Len(s) + 1
  BY AppendProperties
<1>3. Len(<<>>) = 0
  OBVIOUS
<1> QED
  BY <1>1, <1>2, <1>3

LEMMA TailIsAll ==
  ASSUME NEW s \in Seq(Clips), All(s), s # <<>>
  PROVE  All(Tail(s)) /\ Head(s) = Text
BY DEF All

\* Facts that the steps below share.
CalmFacts ==
  /\ TypeOK /\ ExchangeInv /\ OnlyOneText /\ TextIsNew /\ FromViewer /\ FromServer
  /\ Server \notin Clients
  /\ UNCHANGED <<lastCopy, copied>>
CalmNext == OnlyOneText' /\ TextIsNew' /\ FromViewer' /\ FromServer'

LEMMA NewStays ==
  ASSUME CalmFacts, receivedClip' \in Seen,
         \A x \in Clients : storedClip'[x] \in Seen /\ strClipboard'[x] \in Seen
  PROVE  TextIsNew'
<1>1. Seen' = Seen /\ Text' = Text /\ Place' = Place /\ copied' = copied
  BY DEF CalmFacts, Seen, Copied, Text, Place
<1>2. TextIsNew
  BY DEF CalmFacts
<1> QED
  BY <1>1, <1>2 DEF TextIsNew

LEMMA EmptyIsSeen == Empty \in Seen
BY DEF Seen

LEMMA NewIsKept ==
  ASSUME CalmFacts, UNCHANGED <<receivedClip, storedClip, strClipboard>>
  PROVE  TextIsNew'
BY NewStays DEF CalmFacts, TextIsNew

LEMMA CalmReadClipboard ==
  ASSUME CalmFacts, ReadClipboard, calm'
  PROVE  CalmNext
<1> USE DEF CalmFacts, TypeOK, ServerTypes, ExchangeTypes, ConnectionTypes, ViewerTypes, UserTypes, Threads
<1>1. OnlyOneText'
  BY AppendIsAll, TailIsAll DEF ReadClipboard, ClipboardOpens, ClipboardIsBusy, OnlyOneText,
     OnServer, InViewer, Text, All, ExchangeInv, Fed, Ending
<1>2. TextIsNew'
  BY NewIsKept DEF ReadClipboard
<1>3. FromViewer'
  BY DEF ReadClipboard, ClipboardOpens, ClipboardIsBusy, FromViewer, NothingForViewer,
     NothingFromViewer, Text, Place, OnlyOneText,
     OnServer, InViewer, TextIsNew, All, ExchangeInv, Fed, Ending
<1>4. FromServer'
  BY DEF ReadClipboard, ClipboardOpens, ClipboardIsBusy, FromServer, Offered, NotOffered,
     NothingForViewer, NothingFromViewer, Text, Place,
     OnlyOneText, OnServer, InViewer, TextIsNew, ExchangeInv, Fed, Ending
<1> QED
  BY <1>1, <1>2, <1>3, <1>4 DEF CalmNext

LEMMA CalmOnClipboardUpdate ==
  ASSUME CalmFacts, OnClipboardUpdate, calm'
  PROVE  CalmNext
<1> USE DEF CalmFacts, TypeOK, ServerTypes, ExchangeTypes, ConnectionTypes, ViewerTypes, UserTypes, Threads
<1>1. OnlyOneText'
  BY AppendIsAll, TailIsAll DEF OnClipboardUpdate, OnlyOneText, OnServer, InViewer, Text, All,
     ExchangeInv, Fed, Ending
<1>2. TextIsNew'
  BY NewIsKept DEF OnClipboardUpdate
<1>3. FromViewer'
  BY DEF OnClipboardUpdate, FromViewer, NothingForViewer, NothingFromViewer, Text, Place,
     OnlyOneText,
     OnServer, InViewer, TextIsNew, All, ExchangeInv, Fed, Ending
<1>4. FromServer'
  BY DEF OnClipboardUpdate, FromServer, Offered, NotOffered, NothingForViewer, NothingFromViewer,
     Text, Place,
     OnlyOneText, OnServer, InViewer, TextIsNew, ExchangeInv, Fed, Ending
<1> QED
  BY <1>1, <1>2, <1>3, <1>4 DEF CalmNext

LEMMA CalmSendClipboard ==
  ASSUME CalmFacts, SendClipboard, calm'
  PROVE  CalmNext
<1> USE DEF CalmFacts, TypeOK, ServerTypes, ExchangeTypes, ConnectionTypes, ViewerTypes, UserTypes, Threads
<1>1. OnlyOneText'
  BY AppendIsAll, TailIsAll DEF SendClipboard, IsNews, OnlyOneText, OnServer, InViewer, Text, All,
     ExchangeInv, Fed, Ending
<1>2. TextIsNew'
  BY NewStays DEF SendClipboard, IsNews, TextIsNew, Text, OnlyOneText, OnServer
<1>3. FromViewer'
  BY DEF SendClipboard, IsNews, FromViewer, NothingForViewer, NothingFromViewer, Text, Place,
     OnlyOneText,
     OnServer, InViewer, TextIsNew, All, ExchangeInv, Fed, Ending
<1>4. FromServer'
  BY DEF SendClipboard, IsNews, FromServer, Offered, NotOffered, NothingForViewer,
     NothingFromViewer, Text, Place,
     OnlyOneText, OnServer, InViewer, TextIsNew, ExchangeInv, Fed, Ending
<1> QED
  BY <1>1, <1>2, <1>3, <1>4 DEF CalmNext

LEMMA CalmLoop ==
  ASSUME CalmFacts, NEW c \in Clients, Loop(c), calm'
  PROVE  CalmNext
<1> USE DEF CalmFacts, TypeOK, ServerTypes, ExchangeTypes, ConnectionTypes, ViewerTypes, UserTypes, Threads
<1>1. OnlyOneText'
  BY DEF Loop, OnlyOneText, OnServer, InViewer, Text, All
<1>2. TextIsNew'
  BY NewIsKept DEF Loop
<1>3. FromViewer'
  BY DEF Loop, FromViewer, NothingForViewer, NothingFromViewer, Text, Place, OnlyOneText,
     OnServer, InViewer, TextIsNew, All, ExchangeInv, Fed, Ending
<1>4. FromServer'
  BY DEF Loop, FromServer, Offered, NotOffered, NothingForViewer, NothingFromViewer, Text, Place,
     OnlyOneText, OnServer, InViewer, TextIsNew, ExchangeInv, Fed, Ending
<1> QED
  BY <1>1, <1>2, <1>3, <1>4 DEF CalmNext

LEMMA CalmWaitForEvent ==
  ASSUME CalmFacts, NEW c \in Clients, WaitForEvent(c), calm'
  PROVE  CalmNext
<1> USE DEF CalmFacts, TypeOK, ServerTypes, ExchangeTypes, ConnectionTypes, ViewerTypes, UserTypes, Threads
<1>1. OnlyOneText'
  BY DEF WaitForEvent, OnlyOneText, OnServer, InViewer, Text, All
<1>2. TextIsNew'
  BY NewIsKept DEF WaitForEvent
<1>3. FromViewer'
  BY DEF WaitForEvent, FromViewer, NothingForViewer, NothingFromViewer, Text, Place, OnlyOneText,
     OnServer, InViewer, TextIsNew, All, ExchangeInv, Fed, Ending
<1>4. FromServer'
  BY DEF WaitForEvent, FromServer, Offered, NotOffered, NothingForViewer, NothingFromViewer, Text,
     Place,
     OnlyOneText, OnServer, InViewer, TextIsNew, ExchangeInv, Fed, Ending
<1> QED
  BY <1>1, <1>2, <1>3, <1>4 DEF CalmNext

LEMMA CalmLookForNewClip ==
  ASSUME CalmFacts, NEW c \in Clients, LookForNewClip(c), calm'
  PROVE  CalmNext
<1> USE DEF CalmFacts, TypeOK, ServerTypes, ExchangeTypes, ConnectionTypes, ViewerTypes, UserTypes, Threads
<1>1. OnlyOneText'
  BY AppendIsAll, TailIsAll DEF LookForNewClip, OnlyOneText, OnServer, InViewer, Text, All,
     ExchangeInv, Fed, Ending
<1>2. TextIsNew'
  BY NewIsKept DEF LookForNewClip
<1>3. FromViewer'
  BY DEF LookForNewClip, FromViewer, NothingForViewer, NothingFromViewer, Text, Place, OnlyOneText,
     OnServer, InViewer, TextIsNew, All, ExchangeInv, Fed, Ending
<1>4. FromServer'
  BY DEF LookForNewClip, FromServer, Offered, NotOffered, NothingForViewer, NothingFromViewer,
     Text, Place,
     OnlyOneText, OnServer, InViewer, TextIsNew, ExchangeInv, Fed, Ending
<1> QED
  BY <1>1, <1>2, <1>3, <1>4 DEF CalmNext

LEMMA CalmWritingFails ==
  ASSUME CalmFacts, NEW c \in Clients, WritingFails(c), calm'
  PROVE  CalmNext
<1> USE DEF CalmFacts, TypeOK, ServerTypes, ExchangeTypes, ConnectionTypes, ViewerTypes, UserTypes, Threads
<1>1. OnlyOneText'
  BY AppendIsAll, TailIsAll DEF WritingFails, OnlyOneText, OnServer, InViewer, Text, All,
     ExchangeInv, Fed, Ending
<1>2. TextIsNew'
  BY NewIsKept DEF WritingFails
<1>3. FromViewer'
  BY DEF WritingFails, FromViewer, NothingForViewer, NothingFromViewer, Text, Place, OnlyOneText,
     OnServer, InViewer, TextIsNew, All, ExchangeInv, Fed, Ending
<1>4. FromServer'
  BY DEF WritingFails, FromServer, Offered, NotOffered, NothingForViewer, NothingFromViewer, Text,
     Place,
     OnlyOneText, OnServer, InViewer, TextIsNew, ExchangeInv, Fed, Ending
<1> QED
  BY <1>1, <1>2, <1>3, <1>4 DEF CalmNext

LEMMA CalmTakeClip ==
  ASSUME CalmFacts, NEW c \in Clients, TakeClip(c), calm'
  PROVE  CalmNext
<1> USE DEF CalmFacts, TypeOK, ServerTypes, ExchangeTypes, ConnectionTypes, ViewerTypes, UserTypes, Threads
<1>1. OnlyOneText'
  BY AppendIsAll, TailIsAll DEF TakeClip, OnlyOneText, OnServer, InViewer, Text, All, ExchangeInv,
     Fed, Ending
<1>2. TextIsNew'
  BY NewIsKept DEF TakeClip
<1>3. FromViewer'
  BY DEF TakeClip, FromViewer, NothingForViewer, NothingFromViewer, Text, Place, OnlyOneText,
     OnServer, InViewer, TextIsNew, All, ExchangeInv, Fed, Ending
<1>4. FromServer'
  BY DEF TakeClip, FromServer, Offered, NotOffered, NothingForViewer, NothingFromViewer, Text,
     Place,
     OnlyOneText, OnServer, InViewer, TextIsNew, ExchangeInv, Fed, Ending
<1> QED
  BY <1>1, <1>2, <1>3, <1>4 DEF CalmNext

LEMMA CalmWriteClip ==
  ASSUME CalmFacts, NEW c \in Clients, WriteClip(c), calm'
  PROVE  CalmNext
<1> USE DEF CalmFacts, TypeOK, ServerTypes, ExchangeTypes, ConnectionTypes, ViewerTypes, UserTypes, Threads
<1>1. OnlyOneText'
  BY AppendIsAll, TailIsAll DEF WriteClip, OnlyOneText, OnServer, InViewer, Text, All,
     ExchangeInv, Fed, Ending
<1>2. TextIsNew'
  BY NewIsKept DEF WriteClip
<1>3. FromViewer'
  BY DEF WriteClip, FromViewer, NothingForViewer, NothingFromViewer, Text, Place, OnlyOneText,
     OnServer, InViewer, TextIsNew, All, ExchangeInv, Fed, Ending
<1>4. FromServer'
  <2>1. \A x \in Clients : toViewer[x] # <<>> => toViewer'[x] # <<>>
    BY DEF WriteClip
  <2>2. toViewer'[c] # <<>>
    <3>1. toViewer[c] \in Seq(Clips) /\ exchange[c].text \in Clips
      OBVIOUS
    <3>2. toViewer'[c] = Append(toViewer[c], exchange[c].text)
      BY DEF WriteClip
    <3> HIDE DEF CalmFacts
    <3> QED
      BY <3>1, <3>2
  <2>3. \A x \in Clients : x # c => exchange'[x] = exchange[x]
    BY DEF WriteClip
  <2>4. UNCHANGED <<serverVars, reader, life, connected, toServer, viewerVars, storedClip,
  hasNewClip>>
        /\ Offered' = Offered
    BY DEF WriteClip, Offered, Text
  <2>5. NotOffered => ~connected[c]
    BY DEF WriteClip, NotOffered, NothingForViewer
  <2> HIDE DEF CalmFacts
  <2> QED
    BY <2>1, <2>2, <2>3, <2>4, <2>5 DEF CalmFacts, WriteClip, FromServer, Text, Place
<1> QED
  BY <1>1, <1>2, <1>3, <1>4 DEF CalmNext

LEMMA CalmReceiveServerCutText ==
  ASSUME CalmFacts, NEW c \in Clients, ReceiveServerCutText(c), calm'
  PROVE  CalmNext
<1> USE DEF CalmFacts, TypeOK, ServerTypes, ExchangeTypes, ConnectionTypes, ViewerTypes, UserTypes, Threads
<1>1. OnlyOneText'
  BY AppendIsAll, TailIsAll DEF ReceiveServerCutText, OnlyOneText, OnServer, InViewer, Text, All,
     ExchangeInv, Fed, Ending
<1>2. TextIsNew'
  BY NewIsKept DEF ReceiveServerCutText
<1>3. FromViewer'
  BY DEF ReceiveServerCutText, FromViewer, NothingForViewer, NothingFromViewer, Text, Place,
     OnlyOneText,
     OnServer, InViewer, TextIsNew, All, ExchangeInv, Fed, Ending
<1>4. FromServer'
  BY DEF ReceiveServerCutText, FromServer, Offered, NotOffered, NothingForViewer,
     NothingFromViewer, Text, Place,
     OnlyOneText, OnServer, InViewer, TextIsNew, ExchangeInv, Fed, Ending
<1> QED
  BY <1>1, <1>2, <1>3, <1>4 DEF CalmNext

LEMMA CalmSetClipboardData ==
  ASSUME CalmFacts, NEW c \in Clients, SetClipboardData(c), calm'
  PROVE  CalmNext
<1> USE DEF CalmFacts, TypeOK, ServerTypes, ExchangeTypes, ConnectionTypes, ViewerTypes, UserTypes, Threads
<1>1. OnlyOneText'
  BY AppendIsAll, TailIsAll DEF SetClipboardData, ClipboardOpens, ClipboardIsBusy, SetViewerClip,
     OnlyOneText, OnServer, InViewer, Text, All, ExchangeInv, Fed, Ending
<1>2. TextIsNew'
  BY NewIsKept DEF SetClipboardData
<1>3. FromViewer'
  BY DEF SetClipboardData, ClipboardOpens, ClipboardIsBusy, SetViewerClip, FromViewer,
     NothingForViewer, NothingFromViewer, Text, Place, OnlyOneText,
     OnServer, InViewer, TextIsNew, All, ExchangeInv, Fed, Ending
<1>4. FromServer'
  BY DEF SetClipboardData, ClipboardOpens, ClipboardIsBusy, SetViewerClip, FromServer, Offered,
     NotOffered, NothingForViewer, NothingFromViewer, Text, Place,
     OnlyOneText, OnServer, InViewer, TextIsNew, ExchangeInv, Fed, Ending
<1> QED
  BY <1>1, <1>2, <1>3, <1>4 DEF CalmNext

LEMMA CalmRememberText ==
  ASSUME CalmFacts, NEW c \in Clients, RememberText(c), calm'
  PROVE  CalmNext
<1> USE DEF CalmFacts, TypeOK, ServerTypes, ExchangeTypes, ConnectionTypes, ViewerTypes, UserTypes, Threads
<1>1. OnlyOneText'
  BY AppendIsAll, TailIsAll DEF RememberText, OnlyOneText, OnServer, InViewer, Text, All,
     ExchangeInv, Fed, Ending
<1>2. TextIsNew'
  <2>1. Text \in Seen /\ input[c].text = Text
    BY DEF RememberText, TextIsNew, OnlyOneText, InViewer
  <2>2. \A x \in Clients : strClipboard'[x] \in Seen
    BY <2>1 DEF RememberText, TextIsNew
  <2>3. /\ receivedClip' \in Seen
        /\ \A x \in Clients : storedClip'[x] \in Seen
    BY DEF RememberText, TextIsNew
  <2> HIDE DEF CalmFacts
  <2> QED
    BY <2>2, <2>3, NewStays
<1>3. FromViewer'
  BY DEF RememberText, FromViewer, NothingForViewer, NothingFromViewer, Text, Place, OnlyOneText,
     OnServer, InViewer, TextIsNew, All, ExchangeInv, Fed, Ending
<1>4. FromServer'
  BY DEF RememberText, FromServer, Offered, NotOffered, NothingForViewer, NothingFromViewer, Text,
     Place,
     OnlyOneText, OnServer, InViewer, TextIsNew, ExchangeInv, Fed, Ending
<1> QED
  BY <1>1, <1>2, <1>3, <1>4 DEF CalmNext

LEMMA CalmOnDrawClipboard ==
  ASSUME CalmFacts, NEW c \in Clients, OnDrawClipboard(c), calm'
  PROVE  CalmNext
<1> USE DEF CalmFacts, TypeOK, ServerTypes, ExchangeTypes, ConnectionTypes, ViewerTypes, UserTypes, Threads
<1>1. OnlyOneText'
  BY AppendIsAll, TailIsAll DEF OnDrawClipboard, ClipboardOpens, ClipboardIsBusy, OnlyOneText,
     OnServer, InViewer, Text, All, ExchangeInv, Fed, Ending
<1>2. TextIsNew'
  BY NewIsKept DEF OnDrawClipboard
<1>3. FromViewer'
  BY DEF OnDrawClipboard, ClipboardOpens, ClipboardIsBusy, FromViewer, NothingForViewer,
     NothingFromViewer, Text, Place, OnlyOneText,
     OnServer, InViewer, TextIsNew, All, ExchangeInv, Fed, Ending
<1>4. FromServer'
  BY DEF OnDrawClipboard, ClipboardOpens, ClipboardIsBusy, FromServer, Offered, NotOffered,
     NothingForViewer, NothingFromViewer, Text, Place,
     OnlyOneText, OnServer, InViewer, TextIsNew, ExchangeInv, Fed, Ending
<1> QED
  BY <1>1, <1>2, <1>3, <1>4 DEF CalmNext

LEMMA CalmSendCutTextEvent ==
  ASSUME CalmFacts, NEW c \in Clients, SendCutTextEvent(c), calm'
  PROVE  CalmNext
<1> USE DEF CalmFacts, TypeOK, ServerTypes, ExchangeTypes, ConnectionTypes, ViewerTypes, UserTypes, Threads
<1>1. OnlyOneText'
  BY AppendIsAll, TailIsAll DEF SendCutTextEvent, OnlyOneText, OnServer, InViewer, Text, All,
     ExchangeInv, Fed, Ending
<1>2. TextIsNew'
  <2>2. /\ strClipboard' = [strClipboard EXCEPT ![c] = Empty]
        /\ UNCHANGED <<receivedClip, storedClip>>
    BY DEF SendCutTextEvent
  <2>3. \A x \in Clients : strClipboard'[x] \in Seen
    BY <2>2, EmptyIsSeen DEF TextIsNew
  <2>4. CalmFacts
    OBVIOUS
  <2> HIDE DEF CalmFacts
  <2> QED
    BY <2>2, <2>3, <2>4, NewStays DEF CalmFacts, TextIsNew
<1>3. FromViewer'
  <2>1. ASSUME Place \in Clients PROVE Place = c
    <3>1. connected[c] /\ window[c].at = "compare"
      BY DEF SendCutTextEvent
    <3>2. ~NothingFromViewer(c)
      BY <3>1 DEF NothingFromViewer
    <3> QED
      BY <2>1, <3>2 DEF FromViewer
  <2>2. ASSUME Place = c, c \notin ViewOnly
        PROVE  viewerClip[c] = Text /\ strClipboard'[c] # Text /\ toServer'[c] # <<>>
    <3>1. connected[c] /\ life[c] = "normal" /\ window[c].text = Text
      BY DEF SendCutTextEvent, ExchangeInv, Ending, OnlyOneText, InViewer
    <3>2. viewerClip[c] = Text /\ strClipboard[c] # Text /\ Text # Empty
      BY <2>2, <3>1 DEF FromViewer, TextIsNew
    <3>3. toServer'[c] = Append(toServer[c], Text) /\ strClipboard'[c] = Empty
      BY <3>1, <3>2 DEF SendCutTextEvent
    <3>4. toServer'[c] # <<>>
      BY <3>3, AppendIsNotEmpty
    <3> QED
      BY <3>2, <3>3, <3>4
  <2>3. /\ UNCHANGED <<serverVars, reader, life, connected, toViewer, exchangeVars, viewerClip,
                      input, lastCopy>>
        /\ life[c] = "normal" /\ connected[c]
        /\ \A x \in Clients : x # c => /\ toServer'[x] = toServer[x] /\ window'[x] = window[x]
                                     /\ viewerDraws'[x] = viewerDraws[x]
    BY DEF SendCutTextEvent, ExchangeInv, Ending
  <2> HIDE DEF CalmFacts, TypeOK
  <2> QED
    BY <2>1, <2>2, <2>3 DEF CalmFacts, FromViewer, NothingForViewer, NothingFromViewer, Text, Place
<1>4. FromServer'
  BY DEF SendCutTextEvent, FromServer, Offered, NotOffered, NothingForViewer, NothingFromViewer,
     Text, Place,
     OnlyOneText, OnServer, InViewer, TextIsNew, ExchangeInv, Fed, Ending
<1> QED
  BY <1>1, <1>2, <1>3, <1>4 DEF CalmNext

LEMMA CalmOnRequest ==
  ASSUME CalmFacts, NEW c \in Clients, OnRequest(c), calm'
  PROVE  CalmNext
<1> USE DEF CalmFacts, TypeOK, ServerTypes, ExchangeTypes, ConnectionTypes, ViewerTypes, UserTypes, Threads
<1>1. OnlyOneText'
  BY AppendIsAll, TailIsAll DEF OnRequest, OnlyOneText, OnServer, InViewer, Text, All,
     ExchangeInv, Fed, Ending
<1>2. TextIsNew'
  BY NewIsKept DEF OnRequest
<1>3. FromViewer'
  BY DEF OnRequest, FromViewer, NothingForViewer, NothingFromViewer, Text, Place, OnlyOneText,
     OnServer, InViewer, TextIsNew, All, ExchangeInv, Fed, Ending
<1>4. FromServer'
  BY DEF OnRequest, FromServer, Offered, NotOffered, NothingForViewer, NothingFromViewer, Text,
     Place,
     OnlyOneText, OnServer, InViewer, TextIsNew, ExchangeInv, Fed, Ending
<1> QED
  BY <1>1, <1>2, <1>3, <1>4 DEF CalmNext

LEMMA CalmSetReceivedClip ==
  ASSUME CalmFacts, NEW c \in Clients, SetReceivedClip(c), calm'
  PROVE  CalmNext
<1> USE DEF CalmFacts, TypeOK, ServerTypes, ExchangeTypes, ConnectionTypes, ViewerTypes, UserTypes, Threads
<1>1. OnlyOneText'
  BY AppendIsAll, TailIsAll DEF SetReceivedClip, OnlyOneText, OnServer, InViewer, Text, All,
     ExchangeInv, Fed, Ending
<1>2. TextIsNew'
  BY NewStays DEF SetReceivedClip, TextIsNew, Text, OnlyOneText, OnServer
<1>3. FromViewer'
  BY DEF SetReceivedClip, FromViewer, NothingForViewer, NothingFromViewer, Text, Place, OnlyOneText,
     OnServer, InViewer, TextIsNew, All, ExchangeInv, Fed, Ending
<1>4. FromServer'
  BY DEF SetReceivedClip, FromServer, Offered, NotOffered, NothingForViewer, NothingFromViewer,
     Text, Place,
     OnlyOneText, OnServer, InViewer, TextIsNew, ExchangeInv, Fed, Ending
<1> QED
  BY <1>1, <1>2, <1>3, <1>4 DEF CalmNext

LEMMA CalmWriteToClipBoard ==
  ASSUME CalmFacts, NEW c \in Clients, WriteToClipBoard(c), calm'
  PROVE  CalmNext
<1> USE DEF CalmFacts, TypeOK, ServerTypes, ExchangeTypes, ConnectionTypes, ViewerTypes, UserTypes, Threads
<1>1. OnlyOneText'
  BY AppendIsAll, TailIsAll DEF WriteToClipBoard, ClipboardOpens, ClipboardIsBusy, SetServerClip,
     OnlyOneText, OnServer, InViewer, Text, All, ExchangeInv, Fed, Ending
<1>2. TextIsNew'
  BY NewIsKept DEF WriteToClipBoard
<1>3. FromViewer'
  BY DEF WriteToClipBoard, ClipboardOpens, ClipboardIsBusy, SetServerClip, FromViewer,
     NothingForViewer, NothingFromViewer, Text, Place, OnlyOneText,
     OnServer, InViewer, TextIsNew, All, ExchangeInv, Fed, Ending
<1>4. FromServer'
  BY DEF WriteToClipBoard, ClipboardOpens, ClipboardIsBusy, SetServerClip, FromServer, Offered,
     NotOffered, NothingForViewer, NothingFromViewer, Text, Place,
     OnlyOneText, OnServer, InViewer, TextIsNew, ExchangeInv, Fed, Ending
<1> QED
  BY <1>1, <1>2, <1>3, <1>4 DEF CalmNext

LEMMA CalmDisconnect ==
  ASSUME CalmFacts, NEW c \in Clients, Disconnect(c), calm'
  PROVE  CalmNext
<1> USE DEF CalmFacts, TypeOK, ServerTypes, ExchangeTypes, ConnectionTypes, ViewerTypes, UserTypes, Threads
<1>1. OnlyOneText'
  BY AppendIsAll, TailIsAll DEF Disconnect, OnlyOneText, OnServer, InViewer, Text, All,
     ExchangeInv, Fed, Ending
<1>2. TextIsNew'
  BY NewIsKept DEF Disconnect
<1>3. FromViewer'
  BY DEF Disconnect, FromViewer, NothingForViewer, NothingFromViewer, Text, Place, OnlyOneText,
     OnServer, InViewer, TextIsNew, All, ExchangeInv, Fed, Ending
<1>4. FromServer'
  BY DEF Disconnect, FromServer, Offered, NotOffered, NothingForViewer, NothingFromViewer, Text,
     Place,
     OnlyOneText, OnServer, InViewer, TextIsNew, ExchangeInv, Fed, Ending
<1> QED
  BY <1>1, <1>2, <1>3, <1>4 DEF CalmNext

LEMMA CalmLeaveNormalPhase ==
  ASSUME CalmFacts, NEW c \in Clients, LeaveNormalPhase(c), calm'
  PROVE  CalmNext
<1> USE DEF CalmFacts, TypeOK, ServerTypes, ExchangeTypes, ConnectionTypes, ViewerTypes, UserTypes, Threads
<1>1. OnlyOneText'
  BY AppendIsAll, TailIsAll DEF LeaveNormalPhase, OnlyOneText, OnServer, InViewer, Text, All,
     ExchangeInv, Fed, Ending
<1>2. TextIsNew'
  BY NewIsKept DEF LeaveNormalPhase
<1>3. FromViewer'
  BY DEF LeaveNormalPhase, FromViewer, NothingForViewer, NothingFromViewer, Text, Place,
     OnlyOneText,
     OnServer, InViewer, TextIsNew, All, ExchangeInv, Fed, Ending
<1>4. FromServer'
  BY DEF LeaveNormalPhase, FromServer, Offered, NotOffered, NothingForViewer, NothingFromViewer,
     Text, Place,
     OnlyOneText, OnServer, InViewer, TextIsNew, ExchangeInv, Fed, Ending
<1> QED
  BY <1>1, <1>2, <1>3, <1>4 DEF CalmNext

LEMMA CalmTerminate ==
  ASSUME CalmFacts, NEW c \in Clients, Terminate(c), calm'
  PROVE  CalmNext
<1> USE DEF CalmFacts, TypeOK, ServerTypes, ExchangeTypes, ConnectionTypes, ViewerTypes, UserTypes, Threads
<1>1. OnlyOneText'
  BY DEF Terminate, OnlyOneText, OnServer, InViewer, Text, All
<1>2. TextIsNew'
  BY NewIsKept DEF Terminate
<1>3. FromViewer'
  BY DEF Terminate, FromViewer, NothingForViewer, NothingFromViewer, Text, Place, OnlyOneText,
     OnServer, InViewer, TextIsNew, All, ExchangeInv, Fed, Ending
<1>4. FromServer'
  BY DEF Terminate, FromServer, Offered, NotOffered, NothingForViewer, NothingFromViewer, Text,
     Place,
     OnlyOneText, OnServer, InViewer, TextIsNew, ExchangeInv, Fed, Ending
<1> QED
  BY <1>1, <1>2, <1>3, <1>4 DEF CalmNext

LEMMA CalmOnTerminate ==
  ASSUME CalmFacts, NEW c \in Clients, OnTerminate(c), calm'
  PROVE  CalmNext
<1> USE DEF CalmFacts, TypeOK, ServerTypes, ExchangeTypes, ConnectionTypes, ViewerTypes, UserTypes, Threads
<1>1. OnlyOneText'
  BY DEF OnTerminate, OnlyOneText, OnServer, InViewer, Text, All
<1>2. TextIsNew'
  BY NewIsKept DEF OnTerminate
<1>3. FromViewer'
  BY DEF OnTerminate, FromViewer, NothingForViewer, NothingFromViewer, Text, Place, OnlyOneText,
     OnServer, InViewer, TextIsNew, All, ExchangeInv, Fed, Ending
<1>4. FromServer'
  BY DEF OnTerminate, FromServer, Offered, NotOffered, NothingForViewer, NothingFromViewer, Text,
     Place,
     OnlyOneText, OnServer, InViewer, TextIsNew, ExchangeInv, Fed, Ending
<1> QED
  BY <1>1, <1>2, <1>3, <1>4 DEF CalmNext

LEMMA CalmWait ==
  ASSUME CalmFacts, NEW c \in Clients, Wait(c), calm'
  PROVE  CalmNext
<1> USE DEF CalmFacts, TypeOK, ServerTypes, ExchangeTypes, ConnectionTypes, ViewerTypes, UserTypes, Threads
<1>1. OnlyOneText'
  BY DEF Wait, OnlyOneText, OnServer, InViewer, Text, All
<1>2. TextIsNew'
  BY NewIsKept DEF Wait
<1>3. FromViewer'
  BY DEF Wait, FromViewer, NothingForViewer, NothingFromViewer, Text, Place, OnlyOneText,
     OnServer, InViewer, TextIsNew, All, ExchangeInv, Fed, Ending
<1>4. FromServer'
  BY DEF Wait, FromServer, Offered, NotOffered, NothingForViewer, NothingFromViewer, Text, Place,
     OnlyOneText, OnServer, InViewer, TextIsNew, ExchangeInv, Fed, Ending
<1> QED
  BY <1>1, <1>2, <1>3, <1>4 DEF CalmNext


LEMMA RestIsQuiet ==
  ASSUME TypeOK, ExchangeInv, AtRest
  PROVE  /\ serverDraws = 0 /\ watcher.at = "idle"
         /\ \A c \in Clients : NothingFromViewer(c) /\ (connected[c] => NothingForViewer(c))
<1>1. \A c \in Clients : NothingFromViewer(c)
  BY DEF AtRest, NothingFromViewer
<1>2. ASSUME NEW c \in Clients, connected[c] PROVE NothingForViewer(c)
  <2>1. /\ exchange[c].at = "wait" /\ ~newClipWaiter[c] /\ ~terminating[c]
        /\ toViewer[c] = <<>> /\ input[c].at = "idle"
    BY <1>2 DEF AtRest, ExchangeInv, Ending
  <2>2. hasNewClip[c] => c \in ViewOnly
    BY <2>1 DEF ExchangeInv, Fed
  <2> QED
    BY <2>1, <2>2 DEF NothingForViewer
<1> QED
  BY <1>1, <1>2 DEF AtRest

\* A text that is copied in peace is new, and everything is quiet.
LEMMA PeacefulCopy ==
  ASSUME TypeOK, ExchangeInv, CalmInv, NEW u \in Clients \union {Server}, NEW t, UserCopies(u, t), calm'
  PROVE  /\ calm /\ AtRest /\ t \notin Seen /\ t # Empty
         /\ Text' = t /\ Place' = u /\ t \in Seen' /\ Seen \subseteq Seen'
         /\ \A v \in Clients \union {Server} : v # u => t \notin copied'[v]
<1>0. copied \in [Clients \union {Server} -> SUBSET Clips]
  BY DEF TypeOK, UserTypes
<1>1. calm /\ AtRest /\ t # Empty /\ \A v \in Clients \union {Server} : t \notin copied[v]
  BY <1>0 DEF UserCopies
<1>2. t \notin Seen
  BY <1>1 DEF Seen, Copied
<1>3. Text' = t /\ Place' = u
  BY DEF UserCopies, Text, Place
<1>4. \A v \in Clients \union {Server} :
        copied'[v] = IF v = u THEN copied[v] \union {t} ELSE copied[v]
  BY <1>0 DEF UserCopies
<1>5. t \in Copied' /\ Copied \subseteq Copied'
  BY <1>4 DEF Copied
<1> QED
  BY <1>1, <1>2, <1>3, <1>4, <1>5 DEF Seen

LEMMA CalmCopyAtServer ==
  ASSUME TypeOK, ExchangeInv, CalmInv, NEW t \in Clips, CopyAtServer(t), calm'
  PROVE  CalmNext
<1>1. /\ calm /\ AtRest /\ t \notin Seen /\ t # Empty
      /\ Text' = t /\ Place' = Server /\ t \in Seen' /\ Seen \subseteq Seen'
      /\ \A v \in Clients \union {Server} : v # Server => t \notin copied'[v]
  BY PeacefulCopy DEF CopyAtServer
<1>2. /\ serverDraws = 0 /\ watcher.at = "idle"
      /\ \A c \in Clients : NothingFromViewer(c) /\ (connected[c] => NothingForViewer(c))
  BY <1>1, RestIsQuiet
<1>3. /\ serverClip' = t /\ serverDraws' = 1
      /\ UNCHANGED <<watcher, receivedClip, reader, exchangeVars, life, connected,
                     toServer, toViewer, viewerVars>>
  BY <1>2 DEF CopyAtServer, SetServerClip
<1>4. TextIsNew
  BY <1>1 DEF CalmInv
<1>5. OnlyOneText'
  BY <1>1, <1>2, <1>3
  DEF OnlyOneText, OnServer, InViewer, All, NothingFromViewer, NothingForViewer
<1>6. TextIsNew'
  BY <1>1, <1>3, <1>4, ClipboardAssumption DEF TextIsNew
<1>7. FromViewer'
  BY <1>1, ClipboardAssumption DEF FromViewer
<1>8. FromServer'
  <2>1. receivedClip # t /\ \A c \in Clients : storedClip[c] # t
    BY <1>1, <1>4 DEF TextIsNew
  <2>2. NotOffered'
    BY <1>1, <1>2, <1>3, <2>1 DEF NotOffered, NothingFromViewer, NothingForViewer
  <2> QED
    BY <1>1, <1>3, <2>1, <2>2 DEF FromServer
<1> QED
  BY <1>5, <1>6, <1>7, <1>8 DEF CalmNext

LEMMA CalmCopyAtViewer ==
  ASSUME TypeOK, ExchangeInv, CalmInv, NEW u \in Clients, NEW t \in Texts, CopyAtViewer(u, t), calm'
  PROVE  CalmNext
<1>1. /\ calm /\ AtRest /\ t \notin Seen /\ t # Empty
      /\ Text' = t /\ Place' = u /\ t \in Seen' /\ Seen \subseteq Seen'
      /\ \A v \in Clients \union {Server} : v # u => t \notin copied'[v]
  BY PeacefulCopy DEF CopyAtViewer
<1>2. /\ serverDraws = 0 /\ watcher.at = "idle"
      /\ \A c \in Clients : NothingFromViewer(c) /\ (connected[c] => NothingForViewer(c))
  BY <1>1, RestIsQuiet
<1>3. /\ viewerClip' = [viewerClip EXCEPT ![u] = t]
      /\ viewerDraws' = [viewerDraws EXCEPT ![u] = @ + 1]
      /\ UNCHANGED <<serverVars, reader, exchangeVars, life, connected, toServer, toViewer,
                     strClipboard, input, window>>
      /\ connected[u]
  BY DEF CopyAtViewer, SetViewerClip
<1>t. viewerClip \in [Clients -> Clips] /\ viewerDraws \in [Clients -> Nat]
  BY DEF TypeOK, ViewerTypes
<1>4. TextIsNew
  BY <1>1 DEF CalmInv
<1>5. OnlyOneText'
  BY <1>1, <1>2, <1>3, <1>t
  DEF OnlyOneText, OnServer, InViewer, All, NothingFromViewer, NothingForViewer
<1>6. TextIsNew'
  BY <1>1, <1>3, <1>4 DEF TextIsNew
<1>7. FromViewer'
  <2>1. receivedClip # t /\ strClipboard[u] # t
    BY <1>1, <1>4 DEF TextIsNew
  <2>2. viewerDraws'[u] # 0 /\ viewerClip'[u] = t
        /\ \A c \in Clients : c # u => viewerDraws'[c] = viewerDraws[c]
    BY <1>3, <1>t
  <2>3. reader[u].at = "idle"
    BY <1>2 DEF NothingFromViewer
  <2> QED
    BY <1>1, <1>2, <1>3, <2>1, <2>2, <2>3 DEF FromViewer, NothingFromViewer, NothingForViewer
<1>8. FromServer'
  BY <1>1, ClipboardAssumption DEF FromServer
<1> QED
  BY <1>5, <1>6, <1>7, <1>8 DEF CalmNext

LEMMA InitIsCalm == Init => CalmInv
<1> SUFFICES ASSUME Init PROVE CalmInv
  OBVIOUS
<1>1. Text = Empty /\ Place = Server /\ Place \notin Clients
  BY ClipboardAssumption DEF Init, Text, Place
<1>2. Empty \in Seen
  BY EmptyIsSeen
<1>3. OnlyOneText
  BY <1>1 DEF Init, OnlyOneText, OnServer, InViewer, All
<1>4. TextIsNew
  BY <1>1, <1>2 DEF Init, TextIsNew
<1>5. FromViewer
  BY <1>1 DEF FromViewer
<1>6. FromServer
  BY <1>1 DEF Init, FromServer, Offered
<1> QED
  BY <1>3, <1>4, <1>5, <1>6 DEF CalmInv

LEMMA CalmStep == ASSUME TypeOK, ExchangeInv, CalmInv, [Next]_vars PROVE CalmInv'
<1> SUFFICES ASSUME calm' PROVE CalmNext
  BY DEF CalmInv, CalmNext
<1>1. ASSUME NEW t \in Clips, CopyAtServer(t) PROVE CalmNext
  BY <1>1, CalmCopyAtServer
<1>2. ASSUME NEW c \in Clients, NEW t \in Texts, CopyAtViewer(c, t) PROVE CalmNext
  BY <1>2, CalmCopyAtViewer
<1>3. ASSUME UNCHANGED userVars, calm PROVE CalmFacts
  BY <1>3, ClipboardAssumption DEF CalmFacts, CalmInv
<1>4. CASE ReadClipboard
  BY <1>4, <1>3, CalmReadClipboard DEF ReadClipboard, ClipboardOpens, ClipboardIsBusy
<1>5. CASE OnClipboardUpdate
  BY <1>5, <1>3, CalmOnClipboardUpdate DEF OnClipboardUpdate
<1>6. CASE SendClipboard
  BY <1>6, <1>3, CalmSendClipboard DEF SendClipboard
<1>7. ASSUME NEW c \in Clients, Loop(c) PROVE CalmNext
  BY <1>7, <1>3, CalmLoop DEF Loop
<1>8. ASSUME NEW c \in Clients, WaitForEvent(c) PROVE CalmNext
  BY <1>8, <1>3, CalmWaitForEvent DEF WaitForEvent
<1>9. ASSUME NEW c \in Clients, LookForNewClip(c) PROVE CalmNext
  BY <1>9, <1>3, CalmLookForNewClip DEF LookForNewClip
<1>10. ASSUME NEW c \in Clients, WritingFails(c) PROVE CalmNext
  BY <1>10, <1>3, CalmWritingFails DEF WritingFails
<1>11. ASSUME NEW c \in Clients, TakeClip(c) PROVE CalmNext
  BY <1>11, <1>3, CalmTakeClip DEF TakeClip
<1>12. ASSUME NEW c \in Clients, WriteClip(c) PROVE CalmNext
  BY <1>12, <1>3, CalmWriteClip DEF WriteClip
<1>13. ASSUME NEW c \in Clients, ReceiveServerCutText(c) PROVE CalmNext
  BY <1>13, <1>3, CalmReceiveServerCutText DEF ReceiveServerCutText
<1>14. ASSUME NEW c \in Clients, SetClipboardData(c) PROVE CalmNext
  BY <1>14, <1>3, CalmSetClipboardData DEF SetClipboardData, ClipboardOpens, ClipboardIsBusy
<1>15. ASSUME NEW c \in Clients, RememberText(c) PROVE CalmNext
  BY <1>15, <1>3, CalmRememberText DEF RememberText
<1>16. ASSUME NEW c \in Clients, OnDrawClipboard(c) PROVE CalmNext
  BY <1>16, <1>3, CalmOnDrawClipboard DEF OnDrawClipboard, ClipboardOpens, ClipboardIsBusy
<1>17. ASSUME NEW c \in Clients, SendCutTextEvent(c) PROVE CalmNext
  BY <1>17, <1>3, CalmSendCutTextEvent DEF SendCutTextEvent
<1>18. ASSUME NEW c \in Clients, OnRequest(c) PROVE CalmNext
  BY <1>18, <1>3, CalmOnRequest DEF OnRequest
<1>19. ASSUME NEW c \in Clients, SetReceivedClip(c) PROVE CalmNext
  BY <1>19, <1>3, CalmSetReceivedClip DEF SetReceivedClip
<1>20. ASSUME NEW c \in Clients, WriteToClipBoard(c) PROVE CalmNext
  BY <1>20, <1>3, CalmWriteToClipBoard DEF WriteToClipBoard, ClipboardOpens, ClipboardIsBusy
<1>21. ASSUME NEW c \in Clients, Disconnect(c) PROVE CalmNext
  BY <1>21, <1>3, CalmDisconnect DEF Disconnect
<1>22. ASSUME NEW c \in Clients, LeaveNormalPhase(c) PROVE CalmNext
  BY <1>22, <1>3, CalmLeaveNormalPhase DEF LeaveNormalPhase
<1>23. ASSUME NEW c \in Clients, Terminate(c) PROVE CalmNext
  BY <1>23, <1>3, CalmTerminate DEF Terminate
<1>24. ASSUME NEW c \in Clients, OnTerminate(c) PROVE CalmNext
  BY <1>24, <1>3, CalmOnTerminate DEF OnTerminate
<1>25. ASSUME NEW c \in Clients, Wait(c) PROVE CalmNext
  BY <1>25, <1>3, CalmWait DEF Wait
<1>26. CASE UNCHANGED vars
  <2>1. UNCHANGED <<Text, Place, Seen>>
    BY <1>26 DEF vars, Text, Place, Seen, Copied
  <2> QED
    BY <1>26, <1>3 DEF vars, CalmFacts, CalmNext, OnlyOneText, OnServer, InViewer, All, Text, Place,
       TextIsNew, Seen, Copied, FromViewer, FromServer, Offered, NotOffered, NothingForViewer,
       NothingFromViewer
<1> QED
  BY <1>1, <1>2, <1>4, <1>5, <1>6, <1>7, <1>8, <1>9, <1>10, <1>11, <1>12, <1>13, <1>14, <1>15,
     <1>16, <1>17, <1>18, <1>19, <1>20, <1>21, <1>22, <1>23, <1>24, <1>25, <1>26 DEF Next, Copy,
     Watch, Exchange, Read, Receive, Window, End

LEMMA CalmInvariance == Spec => []CalmInv
<1> QED
  BY InitIsCalm, CalmStep, TypeInvariance, ExchangeInvariance, PTL DEF Spec

\* While users copy in peace, setNewClipText and onClipboardUpdate keep a viewer's
\* own text from coming back to it, for any number of viewers.
THEOREM OwnTextStays == Spec => []NothingComesBack
<1>1. TypeOK /\ ExchangeInv /\ CalmInv => NothingComesBack
  <2> SUFFICES ASSUME TypeOK, ExchangeInv, CalmInv, calm, NEW c \in Clients,
                      NEW i \in DOMAIN toViewer[c]
               PROVE  toViewer[c][i] \notin copied[c]
    BY DEF NothingComesBack
  <2>1. toViewer[c] \in Seq(Clips) /\ toViewer[c] # <<>>
    BY DEF TypeOK, ConnectionTypes
  <2>2. connected[c]
    BY <2>1 DEF ExchangeInv, Ending
  <2>3. toViewer[c][i] = Text
    BY <2>1, <2>2 DEF CalmInv, OnlyOneText, InViewer, All
  <2>4. c # Place
    BY <2>1, <2>2 DEF CalmInv, FromViewer, NothingForViewer
  <2> QED
    BY <2>3, <2>4 DEF CalmInv, TextIsNew
<1> QED
  BY <1>1, TypeInvariance, ExchangeInvariance, CalmInvariance, PTL

\* Both ends agree once a text that was copied in peace has arrived, for any
\* number of viewers and copies.
THEOREM TextsArrive == Spec => []ClipboardsAgree
<1>1. TypeOK /\ ExchangeInv /\ CalmInv => ClipboardsAgree
  <2> SUFFICES ASSUME TypeOK, ExchangeInv, CalmInv, calm, AtRest, NEW c \in Clients \ ViewOnly,
                      connected[c], Place \in {Server, c}
               PROVE  viewerClip[c] = serverClip
    BY DEF ClipboardsAgree, Place
  <2>1. /\ serverDraws = 0 /\ watcher.at = "idle"
        /\ NothingFromViewer(c) /\ NothingForViewer(c)
    BY RestIsQuiet
  <2>2. CASE Place = c
    BY <2>1, <2>2 DEF CalmInv, FromViewer
  <2>3. CASE Place = Server
    <3>1. serverClip = Text /\ storedClip[c] = Text
      BY <2>1, <2>3 DEF CalmInv, FromServer, Offered, NotOffered
    <3> QED
      BY <2>1, <2>3, <3>1 DEF CalmInv, FromServer, NothingForViewer
  <2> QED
    BY <2>2, <2>3
<1> QED
  BY <1>1, TypeInvariance, ExchangeInvariance, CalmInvariance, PTL
=============================================================================
