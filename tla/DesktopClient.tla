--------------------------- MODULE DesktopClient ---------------------------
(***************************************************************************)
(* The service's side of a desktop that lives in a process of its own:     *)
(* DesktopClientImpl, the DesktopServerWatcher that starts the process     *)
(* again whenever it ends, the two ReconnectingChannels whose pipe is      *)
(* replaced then ("To" carries requests and their answers, "From" what the *)
(* server has to tell), the threads that talk over "To" one at a time,     *)
(* the dispatcher that listens on "From", and the destructor.              *)
(*                                                                         *)
(* The process started for the g-th time and its two pipes are called g.   *)
(***************************************************************************)
EXTENDS Naturals, Sequences

CONSTANTS
  MaxServers,   \* how many processes are started in a behaviour
  MaxTalks,     \* how many conversations are begun over "To"
  Capacity      \* how many parts of notices a pipe "From" holds

ASSUME BoundsAssumption ==
  MaxServers \in Nat /\ MaxTalks \in Nat /\ Capacity \in Nat

Directions == {"To", "From"}
Servers == 1 .. MaxServers
None == 0                               \* a null pointer
Channels == Servers \union {None}

\* What a conversation does, message part by message part: the GateKicker's
\* byte, an input event, a question a client's thread repeats until it is
\* answered, the extraction by the desktop's own thread, a notice.
Script == [kick    |-> <<"write">>,
           tell    |-> <<"write", "write">>,
           ask     |-> <<"write", "write", "read">>,
           extract |-> <<"write", "read">>,
           listen  |-> <<"read", "read">>]
Kinds == DOMAIN Script
LastStep(kind) == Len(Script[kind])
Writes == [kick |-> 1, tell |-> 2, ask |-> 2, extract |-> 1]
IsAnswered(kind) == kind \in {"ask", "extract"}
Requests == Kinds \ {"listen"}
Nobody == [To |-> "kick", From |-> "listen"]  \* the talk while nobody talks

VARIABLES
  watcher,         \* where DesktopServerWatcher::execute is
  last,            \* the process it started last
  alive,           \* the processes that run
  channel,         \* ReconnectingChannel::m_channel, per direction
  oldChannel,      \* ReconnectingChannel::m_oldChannel
  chanWasChanged,  \* ReconnectingChannel::m_chanWasChanged
  isClosed,        \* ReconnectingChannel::m_isClosed
  timer,           \* m_timer, an event that resets itself, is signalled
  chanMut,         \* who keeps m_chanMut while it waits for a pipe's mutex
  shut,            \* the pipes whose own end has been closed
  frees,           \* how often the object of a pipe's own end was deleted
  overrun,         \* replaceChannel has found m_oldChannel still set
  astray,          \* execute()'s catch has deleted what its pass did not make
  talk,            \* the conversation under way, per direction
  step,            \* the part it has come to
  at,              \* where its thread is in read() or write()
  held,            \* the pipe getChannel gave it
  talks,           \* how many conversations over "To" have begun
  inbox,           \* per pipe "To": what the server has not read yet
  parsing,         \* per pipe "To": the part the server has read last
  outbox,          \* per pipe "To": answers nobody has read yet
  notices,         \* per pipe "From": the parts nobody has read yet
  nextPart,        \* the part of a notice each server sends next
  dispatcher,      \* where DesktopSrvDispatcher::execute is
  phase            \* where the destructor is

serverVars  == <<watcher, last, alive>>
channelVars == <<channel, oldChannel, chanWasChanged, isClosed, timer, chanMut>>
objectVars  == <<shut, frees, overrun, astray>>
talkVars    == <<talk, step, at, held, talks>>
pipeVars    == <<inbox, parsing, outbox, notices, nextPart>>
endVars     == <<dispatcher, phase>>
vars == <<serverVars, channelVars, objectVars, talkVars, pipeVars, endVars>>

WatcherLocations ==
  {"starting", "greeting", "publishFrom", "watching", "ended"}
Phases == {"running", "stopThread", "stopWatcher", "closeTo", "closeFrom",
           "stopDispatcher", "stopKicker", "deleteChannels", "done"}
DispatcherLocations == {"listening", "closeTo", "closeFrom", "ended"}
Locations == {"idle", "ready", "inside", "blocked", "checking", "waiting"}
Closers == {"dispatcher", "destructor"}

NoPart == [id |-> 0, kind |-> "kick", part |-> 1]
Parts == [id : Nat, kind : Requests, part : 1 .. 2]

Init ==
  /\ watcher = "starting" /\ last = 0 /\ alive = {}
  /\ channel = [d \in Directions |-> None]
  /\ oldChannel = [d \in Directions |-> None]
  /\ chanWasChanged = [d \in Directions |-> FALSE]
  /\ isClosed = [d \in Directions |-> FALSE]
  /\ timer = [d \in Directions |-> FALSE]
  /\ chanMut = [d \in Directions |-> "free"]
  /\ shut = [d \in Directions |-> {}]
  /\ frees = [d \in Directions |-> [g \in Servers |-> 0]]
  /\ overrun = [d \in Directions |-> FALSE]
  /\ astray = FALSE
  /\ talk = Nobody
  /\ step = [d \in Directions |-> 1]
  /\ at = [d \in Directions |-> "idle"]
  /\ held = [d \in Directions |-> None]
  /\ talks = 0
  /\ inbox = [g \in Servers |-> <<>>]
  /\ parsing = [g \in Servers |-> NoPart]
  /\ outbox = [g \in Servers |-> <<>>]
  /\ notices = [g \in Servers |-> <<>>]
  /\ nextPart = [g \in Servers |-> 1]
  /\ dispatcher = "listening" /\ phase = "running"

\* delete on the object of pipe g's own end, which closes it; more than two
\* deletions are not told apart.
Deleted(objects, g) ==
  [objects EXCEPT ![g] = IF @ < 2 THEN @ + 1 ELSE 2]

\* The own end of pipe g can still be used.
Usable(d, g) == g # None /\ g \notin shut[d] /\ frees[d][g] = 0

-----------------------------------------------------------------------------
(* The DesktopServerWatcher's thread *)

Terminating == phase \notin {"running", "stopThread"}

\* Pipes are generated and the process is started with the other ends.
LaunchServer ==
  /\ watcher = "starting" /\ ~Terminating /\ last < MaxServers
  /\ watcher' = "greeting"
  /\ last' = last + 1
  /\ alive' = alive \union {last + 1}
  /\ UNCHANGED <<channelVars, objectVars, talkVars, pipeVars, endVars>>

\* The catch deletes the pipes the four pointers lead to, those of g.
CatchDeletes(g) == frees' = [d \in Directions |-> Deleted(frees[d], g)]

\* The process cannot be started: the catch deletes the new pipes.
LaunchFails ==
  /\ watcher = "starting" /\ ~Terminating /\ last < MaxServers
  /\ last' = last + 1
  /\ CatchDeletes(last + 1)
  /\ UNCHANGED <<watcher, alive, channelVars, shut, overrun, astray, talkVars,
                 pipeVars, endVars>>

\* There is no shared memory: the pass ends before it has reset the pointers.
\* They lead to the pipes of the pass before, deleted or given away, or, in the
\* first pass, anywhere.
SharedMemoryFails ==
  /\ watcher = "starting" /\ ~Terminating
  /\ astray' = TRUE
  /\ IF last = 0 THEN UNCHANGED frees ELSE CatchDeletes(last)
  /\ UNCHANGED <<serverVars, channelVars, shut, overrun, talkVars, pipeVars,
                 endVars>>

\* The process is gone before it was greeted.
GreetingFails ==
  /\ watcher = "greeting" /\ last \notin alive
  /\ watcher' = "starting"
  /\ CatchDeletes(last)
  /\ UNCHANGED <<last, alive, channelVars, shut, overrun, astray, talkVars,
                 pipeVars, endVars>>

\* A mistake: waiting threads are not woken.
ReplaceSilently(d) ==
  /\ chanMut[d] = "free"
  /\ chanWasChanged' = [chanWasChanged EXCEPT ![d] = @ \/ channel[d] # None]
  /\ frees' = IF oldChannel[d] # None /\ channel[d] # None
                THEN [frees EXCEPT ![d] = Deleted(@, channel[d])] ELSE frees
  /\ overrun' = [overrun EXCEPT ![d] = @ \/ oldChannel[d] # None]
  /\ oldChannel' = [oldChannel EXCEPT ![d] = channel[d]]
  /\ channel' = [channel EXCEPT ![d] = last]
  /\ UNCHANGED timer

\* A mistake: the thread that talks is not told.
ReplaceUnnoticed(d) ==
  /\ chanMut[d] = "free"
  /\ frees' = IF oldChannel[d] # None /\ channel[d] # None
                THEN [frees EXCEPT ![d] = Deleted(@, channel[d])] ELSE frees
  /\ overrun' = [overrun EXCEPT ![d] = @ \/ oldChannel[d] # None]
  /\ oldChannel' = [oldChannel EXCEPT ![d] = channel[d]]
  /\ channel' = [channel EXCEPT ![d] = last]
  /\ timer' = [timer EXCEPT ![d] = TRUE]
  /\ UNCHANGED chanWasChanged

\* replaceChannel: whoever is using the channel keeps it as m_oldChannel until
\* it asks for a channel again. If nobody has asked since the last time it is
\* m_channel that is deleted, and kept as m_oldChannel.
ReplaceChannel(d) ==
  /\ chanMut[d] = "free"
  /\ chanWasChanged' = [chanWasChanged EXCEPT ![d] = @ \/ channel[d] # None]
  /\ frees' = IF oldChannel[d] # None /\ channel[d] # None
                THEN [frees EXCEPT ![d] = Deleted(@, channel[d])] ELSE frees
  /\ overrun' = [overrun EXCEPT ![d] = @ \/ oldChannel[d] # None]
  /\ oldChannel' = [oldChannel EXCEPT ![d] = channel[d]]
  /\ channel' = [channel EXCEPT ![d] = last]
  /\ timer' = [timer EXCEPT ![d] = TRUE]

\* onReconnect has sent the configuration, the frame buffer and the mouse flags
\* over the new pipe, which nobody else knew, and gives it away.
PublishTo ==
  /\ watcher = "greeting" /\ last \in alive
  /\ watcher' = "publishFrom"
  /\ ReplaceChannel("To")
  /\ UNCHANGED <<last, alive, isClosed, chanMut, shut, astray, talkVars, pipeVars,
                 endVars>>

PublishFrom ==
  /\ watcher = "publishFrom"
  /\ watcher' = "watching"
  /\ ReplaceChannel("From")
  /\ UNCHANGED <<last, alive, isClosed, chanMut, shut, astray, talkVars, pipeVars,
                 endVars>>

\* waitForExit returns: the process has ended, or stopWait was called.
WatcherWakes ==
  /\ watcher = "watching"
  /\ last \notin alive \/ Terminating
  /\ watcher' = "starting"
  /\ UNCHANGED <<last, alive, channelVars, objectVars, talkVars, pipeVars, endVars>>

WatcherEnds ==
  /\ watcher = "starting" /\ Terminating
  /\ watcher' = "ended"
  /\ UNCHANGED <<last, alive, channelVars, objectVars, talkVars, pipeVars, endVars>>

-----------------------------------------------------------------------------
(* A conversation: any thread that owns the gate of "To", and the dispatcher *)

\* One thread at a time owns the gate. The clients are gone when the destructor
\* starts, the update thread may talk until it is joined, the GateKicker until
\* it is deleted.
BeginTalk(kind) ==
  /\ at["To"] = "idle" /\ talks < MaxTalks
  /\ \/ phase = "running"
     \/ phase = "stopThread" /\ kind # "ask"
     \/ kind = "kick" /\ phase \notin {"deleteChannels", "done"}
  /\ talk' = [talk EXCEPT !["To"] = kind]
  /\ step' = [step EXCEPT !["To"] = 1]
  /\ at' = [at EXCEPT !["To"] = "ready"]
  /\ talks' = talks + 1
  /\ UNCHANGED <<serverVars, channelVars, objectVars, held, pipeVars, endVars>>

DispatcherTerminating ==
  phase \in {"stopDispatcher", "stopKicker", "deleteChannels", "done"}

BeginListening ==
  /\ dispatcher = "listening" /\ at["From"] = "idle" /\ ~DispatcherTerminating
  /\ step' = [step EXCEPT !["From"] = 1]
  /\ at' = [at EXCEPT !["From"] = "ready"]
  /\ UNCHANGED <<serverVars, channelVars, objectVars, talk, held, talks,
                 pipeVars, endVars>>

\* The gate is free; the dispatcher comes round.
EndTalk(d) ==
  /\ talk' = [talk EXCEPT ![d] = Nobody[d]]
  /\ step' = [step EXCEPT ![d] = 1]
  /\ at' = [at EXCEPT ![d] = "idle"]
  /\ held' = [held EXCEPT ![d] = None]

\* A ReconnectException: the question is asked again, everything else is
\* given up.
Abort(d) ==
  /\ IF talk[d] = "ask"
       THEN /\ step' = [step EXCEPT ![d] = 1]
            /\ at' = [at EXCEPT ![d] = "ready"]
            /\ held' = [held EXCEPT ![d] = None]
            /\ UNCHANGED talk
       ELSE EndTalk(d)
  /\ UNCHANGED dispatcher

\* An IOException: threads that talk report it or do not care; the dispatcher
\* calls onAbnormalDesktopTerminate and closes both channels.
Fail(d) ==
  /\ EndTalk(d)
  /\ dispatcher' = IF d = "From" THEN "closeTo" ELSE dispatcher

\* getChannel after close().
GetChannelFails(d) ==
  /\ at[d] = "ready" /\ isClosed[d]
  /\ Fail(d)
  /\ UNCHANGED <<serverVars, channelVars, objectVars, talks, pipeVars, phase>>

\* A mistake: m_oldChannel is not reset.
GetChannelKeepingOld(d) ==
  /\ at[d] = "ready" /\ ~isClosed[d] /\ chanMut[d] = "free"
  /\ frees' = IF oldChannel[d] = None THEN frees
              ELSE [frees EXCEPT ![d] = Deleted(@, oldChannel[d])]
  /\ chanWasChanged' = [chanWasChanged EXCEPT ![d] = FALSE]
  /\ IF chanWasChanged[d]
       THEN Abort(d)
       ELSE /\ held' = [held EXCEPT ![d] = channel[d]]
            /\ at' = [at EXCEPT ![d] = "inside"]
            /\ UNCHANGED <<talk, step, dispatcher>>
  /\ UNCHANGED <<serverVars, channel, oldChannel, isClosed, timer, chanMut, shut,
                 overrun, astray, talks, pipeVars, phase>>

\* getChannel: deletes m_oldChannel, and aborts once if the channel has been
\* replaced since the thread used it last.
GetChannel(d) ==
  /\ at[d] = "ready" /\ ~isClosed[d] /\ chanMut[d] = "free"
  /\ frees' = IF oldChannel[d] = None THEN frees
              ELSE [frees EXCEPT ![d] = Deleted(@, oldChannel[d])]
  /\ oldChannel' = [oldChannel EXCEPT ![d] = None]
  /\ chanWasChanged' = [chanWasChanged EXCEPT ![d] = FALSE]
  /\ IF chanWasChanged[d]
       THEN Abort(d)
       ELSE /\ held' = [held EXCEPT ![d] = channel[d]]
            /\ at' = [at EXCEPT ![d] = "inside"]
            /\ UNCHANGED <<talk, step, dispatcher>>
  /\ UNCHANGED <<serverVars, channel, isClosed, timer, chanMut, shut, overrun,
                 astray, talks, pipeVars, phase>>

Operation(d) == Script[talk[d]][step[d]]

\* The next part, or the end of the conversation.
GoOn(d) ==
  /\ IF step[d] < LastStep(talk[d])
       THEN /\ step' = [step EXCEPT ![d] = @ + 1]
            /\ at' = [at EXCEPT ![d] = "ready"]
            /\ held' = [held EXCEPT ![d] = None]
            /\ UNCHANGED talk
       ELSE EndTalk(d)
  /\ UNCHANGED <<serverVars, channelVars, objectVars, talks, endVars>>

CurrentPart == [id |-> talks, kind |-> talk["To"], part |-> step["To"]]

\* AnonymousPipe::write by a thread that owns the gate.
Write(d) ==
  /\ at[d] = "inside" /\ Operation(d) = "write"
  /\ Usable(d, held[d]) /\ held[d] \in alive
  /\ inbox' = [inbox EXCEPT ![held[d]] = Append(@, CurrentPart)]
  /\ GoOn(d)
  /\ UNCHANGED <<parsing, outbox, notices, nextPart>>

Available(d, g) == IF d = "To" THEN outbox[g] # <<>> ELSE notices[g] # <<>>

\* AnonymousPipe::read finds something, be the process alive or not.
Read(d) ==
  /\ at[d] \in {"inside", "blocked"} /\ Operation(d) = "read"
  /\ Usable(d, held[d]) /\ Available(d, held[d])
  /\ IF d = "To"
       THEN /\ outbox' = [outbox EXCEPT ![held[d]] = Tail(@)]
            /\ UNCHANGED notices
       ELSE /\ notices' = [notices EXCEPT ![held[d]] = Tail(@)]
            /\ UNCHANGED outbox
  /\ GoOn(d)
  /\ UNCHANGED <<inbox, parsing, nextPart>>

\* ReadFile waits, and keeps the pipe's mutex meanwhile.
Block(d) ==
  /\ at[d] = "inside" /\ Operation(d) = "read"
  /\ Usable(d, held[d])
  /\ held[d] \in alive /\ ~Available(d, held[d])
  /\ at' = [at EXCEPT ![d] = "blocked"]
  /\ UNCHANGED <<serverVars, channelVars, objectVars, talk, step, held, talks,
                 pipeVars, endVars>>

\* There is no pipe yet, it has been closed, or the process at its other end
\* is gone and has left nothing to read.
Broken(d) ==
  Usable(d, held[d]) =>
    /\ held[d] \notin alive
    /\ Operation(d) = "read" => ~Available(d, held[d])

\* read() or write() catches the pipe's exception: waitForReconnect.
PipeFails(d) ==
  /\ at[d] \in {"inside", "blocked"} /\ Broken(d)
  /\ at' = [at EXCEPT ![d] = "checking"]
  /\ UNCHANGED <<serverVars, channelVars, objectVars, talk, step, held, talks,
                 pipeVars, endVars>>

\* The top of the loop finds the channel closed, or a minute over ...
GiveUp(d) ==
  /\ at[d] = "checking"
  /\ Fail(d)
  /\ UNCHANGED <<serverVars, channelVars, objectVars, talks, pipeVars, phase>>

\* ... or the thread waits for the event.
WaitForEvent(d) ==
  /\ at[d] = "checking" /\ ~isClosed[d]
  /\ at' = [at EXCEPT ![d] = "waiting"]
  /\ UNCHANGED <<serverVars, channelVars, objectVars, talk, step, held, talks,
                 pipeVars, endVars>>

\* The channel is another one: the conversation is aborted; had there been none,
\* it goes on.
Reconnected(d) ==
  /\ chanWasChanged' = [chanWasChanged EXCEPT ![d] = FALSE]
  /\ IF held[d] # None
       THEN Abort(d)
       ELSE /\ at' = [at EXCEPT ![d] = "ready"]
            /\ UNCHANGED <<talk, step, held, dispatcher>>

\* The event has come.
WakeUp(d) ==
  /\ at[d] = "waiting" /\ timer[d] /\ chanMut[d] = "free"
  /\ timer' = [timer EXCEPT ![d] = FALSE]
  /\ IF channel[d] # held[d]
       THEN Reconnected(d)
       ELSE /\ at' = [at EXCEPT ![d] = "checking"]
            /\ UNCHANGED <<chanWasChanged, talk, step, held, dispatcher>>
  /\ UNCHANGED <<serverVars, channel, oldChannel, isClosed, chanMut, objectVars,
                 talks, pipeVars, phase>>

\* The minute is over first; the channel is looked at all the same.
TimeIsOver(d) ==
  /\ at[d] = "waiting" /\ chanMut[d] = "free"
  /\ IF channel[d] # held[d]
       THEN Reconnected(d)
       ELSE Fail(d) /\ UNCHANGED chanWasChanged
  /\ UNCHANGED <<serverVars, channel, oldChannel, isClosed, timer, chanMut,
                 objectVars, talks, pipeVars, phase>>

-----------------------------------------------------------------------------
(* The processes *)

\* The server's dispatcher reads a part; the last one of a question makes it
\* answer.
ServerReads(g) ==
  /\ g \in alive /\ inbox[g] # <<>>
  /\ LET part == Head(inbox[g]) IN
       /\ inbox' = [inbox EXCEPT ![g] = Tail(@)]
       /\ parsing' = [parsing EXCEPT ![g] =
                        IF part.part < Writes[part.kind] THEN part ELSE NoPart]
       /\ outbox' = IF part.part = Writes[part.kind] /\ IsAnswered(part.kind)
                      THEN [outbox EXCEPT ![g] = Append(@, part.id)]
                      ELSE outbox
  /\ UNCHANGED <<serverVars, channelVars, objectVars, talkVars, notices,
                 nextPart, endVars>>

\* A part of a notice: an update was detected, the clipboard has changed.
ServerNotifies(g) ==
  /\ g \in alive /\ Len(notices[g]) < Capacity
  /\ notices' = [notices EXCEPT ![g] = Append(@, nextPart[g])]
  /\ nextPart' = [nextPart EXCEPT ![g] = 3 - @]
  /\ UNCHANGED <<serverVars, channelVars, objectVars, talkVars, inbox, parsing,
                 outbox, endVars>>

\* It crashes, or the session has changed; what it has written can still be
\* read.
ServerDies(g) ==
  /\ g \in alive
  /\ alive' = alive \ {g}
  /\ inbox' = [inbox EXCEPT ![g] = <<>>]
  /\ parsing' = [parsing EXCEPT ![g] = NoPart]
  /\ nextPart' = [nextPart EXCEPT ![g] = 1]
  /\ UNCHANGED <<watcher, last, channelVars, objectVars, talkVars, outbox,
                 notices, endVars>>

\* Its dispatcher finds the pipe closed: onAnObjectEvent shuts it down.
ServerExits(g) ==
  /\ g \in alive /\ ~Usable("To", g)
  /\ ServerDies(g)

-----------------------------------------------------------------------------
(* Closing the channels, and the destructor *)

Place(w) == IF w = "dispatcher" THEN dispatcher ELSE phase
CloseLocation(d) == IF d = "To" THEN "closeTo" ELSE "closeFrom"

\* A closer has closed d.
Advance(w, d) ==
  IF w = "dispatcher"
    THEN /\ dispatcher' = IF d = "To" THEN "closeFrom" ELSE "ended"
         /\ UNCHANGED phase
    ELSE /\ phase' = IF d = "To" THEN "closeFrom" ELSE "stopDispatcher"
         /\ UNCHANGED dispatcher

BeginClose(w, d) ==
  /\ Place(w) = CloseLocation(d) /\ chanMut[d] = "free"
  /\ chanMut' = [chanMut EXCEPT ![d] = w]
  /\ isClosed' = [isClosed EXCEPT ![d] = TRUE]
  /\ UNCHANGED <<serverVars, channel, oldChannel, chanWasChanged, timer,
                 objectVars, talkVars, pipeVars, endVars>>

\* The pipes' own ends are closed, each under a mutex that a thread which waits
\* in ReadFile keeps.
EndClose(w, d) ==
  /\ chanMut[d] = w
  /\ LET pipes == {channel[d], oldChannel[d]} \ {None} IN
       /\ at[d] = "blocked" => held[d] \notin pipes
       /\ shut' = [shut EXCEPT ![d] = @ \union pipes]
  /\ timer' = [timer EXCEPT ![d] = TRUE]
  /\ chanMut' = [chanMut EXCEPT ![d] = "free"]
  /\ Advance(w, d)
  /\ UNCHANGED <<serverVars, channel, oldChannel, chanWasChanged, isClosed,
                 frees, overrun, astray, talkVars, pipeVars>>

PhaseGoto(from, to) == phase = from /\ phase' = to

\* The last client is gone; its thread deletes the desktop.
BeginDestruction ==
  /\ talk["To"] # "ask"
  /\ PhaseGoto("running", "stopThread")
  /\ UNCHANGED <<serverVars, channelVars, objectVars, talkVars, pipeVars,
                 dispatcher>>

\* The update thread has ended ...
JoinThread ==
  /\ talk["To"] = "kick"
  /\ PhaseGoto("stopThread", "stopWatcher")
  /\ UNCHANGED <<serverVars, channelVars, objectVars, talkVars, pipeVars,
                 dispatcher>>

\* A mistake: only the channel the dispatcher listens on is closed.
JoinWatcherThenCloseFrom ==
  /\ watcher = "ended"
  /\ PhaseGoto("stopWatcher", "closeFrom")
  /\ UNCHANGED <<serverVars, channelVars, objectVars, talkVars, pipeVars,
                 dispatcher>>

\* ... and the watcher has.
JoinWatcher ==
  /\ watcher = "ended"
  /\ PhaseGoto("stopWatcher", "closeTo")
  /\ UNCHANGED <<serverVars, channelVars, objectVars, talkVars, pipeVars,
                 dispatcher>>

DispatcherEnds ==
  /\ dispatcher = "listening" /\ at["From"] = "idle" /\ DispatcherTerminating
  /\ dispatcher' = "ended"
  /\ UNCHANGED <<serverVars, channelVars, objectVars, talkVars, pipeVars,
                 phase>>

JoinDispatcher ==
  /\ dispatcher = "ended"
  /\ PhaseGoto("stopDispatcher", "stopKicker")
  /\ UNCHANGED <<serverVars, channelVars, objectVars, talkVars, pipeVars,
                 dispatcher>>

JoinKicker ==
  /\ at["To"] = "idle"
  /\ PhaseGoto("stopKicker", "deleteChannels")
  /\ UNCHANGED <<serverVars, channelVars, objectVars, talkVars, pipeVars,
                 dispatcher>>

\* ~ReconnectingChannel, for both.
DeleteChannels ==
  /\ PhaseGoto("deleteChannels", "done")
  /\ frees' = [d \in Directions |->
       LET first == IF channel[d] = None THEN frees[d]
                    ELSE Deleted(frees[d], channel[d])
       IN  IF oldChannel[d] = None THEN first ELSE Deleted(first, oldChannel[d])]
  /\ UNCHANGED <<serverVars, channelVars, shut, overrun, astray, talkVars,
                 pipeVars, dispatcher>>

-----------------------------------------------------------------------------
Watch == \/ GreetingFails \/ PublishTo \/ PublishFrom
         \/ WatcherWakes \/ WatcherEnds

Converse(d) ==
  \/ GetChannelFails(d) \/ GetChannel(d) \/ Write(d) \/ Read(d) \/ Block(d)
  \/ PipeFails(d) \/ GiveUp(d) \/ WaitForEvent(d) \/ WakeUp(d) \/ TimeIsOver(d)

Serve(g) == ServerReads(g) \/ ServerExits(g)

Close(w, d) == BeginClose(w, d) \/ EndClose(w, d)

Destroy == \/ JoinThread \/ JoinWatcher \/ JoinDispatcher \/ JoinKicker
           \/ DeleteChannels

Step ==
  \/ LaunchServer \/ LaunchFails \/ SharedMemoryFails \/ Watch
  \/ \E kind \in Requests : BeginTalk(kind)
  \/ BeginListening \/ DispatcherEnds
  \/ \E d \in Directions : Converse(d)
  \/ \E g \in Servers : Serve(g) \/ ServerNotifies(g) \/ ServerDies(g)
  \/ \E w \in Closers, d \in Directions : Close(w, d)
  \/ BeginDestruction \/ Destroy

\* Once the catch has deleted objects that were not its pass's, what the service
\* does is undefined, and nothing more is said of it.
Sane(A) == ~astray /\ A

Next == Sane(Step)

Spec == Init /\ [][Next]_vars

\* Threads run, a process that runs reads its requests and leaves when it is
\* cut off, and a minute passes. No process need be started or end, nobody
\* need begin to talk, and the desktop need not be deleted.
FairSpec ==
  /\ Spec
  /\ WF_vars(Sane(Watch)) /\ WF_vars(Sane(Destroy))
  /\ WF_vars(Sane(BeginListening)) /\ WF_vars(Sane(DispatcherEnds))
  /\ \A d \in Directions : WF_vars(Sane(Converse(d)))
  /\ \A g \in Servers : WF_vars(Sane(Serve(g)))
  /\ \A w \in Closers : WF_vars(Sane(\E d \in Directions : Close(w, d)))

-----------------------------------------------------------------------------
(* Correctness *)

\* Every variable has its type.
TypeOK ==
  /\ watcher \in WatcherLocations /\ last \in 0 .. MaxServers
  /\ alive \subseteq Servers
  /\ channel \in [Directions -> Channels]
  /\ oldChannel \in [Directions -> Channels]
  /\ chanWasChanged \in [Directions -> BOOLEAN]
  /\ isClosed \in [Directions -> BOOLEAN]
  /\ timer \in [Directions -> BOOLEAN]
  /\ chanMut \in [Directions -> Closers \union {"free"}]
  /\ shut \in [Directions -> SUBSET Servers]
  /\ frees \in [Directions -> [Servers -> 0 .. 2]]
  /\ overrun \in [Directions -> BOOLEAN] /\ astray \in BOOLEAN
  /\ talk \in [Directions -> Kinds]
  /\ talk["To"] \in Requests /\ talk["From"] = "listen"
  /\ step \in [Directions -> 1 .. 3]
  /\ \A d \in Directions : step[d] <= LastStep(talk[d])
  /\ at \in [Directions -> Locations]
  /\ held \in [Directions -> Channels]
  /\ talks \in 0 .. MaxTalks
  /\ inbox \in [Servers -> Seq(Parts)]
  /\ parsing \in [Servers -> Parts]
  /\ outbox \in [Servers -> Seq(Nat)]
  /\ notices \in [Servers -> Seq(1 .. 2)] /\ nextPart \in [Servers -> 1 .. 2]
  /\ dispatcher \in DispatcherLocations /\ phase \in Phases

\* The pipes whose own end the watcher has not given away yet.
WatchersOwn(d) ==
  IF \/ watcher = "greeting"
     \/ watcher = "publishFrom" /\ d = "From"
    THEN {last} ELSE {}

\* The pipes that somebody will still delete.
Owned(d) ==
  WatchersOwn(d) \union
  (IF phase = "done" THEN {} ELSE {channel[d], oldChannel[d]} \ {None})

\* The objects of the pipes (ReconnectingChannel.cpp, DesktopServerWatcher.cpp),
\* however often processes end, cannot be started or are gone before they were
\* greeted: an object is deleted once, when nobody knows it any more and no
\* thread is reading or writing with it; none is lost. Two things break this: a
\* channel that is replaced twice with nobody asking for it in between, and a
\* pass of the watcher that gets no shared memory, whose catch deletes pipes it
\* no longer owns.
ChannelsAreOwned ==
  \A d \in Directions : ~overrun[d] /\ ~astray =>
    /\ \A g \in 1 .. last : frees[d][g] = IF g \in Owned(d) THEN 0 ELSE 1
    /\ phase # "done" => oldChannel[d] # channel[d] \/ channel[d] = None
    /\ at[d] \in {"inside", "blocked"} /\ held[d] # None => held[d] \in Owned(d)

\* y is what a server may read next when x was the last it has read.
MayFollow(x, y) ==
  IF x.part < Writes[x.kind]
    THEN y = [x EXCEPT !.part = @ + 1]
    ELSE y.part = 1

\* Whatever happens to the process and its pipes (ReconnectException,
\* DesktopSrvDispatcher::execute): a server never reads the rest of a request
\* whose beginning went to another one, an answer is read by the thread that
\* asked, and the dispatcher never takes the rest of a notice for a new one.
TalksAreWhole ==
  /\ \A g \in Servers :
       LET read == <<parsing[g]>> \o inbox[g] IN
       \A i \in 1 .. Len(inbox[g]) : MayFollow(read[i], read[i + 1])
  /\ at["To"] \in {"inside", "blocked"} /\ held["To"] # None
       /\ Operation("To") = "read" /\ outbox[held["To"]] # <<>> =>
       Head(outbox[held["To"]]) = talks
  /\ at["From"] \in {"inside", "blocked"} /\ held["From"] # None
       /\ notices[held["From"]] # <<>> =>
       Head(notices[held["From"]]) = step["From"]

\* No wake-up is lost (ReconnectingChannel::m_timer): while a thread waits for
\* another channel than the one that is there, or for one that was closed, the
\* event is signalled.
WaitersAreWoken ==
  \A d \in Directions :
    at[d] = "waiting" /\ chanMut[d] = "free"
      /\ (channel[d] # held[d] \/ isClosed[d]) => timer[d]

\* The desktop's destructor returns, however the process behaves as long as it
\* leaves when it is cut off (DesktopClientImpl::freeResource); what happens once
\* the watcher has deleted pipes that were not its own is not known.
DestructionCompletes == phase = "stopThread" ~> phase = "done" \/ astray

=============================================================================
