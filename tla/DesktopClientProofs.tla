------------------------ MODULE DesktopClientProofs ------------------------
(***************************************************************************)
(* Proofs about DesktopClient, for any number of processes, conversations  *)
(* and notices: the objects of the pipes are deleted once and not in use,  *)
(* no wake-up is lost, and no conversation is torn.                        *)
(***************************************************************************)
EXTENDS DesktopClient, TLAPS

\* The conversations as the proofs use them: how long they are, and which of
\* their parts are written.
LEMMA ScriptsAreShort ==
  /\ \A kind \in Kinds : LastStep(kind) \in 1 .. 3
  /\ Nobody \in [Directions -> Kinds]
  /\ Nobody["To"] \in Requests /\ Nobody["From"] = "listen"
  /\ \A kind \in Requests : \A i \in 1 .. LastStep(kind) :
       Script[kind][i] = "write" => i \in 1 .. 2
  /\ \A i \in 1 .. Len(Script["listen"]) : Script["listen"][i] = "read"
<1>1. Kinds = {"kick", "tell", "ask", "extract", "listen"}
  BY DEF Kinds, Script
<1>2. /\ Script["kick"] = <<"write">>
      /\ Script["tell"] = <<"write", "write">>
      /\ Script["ask"] = <<"write", "write", "read">>
      /\ Script["extract"] = <<"write", "read">>
      /\ Script["listen"] = <<"read", "read">>
  BY DEF Script
<1>3. Requests = {"kick", "tell", "ask", "extract"}
  BY <1>1 DEF Requests
<1>4. \A kind \in Kinds : LastStep(kind) \in 1 .. 3
  BY <1>1, <1>2 DEF LastStep
<1>5. \A kind \in Requests : \A i \in 1 .. LastStep(kind) :
        Script[kind][i] = "write" => i \in 1 .. 2
  BY <1>2, <1>3 DEF LastStep
<1>6. \A i \in 1 .. Len(Script["listen"]) : Script["listen"][i] = "read"
  BY <1>2
<1>7. /\ Nobody \in [Directions -> Kinds]
      /\ Nobody["To"] \in Requests /\ Nobody["From"] = "listen"
  BY <1>1, <1>3 DEF Nobody, Directions
<1> QED
  BY <1>4, <1>5, <1>6, <1>7

LEMMA DeletedIsCounted ==
  ASSUME NEW f \in [Servers -> 0 .. 2], NEW g
  PROVE  Deleted(f, g) \in [Servers -> 0 .. 2]
<1>1. CASE g \in Servers
  <2>1. f[g] \in 0 .. 2
    BY <1>1
  <2>2. (IF f[g] < 2 THEN f[g] + 1 ELSE 2) \in 0 .. 2
    BY <2>1
  <2> QED
    BY <1>1, <2>2 DEF Deleted
<1>2. CASE g \notin Servers
  <2>1. Deleted(f, g) = f
    BY <1>2 DEF Deleted
  <2> QED
    BY <2>1
<1> QED
  BY <1>1, <1>2

\* What TypeOK says of the conversations.
TalkTypes ==
  /\ talk \in [Directions -> Kinds]
  /\ talk["To"] \in Requests /\ talk["From"] = "listen"
  /\ step \in [Directions -> 1 .. 3]
  /\ \A d \in Directions : step[d] <= LastStep(talk[d])
  /\ at \in [Directions -> Locations]
  /\ held \in [Directions -> Channels]

LEMMA TalkTypesAreTyped == TypeOK => TalkTypes
BY DEF TypeOK, TalkTypes

LEMMA EndTalkTypes ==
  ASSUME TalkTypes, NEW d \in Directions, EndTalk(d)
  PROVE  TalkTypes'
<1>1. talk' \in [Directions -> Kinds]
  BY ScriptsAreShort DEF EndTalk, TalkTypes
<1>2. talk'["To"] \in Requests /\ talk'["From"] = "listen"
  BY ScriptsAreShort DEF EndTalk, TalkTypes, Directions
<1>3. step' \in [Directions -> 1 .. 3]
  BY DEF EndTalk, TalkTypes
<1>4. \A x \in Directions : step'[x] <= LastStep(talk'[x])
  <2> TAKE x \in Directions
  <2>1. LastStep(talk'[x]) \in 1 .. 3
    BY <1>1, ScriptsAreShort
  <2>2. CASE x = d
    <3>1. step'[x] = 1
      BY <2>2 DEF EndTalk, TalkTypes
    <3> QED
      BY <2>1, <3>1
  <2>3. CASE x # d
    BY <2>3 DEF EndTalk, TalkTypes
  <2> QED
    BY <2>2, <2>3
<1>5. at' \in [Directions -> Locations] /\ held' \in [Directions -> Channels]
  BY DEF EndTalk, TalkTypes, Locations, Channels
<1> QED
  BY <1>1, <1>2, <1>3, <1>4, <1>5 DEF TalkTypes

LEMMA GoOnTypes ==
  ASSUME TalkTypes, NEW d \in Directions, GoOn(d)
  PROVE  TalkTypes'
<1>1. CASE step[d] < LastStep(talk[d])
  <2>1. step' = [step EXCEPT ![d] = @ + 1] /\ talk' = talk
        /\ at' = [at EXCEPT ![d] = "ready"] /\ held' = [held EXCEPT ![d] = None]
    BY <1>1 DEF GoOn
  <2>2. LastStep(talk[d]) \in 1 .. 3
    BY ScriptsAreShort DEF TalkTypes
  <2>3. step' \in [Directions -> 1 .. 3]
    <3>1. step[d] + 1 \in 1 .. 3
      BY <1>1, <2>2 DEF TalkTypes
    <3> QED
      BY <2>1, <3>1 DEF TalkTypes
  <2>4. \A x \in Directions : step'[x] <= LastStep(talk'[x])
    <3> TAKE x \in Directions
    <3>1. CASE x = d
      BY <1>1, <2>1, <2>2, <3>1 DEF TalkTypes
    <3>2. CASE x # d
      BY <2>1, <3>2 DEF TalkTypes
    <3> QED
      BY <3>1, <3>2
  <2>5. at' \in [Directions -> Locations] /\ held' \in [Directions -> Channels]
    BY <2>1 DEF TalkTypes, Locations, Channels
  <2> QED
    BY <2>1, <2>3, <2>4, <2>5 DEF TalkTypes
<1>2. CASE ~(step[d] < LastStep(talk[d]))
  BY <1>2, EndTalkTypes DEF GoOn
<1> QED
  BY <1>1, <1>2

LEMMA AbortTypes ==
  ASSUME TalkTypes, NEW d \in Directions, Abort(d)
  PROVE  TalkTypes'
<1>1. CASE talk[d] = "ask"
  <2>1. \A x \in Directions : LastStep(talk[x]) \in 1 .. 3
    BY ScriptsAreShort DEF TalkTypes
  <2> QED
    BY <1>1, <2>1 DEF Abort, TalkTypes, Locations, Channels
<1>2. CASE talk[d] # "ask"
  BY <1>2, EndTalkTypes DEF Abort
<1> QED
  BY <1>1, <1>2

\* A thread moves within read() or write().
LEMMA MoveTypes ==
  ASSUME TalkTypes, NEW d \in Directions, NEW l \in Locations, NEW h \in Channels,
         talk' = talk, step' = step,
         at' = [at EXCEPT ![d] = l],
         held' = held \/ held' = [held EXCEPT ![d] = h]
  PROVE  TalkTypes'
BY DEF TalkTypes

\* What TypeOK says of the rest.
ControlTypes ==
  /\ watcher \in WatcherLocations /\ last \in 0 .. MaxServers
  /\ alive \subseteq Servers /\ talks \in 0 .. MaxTalks
  /\ dispatcher \in DispatcherLocations /\ phase \in Phases

ChannelTypes ==
  /\ channel \in [Directions -> Channels]
  /\ oldChannel \in [Directions -> Channels]
  /\ chanWasChanged \in [Directions -> BOOLEAN]
  /\ isClosed \in [Directions -> BOOLEAN]
  /\ timer \in [Directions -> BOOLEAN]
  /\ chanMut \in [Directions -> Closers \union {"free"}]
  /\ shut \in [Directions -> SUBSET Servers]
  /\ frees \in [Directions -> [Servers -> 0 .. 2]]
  /\ overrun \in [Directions -> BOOLEAN] /\ astray \in BOOLEAN

PipeTypes ==
  /\ inbox \in [Servers -> Seq(Parts)]
  /\ parsing \in [Servers -> Parts]
  /\ outbox \in [Servers -> Seq(Nat)]
  /\ notices \in [Servers -> Seq(1 .. 2)] /\ nextPart \in [Servers -> 1 .. 2]

LEMMA TypesAreGrouped ==
  TypeOK <=> ControlTypes /\ ChannelTypes /\ TalkTypes /\ PipeTypes
BY DEF TypeOK, ControlTypes, ChannelTypes, TalkTypes, PipeTypes

LEMMA StaysTyped ==
  /\ ControlTypes /\ UNCHANGED <<serverVars, talks, endVars>> => ControlTypes'
  /\ ChannelTypes /\ UNCHANGED <<channelVars, objectVars>> => ChannelTypes'
  /\ TalkTypes /\ UNCHANGED talkVars => TalkTypes'
  /\ PipeTypes /\ UNCHANGED pipeVars => PipeTypes'
BY DEF ControlTypes, ChannelTypes, TalkTypes, PipeTypes, serverVars, endVars,
       channelVars, objectVars, talkVars, pipeVars

LEMMA EmptyPart == NoPart \in Parts
BY DEF NoPart, Parts, Requests, Kinds, Script

LEMMA InitTypes == Init => TypeOK
<1> SUFFICES ASSUME Init PROVE TypeOK
  OBVIOUS
<1>1. ControlTypes
  BY BoundsAssumption DEF Init, ControlTypes, WatcherLocations, DispatcherLocations, Phases
<1>2. ChannelTypes
  <2>1. astray \in BOOLEAN
    BY DEF Init
  <2>2. frees \in [Directions -> [Servers -> 0 .. 2]]
    BY DEF Init
  <2> QED
    BY <2>1, <2>2 DEF Init, ChannelTypes, Channels, Closers
<1>3. TalkTypes
  <2>1. \A d \in Directions : LastStep(talk[d]) \in 1 .. 3
    BY ScriptsAreShort DEF Init
  <2> QED
    BY ScriptsAreShort, <2>1 DEF Init, TalkTypes, Channels, Locations
<1>4. PipeTypes
  BY EmptyPart DEF Init, PipeTypes
<1> QED
  BY <1>1, <1>2, <1>3, <1>4, TypesAreGrouped

\* The watcher's steps.
LEMMA ReplaceTypes ==
  ASSUME ControlTypes, ChannelTypes, NEW d \in Directions, ReplaceChannel(d),
         last # 0, UNCHANGED <<isClosed, chanMut, shut, astray>>
  PROVE  ChannelTypes'
<1>1. last \in Servers
  BY BoundsAssumption DEF ControlTypes, Servers
<1>2. frees' \in [Directions -> [Servers -> 0 .. 2]]
  BY DeletedIsCounted DEF ReplaceChannel, ChannelTypes
<1> QED
  BY <1>1, <1>2 DEF ReplaceChannel, ChannelTypes, Channels

\* What the watcher gives away is a process it has started.
Started == watcher \in {"greeting", "publishFrom"} => last # 0
TypeInv == ControlTypes /\ ChannelTypes /\ TalkTypes /\ PipeTypes /\ Started

LEMMA CatchTypes ==
  ASSUME ChannelTypes, NEW g, CatchDeletes(g) \/ UNCHANGED frees, astray' \in BOOLEAN,
         UNCHANGED <<channelVars, shut, overrun>>
  PROVE  ChannelTypes'
<1>1. \A d \in Directions : Deleted(frees[d], g) \in [Servers -> 0 .. 2]
  BY DeletedIsCounted DEF ChannelTypes
<1>2. frees' \in [Directions -> [Servers -> 0 .. 2]]
  BY <1>1 DEF CatchDeletes, ChannelTypes
<1> QED
  BY <1>2 DEF ChannelTypes, channelVars

\* A pass of the watcher's begins.
Launch == LaunchServer \/ LaunchFails \/ SharedMemoryFails

LEMMA LaunchTypes ==
  ASSUME TypeInv, Launch PROVE TypeInv'
<1>1. CASE LaunchServer
  <2>1. ControlTypes' /\ Started'
    BY <1>1, BoundsAssumption
    DEF LaunchServer, TypeInv, ControlTypes, WatcherLocations, Started, Servers, endVars, talkVars
  <2> QED
    BY <1>1, <2>1, StaysTyped DEF LaunchServer, TypeInv
<1>2. CASE LaunchFails
  <2>1. ControlTypes' /\ Started'
    BY <1>2, BoundsAssumption
    DEF LaunchFails, TypeInv, ControlTypes, WatcherLocations, Started, endVars, talkVars
  <2>2. ChannelTypes'
    BY <1>2, CatchTypes DEF LaunchFails, TypeInv, ChannelTypes
  <2> QED
    BY <1>2, <2>1, <2>2, StaysTyped DEF LaunchFails, TypeInv
<1>3. CASE SharedMemoryFails
  <2>1. ControlTypes' /\ Started'
    BY <1>3 DEF SharedMemoryFails, TypeInv, ControlTypes, Started, serverVars, endVars, talkVars
  <2>2. ChannelTypes'
    BY <1>3, CatchTypes DEF SharedMemoryFails, TypeInv
  <2> QED
    BY <1>3, <2>1, <2>2, StaysTyped DEF SharedMemoryFails, TypeInv
<1> QED
  BY <1>1, <1>2, <1>3 DEF Launch

LEMMA WatchTypes == ASSUME TypeInv, Watch PROVE TypeInv'
<1>1. CASE GreetingFails
  <2>1. ControlTypes' /\ Started'
    BY <1>1 DEF GreetingFails, TypeInv, ControlTypes, WatcherLocations, Started, endVars, talkVars
  <2>2. ChannelTypes'
    BY <1>1, CatchTypes DEF GreetingFails, TypeInv, ChannelTypes
  <2> QED
    BY <1>1, <2>1, <2>2, StaysTyped DEF GreetingFails, TypeInv
<1>2. CASE PublishTo
  <2>1. ControlTypes' /\ Started'
    BY <1>2 DEF PublishTo, TypeInv, ControlTypes, WatcherLocations, Started, endVars, talkVars
  <2>2. ChannelTypes'
    BY <1>2, ReplaceTypes DEF PublishTo, TypeInv, Started, Directions
  <2> QED
    BY <1>2, <2>1, <2>2, StaysTyped DEF PublishTo, TypeInv
<1>3. CASE PublishFrom
  <2>1. ControlTypes' /\ Started'
    BY <1>3 DEF PublishFrom, TypeInv, ControlTypes, WatcherLocations, Started, endVars, talkVars
  <2>2. ChannelTypes'
    BY <1>3, ReplaceTypes DEF PublishFrom, TypeInv, Started, Directions
  <2> QED
    BY <1>3, <2>1, <2>2, StaysTyped DEF PublishFrom, TypeInv
<1>4. CASE WatcherWakes \/ WatcherEnds
  <2>1. ControlTypes' /\ Started'
    BY <1>4 DEF WatcherWakes, WatcherEnds, TypeInv, ControlTypes, WatcherLocations, Started,
       endVars, talkVars
  <2> QED
    BY <1>4, <2>1, StaysTyped DEF WatcherWakes, WatcherEnds, TypeInv
<1> QED
  BY <1>1, <1>2, <1>3, <1>4 DEF Watch

\* The beginning of a conversation.
LEMMA BeginTypes ==
  ASSUME TypeInv, BeginListening \/ \E kind \in Requests : BeginTalk(kind)
  PROVE  TypeInv'
<1>1. CASE BeginListening
  <2>1. TalkTypes'
    <3>1. \A d \in Directions : LastStep(talk[d]) \in 1 .. 3
      BY ScriptsAreShort DEF TypeInv, TalkTypes
    <3>2. \A d \in Directions : step'[d] \in 1 .. 3 /\ step'[d] <= LastStep(talk[d])
      <4> TAKE d \in Directions
      <4>1. CASE d = "From"
        <5>1. step'[d] = 1
          BY <1>1, <4>1 DEF BeginListening, TypeInv, TalkTypes
        <5> QED
          BY <3>1, <5>1
      <4>2. CASE d # "From"
        BY <1>1, <4>2 DEF BeginListening, TypeInv, TalkTypes
      <4> QED
        BY <4>1, <4>2
    <3>3. step' \in [Directions -> 1 .. 3]
      <4>1. step' = [d \in Directions |-> step'[d]]
        BY <1>1 DEF BeginListening, TypeInv, TalkTypes
      <4> QED
        BY <3>2, <4>1
    <3>4. at' \in [Directions -> Locations]
      BY <1>1 DEF BeginListening, TypeInv, TalkTypes, Locations
    <3> QED
      BY <1>1, <3>2, <3>3, <3>4 DEF BeginListening, TypeInv, TalkTypes
  <2> QED
    BY <1>1, <2>1, StaysTyped
    DEF BeginListening, TypeInv, ControlTypes, Started, serverVars, endVars
<1>2. ASSUME NEW kind \in Requests, BeginTalk(kind) PROVE TypeInv'
  <2>1. talk' \in [Directions -> Kinds]
    BY <1>2 DEF BeginTalk, TypeInv, TalkTypes, Requests
  <2>2. TalkTypes'
    <3>1. \A d \in Directions : LastStep(talk'[d]) \in 1 .. 3
      BY <2>1, ScriptsAreShort
    <3>2. talk'["To"] \in Requests /\ talk'["From"] = "listen"
      BY <1>2 DEF BeginTalk, TypeInv, TalkTypes, Directions
    <3> QED
      BY <1>2, <2>1, <3>1, <3>2 DEF BeginTalk, TypeInv, TalkTypes, Locations
  <2>3. ControlTypes' /\ Started'
    BY <1>2, BoundsAssumption
    DEF BeginTalk, TypeInv, ControlTypes, Started, serverVars, endVars
  <2> QED
    BY <1>2, <2>2, <2>3, StaysTyped DEF BeginTalk, TypeInv
<1> QED
  BY <1>1, <1>2

\* Read() and write().
LEMMA WriteIsToServer ==
  ASSUME TalkTypes, NEW d \in Directions, Operation(d) = "write"
  PROVE  d = "To" /\ step[d] \in 1 .. 2
<1>1. step[d] \in 1 .. LastStep(talk[d])
  <2>1. LastStep(talk[d]) \in 1 .. 3
    BY ScriptsAreShort DEF TalkTypes
  <2> QED
    BY <2>1 DEF TalkTypes
<1>2. CASE d = "To"
  BY <1>1, <1>2, ScriptsAreShort DEF TalkTypes, Operation
<1>3. CASE d = "From"
  BY <1>1, <1>3, ScriptsAreShort DEF TalkTypes, Operation, LastStep
<1> QED
  BY <1>2, <1>3 DEF Directions

LEMMA FailTypes ==
  ASSUME ControlTypes, TalkTypes, NEW d \in Directions, Fail(d)
  PROVE  TalkTypes' /\ dispatcher' \in DispatcherLocations
BY EndTalkTypes DEF Fail, ControlTypes, DispatcherLocations

LEMMA ReconnectedTypes ==
  ASSUME ControlTypes, ChannelTypes, TalkTypes, NEW d \in Directions, Reconnected(d)
  PROVE  /\ TalkTypes' /\ dispatcher' \in DispatcherLocations
         /\ chanWasChanged' \in [Directions -> BOOLEAN]
<1>1. chanWasChanged' \in [Directions -> BOOLEAN]
  BY DEF Reconnected, ChannelTypes
<1>2. CASE held[d] # None
  BY <1>1, <1>2, AbortTypes DEF Reconnected, Abort, ControlTypes
<1>3. CASE held[d] = None
  BY <1>1, <1>3, MoveTypes DEF Reconnected, ControlTypes, Locations, Channels
<1> QED
  BY <1>2, <1>3

LEMMA ConverseTypes ==
  ASSUME TypeInv, NEW d \in Directions, Converse(d)
  PROVE  TypeInv'
<1>0. ControlTypes /\ ChannelTypes /\ TalkTypes /\ PipeTypes /\ Started
  BY DEF TypeInv
<1>c. dispatcher' \in DispatcherLocations /\ UNCHANGED <<serverVars, talks, phase>>
      => ControlTypes' /\ Started'
  BY <1>0 DEF ControlTypes, Started, serverVars
<1>d. dispatcher' = dispatcher => dispatcher' \in DispatcherLocations
  BY <1>0 DEF ControlTypes
<1>1. CASE GetChannelFails(d)
  BY <1>0, <1>1, <1>c, FailTypes, StaysTyped DEF GetChannelFails, TypeInv
<1>2. CASE GetChannel(d)
  <2>2. TalkTypes' /\ UNCHANGED dispatcher
    <3>1. CASE chanWasChanged[d]
      BY <1>0, <1>2, <3>1, AbortTypes DEF GetChannel, Abort
    <3>2. CASE ~chanWasChanged[d]
      BY <1>0, <1>2, <3>2, MoveTypes DEF GetChannel, ChannelTypes, Locations
    <3> QED
      BY <3>1, <3>2
  <2>3. frees' \in [Directions -> [Servers -> 0 .. 2]]
    <3>1. Deleted(frees[d], oldChannel[d]) \in [Servers -> 0 .. 2]
      BY <1>0, DeletedIsCounted DEF ChannelTypes
    <3> QED
      BY <1>0, <1>2, <3>1 DEF GetChannel, ChannelTypes
  <2>4. ChannelTypes'
    BY <1>0, <1>2, <2>3 DEF GetChannel, ChannelTypes, Channels
  <2> QED
    BY <1>0, <1>2, <1>c, <1>d, <2>2, <2>4, StaysTyped DEF GetChannel, TypeInv
<1>3. CASE Write(d)
  <2>1. d = "To" /\ step[d] \in 1 .. 2
    BY <1>0, <1>3, WriteIsToServer DEF Write
  <2>2. CurrentPart \in Parts
    BY <1>0, <2>1, BoundsAssumption DEF CurrentPart, Parts, TalkTypes, ControlTypes
  <2>3. PipeTypes'
    <3>1. held[d] \in Servers
      BY <1>0, <1>3 DEF Write, Usable, TalkTypes, Channels
    <3>2. Append(inbox[held[d]], CurrentPart) \in Seq(Parts)
      BY <1>0, <2>2, <3>1 DEF PipeTypes
    <3>3. inbox' \in [Servers -> Seq(Parts)]
      BY <1>0, <1>3, <3>2 DEF Write, PipeTypes
    <3> QED
      BY <1>0, <1>3, <3>3 DEF Write, PipeTypes
  <2>4. TalkTypes'
    BY <1>0, <1>3, GoOnTypes DEF Write
  <2> QED
    BY <1>0, <1>3, <1>c, <1>d, <2>3, <2>4, StaysTyped DEF Write, GoOn, TypeInv, endVars
<1>4. CASE Read(d)
  <2>1. held[d] \in Servers
    BY <1>0, <1>4 DEF Read, Usable, TalkTypes, Channels
  <2>2. PipeTypes'
    <3>1. CASE d = "To"
      <4>1. outbox[held[d]] \in Seq(Nat) /\ outbox[held[d]] # <<>>
        BY <1>0, <1>4, <2>1, <3>1 DEF Read, Available, PipeTypes
      <4>2. Tail(outbox[held[d]]) \in Seq(Nat)
        BY <4>1
      <4> QED
        BY <1>0, <1>4, <3>1, <4>2 DEF Read, PipeTypes
    <3>2. CASE d # "To"
      <4>1. notices[held[d]] \in Seq(1 .. 2) /\ notices[held[d]] # <<>>
        BY <1>0, <1>4, <2>1, <3>2 DEF Read, Available, PipeTypes
      <4>2. Tail(notices[held[d]]) \in Seq(1 .. 2)
        BY <4>1
      <4> QED
        BY <1>0, <1>4, <3>2, <4>2 DEF Read, PipeTypes
    <3> QED
      BY <3>1, <3>2
  <2>3. TalkTypes'
    BY <1>0, <1>4, GoOnTypes DEF Read
  <2> QED
    BY <1>0, <1>4, <1>c, <1>d, <2>2, <2>3, StaysTyped DEF Read, GoOn, TypeInv, endVars
<1>5. CASE Block(d) \/ PipeFails(d) \/ WaitForEvent(d)
  <2>1. TalkTypes'
    BY <1>0, <1>5, MoveTypes DEF Block, PipeFails, WaitForEvent, Locations, TalkTypes
  <2> QED
    BY <1>0, <1>5, <1>c, <1>d, <2>1, StaysTyped
    DEF Block, PipeFails, WaitForEvent, TypeInv, endVars
<1>6. CASE GiveUp(d)
  BY <1>0, <1>6, <1>c, FailTypes, StaysTyped DEF GiveUp, TypeInv
<1>7. CASE WakeUp(d)
  <2>1. /\ TalkTypes' /\ dispatcher' \in DispatcherLocations
        /\ chanWasChanged' \in [Directions -> BOOLEAN]
    <3>1. CASE channel[d] # held[d]
      BY <1>0, <1>7, <3>1, ReconnectedTypes DEF WakeUp
    <3>2. CASE channel[d] = held[d]
      BY <1>0, <1>7, <1>d, <3>2, MoveTypes DEF WakeUp, ChannelTypes, TalkTypes, Locations
    <3> QED
      BY <3>1, <3>2
  <2>2. ChannelTypes'
    BY <1>0, <1>7, <2>1 DEF WakeUp, ChannelTypes, objectVars
  <2> QED
    BY <1>0, <1>7, <1>c, <2>1, <2>2, StaysTyped DEF WakeUp, TypeInv
<1>8. CASE TimeIsOver(d)
  <2>1. /\ TalkTypes' /\ dispatcher' \in DispatcherLocations
        /\ chanWasChanged' \in [Directions -> BOOLEAN]
    <3>1. CASE channel[d] # held[d]
      BY <1>0, <1>8, <3>1, ReconnectedTypes DEF TimeIsOver
    <3>2. CASE channel[d] = held[d]
      BY <1>0, <1>8, <3>2, FailTypes DEF TimeIsOver, ChannelTypes
    <3> QED
      BY <3>1, <3>2
  <2>2. ChannelTypes'
    BY <1>0, <1>8, <2>1 DEF TimeIsOver, ChannelTypes, objectVars
  <2> QED
    BY <1>0, <1>8, <1>c, <2>1, <2>2, StaysTyped DEF TimeIsOver, TypeInv
<1> QED
  BY <1>1, <1>2, <1>3, <1>4, <1>5, <1>6, <1>7, <1>8 DEF Converse

\* The processes' steps.
LEMMA ServerTypes ==
  ASSUME TypeInv, NEW g \in Servers, Serve(g) \/ ServerNotifies(g) \/ ServerDies(g)
  PROVE  TypeInv'
<1>0. ControlTypes /\ ChannelTypes /\ TalkTypes /\ PipeTypes /\ Started
  BY DEF TypeInv
<1>1. CASE ServerReads(g)
  <2> DEFINE part == Head(inbox[g])
  <2>1. inbox[g] \in Seq(Parts) /\ inbox[g] # <<>>
    BY <1>0, <1>1 DEF ServerReads, PipeTypes
  <2>2. part \in Parts /\ Tail(inbox[g]) \in Seq(Parts)
    BY <2>1
  <2>3. part.id \in Nat
    BY <2>2 DEF Parts
  <2>4. inbox' = [inbox EXCEPT ![g] = Tail(@)]
        /\ parsing' = [parsing EXCEPT ![g] =
                        IF part.part < Writes[part.kind] THEN part ELSE NoPart]
        /\ outbox' = IF part.part = Writes[part.kind] /\ IsAnswered(part.kind)
                        THEN [outbox EXCEPT ![g] = Append(@, part.id)] ELSE outbox
    BY <1>1 DEF ServerReads
  <2> HIDE DEF part
  <2>5. inbox' \in [Servers -> Seq(Parts)]
    BY <1>0, <2>2, <2>4 DEF PipeTypes
  <2>6. parsing' \in [Servers -> Parts]
    BY <1>0, <2>2, <2>4, EmptyPart DEF PipeTypes
  <2>7. outbox' \in [Servers -> Seq(Nat)]
    <3>1. Append(outbox[g], part.id) \in Seq(Nat)
      BY <1>0, <2>3 DEF PipeTypes
    <3> QED
      BY <1>0, <2>4, <3>1 DEF PipeTypes
  <2>8. PipeTypes'
    BY <1>0, <1>1, <2>5, <2>6, <2>7 DEF ServerReads, PipeTypes
  <2> QED
    BY <1>0, <1>1, <2>8, StaysTyped
    DEF ServerReads, TypeInv, Started, serverVars, talkVars
<1>2. CASE ServerNotifies(g)
  <2>1. nextPart[g] \in 1 .. 2 /\ 3 - nextPart[g] \in 1 .. 2
    BY <1>0 DEF PipeTypes
  <2>2. Append(notices[g], nextPart[g]) \in Seq(1 .. 2)
    BY <1>0, <2>1 DEF PipeTypes
  <2>3. PipeTypes'
    BY <1>0, <1>2, <2>1, <2>2 DEF ServerNotifies, PipeTypes
  <2> QED
    BY <1>0, <1>2, <2>3, StaysTyped
    DEF ServerNotifies, TypeInv, Started, serverVars, talkVars
<1>3. CASE ServerDies(g)
  <2>1. PipeTypes'
    BY <1>0, <1>3, EmptyPart DEF ServerDies, PipeTypes
  <2>2. ControlTypes' /\ Started'
    BY <1>0, <1>3 DEF ServerDies, ControlTypes, Started, endVars, talkVars
  <2> QED
    BY <1>0, <1>3, <2>1, <2>2, StaysTyped DEF ServerDies, TypeInv
<1> QED
  BY <1>1, <1>2, <1>3 DEF Serve, ServerExits

\* The end.
LEMMA CloseTypes ==
  ASSUME TypeInv, NEW w \in Closers, NEW d \in Directions, Close(w, d)
  PROVE  TypeInv'
<1>0. ControlTypes /\ ChannelTypes /\ TalkTypes /\ PipeTypes /\ Started
  BY DEF TypeInv
<1>1. CASE BeginClose(w, d)
  <2>1. ChannelTypes'
    BY <1>0, <1>1 DEF BeginClose, ChannelTypes, objectVars
  <2> QED
    BY <1>0, <1>1, <2>1, StaysTyped DEF BeginClose, TypeInv, Started, serverVars, talkVars
<1>2. CASE EndClose(w, d)
  <2>1. {channel[d], oldChannel[d]} \ {None} \subseteq Servers
    BY <1>0 DEF ChannelTypes, Channels
  <2>2. shut' \in [Directions -> SUBSET Servers]
    BY <1>0, <1>2, <2>1 DEF EndClose, ChannelTypes
  <2>3. ChannelTypes'
    BY <1>0, <1>2, <2>2 DEF EndClose, ChannelTypes
  <2>4. ControlTypes' /\ Started'
    BY <1>0, <1>2
    DEF EndClose, Advance, ControlTypes, Started, DispatcherLocations, Phases, serverVars, talkVars
  <2> QED
    BY <1>0, <1>2, <2>3, <2>4, StaysTyped DEF EndClose, TypeInv
<1> QED
  BY <1>1, <1>2 DEF Close

LEMMA DestroyTypes ==
  ASSUME TypeInv, BeginDestruction \/ Destroy \/ DispatcherEnds
  PROVE  TypeInv'
<1>0. ControlTypes /\ ChannelTypes /\ TalkTypes /\ PipeTypes /\ Started
  BY DEF TypeInv
<1>1. CASE DeleteChannels
  <2>1. ControlTypes' /\ Started'
    BY <1>0, <1>1
    DEF DeleteChannels, PhaseGoto, ControlTypes, Started, Phases, serverVars, talkVars
  <2>2. ASSUME NEW d \in Directions PROVE frees'[d] \in [Servers -> 0 .. 2]
    <3> DEFINE first == IF channel[d] = None THEN frees[d] ELSE Deleted(frees[d], channel[d])
    <3>1. first \in [Servers -> 0 .. 2]
      BY <1>0, DeletedIsCounted DEF ChannelTypes
    <3>2. frees'[d] = IF oldChannel[d] = None THEN first ELSE Deleted(first, oldChannel[d])
      BY <1>1 DEF DeleteChannels
    <3> HIDE DEF first
    <3> QED
      BY <3>1, <3>2, DeletedIsCounted
  <2>3. frees' = [d \in Directions |-> frees'[d]]
    BY <1>1 DEF DeleteChannels
  <2>4. ChannelTypes'
    BY <1>0, <1>1, <2>2, <2>3 DEF DeleteChannels, ChannelTypes, channelVars
  <2> QED
    BY <1>0, <1>1, <2>1, <2>4, StaysTyped DEF DeleteChannels, TypeInv
<1>2. CASE DispatcherEnds \/ BeginDestruction \/ JoinThread \/ JoinWatcher
           \/ JoinDispatcher \/ JoinKicker
  <2>1. ControlTypes' /\ Started'
    BY <1>0, <1>2
    DEF DispatcherEnds, BeginDestruction, JoinThread, JoinWatcher, JoinDispatcher, JoinKicker,
        PhaseGoto, ControlTypes, Started, DispatcherLocations, Phases, serverVars, talkVars
  <2> QED
    BY <1>0, <1>2, <2>1, StaysTyped
    DEF DispatcherEnds, BeginDestruction, JoinThread, JoinWatcher, JoinDispatcher, JoinKicker,
        TypeInv
<1> QED
  BY <1>1, <1>2 DEF Destroy

LEMMA TypeStep == ASSUME TypeInv, [Next]_vars PROVE TypeInv'
<1>1. CASE UNCHANGED vars
  BY <1>1, StaysTyped DEF TypeInv, Started, vars, serverVars, talkVars
<1>2. CASE Next
  BY <1>2, LaunchTypes, WatchTypes, BeginTypes, ConverseTypes, ServerTypes, CloseTypes,
     DestroyTypes DEF Next, Sane, Step, Launch
<1> QED
  BY <1>1, <1>2

LEMMA TypeInvariance == Spec => []TypeInv
<1>1. Init => TypeInv
  <2> SUFFICES ASSUME Init PROVE TypeInv
    OBVIOUS
  <2>1. Started
    BY DEF Init, Started
  <2> QED
    BY <2>1, InitTypes, TypesAreGrouped DEF TypeInv
<1>2. TypeInv /\ [Next]_vars => TypeInv'
  BY TypeStep
<1> QED
  BY <1>1, <1>2, PTL DEF Spec

\* The variables of the desktop's client side (DesktopClientImpl and the
\* channels) have their types, for any number of processes, conversations and
\* notices.
THEOREM DesktopTypes == Spec => []TypeOK
<1>1. TypeInv => TypeOK
  BY TypesAreGrouped DEF TypeInv
<1> QED
  BY <1>1, TypeInvariance, PTL

-----------------------------------------------------------------------------
(* No wake-up is lost *)

\* What the proofs look at of one direction.
Same(d) ==
  /\ at'[d] = at[d] /\ held'[d] = held[d]
  /\ channel'[d] = channel[d] /\ oldChannel'[d] = oldChannel[d]
  /\ timer'[d] = timer[d] /\ isClosed'[d] = isClosed[d] /\ chanMut'[d] = chanMut[d]
  /\ frees'[d] = frees[d] /\ overrun'[d] = overrun[d]
  /\ astray' = astray

LEMMA OthersAreSame ==
  ASSUME TypeInv, NEW d \in Directions, NEW x \in Directions, x # d,
         Converse(d) \/ \E w \in Closers : Close(w, d)
  PROVE  Same(x)
<1>0. ChannelTypes /\ TalkTypes
  BY DEF TypeInv
<1> USE <1>0 DEF ChannelTypes, TalkTypes, Same
<1>1. CASE GetChannelFails(d) \/ GiveUp(d)
  BY <1>1 DEF GetChannelFails, GiveUp, Fail, EndTalk, channelVars, objectVars
<1>2. CASE GetChannel(d)
  BY <1>2 DEF GetChannel, Abort, EndTalk
<1>3. CASE Write(d) \/ Read(d)
  BY <1>3 DEF Write, Read, GoOn, EndTalk, channelVars, objectVars
<1>4. CASE Block(d) \/ PipeFails(d) \/ WaitForEvent(d)
  BY <1>4 DEF Block, PipeFails, WaitForEvent, channelVars, objectVars
<1>5. CASE WakeUp(d) \/ TimeIsOver(d)
  BY <1>5 DEF WakeUp, TimeIsOver, Reconnected, Abort, Fail, EndTalk, objectVars
<1>6. CASE \E w \in Closers : Close(w, d)
  BY <1>6 DEF Close, BeginClose, EndClose, talkVars, objectVars
<1> QED
  BY <1>1, <1>2, <1>3, <1>4, <1>5, <1>6 DEF Converse

\* Whoever is in read() or write(), or waits there, has been given the channel
\* that is there or will be woken.
InUse == {"inside", "blocked", "checking", "waiting"}
Wake(d) ==
  /\ at[d] \in InUse /\ channel[d] # held[d] => timer[d]
  /\ at[d] = "waiting" /\ isClosed[d] /\ chanMut[d] = "free" => timer[d]
WakeInv == \A d \in Directions : Wake(d)

LEMMA WakeKept ==
  ASSUME NEW d \in Directions, Wake(d), Same(d) PROVE Wake(d)'
BY DEF Wake, Same

LEMMA WakeConverse ==
  ASSUME TypeInv, NEW d \in Directions, Wake(d), Converse(d)
  PROVE  Wake(d)'
<1>0. ChannelTypes /\ TalkTypes
  BY DEF TypeInv
<1> USE <1>0 DEF ChannelTypes, TalkTypes, Wake, InUse
<1>1. CASE GetChannelFails(d) \/ GiveUp(d)
  BY <1>1 DEF GetChannelFails, GiveUp, Fail, EndTalk, channelVars
<1>2. CASE GetChannel(d)
  BY <1>2 DEF GetChannel, Abort, EndTalk
<1>3. CASE Write(d) \/ Read(d)
  BY <1>3 DEF Write, Read, GoOn, EndTalk, channelVars
<1>4. CASE Block(d) \/ PipeFails(d) \/ WaitForEvent(d)
  BY <1>4 DEF Block, PipeFails, WaitForEvent, channelVars
<1>5. CASE WakeUp(d)
  BY <1>5 DEF WakeUp, Reconnected, Abort, EndTalk
<1>6. CASE TimeIsOver(d)
  BY <1>6 DEF TimeIsOver, Reconnected, Abort, Fail, EndTalk
<1> QED
  BY <1>1, <1>2, <1>3, <1>4, <1>5, <1>6 DEF Converse

LEMMA WakeStep == ASSUME TypeInv, WakeInv, [Next]_vars PROVE WakeInv'
<1> SUFFICES ASSUME NEW x \in Directions PROVE Wake(x)'
  BY DEF WakeInv
<1>0. ChannelTypes /\ TalkTypes /\ Wake(x)
  BY DEF TypeInv, WakeInv
<1>1. CASE UNCHANGED <<channel, timer, isClosed, chanMut, at, held>>
  BY <1>0, <1>1 DEF Wake
<1>2. CASE PublishTo \/ PublishFrom
  <2>1. ASSUME NEW d \in Directions, ReplaceChannel(d),
               UNCHANGED <<isClosed, chanMut, at, held>>
        PROVE  Wake(x)'
    BY <1>0, <2>1 DEF ReplaceChannel, Wake, ChannelTypes
  <2> QED
    BY <1>2, <2>1 DEF PublishTo, PublishFrom, talkVars, Directions
<1>3. CASE BeginListening \/ \E kind \in Requests : BeginTalk(kind)
  BY <1>0, <1>3 DEF BeginListening, BeginTalk, channelVars, Wake, InUse, TalkTypes
<1>4. ASSUME NEW d \in Directions, Converse(d) PROVE Wake(x)'
  BY <1>0, <1>4, OthersAreSame, WakeKept, WakeConverse
<1>5. ASSUME NEW w \in Closers, NEW d \in Directions, Close(w, d) PROVE Wake(x)'
  <2>1. CASE x # d
    BY <1>0, <1>5, <2>1, OthersAreSame, WakeKept
  <2>2. CASE x = d
    <3>1. w # "free"
      BY DEF Closers
    <3> QED
      BY <1>0, <1>5, <2>2, <3>1 DEF Close, BeginClose, EndClose, Wake, ChannelTypes, talkVars
  <2> QED
    BY <2>1, <2>2
<1>6. CASE UNCHANGED vars
  BY <1>1, <1>6 DEF vars, channelVars, talkVars
<1>7. CASE LaunchServer \/ LaunchFails \/ SharedMemoryFails \/ GreetingFails \/ WatcherWakes
           \/ WatcherEnds \/ DispatcherEnds \/ BeginDestruction \/ Destroy
  BY <1>1, <1>7
  DEF LaunchServer, LaunchFails, SharedMemoryFails, GreetingFails, WatcherWakes, WatcherEnds,
      DispatcherEnds, BeginDestruction,
      Destroy, JoinThread, JoinWatcher, JoinDispatcher, JoinKicker, DeleteChannels,
      channelVars, talkVars
<1>8. ASSUME NEW g \in Servers, Serve(g) \/ ServerNotifies(g) \/ ServerDies(g) PROVE Wake(x)'
  BY <1>1, <1>8 DEF Serve, ServerReads, ServerExits, ServerNotifies, ServerDies, channelVars,
     talkVars
<1> QED
  BY <1>2, <1>3, <1>4, <1>5, <1>6, <1>7, <1>8 DEF Next, Sane, Step, Watch

\* A thread that waits for its channel to be replaced or closed is woken
\* (ReconnectingChannel's m_timer), for any number of processes.
THEOREM WaitersWoken == Spec => []WaitersAreWoken
<1>1. Init => WakeInv
  BY DEF Init, WakeInv, Wake, InUse
<1>2. TypeInv /\ WakeInv /\ [Next]_vars => WakeInv'
  BY WakeStep
<1>3. WakeInv => WaitersAreWoken
  BY DEF WakeInv, Wake, InUse, WaitersAreWoken
<1> QED
  BY <1>1, <1>2, <1>3, TypeInvariance, PTL DEF Spec

-----------------------------------------------------------------------------
(* The order in which the desktop is taken apart *)

\* The watcher has ended before anything is closed, the dispatcher before the
\* GateKicker is stopped; the channels are deleted with nobody talking over
\* them; who keeps a channel's mutex is closing it.
WatcherIsJoined ==
  phase \in {"closeTo", "closeFrom", "stopDispatcher", "stopKicker", "deleteChannels", "done"}
    => watcher = "ended"
ListenerIsAtRest == dispatcher # "listening" => at["From"] = "idle"
DispatcherIsJoined == phase \in {"stopKicker", "deleteChannels", "done"} => dispatcher = "ended"
KickerIsJoined == phase \in {"deleteChannels", "done"} => at["To"] = "idle"
CloserIsThere ==
  \A d \in Directions, w \in Closers : chanMut[d] = w => Place(w) = CloseLocation(d)
EndInv == /\ WatcherIsJoined /\ ListenerIsAtRest /\ DispatcherIsJoined
          /\ KickerIsJoined /\ CloserIsThere

LEMMA EndConverse ==
  ASSUME TypeInv, EndInv, NEW d \in Directions, Converse(d)
  PROVE  EndInv'
<1>0. TalkTypes /\ ChannelTypes
  BY DEF TypeInv
<1>1. /\ watcher' = watcher /\ phase' = phase /\ chanMut' = chanMut
      /\ \A x \in Directions : x # d => at'[x] = at[x]
      /\ at[d] # "idle"
      /\ dispatcher' = dispatcher \/ (d = "From" /\ at'[d] = "idle")
  <2> USE <1>0 DEF ChannelTypes, TalkTypes
  <2>0. \A x \in Directions : x # d => at'[x] = at[x]
    BY OthersAreSame DEF Same
  <2>1. CASE GetChannelFails(d) \/ GiveUp(d)
    BY <2>0, <2>1 DEF GetChannelFails, GiveUp, Fail, EndTalk, channelVars, serverVars
  <2>2. CASE GetChannel(d)
    BY <2>0, <2>2 DEF GetChannel, Abort, EndTalk, serverVars
  <2>3. CASE Write(d) \/ Read(d)
    BY <2>0, <2>3 DEF Write, Read, GoOn, EndTalk, channelVars, serverVars, endVars
  <2>4. CASE Block(d) \/ PipeFails(d) \/ WaitForEvent(d)
    BY <2>0, <2>4 DEF Block, PipeFails, WaitForEvent, channelVars, serverVars, endVars
  <2>5. CASE WakeUp(d)
    BY <2>0, <2>5 DEF WakeUp, Reconnected, Abort, EndTalk, serverVars
  <2>6. CASE TimeIsOver(d)
    BY <2>0, <2>6 DEF TimeIsOver, Reconnected, Abort, Fail, EndTalk, serverVars
  <2> QED
    BY <2>1, <2>2, <2>3, <2>4, <2>5, <2>6 DEF Converse
<1>2. WatcherIsJoined'
  BY <1>1 DEF EndInv, WatcherIsJoined
<1>3. ListenerIsAtRest' /\ DispatcherIsJoined'
  BY <1>1 DEF EndInv, ListenerIsAtRest, DispatcherIsJoined, Directions
<1>4. KickerIsJoined'
  BY <1>1 DEF EndInv, KickerIsJoined, Directions
<1>5. CloserIsThere'
  <2> SUFFICES ASSUME NEW x \in Directions, NEW w \in Closers, chanMut'[x] = w
               PROVE  Place(w)' = CloseLocation(x)
    BY DEF CloserIsThere, CloseLocation
  <2>1. Place(w) = CloseLocation(x)
    BY <1>1 DEF EndInv, CloserIsThere
  <2>2. CASE dispatcher' = dispatcher
    BY <1>1, <2>1, <2>2 DEF Place
  <2>3. CASE dispatcher' # dispatcher
    <3>1. dispatcher = "listening"
      BY <1>1, <2>3 DEF EndInv, ListenerIsAtRest
    <3>2. w # "dispatcher"
      BY <2>1, <3>1 DEF Place, CloseLocation
    <3> QED
      BY <1>1, <2>1, <3>2 DEF Place
  <2> QED
    BY <2>2, <2>3
<1> QED
  BY <1>2, <1>3, <1>4, <1>5 DEF EndInv

LEMMA EndClosing ==
  ASSUME TypeInv, EndInv, NEW w \in Closers, NEW d \in Directions, Close(w, d)
  PROVE  EndInv'
<1>0. ChannelTypes
  BY DEF TypeInv
<1>1. w # "free" /\ w \in {"dispatcher", "destructor"}
  BY DEF Closers
<1>2. CASE BeginClose(w, d)
  <2>1. WatcherIsJoined' /\ ListenerIsAtRest' /\ DispatcherIsJoined' /\ KickerIsJoined'
    BY <1>2 DEF BeginClose, EndInv, WatcherIsJoined, ListenerIsAtRest, DispatcherIsJoined,
       KickerIsJoined, endVars, serverVars, talkVars
  <2>2. CloserIsThere'
    BY <1>0, <1>2 DEF BeginClose, EndInv, CloserIsThere, ChannelTypes, Place, CloseLocation, endVars
  <2> QED
    BY <2>1, <2>2 DEF EndInv
<1>3. CASE EndClose(w, d)
  <2>1. Place(w) = CloseLocation(d)
    BY <1>3 DEF EndClose, EndInv, CloserIsThere
  <2>2. /\ watcher' = watcher /\ at' = at
        /\ chanMut' = [chanMut EXCEPT ![d] = "free"]
    BY <1>3 DEF EndClose, serverVars, talkVars
  <2>3. CASE w = "dispatcher"
    <3>1. /\ phase' = phase /\ dispatcher \in {"closeTo", "closeFrom"}
          /\ dispatcher' \in {"closeFrom", "ended"}
      BY <1>3, <2>1, <2>3 DEF EndClose, Advance, Place, CloseLocation
    <3>2. WatcherIsJoined' /\ ListenerIsAtRest' /\ DispatcherIsJoined' /\ KickerIsJoined'
      BY <2>2, <3>1 DEF EndInv, WatcherIsJoined, ListenerIsAtRest, DispatcherIsJoined,
         KickerIsJoined
    <3>3. CloserIsThere'
      <4> SUFFICES ASSUME NEW x \in Directions, NEW v \in Closers, chanMut'[x] = v
                   PROVE  Place(v)' = CloseLocation(x)
        BY DEF CloserIsThere, CloseLocation
      <4>1. x # d /\ chanMut[x] = v
        BY <1>0, <2>2 DEF ChannelTypes, Closers
      <4>2. Place(v) = CloseLocation(x)
        BY <4>1 DEF EndInv, CloserIsThere
      <4>3. v # w
        BY <2>1, <4>1, <4>2 DEF CloseLocation, Directions
      <4> QED
        BY <2>3, <3>1, <4>2, <4>3 DEF Place
    <3> QED
      BY <3>2, <3>3 DEF EndInv
  <2>4. CASE w = "destructor"
    <3>1. /\ dispatcher' = dispatcher /\ phase \in {"closeTo", "closeFrom"}
          /\ phase' \in {"closeFrom", "stopDispatcher"}
      BY <1>3, <2>1, <2>4 DEF EndClose, Advance, Place, CloseLocation
    <3>2. WatcherIsJoined' /\ ListenerIsAtRest' /\ DispatcherIsJoined' /\ KickerIsJoined'
      BY <2>2, <3>1 DEF EndInv, WatcherIsJoined, ListenerIsAtRest, DispatcherIsJoined,
         KickerIsJoined
    <3>3. CloserIsThere'
      <4> SUFFICES ASSUME NEW x \in Directions, NEW v \in Closers, chanMut'[x] = v
                   PROVE  Place(v)' = CloseLocation(x)
        BY DEF CloserIsThere, CloseLocation
      <4>1. x # d /\ chanMut[x] = v
        BY <1>0, <2>2 DEF ChannelTypes, Closers
      <4>2. Place(v) = CloseLocation(x)
        BY <4>1 DEF EndInv, CloserIsThere
      <4>3. v = "dispatcher"
        BY <2>1, <2>4, <4>1, <4>2 DEF CloseLocation, Directions, Closers
      <4> QED
        BY <3>1, <4>2, <4>3 DEF Place
    <3> QED
      BY <3>2, <3>3 DEF EndInv
  <2> QED
    BY <1>1, <2>3, <2>4
<1> QED
  BY <1>2, <1>3 DEF Close

LEMMA EndStep == ASSUME TypeInv, EndInv, [Next]_vars PROVE EndInv'
<1>0. TalkTypes /\ ChannelTypes
  BY DEF TypeInv
<1>f. UNCHANGED <<watcher, dispatcher, phase, at, chanMut>> => EndInv'
  BY DEF EndInv, WatcherIsJoined, ListenerIsAtRest, DispatcherIsJoined, KickerIsJoined,
     CloserIsThere, Place, CloseLocation
<1>1. CASE Launch \/ Watch
  <2>1. UNCHANGED <<dispatcher, phase, at, chanMut>> /\ (watcher' # watcher => watcher # "ended")
    BY <1>1 DEF Launch, LaunchServer, LaunchFails, SharedMemoryFails, serverVars, Watch,
       GreetingFails, PublishTo, PublishFrom, WatcherWakes,
       WatcherEnds, endVars, talkVars, channelVars
  <2>2. WatcherIsJoined'
    BY <2>1 DEF EndInv, WatcherIsJoined
  <2>3. ListenerIsAtRest' /\ DispatcherIsJoined' /\ KickerIsJoined' /\ CloserIsThere'
    BY <2>1 DEF EndInv, ListenerIsAtRest, DispatcherIsJoined, KickerIsJoined, CloserIsThere, Place,
       CloseLocation
  <2> QED
    BY <2>2, <2>3 DEF EndInv
<1>2. CASE BeginListening
  <2>1. /\ UNCHANGED <<watcher, dispatcher, phase, chanMut>> /\ dispatcher = "listening"
        /\ at'["To"] = at["To"]
    BY <1>0, <1>2 DEF BeginListening, TalkTypes, Directions, serverVars, endVars, channelVars
  <2>2. WatcherIsJoined' /\ ListenerIsAtRest' /\ DispatcherIsJoined' /\ KickerIsJoined'
    BY <2>1 DEF EndInv, WatcherIsJoined, ListenerIsAtRest, DispatcherIsJoined, KickerIsJoined
  <2>3. CloserIsThere'
    BY <2>1 DEF EndInv, CloserIsThere, Place, CloseLocation
  <2> QED
    BY <2>2, <2>3 DEF EndInv
<1>3. ASSUME NEW kind \in Requests, BeginTalk(kind) PROVE EndInv'
  <2>1. /\ UNCHANGED <<watcher, dispatcher, phase, chanMut>>
        /\ phase \notin {"deleteChannels", "done"} /\ at'["From"] = at["From"]
    BY <1>0, <1>3 DEF BeginTalk, TalkTypes, Directions, serverVars, endVars, channelVars
  <2>2. WatcherIsJoined' /\ ListenerIsAtRest' /\ DispatcherIsJoined' /\ KickerIsJoined'
    BY <2>1 DEF EndInv, WatcherIsJoined, ListenerIsAtRest, DispatcherIsJoined, KickerIsJoined
  <2>3. CloserIsThere'
    BY <2>1 DEF EndInv, CloserIsThere, Place, CloseLocation
  <2> QED
    BY <2>2, <2>3 DEF EndInv
<1>4. ASSUME NEW d \in Directions, Converse(d) PROVE EndInv'
  BY <1>4, EndConverse
<1>5. ASSUME NEW w \in Closers, NEW d \in Directions, Close(w, d) PROVE EndInv'
  BY <1>5, EndClosing
<1>6. ASSUME NEW g \in Servers, Serve(g) \/ ServerNotifies(g) \/ ServerDies(g) PROVE EndInv'
  BY <1>f, <1>6 DEF Serve, ServerReads, ServerExits, ServerNotifies, ServerDies, channelVars,
     talkVars, endVars, serverVars
<1>7. CASE DispatcherEnds
  <2>1. /\ UNCHANGED <<watcher, phase, chanMut, at>> /\ dispatcher = "listening"
        /\ dispatcher' = "ended" /\ at["From"] = "idle"
    BY <1>7 DEF DispatcherEnds, serverVars, talkVars, channelVars
  <2>2. WatcherIsJoined' /\ ListenerIsAtRest' /\ DispatcherIsJoined' /\ KickerIsJoined'
    BY <2>1 DEF EndInv, WatcherIsJoined, ListenerIsAtRest, DispatcherIsJoined, KickerIsJoined
  <2>3. CloserIsThere'
    BY <2>1 DEF EndInv, CloserIsThere, Place, CloseLocation
  <2> QED
    BY <2>2, <2>3 DEF EndInv
<1>8. CASE BeginDestruction \/ Destroy
  <2>1. UNCHANGED <<watcher, dispatcher, chanMut, at>> /\ phase \notin {"closeTo", "closeFrom"}
    BY <1>8 DEF BeginDestruction, Destroy, JoinThread, JoinWatcher, JoinDispatcher, JoinKicker,
       DeleteChannels, PhaseGoto, channelVars, talkVars, serverVars
  <2>2. WatcherIsJoined' /\ DispatcherIsJoined' /\ KickerIsJoined'
    BY <1>8, <2>1 DEF EndInv, WatcherIsJoined, DispatcherIsJoined, KickerIsJoined,
       BeginDestruction, Destroy, JoinThread, JoinWatcher, JoinDispatcher, JoinKicker,
       DeleteChannels, PhaseGoto
  <2>3. ListenerIsAtRest'
    BY <2>1 DEF EndInv, ListenerIsAtRest
  <2>4. CloserIsThere'
    <3> SUFFICES ASSUME NEW x \in Directions, NEW w \in Closers, chanMut'[x] = w
                 PROVE  Place(w)' = CloseLocation(x)
      BY DEF CloserIsThere, CloseLocation
    <3>1. Place(w) = CloseLocation(x)
      BY <2>1 DEF EndInv, CloserIsThere
    <3>2. w = "dispatcher"
      BY <2>1, <3>1 DEF Place, CloseLocation, Closers
    <3> QED
      BY <2>1, <3>1, <3>2 DEF Place
  <2> QED
    BY <2>2, <2>3, <2>4 DEF EndInv
<1>9. CASE UNCHANGED vars
  BY <1>f, <1>9 DEF vars, serverVars, endVars, talkVars, channelVars
<1> QED
  BY <1>1, <1>2, <1>3, <1>4, <1>5, <1>6, <1>7, <1>8, <1>9 DEF Next, Sane, Step, Launch

LEMMA EndInvariance == Spec => []EndInv
<1>1. Init => EndInv
  BY DEF Init, EndInv, WatcherIsJoined, ListenerIsAtRest, DispatcherIsJoined, KickerIsJoined,
     CloserIsThere, Closers, Place
<1>2. TypeInv /\ EndInv /\ [Next]_vars => EndInv'
  BY EndStep
<1> QED
  BY <1>1, <1>2, TypeInvariance, PTL DEF Spec

-----------------------------------------------------------------------------
(* The objects of the pipes *)

\* Newer pipes replace older ones.
Chain(d) ==
  /\ channel[d] <= last
  /\ oldChannel[d] # None => oldChannel[d] < channel[d]
  /\ last \in WatchersOwn(d) => channel[d] < last
\* The objects nobody owns any more have been deleted, once.
FreedOnce(d) ==
  \A g \in Servers : frees[d][g] = IF g <= last /\ g \notin Owned(d) THEN 1 ELSE 0
InUseIsOwned(d) ==
  at[d] \in {"inside", "blocked"} /\ held[d] # None => held[d] \in {channel[d], oldChannel[d]}
Accounts(d) == Chain(d) /\ (~overrun[d] /\ ~astray => FreedOnce(d) /\ InUseIsOwned(d))
OwnInv == \A d \in Directions : Accounts(d)

\* The numbers of the pipes.
LEMMA PipeNumbers ==
  ASSUME TypeInv, NEW d \in Directions
  PROVE  /\ last \in Nat /\ channel[d] \in Nat /\ oldChannel[d] \in Nat /\ held[d] \in Nat
         /\ Servers \subseteq Nat \ {0} /\ frees[d] \in [Servers -> 0 .. 2]
         /\ watcher \in {"greeting", "publishFrom"} => last \in Servers
         /\ channel[d] # None => channel[d] \in Servers
         /\ oldChannel[d] # None => oldChannel[d] \in Servers
<1>1. Servers \subseteq Nat \ {0} /\ last \in Nat
  BY BoundsAssumption DEF TypeInv, ControlTypes, Servers
<1>2. Channels \subseteq Nat
  BY <1>1 DEF Channels, None
<1>3. channel[d] \in Channels /\ oldChannel[d] \in Channels /\ held[d] \in Channels
      /\ frees[d] \in [Servers -> 0 .. 2]
  BY DEF TypeInv, ChannelTypes, TalkTypes
<1>4. watcher \in {"greeting", "publishFrom"} => last \in Servers
  BY BoundsAssumption DEF TypeInv, ControlTypes, Started, Servers
<1> QED
  BY <1>1, <1>2, <1>3, <1>4 DEF Channels

LEMMA DeletedOnce ==
  ASSUME NEW f \in [Servers -> 0 .. 2], NEW g \in Servers, f[g] = 0
  PROVE  /\ Deleted(f, g)[g] = 1
         /\ \A h \in Servers : h # g => Deleted(f, g)[h] = f[h]
BY DEF Deleted

\* Nothing is disturbed in direction d by a step that leaves its channels, its
\* objects and its conversation alone.
LEMMA AccountsKept ==
  ASSUME NEW d \in Directions, Accounts(d), Same(d), last' = last,
         WatchersOwn(d)' = WatchersOwn(d), phase' = "done" <=> phase = "done"
  PROVE  Accounts(d)'
<1>1. Owned(d)' = Owned(d)
  BY DEF Owned, Same
<1>2. Chain(d)'
  BY DEF Accounts, Chain, Same
<1>3. FreedOnce(d) /\ ~overrun[d] => FreedOnce(d)'
  BY <1>1 DEF FreedOnce, Same
<1>4. InUseIsOwned(d) => InUseIsOwned(d)'
  BY DEF InUseIsOwned, Same
<1> QED
  BY <1>2, <1>3, <1>4 DEF Accounts, Same

\* replaceChannel with a pipe that was the watcher's.
LEMMA AccountsReplace ==
  ASSUME TypeInv, NEW d \in Directions, Accounts(d), ReplaceChannel(d),
         last \in Servers, last' = last, WatchersOwn(d) = {last}, WatchersOwn(d)' = {},
         phase # "done", phase' = phase, at' = at, held' = held, astray' = astray
  PROVE  Accounts(d)'
<1>0. /\ channel'[d] = last /\ oldChannel'[d] = channel[d]
      /\ overrun'[d] = (overrun[d] \/ oldChannel[d] # None)
      /\ oldChannel[d] = None => frees'[d] = frees[d]
  BY DEF ReplaceChannel, TypeInv, ChannelTypes
<1>n. last \in Nat /\ channel[d] \in Nat /\ last # 0
  BY PipeNumbers
<1>1. Chain(d)'
  BY <1>0, <1>n DEF Accounts, Chain
<1>2. ASSUME ~overrun'[d], ~astray PROVE FreedOnce(d)' /\ InUseIsOwned(d)'
  <2>1. oldChannel[d] = None /\ ~overrun[d]
    BY <1>0, <1>2 DEF TypeInv, ChannelTypes
  <2>2. Owned(d)' = Owned(d)
    <3>1. Owned(d) = {last} \union ({channel[d], None} \ {None})
      BY <2>1 DEF Owned
    <3>2. Owned(d)' = {} \union ({last, channel[d]} \ {None})
      BY <1>0 DEF Owned
    <3> QED
      BY <1>n, <3>1, <3>2 DEF None
  <2>3. FreedOnce(d)'
    BY <1>0, <1>2, <2>1, <2>2 DEF Accounts, FreedOnce
  <2>4. InUseIsOwned(d)'
    BY <1>0, <1>2, <2>1 DEF Accounts, InUseIsOwned
  <2> QED
    BY <2>3, <2>4
<1> QED
  BY <1>1, <1>2 DEF Accounts

LEMMA AccountsGetChannel ==
  ASSUME TypeInv, EndInv, NEW d \in Directions, Accounts(d), GetChannel(d)
  PROVE  Accounts(d)'
<1>0. /\ channel' = channel /\ oldChannel'[d] = None /\ UNCHANGED <<overrun, astray>>
      /\ frees'[d] = IF oldChannel[d] = None THEN frees[d] ELSE Deleted(frees[d], oldChannel[d])
      /\ last' = last /\ WatchersOwn(d)' = WatchersOwn(d) /\ phase' = phase
  BY DEF GetChannel, TypeInv, ChannelTypes, serverVars, WatchersOwn
<1>1. phase # "done"
  BY DEF GetChannel, EndInv, KickerIsJoined, DispatcherIsJoined, ListenerIsAtRest, Directions
<1>n. /\ last \in Nat /\ channel[d] \in Nat /\ oldChannel[d] \in Nat
      /\ Servers \subseteq Nat \ {0} /\ frees[d] \in [Servers -> 0 .. 2]
      /\ oldChannel[d] # None => oldChannel[d] \in Servers
  BY PipeNumbers
<1>2. Chain(d)'
  BY <1>0 DEF Accounts, Chain
<1>3. ASSUME ~overrun[d], ~astray PROVE FreedOnce(d)'
  <2>1. CASE oldChannel[d] = None
    <3>1. Owned(d)' = Owned(d)
      BY <1>0, <2>1 DEF Owned
    <3> QED
      BY <1>0, <1>3, <2>1, <3>1 DEF Accounts, FreedOnce
  <2>2. CASE oldChannel[d] # None
    <3>1. oldChannel[d] \in Owned(d) /\ oldChannel[d] <= last /\ oldChannel[d] < channel[d]
      BY <1>1, <1>n, <2>2 DEF Owned, Accounts, Chain
    <3>2. frees[d][oldChannel[d]] = 0
      BY <1>3, <1>n, <2>2, <3>1 DEF Accounts, FreedOnce
    <3>3. WatchersOwn(d) \subseteq {last} /\ oldChannel[d] \notin WatchersOwn(d)
      BY <1>n, <3>1 DEF WatchersOwn, Accounts, Chain
    <3>4. Owned(d)' = Owned(d) \ {oldChannel[d]}
      BY <1>0, <1>1, <1>n, <3>1, <3>3 DEF Owned
    <3>5. \A g \in Servers : g # oldChannel[d] => frees'[d][g] = frees[d][g]
      BY <1>0, <1>n, <2>2, <3>2, DeletedOnce
    <3>6. frees'[d][oldChannel[d]] = 1
      BY <1>0, <1>n, <2>2, <3>2, DeletedOnce
    <3> SUFFICES ASSUME NEW g \in Servers
                 PROVE  frees'[d][g] = IF g <= last /\ g \notin Owned(d)' THEN 1 ELSE 0
      BY <1>0 DEF FreedOnce
    <3>7. CASE g = oldChannel[d]
      BY <3>1, <3>4, <3>6, <3>7
    <3>8. CASE g # oldChannel[d]
      BY <1>3, <3>4, <3>5, <3>8 DEF Accounts, FreedOnce
    <3> QED
      BY <3>7, <3>8
  <2> QED
    BY <2>1, <2>2
<1>4. InUseIsOwned(d)'
  BY <1>0 DEF GetChannel, Abort, EndTalk, InUseIsOwned, TypeInv, TalkTypes
<1> QED
  BY <1>0, <1>2, <1>3, <1>4 DEF Accounts

LEMMA AccountsConverse ==
  ASSUME TypeInv, EndInv, NEW d \in Directions, Accounts(d), Converse(d)
  PROVE  Accounts(d)'
<1>0. ChannelTypes /\ TalkTypes
  BY DEF TypeInv
<1>1. CASE GetChannel(d)
  BY <1>1, AccountsGetChannel
<1>2. CASE ~GetChannel(d)
  <2>1. /\ UNCHANGED <<watcher, last, phase, channel, oldChannel, frees, overrun, astray>>
        /\ InUseIsOwned(d) => InUseIsOwned(d)'
    <3> USE <1>0 DEF TalkTypes, InUseIsOwned
    <3>1. CASE GetChannelFails(d) \/ GiveUp(d)
      BY <3>1 DEF GetChannelFails, GiveUp, Fail, EndTalk, channelVars, serverVars, objectVars
    <3>2. CASE Write(d) \/ Read(d)
      BY <3>2 DEF Write, Read, GoOn, EndTalk, channelVars, serverVars, objectVars, endVars
    <3>3. CASE Block(d)
      BY <3>3 DEF Block, channelVars, serverVars, objectVars, endVars
    <3>4. CASE PipeFails(d) \/ WaitForEvent(d)
      BY <3>4 DEF PipeFails, WaitForEvent, channelVars, serverVars, objectVars, endVars
    <3>5. CASE WakeUp(d)
      BY <3>5 DEF WakeUp, Reconnected, Abort, EndTalk, serverVars, objectVars
    <3>6. CASE TimeIsOver(d)
      BY <3>6 DEF TimeIsOver, Reconnected, Abort, Fail, EndTalk, serverVars, objectVars
    <3> QED
      BY <1>2, <3>1, <3>2, <3>3, <3>4, <3>5, <3>6 DEF Converse
  <2>2. Owned(d)' = Owned(d) /\ WatchersOwn(d)' = WatchersOwn(d)
    BY <2>1 DEF Owned, WatchersOwn
  <2>3. Chain(d)'
    BY <2>1, <2>2 DEF Accounts, Chain
  <2>4. FreedOnce(d) => FreedOnce(d)'
    BY <2>1, <2>2 DEF FreedOnce
  <2> QED
    BY <2>1, <2>3, <2>4 DEF Accounts
<1> QED
  BY <1>1, <1>2

\* The watcher's steps.
LEMMA AccountsWatch ==
  ASSUME TypeInv, EndInv, NEW d \in Directions, Accounts(d), Launch \/ Watch
  PROVE  Accounts(d)'
<1>n. /\ last \in Nat /\ channel[d] \in Nat /\ oldChannel[d] \in Nat
      /\ Servers \subseteq Nat \ {0} /\ frees[d] \in [Servers -> 0 .. 2]
      /\ watcher \in {"greeting", "publishFrom"} => last \in Servers
  BY PipeNumbers
<1>p. phase # "done"
  BY DEF Launch, LaunchServer, LaunchFails, SharedMemoryFails, Terminating, Watch, GreetingFails,
     PublishTo, PublishFrom, WatcherWakes, WatcherEnds,
     EndInv, WatcherIsJoined
<1>1. CASE LaunchServer
  <2>0. /\ last' = last + 1 /\ WatchersOwn(d) = {} /\ last' \in WatchersOwn(d)'
        /\ WatchersOwn(d)' \subseteq {last'} /\ phase' = phase
        /\ UNCHANGED <<channel, oldChannel, frees, overrun, astray, at, held>>
    BY <1>1, <1>p DEF LaunchServer, WatchersOwn, channelVars, objectVars, talkVars, endVars
  <2>1. Chain(d)'
    BY <1>n, <2>0 DEF Accounts, Chain
  <2>2. \A g \in Servers : (g <= last /\ g \notin Owned(d)) <=> (g <= last' /\ g \notin Owned(d)')
    <3> TAKE g \in Servers
    <3>1. Owned(d)' = Owned(d) \union {last'}
      BY <2>0 DEF Owned
    <3> QED
      BY <1>n, <2>0, <3>1
  <2>3. FreedOnce(d) => FreedOnce(d)'
    BY <2>0, <2>2 DEF FreedOnce
  <2>4. InUseIsOwned(d) => InUseIsOwned(d)'
    BY <2>0 DEF InUseIsOwned
  <2> QED
    BY <2>0, <2>1, <2>3, <2>4 DEF Accounts
<1>2. CASE GreetingFails
  <2>0. /\ last' = last /\ WatchersOwn(d) = {last} /\ WatchersOwn(d)' = {} /\ phase' = phase
        /\ UNCHANGED <<channel, oldChannel, overrun, astray, at, held>> /\ last \in Servers
    BY <1>n, <1>2 DEF GreetingFails, WatchersOwn, channelVars, talkVars, endVars
  <2>e. frees'[d] = Deleted(frees[d], last)
    BY <1>2 DEF GreetingFails, CatchDeletes
  <2>1. channel[d] < last /\ (oldChannel[d] # None => oldChannel[d] < channel[d])
    BY <2>0 DEF Accounts, Chain
  <2>2. Chain(d)'
    BY <2>0 DEF Accounts, Chain
  <2>3. Owned(d)' = Owned(d) \ {last} /\ last \in Owned(d)
    <3>1. Owned(d) = {last} \union ({channel[d], oldChannel[d]} \ {None})
      BY <1>p, <2>0 DEF Owned
    <3>2. Owned(d)' = {} \union ({channel[d], oldChannel[d]} \ {None})
      BY <1>p, <2>0 DEF Owned
    <3>3. last # channel[d] /\ (oldChannel[d] = None \/ last # oldChannel[d])
      BY <1>n, <2>1
    <3> QED
      BY <3>1, <3>2, <3>3
  <2>4. ASSUME FreedOnce(d) PROVE FreedOnce(d)'
    <3>1. frees[d][last] = 0
      BY <2>0, <2>3, <2>4 DEF FreedOnce
    <3>2. frees'[d][last] = 1 /\ \A g \in Servers : g # last => frees'[d][g] = frees[d][g]
      BY <1>n, <2>0, <2>e, <3>1, DeletedOnce
    <3> SUFFICES ASSUME NEW g \in Servers
                 PROVE  frees'[d][g] = IF g <= last /\ g \notin Owned(d)' THEN 1 ELSE 0
      BY <2>0 DEF FreedOnce
    <3>3. CASE g = last
      BY <1>n, <2>3, <3>2, <3>3
    <3>4. CASE g # last
      BY <2>3, <2>4, <3>2, <3>4 DEF FreedOnce
    <3> QED
      BY <3>3, <3>4
  <2>5. InUseIsOwned(d) => InUseIsOwned(d)'
    BY <2>0 DEF InUseIsOwned
  <2> QED
    BY <2>0, <2>2, <2>4, <2>5 DEF Accounts
<1>3. CASE PublishTo
  <2>0. UNCHANGED <<last, phase, at, held, astray>> /\ last \in Servers
    BY <1>n, <1>3 DEF PublishTo, endVars, talkVars
  <2>1. CASE d = "To"
    <3>1. WatchersOwn(d) = {last} /\ WatchersOwn(d)' = {} /\ ReplaceChannel(d)
      BY <1>3, <2>1 DEF PublishTo, WatchersOwn
    <3> QED
      BY <1>p, <2>0, <3>1, AccountsReplace
  <2>2. CASE d = "From"
    <3>1. WatchersOwn(d) = {last} /\ WatchersOwn(d)' = {last'}
      BY <1>3, <2>2 DEF PublishTo, WatchersOwn
    <3>2. Same(d)
      BY <1>3, <2>0, <2>2 DEF PublishTo, ReplaceChannel, Same, TypeInv, ChannelTypes, Directions
    <3> QED
      BY <2>0, <3>1, <3>2, AccountsKept
  <2> QED
    BY <2>1, <2>2 DEF Directions
<1>4. CASE PublishFrom
  <2>0. UNCHANGED <<last, phase, at, held, astray>> /\ last \in Servers
    BY <1>n, <1>4 DEF PublishFrom, endVars, talkVars
  <2>1. CASE d = "From"
    <3>1. WatchersOwn(d) = {last} /\ WatchersOwn(d)' = {} /\ ReplaceChannel(d)
      BY <1>4, <2>1 DEF PublishFrom, WatchersOwn
    <3> QED
      BY <1>p, <2>0, <3>1, AccountsReplace
  <2>2. CASE d = "To"
    <3>1. WatchersOwn(d) = {} /\ WatchersOwn(d)' = {}
      BY <1>4, <2>2 DEF PublishFrom, WatchersOwn
    <3>2. Same(d)
      BY <1>4, <2>0, <2>2 DEF PublishFrom, ReplaceChannel, Same, TypeInv, ChannelTypes, Directions
    <3> QED
      BY <2>0, <3>1, <3>2, AccountsKept
  <2> QED
    BY <2>1, <2>2 DEF Directions
<1>5. CASE WatcherWakes \/ WatcherEnds
  <2>1. /\ Same(d) /\ last' = last /\ phase' = phase
        /\ WatchersOwn(d) = {} /\ WatchersOwn(d)' = {}
    BY <1>5 DEF WatcherWakes, WatcherEnds, Same, WatchersOwn, channelVars, objectVars, talkVars,
       endVars
  <2> QED
    BY <2>1, AccountsKept
<1>6. CASE LaunchFails
  <2>0. /\ last' = last + 1 /\ last' \in Servers /\ UNCHANGED <<watcher, phase>>
        /\ WatchersOwn(d) = {} /\ WatchersOwn(d)' = {}
        /\ UNCHANGED <<channel, oldChannel, overrun, astray, at, held>>
    BY <1>n, <1>6, BoundsAssumption
    DEF LaunchFails, WatchersOwn, Servers, channelVars, talkVars, endVars
  <2>e. frees'[d] = Deleted(frees[d], last')
    BY <1>6 DEF LaunchFails, CatchDeletes
  <2>1. Chain(d)'
    BY <1>n, <2>0 DEF Accounts, Chain
  <2>2. Owned(d)' = Owned(d) /\ last' \notin Owned(d)
    <3>1. Owned(d) = {channel[d], oldChannel[d]} \ {None} /\ Owned(d)' = Owned(d)
      BY <1>p, <2>0 DEF Owned
    <3>2. channel[d] <= last /\ (oldChannel[d] # None => oldChannel[d] < channel[d])
      BY DEF Accounts, Chain
    <3> QED
      BY <1>n, <2>0, <3>1, <3>2
  <2>3. ASSUME FreedOnce(d) PROVE FreedOnce(d)'
    <3>1. frees[d][last'] = 0
      BY <1>n, <2>0, <2>3 DEF FreedOnce
    <3>2. frees'[d][last'] = 1 /\ \A g \in Servers : g # last' => frees'[d][g] = frees[d][g]
      BY <1>n, <2>0, <2>e, <3>1, DeletedOnce
    <3> SUFFICES ASSUME NEW g \in Servers
                 PROVE  frees'[d][g] = IF g <= last' /\ g \notin Owned(d)' THEN 1 ELSE 0
      BY DEF FreedOnce
    <3>3. CASE g = last'
      BY <1>n, <2>0, <2>2, <3>2, <3>3
    <3>4. CASE g # last'
      <4>1. g <= last' <=> g <= last
        BY <1>n, <2>0, <3>4
      <4> QED
        BY <2>2, <2>3, <3>2, <3>4, <4>1 DEF FreedOnce
    <3> QED
      BY <3>3, <3>4
  <2>4. InUseIsOwned(d) => InUseIsOwned(d)'
    BY <2>0 DEF InUseIsOwned
  <2> QED
    BY <2>0, <2>1, <2>3, <2>4 DEF Accounts
<1>7. CASE SharedMemoryFails
  <2>1. /\ UNCHANGED <<watcher, last, phase, channel, oldChannel>> /\ astray'
    BY <1>7 DEF SharedMemoryFails, serverVars, channelVars, endVars
  <2>2. Chain(d)'
    BY <2>1 DEF Accounts, Chain, WatchersOwn
  <2> QED
    BY <2>1, <2>2 DEF Accounts
<1> QED
  BY <1>1, <1>2, <1>3, <1>4, <1>5, <1>6, <1>7 DEF Watch, Launch

\* ~ReconnectingChannel deletes what is left.
LEMMA AccountsDelete ==
  ASSUME TypeInv, EndInv, NEW d \in Directions, Accounts(d), DeleteChannels
  PROVE  Accounts(d)'
<1>n. /\ last \in Nat /\ channel[d] \in Nat /\ oldChannel[d] \in Nat
      /\ Servers \subseteq Nat \ {0} /\ frees[d] \in [Servers -> 0 .. 2]
      /\ channel[d] # None => channel[d] \in Servers
      /\ oldChannel[d] # None => oldChannel[d] \in Servers
  BY PipeNumbers
<1>0. /\ last' = last /\ watcher' = watcher /\ WatchersOwn(d) = {} /\ WatchersOwn(d)' = {}
      /\ phase = "deleteChannels" /\ phase' = "done"
      /\ UNCHANGED <<channel, oldChannel, overrun, astray, at, held>>
  BY DEF DeleteChannels, PhaseGoto, EndInv, WatcherIsJoined, WatchersOwn, serverVars, channelVars,
     talkVars
<1> DEFINE first == IF channel[d] = None THEN frees[d] ELSE Deleted(frees[d], channel[d])
<1>1. frees'[d] = IF oldChannel[d] = None THEN first ELSE Deleted(first, oldChannel[d])
  BY DEF DeleteChannels
<1>2. first \in [Servers -> 0 .. 2]
  BY <1>n, DeletedIsCounted
<1>3. Chain(d)'
  BY <1>0 DEF Accounts, Chain
<1>4. Owned(d) = {channel[d], oldChannel[d]} \ {None} /\ Owned(d)' = {}
  BY <1>0 DEF Owned
<1>5. ASSUME FreedOnce(d) PROVE FreedOnce(d)'
  <2>1. oldChannel[d] # None => oldChannel[d] # channel[d]
    BY <1>n DEF Accounts, Chain
  <2>2. /\ channel[d] # None => frees[d][channel[d]] = 0
        /\ oldChannel[d] # None => frees[d][oldChannel[d]] = 0
    BY <1>n, <1>4, <1>5 DEF FreedOnce
  <2>3. \A g \in Servers : first[g] = IF g = channel[d] THEN 1 ELSE frees[d][g]
    <3>1. CASE channel[d] = None
      BY <1>n, <3>1 DEF None
    <3>2. CASE channel[d] # None
      BY <1>n, <2>2, <3>2, DeletedOnce
    <3> QED
      BY <3>1, <3>2
  <2>4. oldChannel[d] # None => first[oldChannel[d]] = 0
    BY <1>n, <2>1, <2>2, <2>3
  <2> HIDE DEF first
  <2>5. \A g \in Servers : frees'[d][g] =
          IF g = channel[d] \/ g = oldChannel[d] THEN 1 ELSE frees[d][g]
    <3>1. CASE oldChannel[d] = None
      BY <1>n, <1>1, <2>3, <3>1 DEF None
    <3>2. CASE oldChannel[d] # None
      <4>1. /\ Deleted(first, oldChannel[d])[oldChannel[d]] = 1
            /\ \A g \in Servers : g # oldChannel[d] =>
                 Deleted(first, oldChannel[d])[g] = first[g]
        BY <1>2, <1>n, <2>4, <3>2, DeletedOnce
      <4> QED
        BY <1>1, <2>3, <3>2, <4>1
    <3> QED
      BY <3>1, <3>2
  <2>6. channel[d] <= last /\ (oldChannel[d] # None => oldChannel[d] <= last)
    BY <1>n DEF Accounts, Chain
  <2> SUFFICES ASSUME NEW g \in Servers
               PROVE  frees'[d][g] = IF g <= last THEN 1 ELSE 0
    BY <1>0, <1>4 DEF FreedOnce
  <2>7. CASE g = channel[d] \/ g = oldChannel[d]
    BY <1>n, <2>5, <2>6, <2>7 DEF None
  <2>8. CASE ~(g = channel[d] \/ g = oldChannel[d])
    BY <1>4, <1>5, <2>5, <2>8 DEF FreedOnce
  <2> QED
    BY <2>7, <2>8
<1>6. InUseIsOwned(d) => InUseIsOwned(d)'
  BY <1>0 DEF InUseIsOwned
<1> QED
  BY <1>0, <1>3, <1>5, <1>6 DEF Accounts

LEMMA OwnStep == ASSUME TypeInv, EndInv, OwnInv, [Next]_vars PROVE OwnInv'
<1> SUFFICES ASSUME NEW x \in Directions PROVE Accounts(x)'
  BY DEF OwnInv
<1>0. Accounts(x)
  BY DEF OwnInv
<1>f. Same(x) /\ UNCHANGED <<watcher, last>> /\ (phase' = "done" <=> phase = "done")
      => Accounts(x)'
  BY <1>0, AccountsKept DEF WatchersOwn
<1>1. CASE Launch \/ Watch
  BY <1>0, <1>1, AccountsWatch
<1>2. CASE BeginListening \/ \E kind \in Requests : BeginTalk(kind)
  <2>1. /\ UNCHANGED <<watcher, last, phase, channel, oldChannel, frees, overrun, astray>>
        /\ InUseIsOwned(x) => InUseIsOwned(x)'
    BY <1>0, <1>2 DEF BeginListening, BeginTalk, InUseIsOwned, Accounts, TypeInv, TalkTypes,
       serverVars, channelVars, objectVars, endVars
  <2>2. Owned(x)' = Owned(x) /\ WatchersOwn(x)' = WatchersOwn(x)
    BY <2>1 DEF Owned, WatchersOwn
  <2>3. Chain(x)'
    BY <1>0, <2>1, <2>2 DEF Accounts, Chain
  <2>4. FreedOnce(x) => FreedOnce(x)'
    BY <2>1, <2>2 DEF FreedOnce
  <2> QED
    BY <1>0, <2>1, <2>3, <2>4 DEF Accounts
<1>3. ASSUME NEW d \in Directions, Converse(d) PROVE Accounts(x)'
  <2>1. CASE x = d
    BY <1>0, <1>3, <2>1, AccountsConverse
  <2>2. CASE x # d
    <3>1. UNCHANGED <<watcher, last, phase>>
      BY <1>3 DEF Converse, GetChannelFails, GetChannel, Write, Read, GoOn, Block, PipeFails,
         GiveUp, WaitForEvent, WakeUp, TimeIsOver, serverVars, endVars
    <3> QED
      BY <1>3, <1>f, <2>2, <3>1, OthersAreSame
  <2> QED
    BY <2>1, <2>2
<1>4. ASSUME NEW w \in Closers, NEW d \in Directions, Close(w, d) PROVE Accounts(x)'
  <2>1. /\ UNCHANGED <<watcher, last, channel, oldChannel, frees, overrun, astray, at, held>>
        /\ phase' = "done" <=> phase = "done"
    <3>1. CASE BeginClose(w, d)
      BY <3>1 DEF BeginClose, serverVars, objectVars, talkVars, endVars
    <3>2. CASE EndClose(w, d)
      <4>1. Place(w) = CloseLocation(d)
        BY <3>2 DEF EndClose, EndInv, CloserIsThere
      <4> QED
        BY <3>2, <4>1 DEF EndClose, Advance, Place, CloseLocation, serverVars, talkVars
    <3> QED
      BY <1>4, <3>1, <3>2 DEF Close
  <2>2. Owned(x)' = Owned(x) /\ WatchersOwn(x)' = WatchersOwn(x)
    BY <2>1 DEF Owned, WatchersOwn
  <2>3. Chain(x)'
    BY <1>0, <2>1, <2>2 DEF Accounts, Chain
  <2>4. FreedOnce(x) => FreedOnce(x)'
    BY <2>1, <2>2 DEF FreedOnce
  <2>5. InUseIsOwned(x) => InUseIsOwned(x)'
    BY <2>1 DEF InUseIsOwned
  <2> QED
    BY <1>0, <2>1, <2>3, <2>4, <2>5 DEF Accounts
<1>5. CASE DeleteChannels
  BY <1>0, <1>5, AccountsDelete
<1>6. CASE DispatcherEnds \/ BeginDestruction \/ JoinThread \/ JoinWatcher \/ JoinDispatcher
           \/ JoinKicker
  BY <1>6, <1>f DEF DispatcherEnds, BeginDestruction, JoinThread, JoinWatcher, JoinDispatcher,
     JoinKicker, PhaseGoto, Same, serverVars, channelVars, objectVars, talkVars
<1>7. ASSUME NEW g \in Servers, Serve(g) \/ ServerNotifies(g) \/ ServerDies(g)
      PROVE  Accounts(x)'
  BY <1>7, <1>f DEF Serve, ServerReads, ServerExits, ServerNotifies, ServerDies, Same, serverVars,
     channelVars, objectVars, talkVars, endVars
<1>8. CASE UNCHANGED vars
  BY <1>8, <1>f DEF vars, Same, serverVars, channelVars, objectVars, talkVars, endVars
<1> QED
  BY <1>1, <1>2, <1>3, <1>4, <1>5, <1>6, <1>7, <1>8 DEF Next, Sane, Step, Destroy, Launch

LEMMA OwnInvariance == Spec => []OwnInv
<1>1. Init => OwnInv
  BY BoundsAssumption
  DEF Init, OwnInv, Accounts, Chain, FreedOnce, InUseIsOwned, Owned, WatchersOwn, Servers, None
<1>2. TypeInv /\ EndInv /\ OwnInv /\ [Next]_vars => OwnInv'
  BY OwnStep
<1> QED
  BY <1>1, <1>2, TypeInvariance, EndInvariance, PTL DEF Spec

\* Every object of a pipe (ReconnectingChannel, DesktopServerWatcher) is deleted
\* once and not while a thread reads or writes with it, for any number of
\* processes that end, cannot be started or are gone before they are greeted;
\* until a channel is replaced twice with nobody asking for it in between, or a
\* pass of the watcher gets no shared memory.
THEOREM PipesAreOwned == Spec => []ChannelsAreOwned
<1>1. TypeInv /\ EndInv /\ OwnInv => ChannelsAreOwned
  <2> SUFFICES ASSUME TypeInv, EndInv, OwnInv, NEW d \in Directions, ~overrun[d], ~astray
               PROVE  /\ \A g \in 1 .. last : frees[d][g] = IF g \in Owned(d) THEN 0 ELSE 1
                      /\ phase # "done" => oldChannel[d] # channel[d] \/ channel[d] = None
                      /\ at[d] \in {"inside", "blocked"} /\ held[d] # None => held[d] \in Owned(d)
    BY DEF ChannelsAreOwned
  <2>0. Accounts(d) /\ last \in 0 .. MaxServers
    BY DEF OwnInv, TypeInv, ControlTypes
  <2>n. channel[d] \in Nat /\ oldChannel[d] \in Nat
    BY PipeNumbers
  <2>1. \A g \in 1 .. last : frees[d][g] = IF g \in Owned(d) THEN 0 ELSE 1
    BY <2>0, BoundsAssumption DEF Accounts, FreedOnce, Servers
  <2>2. oldChannel[d] # channel[d] \/ channel[d] = None
    BY <2>0, <2>n DEF Accounts, Chain
  <2>3. ASSUME at[d] \in {"inside", "blocked"}, held[d] # None PROVE held[d] \in Owned(d)
    <3>1. phase # "done"
      BY <2>3 DEF EndInv, ListenerIsAtRest, DispatcherIsJoined, KickerIsJoined, Directions
    <3> QED
      BY <2>0, <2>3, <3>1 DEF Accounts, InUseIsOwned, Owned
  <2> QED
    BY <2>1, <2>2, <2>3
<1> QED
  BY <1>1, TypeInvariance, EndInvariance, OwnInvariance, PTL

-----------------------------------------------------------------------------
(* The conversations *)

InHand(d) == at[d] \in InUse
\* The pipe the next part of the conversation goes over.
Route(d) == IF InHand(d) THEN held[d] ELSE channel[d]
\* Nobody has used the pipe yet, and whoever asks for a channel is told first.
Untouched(d, g) ==
  \/ g > channel[d]
  \/ g = channel[d] /\ IF InHand(d) THEN held[d] # g ELSE chanWasChanged[d]

\* What a conversation does over its channel: a thread goes on where it was
\* only over the pipe it has used so far, and waits only when that is broken.
Follows(d) ==
  /\ at[d] = "idle" => step[d] = 1
  /\ held[d] <= channel[d]
  /\ chanWasChanged[d] => channel[d] # None /\ (InHand(d) => held[d] # channel[d])
  /\ InHand(d) /\ held[d] # None /\ ~chanWasChanged[d] => held[d] = channel[d]
  /\ Route(d) = None => step[d] = 1
  /\ at[d] \in {"checking", "waiting"} => Broken(d)
FollowInv == \A d \in Directions : Follows(d)

\* What a thread's step does to its conversation in direction d.
Takes(d) ==
  /\ at[d] = "ready" /\ ~isClosed[d] /\ ~chanWasChanged[d]
  /\ at'[d] = "inside" /\ held'[d] = channel[d]
  /\ talk'[d] = talk[d] /\ step'[d] = step[d] /\ ~chanWasChanged'[d]
  /\ UNCHANGED <<pipeVars, dispatcher>>
Restarts(d) ==
  /\ \/ at[d] = "ready" /\ ~isClosed[d] /\ chanWasChanged[d]
     \/ at[d] = "waiting" /\ channel[d] # held[d] /\ held[d] # None
  /\ at'[d] \in {"idle", "ready"} /\ step'[d] = 1 /\ held'[d] = None
  /\ ~chanWasChanged'[d]
  /\ UNCHANGED <<pipeVars, dispatcher>>
Quits(d) ==
  /\ \/ at[d] = "ready" /\ isClosed[d]
     \/ at[d] \in {"checking", "waiting"}
  /\ at'[d] = "idle" /\ step'[d] = 1 /\ held'[d] = None
  /\ chanWasChanged'[d] = chanWasChanged[d]
  /\ dispatcher' = IF d = "From" THEN "closeTo" ELSE dispatcher
  /\ UNCHANGED pipeVars
Finds(d) ==
  /\ at[d] = "waiting" /\ held[d] = None /\ channel[d] # None
  /\ at'[d] = "ready" /\ held'[d] = held[d]
  /\ talk'[d] = talk[d] /\ step'[d] = step[d] /\ ~chanWasChanged'[d]
  /\ UNCHANGED <<pipeVars, dispatcher>>
Stays(d) ==
  /\ at[d] \in InUse /\ at'[d] \in InUse
  /\ at'[d] \in {"checking", "waiting"} => at[d] \in {"checking", "waiting"} \/ Broken(d)
  /\ held'[d] = held[d] /\ talk'[d] = talk[d] /\ step'[d] = step[d]
  /\ chanWasChanged'[d] = chanWasChanged[d]
  /\ UNCHANGED <<pipeVars, objectVars, dispatcher>>
Proceeds(d) ==
  /\ at[d] \in {"inside", "blocked"} /\ held[d] # None /\ held'[d] = None
  /\ Usable(d, held[d])
  /\ \/ /\ step[d] < LastStep(talk[d])
        /\ at'[d] = "ready" /\ step'[d] = step[d] + 1 /\ talk'[d] = talk[d]
     \/ /\ step[d] = LastStep(talk[d])
        /\ at'[d] = "idle" /\ step'[d] = 1
  /\ chanWasChanged'[d] = chanWasChanged[d]
  /\ UNCHANGED <<parsing, nextPart, objectVars, dispatcher>>

LEMMA ProceedsIfGoesOn ==
  ASSUME TypeInv, NEW d \in Directions, GoOn(d), at[d] \in {"inside", "blocked"},
         Usable(d, held[d]), UNCHANGED <<parsing, nextPart>>
  PROVE  Proceeds(d)
<1>0. TalkTypes
  BY DEF TypeInv
<1>1. /\ chanWasChanged' = chanWasChanged /\ UNCHANGED <<objectVars, dispatcher>>
  BY DEF GoOn, channelVars, endVars
<1>2. held[d] # None
  BY DEF Usable
<1>3. CASE step[d] < LastStep(talk[d])
  BY <1>0, <1>1, <1>2, <1>3 DEF GoOn, Proceeds, TalkTypes
<1>4. CASE ~(step[d] < LastStep(talk[d]))
  <2>1. step[d] = LastStep(talk[d])
    <3>1. LastStep(talk[d]) \in 1 .. 3 /\ step[d] \in 1 .. 3 /\ step[d] <= LastStep(talk[d])
      BY <1>0, ScriptsAreShort DEF TalkTypes
    <3> QED
      BY <1>4, <3>1
  <2> QED
    BY <1>0, <1>1, <1>2, <1>4, <2>1 DEF GoOn, EndTalk, Proceeds, TalkTypes
<1> QED
  BY <1>3, <1>4

LEMMA ConverseEffect ==
  ASSUME TypeInv, NEW d \in Directions, Converse(d)
  PROVE  /\ UNCHANGED <<serverVars, channel, isClosed, talks, phase, shut>>
         /\ \/ Takes(d) \/ Restarts(d) \/ Quits(d) \/ Finds(d) \/ Stays(d)
            \/ Write(d) /\ Proceeds(d)
            \/ Read(d) /\ Proceeds(d)
<1>0. ChannelTypes /\ TalkTypes
  BY DEF TypeInv
<1>1. CASE GetChannelFails(d)
  BY <1>0, <1>1 DEF GetChannelFails, Fail, EndTalk, Quits, channelVars, objectVars, TalkTypes
<1>2. CASE GetChannel(d)
  <2>1. CASE chanWasChanged[d]
    BY <1>0, <1>2, <2>1 DEF GetChannel, Abort, EndTalk, Restarts, TalkTypes, ChannelTypes
  <2>2. CASE ~chanWasChanged[d]
    BY <1>0, <1>2, <2>2 DEF GetChannel, Takes, TalkTypes, ChannelTypes
  <2> QED
    BY <1>2, <2>1, <2>2 DEF GetChannel
<1>3. CASE Write(d)
  <2>1. Proceeds(d)
    BY <1>3, ProceedsIfGoesOn DEF Write
  <2> QED
    BY <1>3, <2>1 DEF Write, GoOn, channelVars, objectVars, endVars
<1>4. CASE Read(d)
  <2>1. Proceeds(d)
    BY <1>4, ProceedsIfGoesOn DEF Read
  <2> QED
    BY <1>4, <2>1 DEF Read, GoOn, channelVars, objectVars, endVars
<1>5. CASE Block(d) \/ PipeFails(d) \/ WaitForEvent(d)
  BY <1>0, <1>5 DEF Block, PipeFails, WaitForEvent, Stays, InUse, channelVars, objectVars,
     endVars, TalkTypes
<1>6. CASE GiveUp(d)
  BY <1>0, <1>6 DEF GiveUp, Fail, EndTalk, Quits, channelVars, objectVars, TalkTypes
<1>7. CASE WakeUp(d)
  <2>0. /\ UNCHANGED <<serverVars, channel, isClosed, talks, phase, shut, objectVars, pipeVars>>
        /\ at[d] = "waiting"
    BY <1>7 DEF WakeUp, objectVars
  <2>1. CASE channel[d] = held[d]
    BY <1>0, <1>7, <2>0, <2>1 DEF WakeUp, Stays, InUse, TalkTypes
  <2>2. CASE channel[d] # held[d] /\ held[d] # None
    <3>1. Abort(d) /\ chanWasChanged' = [chanWasChanged EXCEPT ![d] = FALSE]
      BY <1>7, <2>2 DEF WakeUp, Reconnected
    <3> QED
      BY <1>0, <2>0, <2>2, <3>1 DEF Abort, EndTalk, Restarts, TalkTypes, ChannelTypes
  <2>3. CASE channel[d] # held[d] /\ held[d] = None
    BY <1>0, <1>7, <2>0, <2>3 DEF WakeUp, Reconnected, Finds, TalkTypes, ChannelTypes
  <2> QED
    BY <2>1, <2>2, <2>3
<1>8. CASE TimeIsOver(d)
  <2>0. /\ UNCHANGED <<serverVars, channel, isClosed, talks, phase, shut, objectVars, pipeVars>>
        /\ at[d] = "waiting"
    BY <1>8 DEF TimeIsOver, objectVars
  <2>1. CASE channel[d] = held[d]
    BY <1>0, <1>8, <2>0, <2>1 DEF TimeIsOver, Fail, EndTalk, Quits, TalkTypes
  <2>2. CASE channel[d] # held[d] /\ held[d] # None
    <3>1. Abort(d) /\ chanWasChanged' = [chanWasChanged EXCEPT ![d] = FALSE]
      BY <1>8, <2>2 DEF TimeIsOver, Reconnected
    <3> QED
      BY <1>0, <2>0, <2>2, <3>1 DEF Abort, EndTalk, Restarts, TalkTypes, ChannelTypes
  <2>3. CASE channel[d] # held[d] /\ held[d] = None
    BY <1>0, <1>8, <2>0, <2>3 DEF TimeIsOver, Reconnected, Finds, TalkTypes, ChannelTypes
  <2> QED
    BY <2>1, <2>2, <2>3
<1> QED
  BY <1>1, <1>2, <1>3, <1>4, <1>5, <1>6, <1>7, <1>8 DEF Converse

\* A step that is no part of the conversation in direction d.
Still(d) ==
  /\ at'[d] = at[d] /\ held'[d] = held[d] /\ talk'[d] = talk[d] /\ step'[d] = step[d]
  /\ channel'[d] = channel[d] /\ chanWasChanged'[d] = chanWasChanged[d]

LEMMA StillElsewhere ==
  ASSUME TypeInv, NEW d \in Directions, NEW x \in Directions, x # d, Converse(d)
  PROVE  Still(x)
<1>0. ChannelTypes /\ TalkTypes
  BY DEF TypeInv
<1>1. Same(x)
  BY OthersAreSame
<1>2. talk'[x] = talk[x] /\ step'[x] = step[x] /\ chanWasChanged'[x] = chanWasChanged[x]
  <2> USE <1>0 DEF ChannelTypes, TalkTypes
  <2>1. CASE GetChannelFails(d) \/ GiveUp(d)
    BY <2>1 DEF GetChannelFails, GiveUp, Fail, EndTalk, channelVars
  <2>2. CASE GetChannel(d)
    BY <2>2 DEF GetChannel, Abort, EndTalk
  <2>3. CASE Write(d) \/ Read(d)
    BY <2>3 DEF Write, Read, GoOn, EndTalk, channelVars
  <2>4. CASE Block(d) \/ PipeFails(d) \/ WaitForEvent(d)
    BY <2>4 DEF Block, PipeFails, WaitForEvent, channelVars
  <2>5. CASE WakeUp(d) \/ TimeIsOver(d)
    BY <2>5 DEF WakeUp, TimeIsOver, Reconnected, Abort, Fail, EndTalk
  <2> QED
    BY <2>1, <2>2, <2>3, <2>4, <2>5 DEF Converse
<1> QED
  BY <1>1, <1>2 DEF Same, Still

\* The steps of the watcher that publish nothing, of the processes, and of the
\* end.
Beside ==
  \/ Launch \/ GreetingFails \/ WatcherWakes \/ WatcherEnds
  \/ \E g \in Servers : Serve(g) \/ ServerNotifies(g) \/ ServerDies(g)
  \/ \E w \in Closers, d \in Directions : Close(w, d)
  \/ DispatcherEnds \/ BeginDestruction \/ Destroy \/ UNCHANGED vars

LEMMA StillBeside ==
  ASSUME Beside
  PROVE  UNCHANGED <<talkVars, channel, chanWasChanged>>
BY DEF Beside, Launch, LaunchServer, LaunchFails, SharedMemoryFails, GreetingFails, WatcherWakes,
   WatcherEnds, Serve, ServerReads,
   ServerExits, ServerNotifies, ServerDies, Close, BeginClose, EndClose, DispatcherEnds,
   BeginDestruction, Destroy, JoinThread, JoinWatcher, JoinDispatcher, JoinKicker,
   DeleteChannels, vars, channelVars, talkVars

\* What has been closed or deleted stays so.
LEMMA DeletedStays ==
  ASSUME NEW f \in [Servers -> 0 .. 2], NEW g, NEW h \in Servers, Deleted(f, g)[h] = 0
  PROVE  f[h] = 0
BY DEF Deleted

LEMMA UsableWasUsable ==
  ASSUME TypeInv, [Next]_vars, NEW d \in Directions, NEW g \in Servers, Usable(d, g)'
  PROVE  Usable(d, g)
<1>0. ChannelTypes /\ frees[d] \in [Servers -> 0 .. 2]
  BY DEF TypeInv, ChannelTypes
<1>1. SUFFICES shut[d] \subseteq shut'[d] /\ (frees'[d][g] = 0 => frees[d][g] = 0)
  BY DEF Usable
<1>2. UNCHANGED <<shut, frees>> => shut[d] \subseteq shut'[d] /\ (frees'[d][g] = 0 => frees[d][g] = 0)
  OBVIOUS
<1>3. ASSUME NEW h, shut' = shut,
             frees'[d] = frees[d] \/ frees'[d] = Deleted(frees[d], h)
      PROVE  shut[d] \subseteq shut'[d] /\ (frees'[d][g] = 0 => frees[d][g] = 0)
  BY <1>0, <1>3, DeletedStays
<1>4. CASE GreetingFails \/ LaunchFails \/ SharedMemoryFails
  <2>1. ASSUME NEW h, CatchDeletes(h) PROVE frees'[d] = Deleted(frees[d], h)
    BY <2>1 DEF CatchDeletes
  <2> QED
    BY <1>2, <1>3, <1>4, <2>1 DEF GreetingFails, LaunchFails, SharedMemoryFails
<1>5. CASE PublishTo \/ PublishFrom
  <2>1. ASSUME NEW x \in Directions, ReplaceChannel(x)
        PROVE  frees'[d] = frees[d] \/ frees'[d] = Deleted(frees[d], channel[d])
    BY <1>0, <2>1 DEF ReplaceChannel, ChannelTypes
  <2> QED
    BY <1>3, <1>5, <2>1 DEF PublishTo, PublishFrom, Directions
<1>6. ASSUME NEW x \in Directions, Converse(x)
      PROVE  shut[d] \subseteq shut'[d] /\ (frees'[d][g] = 0 => frees[d][g] = 0)
  <2>1. CASE GetChannel(x)
    <3>1. frees'[d] = frees[d] \/ frees'[d] = Deleted(frees[d], oldChannel[d])
      BY <1>0, <2>1 DEF GetChannel, ChannelTypes
    <3> QED
      BY <1>3, <2>1, <3>1 DEF GetChannel
  <2>2. CASE ~GetChannel(x)
    BY <1>2, <1>6, <2>2 DEF Converse, GetChannelFails, Write, Read, GoOn, Block, PipeFails,
       GiveUp, WaitForEvent, WakeUp, TimeIsOver, objectVars
  <2> QED
    BY <2>1, <2>2
<1>7. ASSUME NEW w \in Closers, NEW x \in Directions, Close(w, x)
      PROVE  shut[d] \subseteq shut'[d] /\ (frees'[d][g] = 0 => frees[d][g] = 0)
  <2>1. CASE BeginClose(w, x)
    BY <1>2, <2>1 DEF BeginClose, objectVars
  <2>2. CASE EndClose(w, x)
    BY <1>0, <2>2 DEF EndClose, ChannelTypes
  <2> QED
    BY <1>7, <2>1, <2>2 DEF Close
<1>8. CASE DeleteChannels
  <2> DEFINE first == IF channel[d] = None THEN frees[d] ELSE Deleted(frees[d], channel[d])
  <2>1. shut' = shut
        /\ frees'[d] = IF oldChannel[d] = None THEN first ELSE Deleted(first, oldChannel[d])
    BY <1>8 DEF DeleteChannels
  <2>2. first \in [Servers -> 0 .. 2] /\ (first[g] = 0 => frees[d][g] = 0)
    BY <1>0, DeletedIsCounted, DeletedStays
  <2> HIDE DEF first
  <2> QED
    BY <2>1, <2>2, DeletedStays
<1>9. CASE \/ LaunchServer \/ WatcherWakes \/ WatcherEnds \/ BeginListening
           \/ \E kind \in Requests : BeginTalk(kind)
           \/ \E h \in Servers : Serve(h) \/ ServerNotifies(h) \/ ServerDies(h)
           \/ DispatcherEnds \/ BeginDestruction \/ JoinThread \/ JoinWatcher \/ JoinDispatcher
           \/ JoinKicker \/ UNCHANGED vars
  BY <1>2, <1>9 DEF LaunchServer, WatcherWakes, WatcherEnds, BeginListening, BeginTalk, Serve,
     ServerReads, ServerExits, ServerNotifies, ServerDies, DispatcherEnds, BeginDestruction,
     JoinThread, JoinWatcher, JoinDispatcher, JoinKicker, vars, objectVars
<1> QED
  BY <1>4, <1>5, <1>6, <1>7, <1>8, <1>9 DEF Next, Sane, Step, Watch, Destroy

\* A process that has ended stays away, and nothing comes out of it any more.
LEMMA GoneIsGone ==
  ASSUME TypeInv, [Next]_vars, NEW g \in Servers, g <= last, g \notin alive
  PROVE  g \notin alive' /\ g <= last'
<1>n. last \in Nat /\ Servers \subseteq Nat
  BY BoundsAssumption DEF TypeInv, ControlTypes, Servers
<1>1. CASE Launch
  BY <1>1, <1>n DEF Launch, LaunchServer, LaunchFails, SharedMemoryFails, serverVars
<1>2. CASE Watch \/ BeginListening \/ (\E kind \in Requests : BeginTalk(kind))
           \/ DispatcherEnds \/ BeginDestruction \/ Destroy \/ UNCHANGED vars
  BY <1>2 DEF Watch, GreetingFails, PublishTo, PublishFrom, WatcherWakes, WatcherEnds,
     BeginListening, BeginTalk, DispatcherEnds, BeginDestruction, Destroy, JoinThread,
     JoinWatcher, JoinDispatcher, JoinKicker, DeleteChannels, vars, serverVars
<1>3. ASSUME NEW d \in Directions, Converse(d) PROVE g \notin alive' /\ g <= last'
  BY <1>3, ConverseEffect DEF serverVars
<1>4. ASSUME NEW w \in Closers, NEW d \in Directions, Close(w, d)
      PROVE  g \notin alive' /\ g <= last'
  BY <1>4 DEF Close, BeginClose, EndClose, serverVars
<1>5. ASSUME NEW h \in Servers, Serve(h) \/ ServerNotifies(h) \/ ServerDies(h)
      PROVE  g \notin alive' /\ g <= last'
  BY <1>5 DEF Serve, ServerReads, ServerExits, ServerNotifies, ServerDies, serverVars
<1> QED
  BY <1>1, <1>2, <1>3, <1>4, <1>5 DEF Next, Sane, Step, Launch

LEMMA GoneIsSilent ==
  ASSUME TypeInv, [Next]_vars, NEW d \in Directions, NEW g \in Servers, g \notin alive,
         ~Available(d, g)
  PROVE  ~Available(d, g)'
<1>0. PipeTypes
  BY DEF TypeInv
<1>1. UNCHANGED <<outbox, notices>> => ~Available(d, g)'
  BY DEF Available
<1>2. CASE Launch \/ Watch \/ BeginListening \/ (\E kind \in Requests : BeginTalk(kind))
           \/ DispatcherEnds \/ BeginDestruction \/ Destroy \/ UNCHANGED vars
           \/ \E w \in Closers, x \in Directions : Close(w, x)
  BY <1>1, <1>2 DEF Launch, LaunchServer, LaunchFails, SharedMemoryFails, Watch, GreetingFails,
     PublishTo, PublishFrom, WatcherWakes,
     WatcherEnds, BeginListening, BeginTalk, DispatcherEnds, BeginDestruction, Destroy,
     JoinThread, JoinWatcher, JoinDispatcher, JoinKicker, DeleteChannels, vars, pipeVars,
     Close, BeginClose, EndClose
<1>3. ASSUME NEW x \in Directions, Converse(x) PROVE ~Available(d, g)'
  <2>1. CASE Read(x)
    <3>1. outbox'[g] = outbox[g] \/ (held[x] = g /\ x = "To")
      BY <1>0, <2>1 DEF Read, PipeTypes
    <3>2. notices'[g] = notices[g] \/ (held[x] = g /\ x # "To")
      BY <1>0, <2>1 DEF Read, PipeTypes
    <3>3. Available(x, held[x])
      BY <2>1 DEF Read
    <3> QED
      BY <3>1, <3>2, <3>3 DEF Available, Directions
  <2>2. CASE ~Read(x)
    <3>1. UNCHANGED <<outbox, notices>>
      BY <1>3, <2>2, ConverseEffect DEF Takes, Restarts, Quits, Finds, Stays, Write, pipeVars
    <3> QED
      BY <1>1, <3>1
  <2> QED
    BY <2>1, <2>2
<1>4. ASSUME NEW h \in Servers, Serve(h) \/ ServerNotifies(h) \/ ServerDies(h)
      PROVE  ~Available(d, g)'
  <2>1. CASE ServerReads(h)
    <3>1. h # g /\ notices' = notices
      BY <2>1 DEF ServerReads
    <3>2. outbox'[g] = outbox[g]
      BY <1>0, <2>1, <3>1 DEF ServerReads, PipeTypes
    <3> QED
      BY <3>1, <3>2 DEF Available
  <2>2. CASE ServerNotifies(h)
    BY <1>0, <2>2 DEF ServerNotifies, PipeTypes, Available
  <2>3. CASE ServerDies(h)
    BY <1>1, <2>3 DEF ServerDies
  <2> QED
    BY <1>4, <2>1, <2>2, <2>3 DEF Serve, ServerExits
<1> QED
  BY <1>2, <1>3, <1>4 DEF Next, Sane, Step, Launch

LEMMA BrokenStays ==
  ASSUME TypeInv, OwnInv, [Next]_vars, NEW d \in Directions, Broken(d), held[d] <= channel[d],
         held'[d] = held[d], talk'[d] = talk[d], step'[d] = step[d]
  PROVE  Broken(d)'
<1> SUFFICES ASSUME Usable(d, held[d])'
             PROVE  /\ held[d] \notin alive'
                    /\ Operation(d) = "read" => ~Available(d, held[d])'
  BY DEF Broken, Operation
<1>1. held[d] \in Servers
  BY DEF TypeInv, TalkTypes, Channels, Usable
<1>2. held[d] <= last
  <2>1. channel[d] <= last
    BY DEF OwnInv, Accounts, Chain
  <2> QED
    BY <2>1, PipeNumbers
<1>3. Usable(d, held[d])
  <2> DEFINE g == held[d]
  <2>1. Usable(d, g)'
    OBVIOUS
  <2> HIDE DEF g
  <2> QED
    BY <1>1, <2>1, UsableWasUsable DEF g
<1> QED
  BY <1>1, <1>2, <1>3, GoneIsGone, GoneIsSilent DEF Broken

LEMMA FollowStill ==
  ASSUME TypeInv, OwnInv, [Next]_vars, NEW d \in Directions, Follows(d), Still(d)
  PROVE  Follows(d)'
<1>1. InHand(d)' = InHand(d) /\ Route(d)' = Route(d)
  BY DEF InHand, Route, Still
<1>2. at[d] \in {"checking", "waiting"} => Broken(d)'
  BY BrokenStays DEF Follows, Still
<1> QED
  BY <1>1, <1>2 DEF Follows, Still

\* replaceChannel with a pipe that was the watcher's.
LEMMA FollowReplace ==
  ASSUME TypeInv, OwnInv, [Next]_vars, NEW d \in Directions, Follows(d), ReplaceChannel(d),
         last \in WatchersOwn(d), UNCHANGED talkVars
  PROVE  /\ Follows(d)'
         /\ channel'[d] = last /\ channel[d] < last
         /\ chanWasChanged'[d] = (chanWasChanged[d] \/ channel[d] # None)
<1>0. ChannelTypes /\ TalkTypes
  BY DEF TypeInv
<1>n. last \in Nat /\ channel[d] \in Nat /\ held[d] \in Nat
  BY PipeNumbers
<1>1. channel[d] < last
  BY DEF OwnInv, Accounts, Chain
<1>2. /\ channel'[d] = last
      /\ chanWasChanged'[d] = (chanWasChanged[d] \/ channel[d] # None)
  BY <1>0 DEF ReplaceChannel, ChannelTypes
<1>3. at' = at /\ held' = held /\ step' = step /\ talk' = talk
  BY DEF talkVars
<1>4. InHand(d)' = InHand(d)
  BY <1>3 DEF InHand
<1>5. at[d] \in {"checking", "waiting"} => Broken(d)'
  BY <1>3, BrokenStays DEF Follows
<1>6. held'[d] <= channel'[d]
  BY <1>1, <1>2, <1>3, <1>n DEF Follows
<1>7. chanWasChanged'[d] => channel'[d] # None /\ (InHand(d)' => held'[d] # channel'[d])
  BY <1>1, <1>2, <1>3, <1>n DEF Follows, None
<1>8. InHand(d)' /\ held'[d] # None /\ ~chanWasChanged'[d] => held'[d] = channel'[d]
  BY <1>1, <1>2, <1>3, <1>4, <1>n DEF Follows, None
<1>9. Route(d)' = None => step'[d] = 1
  BY <1>1, <1>2, <1>3, <1>4, <1>n DEF Follows, Route, None
<1> QED
  BY <1>1, <1>2, <1>3, <1>5, <1>6, <1>7, <1>8, <1>9 DEF Follows

LEMMA FollowConverse ==
  ASSUME TypeInv, OwnInv, NEW d \in Directions, Follows(d), Converse(d)
  PROVE  Follows(d)'
<1>n. channel[d] \in Nat /\ held[d] \in Nat
  BY PipeNumbers
<1>0. /\ channel'[d] = channel[d] /\ UNCHANGED <<serverVars, shut>>
      /\ None <= channel[d]
  BY <1>n, ConverseEffect DEF None
<1> USE DEF Follows, Route, InHand, InUse
<1>1. CASE Takes(d)
  BY <1>0, <1>n, <1>1 DEF Takes
<1>2. CASE Restarts(d)
  BY <1>0, <1>n, <1>2 DEF Restarts
<1>3. CASE Quits(d)
  BY <1>0, <1>n, <1>3 DEF Quits
<1>4. CASE Finds(d)
  BY <1>0, <1>n, <1>4 DEF Finds
<1>5. CASE Stays(d)
  <2>1. Broken(d)' = Broken(d)
    BY <1>0, <1>5 DEF Stays, Broken, Usable, Available, Operation, serverVars, objectVars, pipeVars
  <2> QED
    BY <1>0, <1>n, <1>5, <2>1 DEF Stays
<1>6. CASE Proceeds(d)
  <2>1. channel[d] # None
    BY <1>n, <1>6 DEF Proceeds, None
  <2> QED
    BY <1>0, <1>n, <1>6, <2>1 DEF Proceeds
<1> QED
  BY <1>1, <1>2, <1>3, <1>4, <1>5, <1>6, ConverseEffect

LEMMA FollowStep == ASSUME TypeInv, OwnInv, FollowInv, [Next]_vars PROVE FollowInv'
<1> SUFFICES ASSUME NEW x \in Directions PROVE Follows(x)'
  BY DEF FollowInv
<1>0. ChannelTypes /\ TalkTypes /\ Follows(x)
  BY DEF TypeInv, FollowInv
<1>1. CASE Beside
  <2>1. Still(x)
    BY <1>1, StillBeside DEF Still, talkVars
  <2> QED
    BY <1>0, <2>1, FollowStill
<1>2. CASE PublishTo \/ PublishFrom
  <2>1. ASSUME NEW d \in Directions, ReplaceChannel(d), last \in WatchersOwn(d),
               UNCHANGED talkVars
        PROVE  Follows(x)'
    <3>1. CASE x = d
      BY <1>0, <2>1, <3>1, FollowReplace
    <3>2. CASE x # d
      <4>1. Still(x)
        BY <1>0, <2>1, <3>2 DEF ReplaceChannel, Still, talkVars, ChannelTypes
      <4> QED
        BY <1>0, <4>1, FollowStill
    <3> QED
      BY <3>1, <3>2
  <2> QED
    BY <1>2, <2>1 DEF PublishTo, PublishFrom, WatchersOwn, Directions
<1>3. ASSUME NEW d \in Directions, Converse(d) PROVE Follows(x)'
  BY <1>0, <1>3, FollowConverse, StillElsewhere, FollowStill
<1>4. CASE BeginListening \/ \E kind \in Requests : BeginTalk(kind)
  <2>1. /\ channel' = channel /\ chanWasChanged' = chanWasChanged /\ held' = held
        /\ Still(x) \/ (at[x] = "idle" /\ at'[x] = "ready" /\ step'[x] = 1)
    BY <1>0, <1>4 DEF BeginListening, BeginTalk, TalkTypes, channelVars, Still
  <2>2. CASE Still(x)
    BY <1>0, <2>2, FollowStill
  <2>3. CASE at[x] = "idle" /\ at'[x] = "ready" /\ step'[x] = 1
    BY <1>0, <2>1, <2>3 DEF Follows, Route, InHand, InUse
  <2> QED
    BY <2>1, <2>2, <2>3
<1> QED
  BY <1>1, <1>2, <1>3, <1>4 DEF Next, Sane, Step, Watch, Beside, Launch

LEMMA FollowInvariance == Spec => []FollowInv
<1>1. Init => FollowInv
  BY DEF Init, FollowInv, Follows, Route, InHand, InUse, None
<1>2. TypeInv /\ OwnInv /\ FollowInv /\ [Next]_vars => FollowInv'
  BY FollowStep
<1> QED
  BY <1>1, <1>2, TypeInvariance, OwnInvariance, PTL DEF Spec

\* The pipe that is there can be used until it is closed; so can the watcher's.
Sound(d) ==
  /\ \A g \in Servers : g > last => frees[d][g] = 0
  /\ \A g \in Servers : g \in WatchersOwn(d) => frees[d][g] = 0
  /\ channel[d] # None /\ phase # "done" => frees[d][channel[d]] = 0
  /\ chanMut[d] # "free" => isClosed[d]
  /\ shut[d] # {} => isClosed[d]
SoundInv == ~astray => \A d \in Directions : Sound(d)

LEMMA DeletedElsewhere ==
  ASSUME NEW f \in [Servers -> 0 .. 2], NEW g, NEW h \in Servers, h # g
  PROVE  Deleted(f, g)[h] = f[h]
BY DEF Deleted

LEMMA SoundKept ==
  ASSUME NEW d \in Directions, Sound(d), Same(d), shut'[d] = shut[d], last' = last,
         WatchersOwn(d)' = WatchersOwn(d), phase' = "done" <=> phase = "done"
  PROVE  Sound(d)'
BY DEF Sound, Same

LEMMA SoundReplace ==
  ASSUME TypeInv, OwnInv, NEW d \in Directions, Sound(d), ReplaceChannel(d),
         last \in WatchersOwn(d), WatchersOwn(d)' = {},
         UNCHANGED <<last, phase, isClosed, chanMut, shut>>
  PROVE  Sound(d)'
<1>0. ChannelTypes /\ Chain(d)
  BY DEF TypeInv, OwnInv, Accounts
<1>n. /\ last \in Nat /\ channel[d] \in Nat /\ last \in Servers /\ Servers \subseteq Nat
      /\ frees[d] \in [Servers -> 0 .. 2] /\ channel[d] < last
  BY <1>0, PipeNumbers DEF WatchersOwn, Chain
<1>1. /\ channel'[d] = last
      /\ frees'[d] = frees[d] \/ frees'[d] = Deleted(frees[d], channel[d])
  BY <1>0 DEF ReplaceChannel, ChannelTypes
<1>2. \A g \in Servers : g >= last => frees'[d][g] = frees[d][g]
  <2> SUFFICES ASSUME NEW g \in Servers, g >= last PROVE frees'[d][g] = frees[d][g]
    OBVIOUS
  <2>1. g # channel[d]
    BY <1>n
  <2> QED
    BY <1>1, <1>n, <2>1, DeletedElsewhere
<1>3. \A g \in Servers : g > last' => frees'[d][g] = 0
  <2> SUFFICES ASSUME NEW g \in Servers, g > last PROVE frees'[d][g] = 0
    OBVIOUS
  <2>1. frees[d][g] = 0
    BY DEF Sound
  <2>2. g >= last
    BY <1>n
  <2> QED
    BY <1>2, <2>1, <2>2
<1>4. frees'[d][channel'[d]] = 0
  BY <1>1, <1>2, <1>n DEF Sound
<1>5. /\ chanMut'[d] # "free" => isClosed'[d]
      /\ shut'[d] # {} => isClosed'[d]
  BY DEF Sound
<1> QED
  BY <1>3, <1>4, <1>5 DEF Sound

LEMMA SoundConverse ==
  ASSUME TypeInv, EndInv, OwnInv, NEW d \in Directions, Sound(d), Converse(d)
  PROVE  Sound(d)'
<1>0. ChannelTypes /\ Chain(d)
  BY DEF TypeInv, OwnInv, Accounts
<1>1. /\ UNCHANGED <<watcher, last, channel, isClosed, phase, shut>>
      /\ WatchersOwn(d)' = WatchersOwn(d)
  BY ConverseEffect DEF serverVars, WatchersOwn
<1>2. CASE GetChannel(d)
  <2>n. /\ last \in Nat /\ channel[d] \in Nat /\ oldChannel[d] \in Nat /\ Servers \subseteq Nat
        /\ frees[d] \in [Servers -> 0 .. 2]
        /\ channel[d] # None => channel[d] \in Servers
    BY PipeNumbers
  <2>1. frees'[d] = IF oldChannel[d] = None THEN frees[d] ELSE Deleted(frees[d], oldChannel[d])
    BY <1>0, <1>2 DEF GetChannel, ChannelTypes
  <2>2. chanMut' = chanMut
    BY <1>2 DEF GetChannel
  <2>3. oldChannel[d] # None =>
          /\ oldChannel[d] < channel[d] /\ oldChannel[d] <= last
          /\ oldChannel[d] \notin WatchersOwn(d)
    BY <1>0, <2>n DEF Chain, WatchersOwn
  <2>4. \A g \in Servers : g > last \/ g \in WatchersOwn(d) \/ g = channel[d] =>
          frees'[d][g] = frees[d][g]
    <3> SUFFICES ASSUME NEW g \in Servers, g > last \/ g \in WatchersOwn(d) \/ g = channel[d]
                 PROVE  frees'[d][g] = frees[d][g]
      OBVIOUS
    <3>1. oldChannel[d] # None => g # oldChannel[d]
      BY <2>3, <2>n
    <3> QED
      BY <2>1, <2>n, <3>1, DeletedElsewhere
  <2> QED
    BY <1>1, <2>2, <2>4, <2>n DEF Sound
<1>3. CASE ~GetChannel(d)
  <2>1. UNCHANGED <<frees, chanMut>>
    BY <1>3 DEF Converse, GetChannelFails, Write, Read, GoOn, Block, PipeFails,
       GiveUp, WaitForEvent, WakeUp, TimeIsOver, channelVars, objectVars
  <2> QED
    BY <1>1, <2>1 DEF Sound
<1> QED
  BY <1>2, <1>3

LEMMA SoundWatch ==
  ASSUME TypeInv, OwnInv, NEW d \in Directions, Sound(d), LaunchServer \/ LaunchFails \/ Watch
  PROVE  Sound(d)'
<1>n. /\ last \in Nat /\ Servers \subseteq Nat /\ Chain(d) /\ ChannelTypes /\ channel[d] \in Nat
      /\ watcher \in {"greeting", "publishFrom"} => last \in Servers
      /\ frees[d] \in [Servers -> 0 .. 2]
      /\ channel[d] # None => channel[d] \in Servers
  BY PipeNumbers DEF OwnInv, Accounts, TypeInv
<1>1. CASE LaunchServer
  <2>1. /\ last' = last + 1 /\ WatchersOwn(d)' = {last + 1}
        /\ UNCHANGED <<frees, channel, phase, chanMut, isClosed, shut>>
    BY <1>1 DEF LaunchServer, WatchersOwn, channelVars, objectVars, endVars
  <2>2. \A g \in Servers : g > last' \/ g = last + 1 => frees'[d][g] = 0
    <3> SUFFICES ASSUME NEW g \in Servers, g > last + 1 \/ g = last + 1
                 PROVE  frees[d][g] = 0
      BY <2>1
    <3>1. g > last
      BY <1>n
    <3> QED
      BY <3>1 DEF Sound
  <2> QED
    BY <2>1, <2>2 DEF Sound
<1>2. CASE GreetingFails
  <2>1. /\ last' = last /\ WatchersOwn(d)' = {} /\ frees'[d] = Deleted(frees[d], last)
        /\ UNCHANGED <<channel, phase, chanMut, isClosed, shut>>
    BY <1>2 DEF GreetingFails, CatchDeletes, WatchersOwn, channelVars, objectVars, endVars
  <2>2. channel[d] < last
    BY <1>2, <1>n DEF GreetingFails, Chain, WatchersOwn
  <2>3. \A g \in Servers : g # last => frees'[d][g] = frees[d][g]
    BY <1>n, <2>1, DeletedElsewhere
  <2> QED
    BY <1>n, <2>1, <2>2, <2>3 DEF Sound
<1>3. CASE PublishTo
  <2>1. CASE d = "To"
    BY <1>3, <2>1, SoundReplace DEF PublishTo, WatchersOwn, endVars
  <2>2. CASE d # "To"
    <3>1. /\ Same(d) /\ UNCHANGED <<last, phase, shut>>
      BY <1>3, <1>n, <2>2 DEF PublishTo, ReplaceChannel, Same, ChannelTypes, endVars, talkVars
    <3>2. WatchersOwn(d)' = WatchersOwn(d)
      BY <1>3, <2>2 DEF PublishTo, WatchersOwn, Directions
    <3> QED
      BY <3>1, <3>2, SoundKept
  <2> QED
    BY <2>1, <2>2
<1>4. CASE PublishFrom
  <2>1. CASE d = "From"
    BY <1>4, <2>1, SoundReplace DEF PublishFrom, WatchersOwn, endVars
  <2>2. CASE d # "From"
    <3>1. /\ Same(d) /\ UNCHANGED <<last, phase, shut>>
      BY <1>4, <1>n, <2>2 DEF PublishFrom, ReplaceChannel, Same, ChannelTypes, endVars, talkVars
    <3>2. WatchersOwn(d)' = WatchersOwn(d)
      BY <1>4, <2>2 DEF PublishFrom, WatchersOwn, Directions
    <3> QED
      BY <3>1, <3>2, SoundKept
  <2> QED
    BY <2>1, <2>2
<1>5. CASE WatcherWakes \/ WatcherEnds
  <2>1. Same(d) /\ UNCHANGED <<last, phase, shut>> /\ WatchersOwn(d)' = WatchersOwn(d)
    BY <1>5 DEF WatcherWakes, WatcherEnds, Same, WatchersOwn, channelVars, objectVars, talkVars,
       endVars
  <2> QED
    BY <2>1, SoundKept
<1>6. CASE LaunchFails
  <2>1. /\ last' = last + 1 /\ WatchersOwn(d)' = {} /\ frees'[d] = Deleted(frees[d], last + 1)
        /\ UNCHANGED <<channel, phase, chanMut, isClosed, shut>>
    BY <1>6 DEF LaunchFails, CatchDeletes, WatchersOwn, channelVars, objectVars, endVars
  <2>2. channel[d] <= last
    BY DEF OwnInv, Accounts, Chain
  <2>3. \A g \in Servers : g # last + 1 => frees'[d][g] = frees[d][g]
    <3> TAKE g \in Servers
    <3> HAVE g # last + 1
    <3>1. Deleted(frees[d], last + 1)[g] = frees[d][g]
      BY <1>n, DeletedElsewhere
    <3> QED
      BY <2>1, <3>1
  <2>4. \A g \in Servers : g > last' => frees'[d][g] = 0
    <3> SUFFICES ASSUME NEW g \in Servers, g > last' PROVE frees'[d][g] = 0
      OBVIOUS
    <3>1. g > last /\ g # last + 1
      BY <1>n, <2>1
    <3> QED
      BY <2>3, <3>1 DEF Sound
  <2>5. channel'[d] # None /\ phase' # "done" => frees'[d][channel'[d]] = 0
    <3>1. channel[d] # last + 1
      BY <1>n, <2>2
    <3> QED
      BY <1>n, <2>1, <2>3, <3>1 DEF Sound
  <2> QED
    BY <2>1, <2>4, <2>5 DEF Sound
<1> QED
  BY <1>1, <1>2, <1>3, <1>4, <1>5, <1>6 DEF Watch

LEMMA SoundStep == ASSUME TypeInv, EndInv, OwnInv, SoundInv, [Next]_vars PROVE SoundInv'
<1> SUFFICES ASSUME ~astray', NEW x \in Directions PROVE Sound(x)'
  BY DEF SoundInv
<1>a. ~astray
  BY DEF Next, Sane, vars, objectVars
<1>0. ChannelTypes /\ Sound(x)
  BY <1>a DEF TypeInv, SoundInv
<1>1. CASE LaunchServer \/ LaunchFails \/ Watch
  BY <1>0, <1>1, SoundWatch
<1>2. ASSUME NEW d \in Directions, Converse(d) PROVE Sound(x)'
  <2>1. CASE x = d
    BY <1>0, <1>2, <2>1, SoundConverse
  <2>2. CASE x # d
    <3>1. Same(x) /\ UNCHANGED <<last, phase, shut>> /\ WatchersOwn(x)' = WatchersOwn(x)
      BY <1>2, <2>2, OthersAreSame, ConverseEffect DEF WatchersOwn, serverVars
    <3> QED
      BY <1>0, <3>1, SoundKept
  <2> QED
    BY <2>1, <2>2
<1>3. ASSUME NEW w \in Closers, NEW d \in Directions, Close(w, d) PROVE Sound(x)'
  <2>1. /\ UNCHANGED <<watcher, last, frees, channel>>
        /\ phase' = "done" <=> phase = "done"
    <3>1. CASE BeginClose(w, d)
      BY <3>1 DEF BeginClose, serverVars, objectVars, endVars
    <3>2. CASE EndClose(w, d)
      <4>1. Place(w) = CloseLocation(d)
        BY <3>2 DEF EndClose, EndInv, CloserIsThere
      <4> QED
        BY <3>2, <4>1 DEF EndClose, Advance, Place, CloseLocation, serverVars
    <3> QED
      BY <1>3, <3>1, <3>2 DEF Close
  <2>2. /\ chanMut'[x] # "free" => isClosed'[x]
        /\ shut'[x] # {} => isClosed'[x]
    <3>1. w # "free"
      BY DEF Closers
    <3>2. CASE BeginClose(w, d)
      BY <1>0, <3>2 DEF BeginClose, Sound, ChannelTypes, objectVars
    <3>3. CASE EndClose(w, d)
      BY <1>0, <3>1, <3>3 DEF EndClose, Sound, ChannelTypes
    <3> QED
      BY <1>3, <3>2, <3>3 DEF Close
  <2>3. WatchersOwn(x)' = WatchersOwn(x)
    BY <2>1 DEF WatchersOwn
  <2> QED
    BY <1>0, <2>1, <2>2, <2>3 DEF Sound
<1>4. CASE DeleteChannels
  <2> DEFINE first == IF channel[x] = None THEN frees[x] ELSE Deleted(frees[x], channel[x])
  <2>n. /\ last \in Nat /\ Servers \subseteq Nat /\ Chain(x) /\ channel[x] \in Nat
        /\ oldChannel[x] \in Nat /\ frees[x] \in [Servers -> 0 .. 2]
    BY PipeNumbers DEF OwnInv, Accounts
  <2>1. /\ UNCHANGED <<last, channel, chanMut, isClosed, shut>> /\ WatchersOwn(x)' = {}
        /\ phase' = "done"
        /\ frees'[x] = IF oldChannel[x] = None THEN first ELSE Deleted(first, oldChannel[x])
    BY <1>4 DEF DeleteChannels, PhaseGoto, EndInv, WatcherIsJoined, WatchersOwn, serverVars,
       channelVars
  <2>2. channel[x] <= last /\ (oldChannel[x] # None => oldChannel[x] <= last)
    BY <2>n DEF Chain
  <2>3. first \in [Servers -> 0 .. 2]
    BY <2>n, DeletedIsCounted
  <2>4. \A g \in Servers : g > last => first[g] = frees[x][g]
    BY <2>n, <2>2, DeletedElsewhere
  <2> HIDE DEF first
  <2>5. \A g \in Servers : g > last => frees'[x][g] = first[g]
    BY <2>1, <2>2, <2>3, <2>n, DeletedElsewhere
  <2> QED
    BY <1>0, <2>1, <2>4, <2>5 DEF Sound
<1>5. CASE \/ BeginListening \/ (\E kind \in Requests : BeginTalk(kind))
           \/ (\E g \in Servers : Serve(g) \/ ServerNotifies(g) \/ ServerDies(g))
           \/ DispatcherEnds \/ BeginDestruction \/ JoinThread \/ JoinWatcher \/ JoinDispatcher
           \/ JoinKicker \/ UNCHANGED vars
  <2>1. UNCHANGED <<watcher, last, channelVars, objectVars>>
    BY <1>5 DEF BeginListening, BeginTalk, Serve, ServerReads, ServerExits, ServerNotifies,
       ServerDies, DispatcherEnds, BeginDestruction, JoinThread, JoinWatcher, JoinDispatcher,
       JoinKicker, vars, serverVars
  <2>2. phase' = "done" <=> phase = "done"
    BY <1>5 DEF BeginListening, BeginTalk, Serve, ServerReads, ServerExits, ServerNotifies,
       ServerDies, DispatcherEnds, BeginDestruction, JoinThread, JoinWatcher, JoinDispatcher,
       JoinKicker, PhaseGoto, vars, endVars
  <2>3. WatchersOwn(x)' = WatchersOwn(x)
    BY <2>1 DEF WatchersOwn
  <2> QED
    BY <1>0, <2>1, <2>2, <2>3 DEF Sound, channelVars, objectVars
<1>6. ~SharedMemoryFails
  BY DEF SharedMemoryFails
<1> QED
  BY <1>1, <1>2, <1>3, <1>4, <1>5, <1>6 DEF Next, Sane, Step, Destroy

LEMMA SoundInvariance == Spec => []SoundInv
<1>1. Init => SoundInv
  BY DEF Init, SoundInv, Sound
<1>2. TypeInv /\ EndInv /\ OwnInv /\ SoundInv /\ [Next]_vars => SoundInv'
  BY SoundStep
<1> QED
  BY <1>1, <1>2, TypeInvariance, EndInvariance, OwnInvariance, PTL DEF Spec

-----------------------------------------------------------------------------
(* What the pipes hold *)

PipesStill(g) ==
  /\ inbox'[g] = inbox[g] /\ parsing'[g] = parsing[g] /\ outbox'[g] = outbox[g]
  /\ notices'[g] = notices[g] /\ nextPart'[g] = nextPart[g]

LEMMA PipesChange ==
  ASSUME TypeInv, [Next]_vars, NEW g \in Servers
  PROVE  \/ PipesStill(g)
         \/ Write("To") /\ held["To"] = g
         \/ Read("To") /\ held["To"] = g
         \/ Read("From") /\ held["From"] = g
         \/ ServerReads(g) \/ ServerNotifies(g) \/ ServerDies(g)
<1>0. PipeTypes /\ TalkTypes
  BY DEF TypeInv
<1>1. ASSUME UNCHANGED pipeVars PROVE PipesStill(g)
  BY <1>1 DEF pipeVars, PipesStill
<1>2. CASE Launch \/ Watch \/ BeginListening \/ (\E kind \in Requests : BeginTalk(kind))
           \/ DispatcherEnds \/ BeginDestruction \/ Destroy \/ UNCHANGED vars
           \/ \E w \in Closers, x \in Directions : Close(w, x)
  BY <1>1, <1>2 DEF Launch, LaunchServer, LaunchFails, SharedMemoryFails, Watch, GreetingFails,
     PublishTo, PublishFrom, WatcherWakes,
     WatcherEnds, BeginListening, BeginTalk, DispatcherEnds, BeginDestruction, Destroy,
     JoinThread, JoinWatcher, JoinDispatcher, JoinKicker, DeleteChannels, vars,
     Close, BeginClose, EndClose
<1>3. ASSUME NEW x \in Directions, Write(x)
      PROVE  PipesStill(g) \/ (Write("To") /\ held["To"] = g)
  <2>1. x = "To"
    BY <1>0, <1>3, WriteIsToServer DEF Write
  <2>2. PipesStill(g) \/ held[x] = g
    BY <1>0, <1>3 DEF Write, PipesStill, PipeTypes
  <2> QED
    BY <1>3, <2>1, <2>2
<1>4. ASSUME NEW x \in Directions, Read(x)
      PROVE  \/ PipesStill(g)
             \/ Read("To") /\ held["To"] = g
             \/ Read("From") /\ held["From"] = g
  <2>1. PipesStill(g) \/ held[x] = g
    BY <1>0, <1>4 DEF Read, PipesStill, PipeTypes
  <2> QED
    BY <1>4, <2>1 DEF Directions
<1>5. ASSUME NEW x \in Directions, Converse(x), ~Write(x), ~Read(x) PROVE PipesStill(g)
  <2>1. Takes(x) \/ Restarts(x) \/ Quits(x) \/ Finds(x) \/ Stays(x)
    BY <1>5, ConverseEffect
  <2>2. UNCHANGED pipeVars
    BY <2>1 DEF Takes, Restarts, Quits, Finds, Stays
  <2> QED
    BY <1>1, <2>2
<1>6. ASSUME NEW h \in Servers, Serve(h) \/ ServerNotifies(h) \/ ServerDies(h), h # g
      PROVE  PipesStill(g)
  BY <1>0, <1>6 DEF Serve, ServerReads, ServerExits, ServerNotifies, ServerDies, PipesStill,
     PipeTypes
<1> QED
  BY <1>2, <1>3, <1>4, <1>5, <1>6 DEF Next, Sane, Step, Serve, ServerExits, Launch

\* A pipe in use has been touched, and a pipe that has been stays so.
LEMMA UntouchedWas ==
  ASSUME TypeInv, OwnInv, FollowInv, [Next]_vars, NEW d \in Directions, NEW g \in Servers,
         Untouched(d, g)'
  PROVE  Untouched(d, g)
<1>0. ChannelTypes /\ TalkTypes /\ Follows(d)
  BY DEF TypeInv, FollowInv
<1>n. channel[d] \in Nat /\ held[d] \in Nat /\ Servers \subseteq Nat
  BY PipeNumbers
<1>s. Still(d) => Untouched(d, g)
  BY DEF Still, Untouched, InHand
<1>1. CASE Beside
  <2>1. Still(d)
    BY <1>1, StillBeside DEF Still, talkVars
  <2> QED
    BY <1>s, <2>1
<1>2. CASE PublishTo \/ PublishFrom
  <2>1. ASSUME NEW x \in Directions, ReplaceChannel(x), last \in WatchersOwn(x),
               UNCHANGED talkVars
        PROVE  Untouched(d, g)
    <3>1. CASE x = d
      <4>1. channel'[d] = last /\ channel[d] < last
        BY <1>0, <2>1, <3>1, FollowReplace
      <4>2. last \in Nat
        BY PipeNumbers
      <4> QED
        BY <1>n, <4>1, <4>2 DEF Untouched
    <3>2. CASE x # d
      <4>1. Still(d)
        BY <1>0, <2>1, <3>2 DEF ReplaceChannel, Still, talkVars, ChannelTypes
      <4> QED
        BY <1>s, <4>1
    <3> QED
      BY <3>1, <3>2
  <2> QED
    BY <1>2, <2>1 DEF PublishTo, PublishFrom, WatchersOwn, Directions
<1>3. ASSUME NEW x \in Directions, Converse(x) PROVE Untouched(d, g)
  <2>1. CASE x = d
    <3>0. channel'[d] = channel[d]
      BY <1>3, <2>1, ConverseEffect
    <3> USE DEF Untouched, InHand, InUse
    <3>1. CASE Takes(d)
      BY <3>0, <3>1 DEF Takes
    <3>2. CASE Restarts(d)
      BY <3>0, <3>2 DEF Restarts
    <3>3. CASE Quits(d)
      BY <1>0, <1>n, <3>0, <3>3 DEF Quits, Follows
    <3>4. CASE Finds(d)
      BY <3>0, <3>4 DEF Finds
    <3>5. CASE Stays(d)
      BY <3>0, <3>5 DEF Stays
    <3>6. CASE Proceeds(d)
      BY <1>0, <1>n, <3>0, <3>6 DEF Proceeds, Follows
    <3> QED
      BY <1>3, <2>1, <3>1, <3>2, <3>3, <3>4, <3>5, <3>6, ConverseEffect
  <2>2. CASE x # d
    BY <1>3, <1>s, <2>2, StillElsewhere
  <2> QED
    BY <2>1, <2>2
<1>4. CASE BeginListening \/ \E kind \in Requests : BeginTalk(kind)
  <2>1. /\ channel' = channel /\ chanWasChanged' = chanWasChanged
        /\ held' = held
        /\ at'[d] = at[d] \/ (at[d] = "idle" /\ at'[d] = "ready")
    BY <1>0, <1>4 DEF BeginListening, BeginTalk, TalkTypes, channelVars
  <2> QED
    BY <2>1 DEF Untouched, InHand, InUse
<1> QED
  BY <1>1, <1>2, <1>3, <1>4 DEF Next, Sane, Step, Watch, Beside, Launch

\* The pipes are older than the process that was started last, and those of a
\* process that has ended hold nothing it has not read.
Gone(g) ==
  /\ g \in alive => g <= last
  /\ g > last => notices[g] = <<>>
  /\ g \notin alive => inbox[g] = <<>> /\ parsing[g] = NoPart /\ nextPart[g] = 1
Fresh(g) == inbox[g] = <<>> /\ parsing[g] = NoPart /\ outbox[g] = <<>>
PipeInv == \A g \in Servers : Gone(g) /\ (Untouched("To", g) => Fresh(g))

LEMMA AliveChange ==
  ASSUME TypeInv, [Next]_vars, NEW g \in Servers
  PROVE  /\ last' = last \/ last' = last + 1
         /\ \/ g \in alive' <=> g \in alive
            \/ g \in alive' /\ g = last + 1 /\ last' = last + 1 /\ PipesStill(g)
            \/ g \notin alive' /\ ServerDies(g)
<1>n. last \in Nat /\ Servers \subseteq Nat
  BY BoundsAssumption DEF TypeInv, ControlTypes, Servers
<1>1. CASE Launch
  BY <1>1, <1>n DEF Launch, LaunchServer, LaunchFails, SharedMemoryFails, serverVars, PipesStill,
     pipeVars
<1>2. CASE Watch \/ BeginListening \/ (\E kind \in Requests : BeginTalk(kind))
           \/ DispatcherEnds \/ BeginDestruction \/ Destroy \/ UNCHANGED vars
  BY <1>2 DEF Watch, GreetingFails, PublishTo, PublishFrom, WatcherWakes, WatcherEnds,
     BeginListening, BeginTalk, DispatcherEnds, BeginDestruction, Destroy, JoinThread,
     JoinWatcher, JoinDispatcher, JoinKicker, DeleteChannels, vars, serverVars
<1>3. ASSUME NEW d \in Directions, Converse(d) PROVE alive' = alive /\ last' = last
  BY <1>3, ConverseEffect DEF serverVars
<1>4. ASSUME NEW w \in Closers, NEW d \in Directions, Close(w, d)
      PROVE  alive' = alive /\ last' = last
  BY <1>4 DEF Close, BeginClose, EndClose, serverVars
<1>5. ASSUME NEW h \in Servers, Serve(h) \/ ServerNotifies(h) \/ ServerDies(h)
      PROVE  /\ last' = last
             /\ (g \in alive' <=> g \in alive) \/ (g \notin alive' /\ ServerDies(g))
  BY <1>5 DEF Serve, ServerReads, ServerExits, ServerNotifies, ServerDies, serverVars
<1> QED
  BY <1>1, <1>2, <1>3, <1>4, <1>5 DEF Next, Sane, Step, Launch

LEMMA PipeStep == ASSUME TypeInv, OwnInv, FollowInv, PipeInv, [Next]_vars PROVE PipeInv'
<1> SUFFICES ASSUME NEW g \in Servers
             PROVE  Gone(g)' /\ (Untouched("To", g)' => Fresh(g)')
  BY DEF PipeInv
<1>0. PipeTypes /\ Gone(g) /\ (Untouched("To", g) => Fresh(g)) /\ last \in Nat /\ g \in Nat
  BY BoundsAssumption DEF TypeInv, PipeInv, ControlTypes, Servers
<1>t. "To" \in Directions
  BY DEF Directions
<1>u. Untouched("To", g)' => Untouched("To", g)
  BY <1>t, UntouchedWas
<1>h. held["To"] = g /\ at["To"] \in {"inside", "blocked"} => ~Untouched("To", g)
  <2>1. Follows("To") /\ held["To"] \in Nat /\ channel["To"] \in Nat
    BY <1>t, PipeNumbers DEF FollowInv
  <2> QED
    BY <2>1 DEF Untouched, InHand, InUse, Follows
<1>1. CASE PipesStill(g) /\ ~ServerDies(g)
  <2>1. Gone(g)'
    BY <1>0, <1>1, AliveChange DEF Gone, PipesStill
  <2> QED
    BY <1>0, <1>1, <1>u, <2>1 DEF Fresh, PipesStill
<1>2. CASE Write("To") /\ held["To"] = g
  <2>1. g \in alive /\ UNCHANGED <<alive, last, notices>>
    BY <1>2 DEF Write, GoOn, serverVars
  <2>2. Gone(g)'
    BY <1>0, <2>1 DEF Gone
  <2> QED
    BY <1>2, <1>h, <1>u, <2>2 DEF Write
<1>3. CASE Read("To") /\ held["To"] = g
  <2>1. UNCHANGED <<alive, last, notices, inbox, parsing, nextPart>>
    BY <1>3 DEF Read, GoOn, serverVars
  <2>2. Gone(g)'
    BY <1>0, <2>1 DEF Gone
  <2> QED
    BY <1>3, <1>h, <1>u, <2>2 DEF Read
<1>4. CASE Read("From") /\ held["From"] = g
  <2>1. UNCHANGED <<alive, last, outbox, inbox, parsing, nextPart>>
    BY <1>4 DEF Read, GoOn, serverVars
  <2>2. notices[g] # <<>>
    BY <1>4 DEF Read, Available
  <2>3. Gone(g)'
    BY <1>0, <2>1, <2>2 DEF Gone
  <2> QED
    BY <1>0, <1>u, <2>1, <2>3 DEF Fresh
<1>5. CASE ServerReads(g)
  <2>1. g \in alive /\ UNCHANGED <<alive, last, notices>> /\ inbox[g] # <<>>
    BY <1>5 DEF ServerReads, serverVars
  <2>2. Gone(g)'
    BY <1>0, <2>1 DEF Gone
  <2> QED
    BY <1>0, <1>u, <2>1, <2>2 DEF Fresh
<1>6. CASE ServerNotifies(g)
  <2>1. g \in alive /\ UNCHANGED <<alive, last, inbox, parsing, outbox>>
    BY <1>6 DEF ServerNotifies, serverVars
  <2>2. Gone(g)'
    BY <1>0, <2>1 DEF Gone
  <2> QED
    BY <1>0, <1>u, <2>1, <2>2 DEF Fresh
<1>7. CASE ServerDies(g)
  <2>1. /\ inbox'[g] = <<>> /\ parsing'[g] = NoPart /\ nextPart'[g] = 1
        /\ UNCHANGED <<last, notices, outbox>> /\ g \notin alive'
    BY <1>0, <1>7 DEF ServerDies, PipeTypes
  <2> QED
    BY <1>0, <1>u, <2>1 DEF Gone, Fresh
<1> QED
  BY <1>1, <1>2, <1>3, <1>4, <1>5, <1>6, <1>7, PipesChange

LEMMA PipeInvariance == Spec => []PipeInv
<1>1. Init => PipeInv
  BY DEF Init, PipeInv, Gone, Fresh
<1>2. TypeInv /\ OwnInv /\ FollowInv /\ PipeInv /\ [Next]_vars => PipeInv'
  BY PipeStep
<1> QED
  BY <1>1, <1>2, TypeInvariance, OwnInvariance, FollowInvariance, PTL DEF Spec

-----------------------------------------------------------------------------
(* Requests and answers *)

Half(p) == p.part < Writes[p.kind]
Answering(p) == p.part = Writes[p.kind] /\ IsAnswered(p.kind)
\* What was written over a pipe last.
LastPart(g) == IF inbox[g] = <<>> THEN parsing[g] ELSE inbox[g][Len(inbox[g])]

\* No thread will talk over pipe g any more.
GivenUp(g) ==
  ~(InHand("To") /\ held["To"] = g) /\ (g < channel["To"] \/ isClosed["To"])
\* A conversation is under way and goes on over pipe g.
Under(g) == at["To"] # "idle" /\ Route("To") = g
BeginningSent(g) == LastPart(g) = [id |-> talks, kind |-> talk["To"], part |-> 1]
Asked(g) == Under(g) /\ Operation("To") = "read"

\* Half a request has been sent by the thread that will send the rest ...
HalfIsOurs(g) == Half(LastPart(g)) => Under(g) /\ step["To"] = 2 /\ BeginningSent(g)
\* ... which finds it as it left it ...
HalfIsThere(g) ==
  Under(g) /\ step["To"] = 2 /\ Operation("To") = "write" /\ g \in alive
    /\ ~Untouched("To", g) => BeginningSent(g)
\* ... and a question is answered to the thread that waits for it, once.
AnswerIsOurs(g) == outbox[g] # <<>> => Asked(g) /\ outbox[g] = <<talks>>
QuestionIsOurs(g) ==
  \A i \in 1 .. Len(inbox[g]) : Answering(inbox[g][i]) =>
    i = Len(inbox[g]) /\ inbox[g][i].id = talks /\ outbox[g] = <<>> /\ Asked(g)
Sent(g) ==
  ~GivenUp(g) =>
    HalfIsOurs(g) /\ HalfIsThere(g) /\ AnswerIsOurs(g) /\ QuestionIsOurs(g)
\* What a server reads one after the other.
Whole(g) ==
  /\ inbox[g] # <<>> => MayFollow(parsing[g], inbox[g][1])
  /\ \A i \in 1 .. Len(inbox[g]) - 1 : MayFollow(inbox[g][i], inbox[g][i + 1])
SentInv == \A g \in Servers : Sent(g) /\ Whole(g)

\* The conversations over "To", part by part.
LEMMA ScriptsOfRequests ==
  ASSUME NEW kind \in Requests, NEW i \in 1 .. LastStep(kind)
  PROVE  /\ Script[kind][i] = "read" => i > Writes[kind] /\ i = LastStep(kind) /\ IsAnswered(kind)
         /\ Script[kind][i] = "write" => i <= Writes[kind]
         /\ Script[kind][i] \in {"read", "write"}
         /\ i < Writes[kind] => i = 1 /\ Writes[kind] = 2 /\ i < LastStep(kind)
                                /\ Script[kind][i + 1] = "write"
         /\ i = Writes[kind] /\ IsAnswered(kind) =>
              i < LastStep(kind) /\ Script[kind][i + 1] = "read"
         /\ Writes[kind] \in 1 .. 2
<1>1. Kinds = {"kick", "tell", "ask", "extract", "listen"}
  BY DEF Kinds, Script
<1>2. /\ Script["kick"] = <<"write">>
      /\ Script["tell"] = <<"write", "write">>
      /\ Script["ask"] = <<"write", "write", "read">>
      /\ Script["extract"] = <<"write", "read">>
  BY DEF Script
<1>3. /\ Writes["kick"] = 1 /\ Writes["tell"] = 2 /\ Writes["ask"] = 2 /\ Writes["extract"] = 1
  BY DEF Writes
<1>4. kind \in {"kick", "tell", "ask", "extract"}
  BY <1>1 DEF Requests
<1>5. CASE kind = "kick"
  BY <1>2, <1>3, <1>5 DEF LastStep, IsAnswered
<1>6. CASE kind = "tell"
  BY <1>2, <1>3, <1>6 DEF LastStep, IsAnswered
<1>7. CASE kind = "ask"
  <2>1. LastStep(kind) = 3 /\ Writes[kind] = 2 /\ IsAnswered(kind) /\ i \in 1 .. 3
    BY <1>2, <1>3, <1>7 DEF LastStep, IsAnswered
  <2>2. Script[kind][1] = "write" /\ Script[kind][2] = "write" /\ Script[kind][3] = "read"
    BY <1>2, <1>7
  <2>3. i = 1 \/ i = 2 \/ i = 3
    BY <2>1
  <2> QED
    BY <2>1, <2>2, <2>3
<1>8. CASE kind = "extract"
  <2>1. LastStep(kind) = 2 /\ Writes[kind] = 1 /\ IsAnswered(kind) /\ i \in 1 .. 2
    BY <1>2, <1>3, <1>8 DEF LastStep, IsAnswered
  <2>2. Script[kind][1] = "write" /\ Script[kind][2] = "read"
    BY <1>2, <1>8
  <2>3. i = 1 \/ i = 2
    BY <2>1
  <2> QED
    BY <2>1, <2>2, <2>3
<1> QED
  BY <1>4, <1>5, <1>6, <1>7, <1>8

LEMMA EmptyIsWhole == ~Half(NoPart)
BY DEF Half, NoPart, Writes

\* Nothing has been sent over a pipe nobody has used.
LEMMA FreshIsSent ==
  ASSUME NEW g \in Servers, Fresh(g)',
         step'["To"] = 1 \/ ~Under(g)' \/ Untouched("To", g)'
  PROVE  Sent(g)'
<1>1. HalfIsOurs(g)'
  BY EmptyIsWhole DEF Fresh, HalfIsOurs, LastPart
<1>2. HalfIsThere(g)'
  BY DEF HalfIsThere
<1> QED
  BY <1>1, <1>2 DEF Sent, Fresh, AnswerIsOurs, QuestionIsOurs

\* What holds of the pipe if the conversation is not under way over it.
LEMMA SentUnlessUnder ==
  ASSUME NEW g \in Servers, ~Under(g), HalfIsOurs(g), AnswerIsOurs(g), QuestionIsOurs(g)
  PROVE  /\ ~Half(LastPart(g)) /\ outbox[g] = <<>>
         /\ \A i \in 1 .. Len(inbox[g]) : ~Answering(inbox[g][i])
BY DEF HalfIsOurs, AnswerIsOurs, QuestionIsOurs, Asked

RequestsStill(g) ==
  inbox'[g] = inbox[g] /\ parsing'[g] = parsing[g] /\ outbox'[g] = outbox[g]

LEMMA SentUnused ==
  ASSUME NEW g \in Servers, RequestsStill(g),
         ~Half(LastPart(g)), outbox[g] = <<>>,
         \A i \in 1 .. Len(inbox[g]) : ~Answering(inbox[g][i]),
         step'["To"] = 1 \/ ~Under(g)' \/ Untouched("To", g)'
  PROVE  Sent(g)'
<1>1. LastPart(g)' = LastPart(g)
  BY DEF LastPart, RequestsStill
<1>2. HalfIsOurs(g)'
  BY <1>1 DEF HalfIsOurs, Half
<1>3. HalfIsThere(g)'
  BY DEF HalfIsThere
<1>4. AnswerIsOurs(g)' /\ QuestionIsOurs(g)'
  BY DEF AnswerIsOurs, QuestionIsOurs, RequestsStill, Answering
<1> QED
  BY <1>2, <1>3, <1>4 DEF Sent

\* A step that leaves the requests and the thread's way alone.
LEMMA SentCarried ==
  ASSUME NEW g \in Servers, Sent(g), RequestsStill(g),
         GivenUp(g) => GivenUp(g)', Under(g)' = Under(g),
         step'["To"] = step["To"], talk'["To"] = talk["To"], talks' = talks,
         Untouched("To", g) => Untouched("To", g)',
         g \in alive' => g \in alive \/ Untouched("To", g)
  PROVE  Sent(g)'
<1>1. /\ Asked(g)' = Asked(g) /\ Operation("To")' = Operation("To")
      /\ LastPart(g)' = LastPart(g) /\ BeginningSent(g)' = BeginningSent(g)
  BY DEF Asked, Operation, LastPart, BeginningSent, RequestsStill
<1> SUFFICES ASSUME ~GivenUp(g)
             PROVE  HalfIsOurs(g)' /\ HalfIsThere(g)' /\ AnswerIsOurs(g)' /\ QuestionIsOurs(g)'
  BY DEF Sent
<1>2. HalfIsOurs(g)'
  BY <1>1 DEF Sent, HalfIsOurs, Half
<1>3. HalfIsThere(g)'
  BY <1>1 DEF Sent, HalfIsThere
<1>4. AnswerIsOurs(g)'
  BY <1>1 DEF Sent, AnswerIsOurs, RequestsStill
<1>5. QuestionIsOurs(g)'
  BY <1>1 DEF Sent, QuestionIsOurs, RequestsStill, Answering
<1> QED
  BY <1>2, <1>3, <1>4, <1>5

\* A step beside the conversation that leaves the requests alone.
LEMMA SentStill ==
  ASSUME NEW g \in Servers, Sent(g), RequestsStill(g), Still("To"), talks' = talks,
         isClosed["To"] => isClosed'["To"],
         g \in alive' => g \in alive \/ Untouched("To", g)
  PROVE  Sent(g)'
<1>1. /\ GivenUp(g) => GivenUp(g)'
      /\ Under(g)' = Under(g) /\ Untouched("To", g)' = Untouched("To", g)
  BY DEF GivenUp, Under, Route, InHand, Untouched, Still
<1>2. step'["To"] = step["To"] /\ talk'["To"] = talk["To"]
  BY DEF Still
<1> QED
  BY <1>1, <1>2, SentCarried

\* replaceChannel, and the beginning of a conversation.
LEMMA SentReplace ==
  ASSUME TypeInv, OwnInv, FollowInv, PipeInv, [Next]_vars, NEW g \in Servers, Sent(g),
         ReplaceChannel("To"), last \in WatchersOwn("To"),
         UNCHANGED <<talkVars, pipeVars, isClosed, alive>>
  PROVE  Sent(g)'
<1>t. "To" \in Directions
  BY DEF Directions
<1>n. /\ last \in Nat /\ channel["To"] \in Nat /\ held["To"] \in Nat /\ g \in Nat
  BY <1>t, PipeNumbers
<1>f. Follows("To") /\ Follows("To")'
  BY <1>t, FollowReplace DEF FollowInv
<1>1. /\ channel'["To"] = last /\ channel["To"] < last
      /\ chanWasChanged'["To"] = (chanWasChanged["To"] \/ channel["To"] # None)
  BY <1>t, <1>f, FollowReplace
<1>2. at' = at /\ held' = held /\ step' = step /\ talk' = talk /\ talks' = talks
      /\ inbox' = inbox /\ parsing' = parsing /\ outbox' = outbox
  BY DEF talkVars, pipeVars
<1>3. CASE InHand("To") /\ held["To"] = g
  <2>1. ~GivenUp(g) /\ ~GivenUp(g)' /\ Under(g)' = Under(g)
    BY <1>2, <1>3 DEF GivenUp, Under, Route, InHand, InUse
  <2>2. ~Untouched("To", g)
    BY <1>f, <1>n, <1>3 DEF Untouched, Follows
  <2> QED
    BY <1>2, <2>1, <2>2, SentCarried DEF RequestsStill
<1>4. CASE ~(InHand("To") /\ held["To"] = g) /\ g < last
  BY <1>1, <1>2, <1>4 DEF Sent, GivenUp, InHand
<1>5. CASE ~(InHand("To") /\ held["To"] = g) /\ g >= last
  <2>1. Untouched("To", g) /\ Fresh(g)
    BY <1>1, <1>n, <1>5 DEF Untouched, PipeInv
  <2>2. Fresh(g)'
    BY <1>2, <2>1 DEF Fresh
  <2>3. step'["To"] = 1 \/ Untouched("To", g)'
    <3>0. g > last \/ g = last
      BY <1>n, <1>5
    <3>1. CASE g > last
      BY <1>1, <3>1 DEF Untouched
    <3>2. CASE g = last /\ InHand("To")
      BY <1>1, <1>2, <1>5, <3>2 DEF Untouched, InHand
    <3>3. CASE g = last /\ ~InHand("To") /\ channel["To"] # None
      BY <1>1, <1>2, <3>3 DEF Untouched, InHand
    <3>4. CASE g = last /\ ~InHand("To") /\ channel["To"] = None
      BY <1>2, <1>f, <3>4 DEF Follows, Route
    <3> QED
      BY <3>0, <3>1, <3>2, <3>3, <3>4
  <2> QED
    BY <2>2, <2>3, FreshIsSent
<1> QED
  BY <1>n, <1>3, <1>4, <1>5

LEMMA SentBegin ==
  ASSUME TypeInv, NEW g \in Servers, Sent(g), NEW kind \in Requests, BeginTalk(kind)
  PROVE  Sent(g)'
<1>0. TalkTypes /\ "To" \in Directions
  BY DEF TypeInv, Directions
<1>1. /\ at["To"] = "idle" /\ at'["To"] = "ready" /\ step'["To"] = 1
      /\ channel' = channel /\ isClosed' = isClosed /\ RequestsStill(g)
  BY <1>0 DEF BeginTalk, TalkTypes, channelVars, pipeVars, RequestsStill
<1>2. GivenUp(g)' = GivenUp(g) /\ ~Under(g)
  BY <1>1 DEF GivenUp, InHand, InUse, Under
<1>3. CASE GivenUp(g)
  BY <1>2, <1>3 DEF Sent
<1>4. CASE ~GivenUp(g)
  <2>1. /\ ~Half(LastPart(g)) /\ outbox[g] = <<>>
        /\ \A i \in 1 .. Len(inbox[g]) : ~Answering(inbox[g][i])
    BY <1>2, <1>4, SentUnlessUnder DEF Sent
  <2> QED
    BY <1>1, <2>1, SentUnused
<1> QED
  BY <1>3, <1>4


\* The steps of the conversation itself.
LEMMA SentOnTheWay ==
  ASSUME TypeInv, NEW g \in Servers, Sent(g), Takes("To") \/ Stays("To"),
         UNCHANGED <<channel, isClosed, alive, talks>>
  PROVE  Sent(g)'
<1>1. RequestsStill(g)
  BY DEF Takes, Stays, pipeVars, RequestsStill
<1>2. CASE Takes("To")
  <2>0. channel["To"] \in Nat /\ g \in Nat
    BY PipeNumbers DEF Directions
  <2>1. /\ GivenUp(g) => GivenUp(g)'
        /\ Under(g)' = Under(g) /\ Untouched("To", g)' = Untouched("To", g)
    BY <1>2, <2>0 DEF Takes, GivenUp, Under, Route, InHand, InUse, Untouched
  <2> QED
    BY <1>1, <1>2, <2>1, SentCarried DEF Takes
<1>3. CASE Stays("To")
  <2>1. /\ GivenUp(g) => GivenUp(g)'
        /\ Under(g)' = Under(g) /\ Untouched("To", g)' = Untouched("To", g)
    BY <1>3 DEF Stays, GivenUp, Under, Route, InHand, InUse, Untouched
  <2> QED
    BY <1>1, <1>3, <2>1, SentCarried DEF Stays
<1> QED
  BY <1>2, <1>3

LEMMA SentLeft ==
  ASSUME TypeInv, EndInv, FollowInv, PipeInv, SoundInv, NEW g \in Servers, Sent(g),
         Restarts("To") \/ Quits("To") \/ Finds("To"),
         UNCHANGED <<channel, isClosed>>, ~astray
  PROVE  Sent(g)'
<1>t. "To" \in Directions /\ Follows("To") /\ TalkTypes
  BY DEF Directions, FollowInv, TypeInv
<1>n. channel["To"] \in Nat /\ held["To"] \in Nat /\ g \in Nat /\ g # None
  BY <1>t, PipeNumbers DEF None
<1>1. /\ RequestsStill(g) /\ at'["To"] \in {"idle", "ready"}
      /\ step'["To"] = 1
  BY <1>t DEF Restarts, Quits, Finds, Follows, Route, InHand, InUse, pipeVars, RequestsStill
<1>2. CASE GivenUp(g)'
  BY <1>2 DEF Sent
<1>3. CASE ~GivenUp(g)' /\ Untouched("To", g)
  <2>1. Fresh(g)'
    BY <1>1, <1>3 DEF PipeInv, Fresh, RequestsStill
  <2> QED
    BY <1>1, <2>1, FreshIsSent
<1>4. CASE ~GivenUp(g)' /\ ~Untouched("To", g)
  <2>1. g >= channel["To"] /\ ~isClosed["To"]
    BY <1>1, <1>4, <1>n DEF GivenUp, InHand, InUse
  <2>2. /\ g = channel["To"]
        /\ IF InHand("To") THEN held["To"] = g ELSE ~chanWasChanged["To"]
    BY <1>4, <1>n, <2>1 DEF Untouched
  <2>3. Quits("To") /\ at["To"] \in {"checking", "waiting"} /\ held["To"] = g
    BY <1>n, <2>1, <2>2 DEF Restarts, Quits, Finds, InHand, InUse
  <2>4. Broken("To") /\ ~GivenUp(g)
    BY <1>t, <2>3 DEF Follows, GivenUp, InHand, InUse
  <2>5. Usable("To", g)
    <3>1. phase # "done"
      BY <2>3 DEF EndInv, KickerIsJoined
    <3> QED
      BY <1>n, <1>t, <2>1, <2>2, <3>1 DEF SoundInv, Sound, Usable
  <2>6. g \notin alive /\ (Operation("To") = "read" => outbox[g] = <<>>)
    BY <2>3, <2>4, <2>5 DEF Broken, Available
  <2>7. inbox[g] = <<>> /\ parsing[g] = NoPart
    BY <2>6 DEF PipeInv, Gone
  <2>8. outbox[g] = <<>>
    BY <2>4, <2>6 DEF Sent, AnswerIsOurs, Asked
  <2>9. Fresh(g)'
    BY <1>1, <2>7, <2>8 DEF Fresh, RequestsStill
  <2> QED
    BY <1>1, <2>9, FreshIsSent
<1> QED
  BY <1>2, <1>3, <1>4

LEMMA SentAside ==
  ASSUME TypeInv, FollowInv, NEW g \in Servers, Sent(g), RequestsStill(g), Proceeds("To"),
         held["To"] # g, UNCHANGED <<channel, isClosed>>
  PROVE  Sent(g)'
<1>t. "To" \in Directions /\ Follows("To")
  BY DEF Directions, FollowInv
<1>n. channel["To"] \in Nat /\ held["To"] \in Nat /\ g \in Nat
  BY <1>t, PipeNumbers
<1>1. CASE GivenUp(g)'
  BY <1>1 DEF Sent
<1>2. CASE ~GivenUp(g)'
  <2>1. ~GivenUp(g) /\ ~Under(g)
    BY <1>2 DEF GivenUp, Under, Route, Proceeds, InHand, InUse
  <2>2. /\ ~Half(LastPart(g)) /\ outbox[g] = <<>>
        /\ \A i \in 1 .. Len(inbox[g]) : ~Answering(inbox[g][i])
    BY <2>1, SentUnlessUnder DEF Sent
  <2>3. Under(g)' => Untouched("To", g)'
    <3>1. Under(g)' => g = channel["To"] /\ InHand("To")' = FALSE
      BY DEF Under, Route, Proceeds, InHand, InUse
    <3>2. g = channel["To"] => chanWasChanged["To"]
      BY <1>t DEF Follows, Proceeds, InHand, InUse
    <3> QED
      BY <3>1, <3>2 DEF Untouched, Proceeds
  <2> QED
    BY <2>2, <2>3, SentUnused
<1> QED
  BY <1>1, <1>2

LEMMA SentWrite ==
  ASSUME TypeInv, FollowInv, NEW g \in Servers, Sent(g), Whole(g), Write("To"), Proceeds("To"),
         held["To"] = g, UNCHANGED <<channel, isClosed, talks>>
  PROVE  Sent(g)' /\ Whole(g)'
<1>t. "To" \in Directions /\ Follows("To") /\ TalkTypes /\ PipeTypes
  BY DEF Directions, FollowInv, TypeInv
<1>n. channel["To"] \in Nat /\ held["To"] \in Nat /\ g \in Nat /\ held["To"] <= channel["To"]
  BY <1>t, PipeNumbers DEF Follows
<1>k. /\ talk["To"] \in Requests /\ step["To"] \in 1 .. LastStep(talk["To"])
      /\ Operation("To") = Script[talk["To"]][step["To"]] /\ Operation("To") = "write"
  <2>1. LastStep(talk["To"]) \in 1 .. 3
    BY <1>t, ScriptsAreShort DEF TalkTypes
  <2> QED
    BY <1>t, <2>1 DEF TalkTypes, Operation, Write
<1>w. step["To"] \in 1 .. 2 /\ step["To"] <= Writes[talk["To"]] /\ Writes[talk["To"]] \in 1 .. 2
  BY <1>k, ScriptsOfRequests
<1>0. /\ inbox'[g] = Append(inbox[g], CurrentPart) /\ parsing'[g] = parsing[g]
      /\ outbox'[g] = outbox[g] /\ inbox[g] \in Seq(Parts)
      /\ InHand("To") /\ ~GivenUp(g) /\ Under(g) /\ g \in alive
  BY <1>t DEF Write, PipeTypes, InHand, InUse, GivenUp, Under, Route
<1>1. /\ LastPart(g)' = CurrentPart /\ Len(inbox'[g]) = Len(inbox[g]) + 1
      /\ inbox'[g][Len(inbox[g]) + 1] = CurrentPart
      /\ \A i \in 1 .. Len(inbox[g]) : inbox'[g][i] = inbox[g][i]
      /\ inbox'[g] # <<>>
  <2>1. CurrentPart \in Parts
    BY <1>t, <1>w, BoundsAssumption DEF CurrentPart, Parts, TalkTypes, TypeInv, ControlTypes
  <2> QED
    BY <1>0, <2>1 DEF LastPart
<1>2. outbox[g] = <<>> /\ \A i \in 1 .. Len(inbox[g]) : ~Answering(inbox[g][i])
  BY <1>0, <1>k DEF Sent, AnswerIsOurs, QuestionIsOurs, Asked
<1>3. MayFollow(LastPart(g), CurrentPart)
  <2>1. CASE step["To"] = 1
    <3>1. ~Half(LastPart(g))
      BY <1>0, <2>1 DEF Sent, HalfIsOurs
    <3> QED
      BY <2>1, <3>1 DEF MayFollow, Half, CurrentPart
  <2>2. CASE step["To"] = 2
    <3>1. ~Untouched("To", g)
      BY <1>0, <1>n DEF Untouched
    <3>2. LastPart(g) = [id |-> talks, kind |-> talk["To"], part |-> 1]
      BY <1>0, <1>k, <2>2, <3>1 DEF Sent, HalfIsThere, BeginningSent
    <3>3. [LastPart(g) EXCEPT !.part = @ + 1] = CurrentPart
      BY <2>2, <3>2 DEF CurrentPart
    <3>4. LastPart(g).part < Writes[LastPart(g).kind]
      BY <1>w, <2>2, <3>2
    <3> QED
      BY <3>3, <3>4 DEF MayFollow
  <2> QED
    BY <1>w, <2>1, <2>2
<1>4. Whole(g)'
  <2>1. Len(inbox[g]) \in Nat
    BY <1>0
  <2>2. inbox'[g] # <<>> => MayFollow(parsing'[g], inbox'[g][1])
    <3>1. CASE inbox[g] = <<>>
      BY <1>0, <1>1, <1>3, <3>1 DEF LastPart
    <3>2. CASE inbox[g] # <<>>
      BY <1>0, <1>1, <3>2 DEF Whole
    <3> QED
      BY <3>1, <3>2
  <2>3. ASSUME NEW i \in 1 .. Len(inbox'[g]) - 1 PROVE MayFollow(inbox'[g][i], inbox'[g][i + 1])
    <3>1. CASE i = Len(inbox[g])
      <4>1. inbox[g] # <<>> /\ inbox'[g][i] = LastPart(g)
        BY <1>0, <1>1, <2>1, <3>1 DEF LastPart
      <4> QED
        BY <1>1, <1>3, <3>1, <4>1
    <3>2. CASE i # Len(inbox[g])
      <4>1. i \in 1 .. Len(inbox[g]) - 1 /\ i + 1 \in 1 .. Len(inbox[g])
        BY <1>1, <2>1, <3>2
      <4> QED
        BY <1>1, <2>1, <4>1 DEF Whole
    <3> QED
      BY <3>1, <3>2
  <2> QED
    BY <2>2, <2>3 DEF Whole
<1>5. CASE GivenUp(g)'
  BY <1>4, <1>5 DEF Sent
<1>6. CASE ~GivenUp(g)'
  <2>1. InHand("To")' = FALSE
    BY DEF Proceeds, InHand, InUse
  <2>2. g = channel["To"]
    BY <1>6, <1>n, <2>1 DEF GivenUp
  <2>3. at'["To"] = "ready" => Under(g)'
    BY <2>1, <2>2 DEF Under, Route
  <2>4. ASSUME step["To"] < LastStep(talk["To"])
        PROVE  at'["To"] = "ready" /\ step'["To"] = step["To"] + 1 /\ talk'["To"] = talk["To"]
    BY <2>4, <1>k DEF Proceeds
  <2>5. HalfIsOurs(g)'
    <3> SUFFICES ASSUME Half(CurrentPart)
                 PROVE  Under(g)' /\ step'["To"] = 2 /\ BeginningSent(g)'
      BY <1>1 DEF HalfIsOurs, Half
    <3>1. step["To"] < Writes[talk["To"]]
      BY DEF Half, CurrentPart
    <3>2. step["To"] = 1 /\ step["To"] < LastStep(talk["To"])
      BY <1>k, <3>1, ScriptsOfRequests
    <3> QED
      BY <1>1, <2>3, <2>4, <3>2 DEF BeginningSent, CurrentPart
  <2>6. HalfIsThere(g)'
    <3> SUFFICES ASSUME Under(g)', step'["To"] = 2
                 PROVE  BeginningSent(g)'
      BY DEF HalfIsThere
    <3>1. at'["To"] = "ready" /\ step["To"] = 1 /\ talk'["To"] = talk["To"]
      BY <1>w DEF Proceeds, Under
    <3> QED
      BY <1>1, <3>1 DEF BeginningSent, CurrentPart
  <2>7. AnswerIsOurs(g)'
    BY <1>0, <1>2 DEF AnswerIsOurs
  <2>8. QuestionIsOurs(g)'
    <3> SUFFICES ASSUME NEW i \in 1 .. Len(inbox'[g]), Answering(inbox'[g][i])
                 PROVE  i = Len(inbox'[g]) /\ inbox'[g][i].id = talks' /\ outbox'[g] = <<>>
                        /\ Asked(g)'
      BY DEF QuestionIsOurs, Answering
    <3>1. i = Len(inbox[g]) + 1 /\ i = Len(inbox'[g])
      <4>1. Len(inbox[g]) \in Nat
        BY <1>0
      <4> QED
        BY <1>1, <1>2, <4>1
    <3>2. inbox'[g][i] = CurrentPart
      BY <1>1, <3>1
    <3>3. step["To"] = Writes[talk["To"]] /\ IsAnswered(talk["To"])
      BY <3>2 DEF Answering, CurrentPart
    <3>4. step["To"] < LastStep(talk["To"]) /\ Script[talk["To"]][step["To"] + 1] = "read"
      BY <1>k, <3>3, ScriptsOfRequests
    <3>5. Operation("To")' = "read" /\ Under(g)'
      BY <2>3, <2>4, <3>4 DEF Operation
    <3> QED
      BY <1>0, <1>2, <3>1, <3>2, <3>5 DEF Asked, CurrentPart
  <2> QED
    BY <1>4, <2>5, <2>6, <2>7, <2>8 DEF Sent
<1> QED
  BY <1>5, <1>6

LEMMA SentRead ==
  ASSUME TypeInv, FollowInv, NEW g \in Servers, Sent(g), Read("To"), Proceeds("To"),
         held["To"] = g, UNCHANGED <<channel, isClosed, talks>>
  PROVE  Sent(g)'
<1>t. "To" \in Directions /\ TalkTypes /\ PipeTypes
  BY DEF Directions, TypeInv
<1>k. /\ talk["To"] \in Requests /\ step["To"] \in 1 .. LastStep(talk["To"])
      /\ Operation("To") = Script[talk["To"]][step["To"]] /\ Operation("To") = "read"
  <2>1. LastStep(talk["To"]) \in 1 .. 3
    BY <1>t, ScriptsAreShort DEF TalkTypes
  <2> QED
    BY <1>t, <2>1 DEF TalkTypes, Operation, Read
<1>w. step["To"] > Writes[talk["To"]] /\ step["To"] = LastStep(talk["To"])
  BY <1>k, ScriptsOfRequests
<1>0. /\ inbox' = inbox /\ parsing' = parsing /\ outbox'[g] = Tail(outbox[g]) /\ outbox[g] # <<>>
      /\ InHand("To") /\ ~GivenUp(g) /\ Under(g)
  BY <1>t DEF Read, Available, PipeTypes, InHand, InUse, GivenUp, Under, Route
<1>1. outbox[g] = <<talks>>
  BY <1>0 DEF Sent, AnswerIsOurs
<1>2. outbox'[g] = <<>>
  BY <1>0, <1>1
<1>3. \A i \in 1 .. Len(inbox[g]) : ~Answering(inbox[g][i])
  BY <1>0 DEF Sent, QuestionIsOurs
<1>4. ~Half(LastPart(g))
  <2> SUFFICES ASSUME Half(LastPart(g)) PROVE FALSE
    OBVIOUS
  <2>1. step["To"] = 2 /\ LastPart(g) = [id |-> talks, kind |-> talk["To"], part |-> 1]
    BY <1>0 DEF Sent, HalfIsOurs, BeginningSent
  <2>2. 1 < Writes[talk["To"]] /\ Writes[talk["To"]] \in 1 .. 2
    BY <1>k, <2>1, ScriptsOfRequests DEF Half
  <2> QED
    BY <1>w, <2>1, <2>2
<1>5. at'["To"] = "idle" /\ step'["To"] = 1
  BY <1>w, <1>k DEF Proceeds
<1>6. LastPart(g)' = LastPart(g)
  BY <1>0 DEF LastPart
<1>7. HalfIsOurs(g)' /\ HalfIsThere(g)'
  BY <1>4, <1>5, <1>6 DEF HalfIsOurs, HalfIsThere, Half
<1>8. AnswerIsOurs(g)' /\ QuestionIsOurs(g)'
  BY <1>0, <1>2, <1>3 DEF AnswerIsOurs, QuestionIsOurs, Answering
<1> QED
  BY <1>7, <1>8 DEF Sent

\* The server reads its next part, or ends.
LEMMA SentServerReads ==
  ASSUME TypeInv, NEW g \in Servers, Sent(g), Whole(g), ServerReads(g)
  PROVE  Sent(g)' /\ Whole(g)'
<1> DEFINE p == inbox[g][1]
<1>0. /\ inbox[g] \in Seq(Parts) /\ inbox[g] # <<>> /\ p = Head(inbox[g])
      /\ inbox'[g] = Tail(inbox[g])
      /\ parsing'[g] = IF Half(p) THEN p ELSE NoPart
      /\ outbox'[g] = IF Answering(p) THEN Append(outbox[g], p.id) ELSE outbox[g]
      /\ UNCHANGED <<talkVars, channel, chanWasChanged, isClosed, alive>>
  BY DEF ServerReads, TypeInv, PipeTypes, Half, Answering, channelVars, serverVars
<1>1. /\ Len(inbox[g]) \in Nat \ {0} /\ Len(inbox'[g]) = Len(inbox[g]) - 1
      /\ \A i \in 1 .. Len(inbox'[g]) : inbox'[g][i] = inbox[g][i + 1]
      /\ inbox'[g] = <<>> <=> Len(inbox[g]) = 1
  <2>1. Len(inbox[g]) \in Nat \ {0} /\ Tail(inbox[g]) \in Seq(Parts)
    BY <1>0
  <2>2. Len(inbox'[g]) = Len(inbox[g]) - 1
    BY <1>0, <2>1
  <2>3. \A i \in 1 .. Len(inbox'[g]) : inbox'[g][i] = inbox[g][i + 1]
    BY <1>0, <2>1, <2>2
  <2>4. inbox'[g] = <<>> <=> Len(inbox[g]) = 1
    <3>1. inbox'[g] \in Seq(Parts)
      BY <1>0, <2>1
    <3>2. inbox'[g] = <<>> <=> Len(inbox'[g]) = 0
      BY <3>1
    <3> QED
      BY <2>1, <2>2, <3>2
  <2> QED
    BY <2>1, <2>2, <2>3, <2>4
<1> HIDE DEF p
<1>2. /\ Half(LastPart(g)') => LastPart(g)' = LastPart(g)
      /\ Half(LastPart(g)) => LastPart(g)' = LastPart(g)
  <2>1. CASE Len(inbox[g]) = 1
    BY <1>0, <1>1, <2>1, EmptyIsWhole DEF LastPart, p
  <2>2. CASE Len(inbox[g]) # 1
    <3>1. inbox'[g] # <<>> /\ inbox'[g][Len(inbox'[g])] = inbox[g][Len(inbox[g])]
      BY <1>1, <2>2
    <3> QED
      BY <1>0, <3>1 DEF LastPart
  <2> QED
    BY <2>1, <2>2
<1>3. /\ GivenUp(g)' = GivenUp(g) /\ Under(g)' = Under(g) /\ Asked(g)' = Asked(g)
      /\ Operation("To")' = Operation("To") /\ Untouched("To", g)' = Untouched("To", g)
      /\ step' = step /\ talk' = talk /\ talks' = talks
  BY <1>0 DEF GivenUp, Under, Asked, Operation, Untouched, Route, InHand, talkVars
<1>4. ASSUME Sent(g), ~GivenUp(g)
      PROVE  HalfIsOurs(g)' /\ HalfIsThere(g)' /\ AnswerIsOurs(g)' /\ QuestionIsOurs(g)'
  <2>0. HalfIsOurs(g) /\ HalfIsThere(g) /\ AnswerIsOurs(g) /\ QuestionIsOurs(g)
    BY <1>4 DEF Sent
  <2>1. HalfIsOurs(g)'
    <3> SUFFICES ASSUME Half(LastPart(g)')
                 PROVE  Under(g) /\ step["To"] = 2 /\ BeginningSent(g)'
      BY <1>3 DEF HalfIsOurs, Half
    <3>1. LastPart(g)' = LastPart(g) /\ Half(LastPart(g))
      BY <1>2
    <3> QED
      BY <1>3, <2>0, <3>1 DEF HalfIsOurs, BeginningSent
  <2>2. HalfIsThere(g)'
    <3> SUFFICES ASSUME Under(g), step["To"] = 2, Operation("To") = "write", g \in alive,
                        ~Untouched("To", g)
                 PROVE  BeginningSent(g)'
      BY <1>0, <1>3 DEF HalfIsThere
    <3>1. BeginningSent(g)
      BY <2>0 DEF HalfIsThere
    <3>2. Half(LastPart(g))
      <4>1. talk["To"] \in Requests /\ 2 \in 1 .. LastStep(talk["To"])
        <5>1. LastStep(talk["To"]) \in 1 .. 3 /\ 2 <= LastStep(talk["To"])
          BY ScriptsAreShort DEF TypeInv, TalkTypes, Directions
        <5> QED
          BY <5>1 DEF TypeInv, TalkTypes
      <4>2. 2 <= Writes[talk["To"]] /\ Writes[talk["To"]] \in 1 .. 2
        BY <4>1, ScriptsOfRequests DEF Operation
      <4> QED
        BY <3>1, <4>2 DEF BeginningSent, Half
    <3> QED
      BY <1>2, <1>3, <3>1, <3>2 DEF BeginningSent
  <2>3. AnswerIsOurs(g)' /\ QuestionIsOurs(g)'
    <3>1. CASE Answering(p)
      <4>1. /\ Len(inbox[g]) = 1 /\ p.id = talks /\ outbox[g] = <<>> /\ Asked(g)
        BY <1>1, <2>0, <3>1 DEF QuestionIsOurs, p
      <4>2. inbox'[g] = <<>> /\ outbox'[g] = <<talks>>
        BY <1>0, <1>1, <3>1, <4>1
      <4> QED
        BY <1>3, <4>1, <4>2 DEF AnswerIsOurs, QuestionIsOurs
    <3>2. CASE ~Answering(p)
      <4>1. outbox'[g] = outbox[g]
        BY <1>0, <3>2
      <4>2. AnswerIsOurs(g)'
        BY <1>3, <2>0, <4>1 DEF AnswerIsOurs
      <4>3. ASSUME NEW i \in 1 .. Len(inbox'[g]), Answering(inbox'[g][i])
            PROVE  i = Len(inbox'[g]) /\ inbox'[g][i].id = talks /\ outbox[g] = <<>> /\ Asked(g)
        <5>1. i + 1 \in 1 .. Len(inbox[g]) /\ inbox'[g][i] = inbox[g][i + 1]
          BY <1>1
        <5>2. /\ i + 1 = Len(inbox[g]) /\ inbox[g][i + 1].id = talks /\ outbox[g] = <<>>
              /\ Asked(g)
          BY <2>0, <4>3, <5>1 DEF QuestionIsOurs
        <5> QED
          BY <1>1, <5>1, <5>2
      <4>4. QuestionIsOurs(g)'
        BY <1>3, <4>1, <4>3 DEF QuestionIsOurs, Answering
      <4> QED
        BY <4>2, <4>4
    <3> QED
      BY <3>1, <3>2
  <2> QED
    BY <2>1, <2>2, <2>3
<1>5. Sent(g)'
  BY <1>3, <1>4 DEF Sent
<1>6. Whole(g)'
  <2>1. inbox'[g] # <<>> => MayFollow(parsing'[g], inbox'[g][1])
    <3> SUFFICES ASSUME inbox'[g] # <<>> PROVE MayFollow(parsing'[g], inbox'[g][1])
      OBVIOUS
    <3>1. inbox'[g][1] = inbox[g][2] /\ MayFollow(p, inbox[g][2])
      BY <1>1 DEF Whole, p
    <3>2. CASE Half(p)
      BY <1>0, <3>1, <3>2
    <3>3. CASE ~Half(p)
      <4>1. inbox[g][2].part = 1
        BY <3>1, <3>3 DEF MayFollow, Half
      <4> QED
        BY <1>0, <3>1, <3>3, <4>1, EmptyIsWhole DEF MayFollow, Half
    <3> QED
      BY <3>2, <3>3
  <2>2. ASSUME NEW i \in 1 .. Len(inbox'[g]) - 1
        PROVE  MayFollow(inbox'[g][i], inbox'[g][i + 1])
    <3>1. /\ i + 1 \in 1 .. Len(inbox[g]) - 1
          /\ inbox'[g][i] = inbox[g][i + 1] /\ inbox'[g][i + 1] = inbox[g][i + 1 + 1]
      BY <1>1
    <3> QED
      BY <3>1 DEF Whole
  <2> QED
    BY <2>1, <2>2 DEF Whole
<1> QED
  BY <1>5, <1>6

LEMMA SentDies ==
  ASSUME TypeInv, NEW g \in Servers, Sent(g), ServerDies(g)
  PROVE  Sent(g)' /\ Whole(g)'
<1>1. /\ inbox'[g] = <<>> /\ parsing'[g] = NoPart /\ outbox' = outbox /\ g \notin alive'
      /\ UNCHANGED <<talkVars, channel, chanWasChanged, isClosed>>
  BY DEF ServerDies, TypeInv, PipeTypes, channelVars
<1>2. GivenUp(g)' = GivenUp(g) /\ Asked(g)' = Asked(g) /\ talks' = talks
  BY <1>1 DEF GivenUp, Asked, Under, Operation, Route, InHand, talkVars
<1>3. HalfIsOurs(g)' /\ HalfIsThere(g)'
  BY <1>1, EmptyIsWhole DEF HalfIsOurs, HalfIsThere, LastPart
<1>4. AnswerIsOurs(g) => AnswerIsOurs(g)'
  BY <1>1, <1>2 DEF AnswerIsOurs
<1>5. QuestionIsOurs(g)' /\ Whole(g)'
  BY <1>1 DEF QuestionIsOurs, Whole
<1> QED
  BY <1>2, <1>3, <1>4, <1>5 DEF Sent

LEMMA SentStep ==
  ASSUME TypeInv, EndInv, OwnInv, FollowInv, SoundInv, PipeInv, SentInv, [Next]_vars
  PROVE  SentInv'
<1> SUFFICES ASSUME NEW g \in Servers PROVE Sent(g)' /\ Whole(g)'
  BY DEF SentInv
<1>0. Sent(g) /\ Whole(g) /\ ChannelTypes /\ TalkTypes /\ PipeTypes /\ "To" \in Directions
  BY DEF SentInv, TypeInv, Directions
<1>a. g \in alive' => g \in alive \/ Untouched("To", g)
  <2>1. g \in alive' => g \in alive \/ g = last + 1
    BY AliveChange
  <2>2. channel["To"] <= last /\ channel["To"] \in Nat /\ last \in Nat
    BY <1>0, PipeNumbers DEF OwnInv, Accounts, Chain
  <2>3. g = last + 1 => g > channel["To"]
    BY <2>2
  <2> QED
    BY <2>1, <2>3 DEF Untouched
<1>w. RequestsStill(g) => Whole(g)'
  BY <1>0 DEF Whole, RequestsStill
<1>p. UNCHANGED pipeVars => RequestsStill(g)
  BY DEF pipeVars, RequestsStill
<1>s. RequestsStill(g) /\ Still("To") /\ talks' = talks /\ (isClosed["To"] => isClosed'["To"])
      => Sent(g)' /\ Whole(g)'
  BY <1>0, <1>a, <1>w, SentStill
<1>1. CASE Launch \/ GreetingFails \/ WatcherWakes \/ WatcherEnds \/ DispatcherEnds
           \/ BeginDestruction \/ Destroy \/ UNCHANGED vars
  <2>1. Still("To") /\ talks' = talks
    BY <1>1, StillBeside DEF Beside, Still, talkVars
  <2>2. isClosed' = isClosed /\ RequestsStill(g)
    BY <1>1, <1>p DEF Launch, LaunchServer, LaunchFails, SharedMemoryFails, GreetingFails,
       WatcherWakes, WatcherEnds, DispatcherEnds,
       BeginDestruction, Destroy, JoinThread, JoinWatcher, JoinDispatcher, JoinKicker,
       DeleteChannels, vars, channelVars
  <2> QED
    BY <1>s, <2>1, <2>2
<1>2. ASSUME NEW w \in Closers, NEW d \in Directions, Close(w, d) PROVE Sent(g)' /\ Whole(g)'
  <2>1. Still("To") /\ talks' = talks
    BY <1>2, StillBeside DEF Beside, Still, talkVars
  <2>2. RequestsStill(g) /\ (isClosed["To"] => isClosed'["To"])
    BY <1>0, <1>2, <1>p DEF Close, BeginClose, EndClose, ChannelTypes
  <2> QED
    BY <1>s, <2>1, <2>2
<1>3. CASE PublishTo
  <2>1. /\ ReplaceChannel("To") /\ last \in WatchersOwn("To")
        /\ UNCHANGED <<talkVars, pipeVars, isClosed, alive>>
    BY <1>3 DEF PublishTo, WatchersOwn
  <2> QED
    BY <1>0, <1>p, <1>w, <2>1, SentReplace
<1>4. CASE PublishFrom
  <2>1. /\ Still("To") /\ talks' = talks /\ isClosed' = isClosed /\ RequestsStill(g)
    BY <1>0, <1>4, <1>p DEF PublishFrom, ReplaceChannel, Still, ChannelTypes, talkVars
  <2> QED
    BY <1>s, <2>1
<1>5. ASSUME NEW kind \in Requests, BeginTalk(kind) PROVE Sent(g)' /\ Whole(g)'
  <2>1. Sent(g)'
    BY <1>0, <1>5, SentBegin
  <2> QED
    BY <1>5, <1>p, <1>w, <2>1 DEF BeginTalk
<1>6. CASE BeginListening
  <2>1. Still("To") /\ talks' = talks /\ isClosed' = isClosed /\ RequestsStill(g)
    BY <1>0, <1>6, <1>p DEF BeginListening, Still, TalkTypes, channelVars, Directions
  <2> QED
    BY <1>s, <2>1
<1>7. CASE Converse("From")
  <2>1. Still("To") /\ talks' = talks /\ isClosed' = isClosed
    BY <1>0, <1>7, StillElsewhere, ConverseEffect DEF Directions
  <2>2. RequestsStill(g)
    <3>1. CASE Write("From")
      BY <1>0, <3>1, WriteIsToServer DEF Write, Directions
    <3>2. CASE Read("From")
      BY <3>2 DEF Read, RequestsStill
    <3>3. CASE ~Write("From") /\ ~Read("From")
      <4>1. Takes("From") \/ Restarts("From") \/ Quits("From") \/ Finds("From") \/ Stays("From")
        BY <1>7, <3>3, ConverseEffect DEF Directions
      <4> QED
        BY <1>p, <4>1 DEF Takes, Restarts, Quits, Finds, Stays
    <3> QED
      BY <3>1, <3>2, <3>3
  <2> QED
    BY <1>s, <2>1, <2>2
<1>8. CASE Converse("To") /\ ~astray
  <2>0. UNCHANGED <<channel, isClosed, talks, alive>>
    BY <1>0, <1>8, ConverseEffect DEF serverVars
  <2>1. CASE Takes("To") \/ Stays("To")
    <3>1. RequestsStill(g)
      BY <1>p, <2>1 DEF Takes, Stays
    <3> QED
      BY <1>0, <1>w, <2>0, <2>1, <3>1, SentOnTheWay
  <2>2. CASE Restarts("To") \/ Quits("To") \/ Finds("To")
    <3>1. RequestsStill(g)
      BY <1>p, <2>2 DEF Restarts, Quits, Finds
    <3> QED
      BY <1>0, <1>8, <1>w, <2>0, <2>2, <3>1, SentLeft
  <2>3. CASE (Write("To") \/ Read("To")) /\ Proceeds("To") /\ held["To"] # g
    <3>1. RequestsStill(g)
      BY <1>0, <2>3 DEF Write, Read, RequestsStill, PipeTypes
    <3> QED
      BY <1>0, <1>w, <2>0, <2>3, <3>1, SentAside
  <2>4. CASE Write("To") /\ Proceeds("To") /\ held["To"] = g
    BY <1>0, <2>0, <2>4, SentWrite
  <2>5. CASE Read("To") /\ Proceeds("To") /\ held["To"] = g
    <3>1. Whole(g)'
      BY <1>0, <2>5 DEF Read, Whole
    <3> QED
      BY <1>0, <2>0, <2>5, <3>1, SentRead
  <2> QED
    BY <1>0, <1>8, <2>1, <2>2, <2>3, <2>4, <2>5, ConverseEffect
<1>9. ASSUME NEW h \in Servers, Serve(h) \/ ServerNotifies(h) \/ ServerDies(h)
      PROVE  Sent(g)' /\ Whole(g)'
  <2>1. Still("To") /\ talks' = talks
    BY <1>9, StillBeside DEF Beside, Still, talkVars
  <2>2. isClosed' = isClosed
    BY <1>9 DEF Serve, ServerReads, ServerExits, ServerNotifies, ServerDies, channelVars
  <2>3. CASE h # g \/ ServerNotifies(h)
    <3>1. RequestsStill(g)
      BY <1>0, <1>9, <2>3 DEF Serve, ServerReads, ServerExits, ServerNotifies, ServerDies,
         RequestsStill, PipeTypes
    <3> QED
      BY <1>s, <2>1, <2>2, <3>1
  <2>4. CASE h = g /\ ServerReads(h)
    BY <1>0, <2>4, SentServerReads
  <2>5. CASE h = g /\ ServerDies(h)
    BY <1>0, <2>5, SentDies
  <2> QED
    BY <1>9, <2>3, <2>4, <2>5 DEF Serve, ServerExits
<1> QED
  BY <1>1, <1>2, <1>3, <1>4, <1>5, <1>6, <1>7, <1>8, <1>9 DEF Next, Sane, Step, Watch, Directions,
     Launch

LEMMA SentInvariance == Spec => []SentInv
<1>1. Init => SentInv
  <2> SUFFICES ASSUME Init, NEW g \in Servers PROVE Sent(g) /\ Whole(g)
    BY DEF SentInv
  <2>1. inbox[g] = <<>> /\ parsing[g] = NoPart /\ outbox[g] = <<>> /\ step["To"] = 1
    BY DEF Init, Directions
  <2>2. HalfIsOurs(g) /\ HalfIsThere(g) /\ AnswerIsOurs(g) /\ QuestionIsOurs(g)
    BY <2>1, EmptyIsWhole DEF HalfIsOurs, HalfIsThere, AnswerIsOurs, QuestionIsOurs, LastPart
  <2> QED
    BY <2>1, <2>2 DEF Sent, Whole
<1>2. TypeInv /\ EndInv /\ OwnInv /\ FollowInv /\ SoundInv /\ PipeInv /\ SentInv /\ [Next]_vars
      => SentInv'
  BY SentStep
<1> QED
  BY <1>1, <1>2, TypeInvariance, EndInvariance, OwnInvariance, FollowInvariance, SoundInvariance,
     PipeInvariance, PTL DEF Spec

-----------------------------------------------------------------------------
(* Notices *)

\* What is read next from pipe g is part s of a notice.
Expect(g, s) ==
  /\ notices[g] # <<>> => notices[g][1] = s
  /\ notices[g] = <<>> /\ g \in alive => nextPart[g] = s
\* A process sends the first part and the second by turns.
Alternate(g) ==
  /\ \A i \in 1 .. Len(notices[g]) - 1 : notices[g][i + 1] = 3 - notices[g][i]
  /\ notices[g] # <<>> /\ g \in alive => nextPart[g] = 3 - notices[g][Len(notices[g])]
\* A pipe nobody has read yet begins with a whole notice; the dispatcher goes on
\* reading where it was.
Told(g) ==
  /\ Untouched("From", g) => Expect(g, 1)
  /\ dispatcher = "listening" /\ Route("From") = g /\ ~Untouched("From", g)
       => Expect(g, step["From"])
TellInv == \A g \in Servers : Alternate(g) /\ Told(g)

NoticesStill(g) ==
  /\ notices'[g] = notices[g] /\ nextPart'[g] = nextPart[g]
  /\ g \in alive' => g \in alive

LEMMA ExpectKept ==
  ASSUME NEW g \in Servers, NEW s, NoticesStill(g), Expect(g, s)
  PROVE  Expect(g, s)'
BY DEF Expect, NoticesStill

LEMMA AlternateKept ==
  ASSUME NEW g \in Servers, NoticesStill(g), Alternate(g)
  PROVE  Alternate(g)'
BY DEF Alternate, NoticesStill

LEMMA ToldKept ==
  ASSUME NEW g \in Servers, NoticesStill(g), Alternate(g), Told(g), Still("From"),
         dispatcher' = "listening" => dispatcher = "listening"
  PROVE  Alternate(g)' /\ Told(g)'
<1>1. /\ Untouched("From", g)' = Untouched("From", g)
      /\ Route("From")' = Route("From") /\ step'["From"] = step["From"]
  BY DEF Still, Untouched, Route, InHand
<1>2. Expect(g, 1) => Expect(g, 1)'
  BY ExpectKept
<1>3. Expect(g, step["From"]) => Expect(g, step["From"])'
  <2> SUFFICES ASSUME Expect(g, step["From"]) PROVE Expect(g, step["From"])'
    OBVIOUS
  <2> QED
    BY <1>1 DEF Expect, NoticesStill
<1> QED
  BY <1>1, <1>2, <1>3, AlternateKept DEF Told

\* The process adds what it has promised.
LEMMA ToldNotifies ==
  ASSUME TypeInv, NEW g \in Servers, Alternate(g), Told(g), ServerNotifies(g)
  PROVE  Alternate(g)' /\ Told(g)'
<1>0. /\ notices[g] \in Seq(1 .. 2) /\ nextPart[g] \in 1 .. 2 /\ g \in alive
      /\ notices'[g] = Append(notices[g], nextPart[g]) /\ nextPart'[g] = 3 - nextPart[g]
      /\ UNCHANGED <<talkVars, channel, chanWasChanged, dispatcher, alive>>
  BY DEF ServerNotifies, TypeInv, PipeTypes, channelVars, serverVars, endVars
<1>1. /\ Len(notices[g]) \in Nat /\ Len(notices'[g]) = Len(notices[g]) + 1
      /\ notices'[g] # <<>> /\ notices'[g][Len(notices[g]) + 1] = nextPart[g]
      /\ \A i \in 1 .. Len(notices[g]) : notices'[g][i] = notices[g][i]
  <2>1. Len(notices[g]) \in Nat /\ Len(notices'[g]) = Len(notices[g]) + 1
    BY <1>0
  <2>2. notices'[g][Len(notices[g]) + 1] = nextPart[g]
    BY <1>0
  <2>3. \A i \in 1 .. Len(notices[g]) : notices'[g][i] = notices[g][i]
    BY <1>0
  <2>4. notices'[g] # <<>>
    BY <2>1
  <2> QED
    BY <2>1, <2>2, <2>3, <2>4
<1>e. notices[g] = <<>> <=> Len(notices[g]) = 0
  <2>1. notices[g] \in Seq(1 .. 2)
    BY <1>0
  <2> QED
    BY <2>1
<1>2. ASSUME NEW s, Expect(g, s) PROVE notices'[g][1] = s
  BY <1>0, <1>1, <1>2, <1>e DEF Expect
<1>3. Alternate(g)'
  <2>1. nextPart'[g] = 3 - notices'[g][Len(notices'[g])]
    BY <1>0, <1>1
  <2>2. ASSUME NEW i \in 1 .. Len(notices'[g]) - 1
        PROVE  notices'[g][i + 1] = 3 - notices'[g][i]
    <3>1. CASE i = Len(notices[g])
      BY <1>0, <1>1, <3>1 DEF Alternate
    <3>2. CASE i # Len(notices[g])
      <4>1. i \in 1 .. Len(notices[g]) - 1 /\ i \in 1 .. Len(notices[g])
            /\ i + 1 \in 1 .. Len(notices[g])
        BY <1>1, <3>2
      <4> QED
        BY <1>1, <4>1 DEF Alternate
    <3> QED
      BY <3>1, <3>2
  <2> QED
    BY <2>1, <2>2 DEF Alternate
<1>4. /\ Untouched("From", g)' = Untouched("From", g)
      /\ Route("From")' = Route("From") /\ step' = step /\ dispatcher' = dispatcher
  BY <1>0 DEF talkVars, Untouched, Route, InHand
<1>5. Told(g)'
  BY <1>1, <1>2, <1>4 DEF Told, Expect
<1> QED
  BY <1>3, <1>5

\* The dispatcher reads a part and goes on.
LEMMA ToldRead ==
  ASSUME TypeInv, OwnInv, FollowInv, [Next]_vars, NEW g \in Servers, Alternate(g), Told(g),
         Read("From"), Proceeds("From"), held["From"] = g, dispatcher = "listening"
  PROVE  Alternate(g)' /\ Told(g)'
<1>t. "From" \in Directions /\ TalkTypes
  BY DEF Directions, TypeInv
<1>0. /\ notices[g] \in Seq(1 .. 2) /\ notices[g] # <<>> /\ notices'[g] = Tail(notices[g])
      /\ nextPart' = nextPart /\ alive' = alive /\ dispatcher' = dispatcher
  BY DEF Read, Available, GoOn, TypeInv, PipeTypes, serverVars, endVars
<1>1. /\ Len(notices[g]) \in Nat \ {0} /\ Len(notices'[g]) = Len(notices[g]) - 1
      /\ \A i \in 1 .. Len(notices'[g]) : notices'[g][i] = notices[g][i + 1]
      /\ notices'[g] \in Seq(1 .. 2)
  BY <1>0
<1>e. notices'[g] = <<>> <=> Len(notices'[g]) = 0
  <2>1. notices'[g] \in Seq(1 .. 2)
    BY <1>1
  <2> QED
    BY <2>1
<1>2. ~Untouched("From", g)
  <2>1. Follows("From") /\ held["From"] \in Nat /\ channel["From"] \in Nat
    BY <1>t, PipeNumbers DEF FollowInv
  <2> QED
    BY <2>1 DEF Untouched, InHand, InUse, Follows, Proceeds
<1>3. Expect(g, step["From"])
  BY <1>2 DEF Told, Route, InHand, InUse, Proceeds
<1>4. step["From"] \in 1 .. 2 /\ step'["From"] = 3 - step["From"]
  <2>1. talk["From"] = "listen" /\ step["From"] \in 1 .. 3 /\ LastStep("listen") = 2
    BY <1>t DEF TalkTypes, LastStep, Script
  <2>2. step["From"] <= 2
    BY <1>t, <2>1 DEF TalkTypes
  <2> QED
    BY <2>1, <2>2 DEF Proceeds
<1>5. Alternate(g)'
  <2>1. ASSUME NEW i \in 1 .. Len(notices'[g]) - 1
        PROVE  notices'[g][i + 1] = 3 - notices'[g][i]
    <3>1. i \in 1 .. Len(notices'[g]) /\ i + 1 \in 1 .. Len(notices'[g])
          /\ i + 1 \in 1 .. Len(notices[g]) - 1
      BY <1>1
    <3>2. notices'[g][i] = notices[g][i + 1] /\ notices'[g][i + 1] = notices[g][i + 1 + 1]
      BY <1>1, <3>1
    <3> QED
      BY <3>1, <3>2 DEF Alternate
  <2>2. notices'[g] # <<>> => notices'[g][Len(notices'[g])] = notices[g][Len(notices[g])]
    BY <1>1, <1>e
  <2> QED
    BY <1>0, <2>1, <2>2 DEF Alternate
<1>6. Expect(g, step["From"])'
  <2>1. notices[g][1] = step["From"]
    BY <1>0, <1>3 DEF Expect
  <2>2. CASE Len(notices[g]) = 1
    BY <1>0, <1>1, <1>4, <1>e, <2>1, <2>2 DEF Alternate, Expect
  <2>3. CASE Len(notices[g]) # 1
    <3>1. 1 \in 1 .. Len(notices[g]) - 1 /\ notices'[g] # <<>> /\ notices'[g][1] = notices[g][1 + 1]
      BY <1>1, <1>e, <2>3
    <3>2. notices'[g][1] = 3 - notices[g][1]
      BY <3>1 DEF Alternate
    <3> QED
      BY <1>4, <2>1, <3>1, <3>2 DEF Expect
  <2> QED
    BY <2>2, <2>3
<1>7. ~Untouched("From", g)'
  BY <1>2, <1>t, UntouchedWas
<1> QED
  BY <1>5, <1>6, <1>7 DEF Told

\* The other steps of the dispatcher.
LEMMA ToldListening ==
  ASSUME TypeInv, OwnInv, FollowInv, [Next]_vars, NEW g \in Servers, Alternate(g), Told(g),
         NoticesStill(g), dispatcher = "listening", channel'["From"] = channel["From"],
         \/ Takes("From") \/ Restarts("From") \/ Quits("From") \/ Finds("From") \/ Stays("From")
         \/ Proceeds("From") /\ held["From"] # g
  PROVE  Alternate(g)' /\ Told(g)'
<1>t. "From" \in Directions /\ Follows("From") /\ held["From"] \in Nat /\ channel["From"] \in Nat
      /\ g \in Nat \ {0}
  BY PipeNumbers DEF Directions, FollowInv
<1>1. Untouched("From", g)' => Untouched("From", g)
  BY <1>t, UntouchedWas
<1>2. SUFFICES ASSUME dispatcher' = "listening", Route("From")' = g, ~Untouched("From", g)'
               PROVE  Expect(g, step["From"])'
  BY <1>1, ExpectKept, AlternateKept DEF Told
<1>3. ASSUME Untouched("From", g), step'["From"] = 1 PROVE Expect(g, step["From"])'
  BY <1>3, ExpectKept DEF Told, Expect, NoticesStill
<1>4. ASSUME ~Untouched("From", g), Route("From") = g, step'["From"] = step["From"]
      PROVE  Expect(g, step["From"])'
  BY <1>4 DEF Told, Expect, NoticesStill
<1> USE DEF Route, Untouched, InHand, InUse
<1>5. CASE Takes("From")
  BY <1>2, <1>4, <1>5 DEF Takes
<1>6. CASE Restarts("From")
  BY <1>2, <1>3, <1>6 DEF Restarts
<1>7. CASE Quits("From")
  BY <1>2, <1>7 DEF Quits
<1>8. CASE Finds("From")
  BY <1>2, <1>3, <1>8, <1>t DEF Finds, Follows
<1>9. CASE Stays("From")
  BY <1>2, <1>4, <1>9 DEF Stays
<1>10. CASE Proceeds("From") /\ held["From"] # g
  BY <1>2, <1>10, <1>t DEF Proceeds, Follows
<1> QED
  BY <1>5, <1>6, <1>7, <1>8, <1>9, <1>10

LEMMA ToldReplace ==
  ASSUME TypeInv, OwnInv, FollowInv, [Next]_vars, NEW g \in Servers, Alternate(g), Told(g),
         PublishFrom
  PROVE  Alternate(g)' /\ Told(g)'
<1>0. /\ ReplaceChannel("From") /\ last \in WatchersOwn("From")
      /\ UNCHANGED <<talkVars, pipeVars, alive, dispatcher>>
  BY DEF PublishFrom, WatchersOwn, endVars
<1>t. "From" \in Directions /\ Follows("From") /\ held["From"] \in Nat /\ channel["From"] \in Nat
      /\ g \in Nat /\ last \in Nat
  BY PipeNumbers DEF Directions, FollowInv
<1>1. /\ channel'["From"] = last /\ channel["From"] < last
      /\ chanWasChanged'["From"] = (chanWasChanged["From"] \/ channel["From"] # None)
  BY <1>0, <1>t, FollowReplace
<1>2. NoticesStill(g) /\ step' = step /\ at' = at /\ held' = held
  BY <1>0 DEF NoticesStill, pipeVars, talkVars
<1>3. Untouched("From", g)' => Untouched("From", g)
  BY <1>t, UntouchedWas
<1>4. ASSUME dispatcher = "listening", Route("From")' = g, ~Untouched("From", g)'
      PROVE  Expect(g, step["From"])'
  <2>1. CASE InHand("From")
    <3>1. Route("From") = g /\ ~Untouched("From", g)
      BY <1>2, <1>4, <1>t, <2>1 DEF Route, InHand, Untouched, Follows
    <3> QED
      BY <1>2, <1>4, <3>1 DEF Told, Expect, NoticesStill
  <2>2. CASE ~InHand("From")
    <3>1. g = last /\ ~chanWasChanged'["From"]
      BY <1>1, <1>2, <1>4, <2>2 DEF Route, InHand, Untouched
    <3>2. channel["From"] = None
      BY <1>1, <3>1
    <3>3. step["From"] = 1
      BY <2>2, <3>2, <1>t DEF Follows, Route
    <3>4. Untouched("From", g)
      BY <1>1, <1>t, <3>1 DEF Untouched
    <3> QED
      BY <1>2, <3>3, <3>4 DEF Told, Expect, NoticesStill
  <2> QED
    BY <2>1, <2>2
<1> QED
  BY <1>0, <1>2, <1>3, <1>4, ExpectKept, AlternateKept DEF Told

LEMMA TellStep ==
  ASSUME TypeInv, EndInv, OwnInv, FollowInv, PipeInv, TellInv, [Next]_vars
  PROVE  TellInv'
<1> SUFFICES ASSUME NEW g \in Servers PROVE Alternate(g)' /\ Told(g)'
  BY DEF TellInv
<1>0. /\ Alternate(g) /\ Told(g) /\ Gone(g) /\ ChannelTypes /\ TalkTypes /\ PipeTypes
      /\ "From" \in Directions /\ Follows("From") /\ g \in Nat
  BY PipeNumbers DEF TellInv, PipeInv, TypeInv, Directions, FollowInv
<1>k. ASSUME UNCHANGED <<notices, nextPart>>, alive' \subseteq alive, Still("From"),
             dispatcher' = "listening" => dispatcher = "listening"
      PROVE  Alternate(g)' /\ Told(g)'
  BY <1>0, <1>k, ToldKept DEF NoticesStill
<1>1. CASE LaunchServer
  <2>1. Still("From") /\ UNCHANGED <<notices, nextPart, dispatcher>> /\ alive' = alive \union {last + 1}
    BY <1>1, StillBeside DEF Beside, Still, Launch, LaunchServer, talkVars, pipeVars, endVars
  <2>2. CASE g # last + 1
    BY <1>0, <2>1, <2>2, ToldKept DEF NoticesStill
  <2>3. CASE g = last + 1
    <3>1. channel["From"] \in Nat /\ last \in Nat /\ channel["From"] <= last
      BY <1>0, PipeNumbers DEF OwnInv, Accounts, Chain
    <3>2. g > channel["From"] /\ g > last
      BY <2>3, <3>1
    <3>3. channel'["From"] = channel["From"]
      BY <2>1 DEF Still
    <3>4. Untouched("From", g)'
      BY <3>2, <3>3 DEF Untouched
    <3>5. notices'[g] = <<>> /\ nextPart'[g] = 1
      BY <1>0, <2>1, <3>1, <3>2 DEF Gone
    <3> QED
      BY <3>4, <3>5 DEF Told, Expect, Alternate
  <2> QED
    BY <2>2, <2>3
<1>2. CASE LaunchFails \/ SharedMemoryFails \/ GreetingFails \/ WatcherWakes \/ WatcherEnds \/ DispatcherEnds
           \/ BeginDestruction \/ Destroy \/ UNCHANGED vars
  <2>1. Still("From")
    BY <1>2, StillBeside DEF Beside, Launch, Still, talkVars
  <2>2. /\ UNCHANGED <<notices, nextPart, alive>>
        /\ dispatcher' = "listening" => dispatcher = "listening"
    BY <1>2 DEF LaunchFails, SharedMemoryFails, serverVars, GreetingFails, WatcherWakes,
       WatcherEnds, DispatcherEnds,
       BeginDestruction, Destroy, JoinThread, JoinWatcher, JoinDispatcher, JoinKicker,
       DeleteChannels, vars, pipeVars, serverVars, endVars
  <2> QED
    BY <1>k, <2>1, <2>2
<1>3. ASSUME NEW w \in Closers, NEW d \in Directions, Close(w, d)
      PROVE  Alternate(g)' /\ Told(g)'
  <2>1. Still("From")
    BY <1>3, StillBeside DEF Beside, Still, talkVars
  <2>2. /\ UNCHANGED <<notices, nextPart, alive>>
        /\ dispatcher' = "listening" => dispatcher = "listening"
    BY <1>3 DEF Close, BeginClose, EndClose, Advance, pipeVars, serverVars, endVars
  <2> QED
    BY <1>k, <2>1, <2>2
<1>4. CASE PublishTo \/ (\E kind \in Requests : BeginTalk(kind))
  <2>1. Still("From") /\ UNCHANGED <<notices, nextPart, alive, dispatcher>>
    BY <1>0, <1>4 DEF PublishTo, ReplaceChannel, BeginTalk, Still, ChannelTypes, TalkTypes,
       talkVars,
       channelVars, pipeVars, serverVars, endVars, Directions
  <2> QED
    BY <1>k, <2>1
<1>5. CASE PublishFrom
  BY <1>0, <1>5, ToldReplace
<1>6. CASE BeginListening
  <2>1. /\ UNCHANGED <<notices, nextPart, alive, dispatcher, channel, chanWasChanged, held>>
        /\ step'["From"] = step["From"] /\ at["From"] = "idle" /\ at'["From"] = "ready"
    BY <1>0, <1>6 DEF BeginListening, TalkTypes, channelVars, pipeVars, serverVars, endVars, Follows
  <2>2. /\ Untouched("From", g)' = Untouched("From", g) /\ Route("From")' = Route("From")
    BY <2>1 DEF Untouched, Route, InHand, InUse
  <2> QED
    BY <1>0, <2>1, <2>2 DEF Told, Alternate, Expect
<1>7. CASE Converse("To")
  <2>1. Still("From")
    BY <1>0, <1>7, StillElsewhere DEF Directions
  <2>2. UNCHANGED <<alive, notices, nextPart, dispatcher>>
    <3>1. alive' = alive
      BY <1>7, ConverseEffect DEF Directions, serverVars
    <3>2. UNCHANGED <<notices, nextPart, dispatcher>>
      BY <1>7, ConverseEffect DEF Directions, Takes, Restarts, Quits, Finds, Stays, Proceeds, Write,
         Read, pipeVars
    <3> QED
      BY <3>1, <3>2
  <2> QED
    BY <1>k, <2>1, <2>2
<1>8. CASE Converse("From")
  <2>0. /\ channel' = channel /\ alive' = alive
        /\ at["From"] # "idle"
    BY <1>0, <1>8, ConverseEffect DEF serverVars, Takes, Restarts, Quits, Finds, Stays, Proceeds,
       InUse
  <2>1. dispatcher = "listening"
    BY <2>0 DEF EndInv, ListenerIsAtRest
  <2>2. ~Write("From")
    BY <1>0, WriteIsToServer DEF Write
  <2>3. CASE Read("From") /\ Proceeds("From") /\ held["From"] = g
    BY <1>0, <2>1, <2>3, ToldRead
  <2>4. CASE Read("From") /\ Proceeds("From") /\ held["From"] # g
    <3>1. NoticesStill(g)
      BY <1>0, <2>0, <2>4 DEF Read, NoticesStill, PipeTypes
    <3> QED
      BY <1>0, <2>0, <2>1, <2>4, <3>1, ToldListening
  <2>5. CASE Takes("From") \/ Restarts("From") \/ Quits("From") \/ Finds("From") \/ Stays("From")
    <3>1. NoticesStill(g)
      BY <2>0, <2>5 DEF Takes, Restarts, Quits, Finds, Stays, NoticesStill, pipeVars
    <3> QED
      BY <1>0, <2>0, <2>1, <2>5, <3>1, ToldListening
  <2> QED
    BY <1>0, <1>8, <2>2, <2>3, <2>4, <2>5, ConverseEffect
<1>9. ASSUME NEW h \in Servers, Serve(h) \/ ServerNotifies(h) \/ ServerDies(h)
      PROVE  Alternate(g)' /\ Told(g)'
  <2>1. Still("From")
    BY <1>9, StillBeside DEF Beside, Still, talkVars
  <2>2. alive' \subseteq alive /\ dispatcher' = dispatcher
    BY <1>9 DEF Serve, ServerReads, ServerExits, ServerNotifies, ServerDies, serverVars, endVars
  <2>3. CASE ServerNotifies(h) /\ h = g
    BY <1>0, <2>3, ToldNotifies
  <2>4. CASE ServerDies(h) /\ h = g
    <3>1. g \notin alive' /\ notices' = notices
      BY <2>4 DEF ServerDies
    <3>2. Alternate(g)'
      BY <1>0, <3>1 DEF Alternate
    <3>3. Told(g)'
      BY <1>0, <2>1, <2>2, <3>1 DEF Told, Expect, Still, Untouched, Route, InHand
    <3> QED
      BY <3>2, <3>3
  <2>5. CASE ServerReads(h) \/ h # g
    <3>1. notices'[g] = notices[g] /\ nextPart'[g] = nextPart[g]
      BY <1>0, <1>9, <2>5 DEF Serve, ServerReads, ServerExits, ServerNotifies, ServerDies, PipeTypes
    <3> QED
      BY <1>0, <2>1, <2>2, <3>1, ToldKept DEF NoticesStill
  <2> QED
    BY <1>9, <2>3, <2>4, <2>5 DEF Serve, ServerExits
<1> QED
  BY <1>1, <1>2, <1>3, <1>4, <1>5, <1>6, <1>7, <1>8, <1>9 DEF Next, Sane, Step, Watch, Directions,
     Launch

LEMMA TellInvariance == Spec => []TellInv
<1>1. Init => TellInv
  BY DEF Init, TellInv, Alternate, Told, Expect, Directions
<1>2. TypeInv /\ EndInv /\ OwnInv /\ FollowInv /\ PipeInv /\ TellInv /\ [Next]_vars => TellInv'
  BY TellStep
<1> QED
  BY <1>1, <1>2, TypeInvariance, EndInvariance, OwnInvariance, FollowInvariance, PipeInvariance,
     PTL DEF Spec

-----------------------------------------------------------------------------
\* Whatever becomes of the process and its pipes, no conversation is torn
\* (ReconnectException, DesktopSrvDispatcher::execute): a server reads the rest
\* of a request right after its beginning, an answer is read by the thread that
\* asked, and the dispatcher never takes the rest of a notice for a new one.
THEOREM TalksWhole == Spec => []TalksAreWhole
<1>1. TypeInv /\ EndInv /\ FollowInv /\ SentInv /\ TellInv => TalksAreWhole
  <2> SUFFICES ASSUME TypeInv, EndInv, FollowInv, SentInv, TellInv PROVE TalksAreWhole
    OBVIOUS
  <2>1. ASSUME NEW g \in Servers, NEW i \in 1 .. Len(inbox[g])
        PROVE  MayFollow((<<parsing[g]>> \o inbox[g])[i], (<<parsing[g]>> \o inbox[g])[i + 1])
    <3>0. /\ inbox[g] \in Seq(Parts) /\ parsing[g] \in Parts /\ Whole(g)
          /\ Len(inbox[g]) \in Nat /\ inbox[g] # <<>>
      BY <2>1 DEF TypeInv, PipeTypes, SentInv
    <3>1. (<<parsing[g]>> \o inbox[g])[i + 1] = inbox[g][i]
      BY <3>0
    <3>2. CASE i = 1
      <4>1. (<<parsing[g]>> \o inbox[g])[i] = parsing[g]
        BY <3>0, <3>2
      <4> QED
        BY <3>0, <3>1, <3>2, <4>1 DEF Whole
    <3>3. CASE i # 1
      <4>1. /\ i - 1 \in 1 .. Len(inbox[g]) - 1 /\ (i - 1) + 1 = i
            /\ (<<parsing[g]>> \o inbox[g])[i] = inbox[g][i - 1]
        BY <3>0, <3>3
      <4>2. MayFollow(inbox[g][i - 1], inbox[g][(i - 1) + 1])
        BY <3>0, <4>1 DEF Whole
      <4> QED
        BY <3>1, <4>1, <4>2
    <3> QED
      BY <3>2, <3>3
  <2>2. ASSUME at["To"] \in {"inside", "blocked"}, held["To"] # None, Operation("To") = "read",
               outbox[held["To"]] # <<>>
        PROVE  Head(outbox[held["To"]]) = talks
    <3> DEFINE g == held["To"]
    <3>1. g \in Servers
      BY <2>2 DEF TypeInv, TalkTypes, Channels, Directions
    <3>2. ~GivenUp(g)
      BY <2>2 DEF GivenUp, InHand, InUse
    <3>3. outbox[g] = <<talks>>
      BY <2>2, <3>1, <3>2 DEF SentInv, Sent, AnswerIsOurs
    <3> QED
      BY <3>3
  <2>3. ASSUME at["From"] \in {"inside", "blocked"}, held["From"] # None,
               notices[held["From"]] # <<>>
        PROVE  Head(notices[held["From"]]) = step["From"]
    <3> DEFINE g == held["From"]
    <3>1. g \in Servers /\ "From" \in Directions
      BY <2>3 DEF TypeInv, TalkTypes, Channels, Directions
    <3>2. dispatcher = "listening"
      BY <2>3 DEF EndInv, ListenerIsAtRest
    <3>3. Follows("From") /\ g \in Nat /\ channel["From"] \in Nat
      BY <3>1, PipeNumbers DEF FollowInv
    <3>4. Route("From") = g /\ ~Untouched("From", g)
      BY <2>3, <3>3 DEF Route, Untouched, InHand, InUse, Follows
    <3>5. Told(g)
      BY <3>1 DEF TellInv
    <3>6. notices[g][1] = step["From"]
      BY <2>3, <3>2, <3>4, <3>5 DEF Told, Expect
    <3> QED
      BY <3>6
  <2> QED
    BY <2>1, <2>2, <2>3 DEF TalksAreWhole
<1> QED
  BY <1>1, TypeInvariance, EndInvariance, FollowInvariance, SentInvariance, TellInvariance, PTL

=============================================================================
