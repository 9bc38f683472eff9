------------------------ MODULE ScreenUpdatesProofs ------------------------
(***************************************************************************)
(* Theorems about the way of updates from the screen to the viewers, for   *)
(* any number of viewers and tiles, and of drawings, movements, resizes,   *)
(* cursor moves and failures.                                              *)
(***************************************************************************)
EXTENDS ScreenUpdates, TLAPS

-----------------------------------------------------------------------------
(* What the keepers' operations do to a container                          *)

LEMMA TilesAreIntegers == \A t \in Tiles : t \in Int
BY NumTilesAssumption DEF Tiles

LEMMA EmptyTypes == EmptyContainer \in UpdateContainer /\ IsClipped(EmptyContainer) /\ Holds(EmptyContainer) = {}
BY DEF EmptyContainer, UpdateContainer, IsClipped, Holds

LEMMA NothingIsRect == IsRect({}) /\ IsRect(EmptyContainer.copied) /\ IsRect(NoMove.rect)
BY DEF IsRect, EmptyContainer, NoMove

\* What a container is made of.
LEMMA ContainerTypes ==
  ASSUME NEW changed \in SUBSET Tiles, NEW copied \in SUBSET Tiles, NEW delta \in Int,
         NEW size \in BOOLEAN, NEW cursor \in BOOLEAN
  PROVE  [changed |-> changed, copied |-> copied, delta |-> delta,
          size |-> size, cursor |-> cursor] \in UpdateContainer
BY DEF UpdateContainer

\* A change is held, and so is what was.
LEMMA AddChanged ==
  ASSUME NEW k \in UpdateContainer, NEW region
  PROVE  /\ AddChangedRegion(k, region) \in UpdateContainer
         /\ AddChangedRegion(k, region).changed = k.changed \union (region \intersect Tiles)
         /\ AddChangedRegion(k, region).copied = k.copied
         /\ AddChangedRegion(k, region).delta = k.delta
         /\ IsClipped(k) => IsClipped(AddChangedRegion(k, region))
         /\ Holds(AddChangedRegion(k, region)) = Holds(k) \union (region \intersect Tiles)
BY DEF AddChangedRegion, UpdateContainer, IsClipped, Holds

\* Nothing is lost by a copy, and it is held if it lies inside the border.
LEMMA AddCopy ==
  ASSUME NEW k \in UpdateContainer, IsClipped(k), NEW rect, NEW d \in Int
  PROVE  /\ AddCopyRect(k, rect, d) \in UpdateContainer
         /\ IsClipped(AddCopyRect(k, rect, d))
         /\ Holds(k) \subseteq Holds(AddCopyRect(k, rect, d))
         /\ rect = ClipCopy(rect, d) => rect \subseteq Holds(AddCopyRect(k, rect, d))
<1> DEFINE dst == ClipCopy(rect, d)
           lost == AddChangedRegion(k, rect \ dst)
           both == AddChangedRegion(lost, k.copied \union rect)
<1>1. dst \subseteq Tiles /\ \A t \in dst : t - d \in Tiles
  BY DEF ClipCopy
<1>2. /\ lost \in UpdateContainer /\ lost.copied = k.copied
      /\ lost.changed = k.changed \union ((rect \ dst) \intersect Tiles)
  BY AddChanged
<1>3. /\ both \in UpdateContainer
      /\ both.changed = lost.changed \union ((k.copied \union rect) \intersect Tiles)
  BY <1>2, AddChanged
<1>4. k.copied \subseteq Tiles /\ k.changed \subseteq Tiles
  BY DEF UpdateContainer
<1>5. CASE dst = {}
  BY <1>5 DEF AddCopyRect
<1>6. CASE dst # {} /\ k.copied # {}
  <2>1. AddCopyRect(k, rect, d) = [both EXCEPT !.copied = {}, !.delta = 0]
    BY <1>6 DEF AddCopyRect
  <2> HIDE DEF dst, lost, both
  <2>2. /\ AddCopyRect(k, rect, d) \in UpdateContainer
        /\ AddCopyRect(k, rect, d).changed = both.changed
        /\ AddCopyRect(k, rect, d).copied = {}
    <3>1. AddCopyRect(k, rect, d) =
            [changed |-> both.changed, copied |-> {}, delta |-> 0,
             size |-> both.size, cursor |-> both.cursor]
      BY <2>1, <1>3 DEF UpdateContainer
    <3> QED
      BY <3>1, <1>3 DEF UpdateContainer
  <2>3. rect = ClipCopy(rect, d) => rect \subseteq Tiles
    BY <1>1 DEF dst
  <2> QED
    BY <2>2, <2>3, <1>2, <1>3, <1>4 DEF Holds, IsClipped
<1>7. CASE dst # {} /\ k.copied = {}
  <2> DEFINE carried == CarryChanged(lost.changed, dst, d) \intersect Tiles
  <2>1. AddCopyRect(k, rect, d) =
          [lost EXCEPT !.changed = CarryChanged(@, dst, d) \intersect Tiles, !.copied = dst, !.delta = d]
    BY <1>7 DEF AddCopyRect
  <2>2. lost.changed \ dst \subseteq CarryChanged(lost.changed, dst, d)
    BY DEF CarryChanged
  <2> HIDE DEF dst, lost
  <2>3. /\ AddCopyRect(k, rect, d) \in UpdateContainer
        /\ AddCopyRect(k, rect, d).changed = carried
        /\ AddCopyRect(k, rect, d).copied = dst
        /\ AddCopyRect(k, rect, d).delta = d
    BY <2>1, <1>1, <1>2 DEF UpdateContainer
  <2>4. rect = ClipCopy(rect, d) => rect = dst
    BY DEF dst
  <2>5. (lost.changed \ dst) \intersect Tiles \subseteq carried
    BY <2>2
  <2> HIDE DEF carried
  <2> QED
    BY <2>3, <2>4, <2>5, <1>1, <1>2, <1>4, <1>7 DEF Holds, IsClipped
<1> QED
  BY <1>5, <1>6, <1>7

\* What is copied inside the border of a rectangle is a rectangle.
LEMMA ClippedRect ==
  ASSUME NEW rect, rect \subseteq Int, IsRect(rect), NEW d \in Int
  PROVE  IsRect(ClipCopy(rect, d))
<1> SUFFICES ASSUME NEW s \in ClipCopy(rect, d), NEW t \in ClipCopy(rect, d), NEW r \in s..t
             PROVE  r \in ClipCopy(rect, d)
  BY DEF IsRect
<1>1. s \in rect /\ t \in rect /\ s \in Tiles /\ t \in Tiles /\ s - d \in Tiles /\ t - d \in Tiles
  BY DEF ClipCopy
<1>2. s \in Int /\ t \in Int /\ r \in Int /\ s <= r /\ r <= t
  BY <1>1, TilesAreIntegers
<1>3. r \in rect
  BY <1>1 DEF IsRect
<1>4. r \in Tiles /\ r - d \in Tiles
  BY <1>1, <1>2, NumTilesAssumption DEF Tiles
<1> QED
  BY <1>3, <1>4 DEF ClipCopy

\* Windows are rectangles, wherever they are moved.
LEMMA MovedRect ==
  ASSUME NEW first \in Int, NEW last \in Int, NEW d \in Int
  PROVE  IsRect(Translate(first..last, d))
<1>1. \A t : t \in Translate(first..last, d) <=> t \in Int /\ first + d <= t /\ t <= last + d
  <2>1. \A t \in first..last : t + d \in Int /\ first + d <= t + d /\ t + d <= last + d
    OBVIOUS
  <2>2. \A t \in Int : first + d <= t /\ t <= last + d => t - d \in first..last /\ (t - d) + d = t
    OBVIOUS
  <2> QED
    BY <2>1, <2>2 DEF Translate
<1> QED
  BY <1>1 DEF IsRect

\* What a copy adds to a container that has none is a rectangle.
LEMMA CopyIsRect ==
  ASSUME NEW k \in UpdateContainer, k.copied = {}, NEW rect, rect \subseteq Int, IsRect(rect),
         NEW d \in Int
  PROVE  IsRect(AddCopyRect(k, rect, d).copied)
<1> DEFINE dst == ClipCopy(rect, d)
           lost == AddChangedRegion(k, rect \ dst)
<1>1. IsRect(dst)
  BY ClippedRect
<1>2. lost \in UpdateContainer
  BY AddChanged
<1>3. CASE dst = {}
  BY <1>3 DEF AddCopyRect, IsRect
<1>4. CASE dst # {}
  <2>1. AddCopyRect(k, rect, d) =
          [lost EXCEPT !.changed = CarryChanged(@, dst, d) \intersect Tiles, !.copied = dst, !.delta = d]
    BY <1>4 DEF AddCopyRect
  <2> HIDE DEF dst, lost
  <2>2. AddCopyRect(k, rect, d).copied = dst
    BY <2>1, <1>2 DEF UpdateContainer
  <2> QED
    BY <1>1, <2>2
<1> QED
  BY <1>3, <1>4

\* A container that is given to a keeper is held by it, provided that it copies
\* one rectangle: of several only the first would be added.
LEMMA AddContainer ==
  ASSUME NEW k \in UpdateContainer, IsClipped(k), NEW u \in UpdateContainer, IsClipped(u),
         IsRect(u.copied)
  PROVE  /\ AddUpdateContainer(k, u) \in UpdateContainer
         /\ IsClipped(AddUpdateContainer(k, u))
         /\ Holds(k) \union Holds(u) \subseteq Holds(AddUpdateContainer(k, u))
<1> DEFINE copied == IF u.copied = {} THEN k ELSE AddCopyRect(k, u.copied, u.delta)
           all == AddChangedRegion(copied, u.changed)
<1>1. u.copied \subseteq Tiles /\ u.changed \subseteq Tiles /\ u.delta \in Int
      /\ u.size \in BOOLEAN /\ u.cursor \in BOOLEAN
  BY DEF UpdateContainer
<1>2. u.copied = ClipCopy(u.copied, u.delta)
  BY <1>1 DEF ClipCopy, IsClipped
<1>3. /\ copied \in UpdateContainer /\ IsClipped(copied)
      /\ Holds(k) \union u.copied \subseteq Holds(copied)
  BY <1>1, <1>2, AddCopy
<1>4. AddUpdateContainer(k, u) = [all EXCEPT !.size = @ \/ u.size, !.cursor = @ \/ u.cursor]
  <2>1. FirstRect(u.copied) = u.copied
    BY DEF FirstRect, IsRect
  <2> QED
    BY <2>1 DEF AddUpdateContainer
<1> HIDE DEF copied
<1>5. all \in UpdateContainer /\ IsClipped(all) /\ Holds(all) = Holds(copied) \union u.changed
  BY <1>1, <1>3, AddChanged
<1> HIDE DEF all
<1>6. /\ all.changed \in SUBSET Tiles /\ all.copied \in SUBSET Tiles /\ all.delta \in Int
      /\ all.size \in BOOLEAN /\ all.cursor \in BOOLEAN
  BY <1>5 DEF UpdateContainer
<1>7. AddUpdateContainer(k, u) =
        [changed |-> all.changed, copied |-> all.copied, delta |-> all.delta,
         size |-> all.size \/ u.size, cursor |-> all.cursor \/ u.cursor]
  BY <1>4, <1>5 DEF UpdateContainer
<1>8. (all.size \/ u.size) \in BOOLEAN /\ (all.cursor \/ u.cursor) \in BOOLEAN
  BY <1>1, <1>6
<1>9. AddUpdateContainer(k, u) \in UpdateContainer
  <2> DEFINE size == all.size \/ u.size
             cursor == all.cursor \/ u.cursor
  <2>1. size \in BOOLEAN /\ cursor \in BOOLEAN
    BY <1>8
  <2>2. AddUpdateContainer(k, u) =
          [changed |-> all.changed, copied |-> all.copied, delta |-> all.delta,
           size |-> size, cursor |-> cursor]
    BY <1>7
  <2> HIDE DEF size, cursor
  <2> QED
    BY <1>6, <2>1, <2>2, ContainerTypes
<1> QED
  BY <1>3, <1>5, <1>7, <1>9 DEF Holds, IsClipped

-----------------------------------------------------------------------------
(* Types                                                                   *)

\* TypeOK, by who owns the variables.
ScreenTypes ==
  /\ screen \in [Tiles -> PixelValues] /\ screenFormat \in 0..MaxResizes
  /\ moved.rect \subseteq Int /\ moved.delta \in -NumTiles..NumTiles /\ IsRect(moved.rect)
  /\ drawings \in 0..MaxDrawings /\ cursorMoves \in 0..MaxCursorMoves
  /\ grabFailures \in 0..MaxGrabFailures
HandlerTypes ==
  /\ keeper \in UpdateContainer /\ IsClipped(keeper) /\ keeper.copied = {} /\ detected \in BOOLEAN
  /\ backup \in [Tiles -> PixelValues] /\ format \in 0..MaxResizes /\ absolute \in BOOLEAN
DesktopTypes ==
  /\ event \in BOOLEAN /\ fullReqRegion \subseteq Tiles /\ dpc \in DesktopLocations
  /\ update \in UpdateContainer /\ IsClipped(update) /\ IsRect(update.copied)
  /\ toVisit \subseteq Clients
  /\ giving \in Clients \union {NoClient} /\ ready \in BOOLEAN
KeptTypes == kept \in [Clients -> UpdateContainer] /\ \A c \in Clients : IsClipped(kept[c])
RequestTypes ==
  /\ reqIncr \in [Clients -> SUBSET Tiles] /\ reqFull \in [Clients -> SUBSET Tiles]
  /\ incrUpdIsReq \in [Clients -> BOOLEAN] /\ fullUpdIsReq \in [Clients -> BOOLEAN]
Requests ==
  [incr : SUBSET Tiles, full : SUBSET Tiles, incrIsReq : BOOLEAN, fullIsReq : BOOLEAN]
SenderTypes ==
  /\ busy \in [Clients -> BOOLEAN] /\ newUpdates \in [Clients -> BOOLEAN]
  /\ spc \in [Clients -> SenderLocations] /\ taken \in [Clients -> Requests]
  /\ cont \in [Clients -> UpdateContainer] /\ \A c \in Clients : IsClipped(cont[c])
  /\ fb \in [Clients -> [Tiles -> PixelValues]]
  /\ fbFormat \in [Clients -> {NoFormat} \union 0..MaxResizes]
Questions == [region : SUBSET Tiles, incremental : BOOLEAN, combined : SUBSET Tiles]
ReaderTypes ==
  rpc \in [Clients -> {"idle", "check", "tell"}] /\ asking \in [Clients -> Questions]
ViewerTypes ==
  credit \in [Clients -> 0..MaxOutstanding] /\ viewer \in [Clients -> [Tiles -> PixelValues]]

Types ==
  /\ ScreenTypes /\ HandlerTypes /\ DesktopTypes /\ KeptTypes
  /\ RequestTypes /\ SenderTypes /\ ReaderTypes /\ ViewerTypes

LEMMA TypesAre == (TypeOK <=> Types) /\ (TypeOK <=> Types)'
BY DEF TypeOK, Types, ScreenTypes, HandlerTypes, DesktopTypes, KeptTypes, RequestTypes,
       Requests, SenderTypes, Questions, ReaderTypes, ViewerTypes

\* What nobody touches keeps its type.
LEMMA ScreenStays == ScreenTypes /\ UNCHANGED screenVars => ScreenTypes'
BY DEF ScreenTypes, screenVars
LEMMA HandlerStays == HandlerTypes /\ UNCHANGED handlerVars => HandlerTypes'
BY DEF HandlerTypes, handlerVars, IsClipped
LEMMA DesktopStays == DesktopTypes /\ UNCHANGED desktopVars => DesktopTypes'
BY DEF DesktopTypes, desktopVars, IsClipped
LEMMA KeptStays == KeptTypes /\ UNCHANGED kept => KeptTypes'
BY DEF KeptTypes, IsClipped
LEMMA RequestsStay == RequestTypes /\ UNCHANGED requestVars => RequestTypes'
BY DEF RequestTypes, requestVars
LEMMA SendersStay == SenderTypes /\ UNCHANGED senderVars => SenderTypes'
BY DEF SenderTypes, senderVars, IsClipped
LEMMA ReadersStay == ReaderTypes /\ UNCHANGED readerVars => ReaderTypes'
BY DEF ReaderTypes, readerVars
LEMMA ViewersStay == ViewerTypes /\ UNCHANGED viewerVars => ViewerTypes'
BY DEF ViewerTypes, viewerVars

\* The array of a client's value.
LEMMA SetTyped ==
  ASSUME NEW S, NEW f \in [Clients -> S], NEW c \in Clients, NEW v \in S
  PROVE  /\ Set(f, c, v) \in [Clients -> S]
         /\ Set(f, c, v)[c] = v
         /\ \A d \in Clients : d # c => Set(f, c, v)[d] = f[d]
BY DEF Set

LEMMA PixelsTyped ==
  ASSUME NEW p \in [Tiles -> PixelValues], NEW q \in [Tiles -> PixelValues], NEW region, NEW d
  PROVE  /\ CopyPixels(p, region, d) \in [Tiles -> PixelValues]
         /\ PaintPixels(p, region, q) \in [Tiles -> PixelValues]
BY DEF CopyPixels, PaintPixels

LEMMA Bounds ==
  /\ NumTiles \in Nat /\ MaxOutstanding \in Nat /\ MaxDrawings \in Nat /\ MaxResizes \in Nat
  /\ MaxCursorMoves \in Nat /\ MaxGrabFailures \in Nat
BY NumTilesAssumption, UpdatesAssumption

LEMMA BlankTyped == [t \in Tiles |-> Blank] \in [Tiles -> PixelValues]
BY Bounds DEF Blank, PixelValues

LEMMA InitTypes == Init => TypeOK
<1> SUFFICES ASSUME Init PROVE Types
  BY TypesAre
<1>1. ScreenTypes
  <2>1. InitialPixel \in PixelValues
    BY UpdatesAssumption, Bounds DEF PixelValues
  <2> QED
    BY <2>1, Bounds, NothingIsRect DEF Init, ScreenTypes, NoMove
<1>2. HandlerTypes
  <2>1. keeper = [changed |-> Tiles, copied |-> {}, delta |-> 0, size |-> FALSE, cursor |-> FALSE]
    BY DEF Init, EmptyContainer
  <2>2. keeper \in UpdateContainer
    BY <2>1, Bounds DEF UpdateContainer
  <2>3. IsClipped(keeper) /\ keeper.copied = {}
    BY <2>1 DEF IsClipped
  <2>4. backup \in [Tiles -> PixelValues]
    BY BlankTyped DEF Init
  <2>5. detected \in BOOLEAN /\ absolute \in BOOLEAN
    BY DEF Init
  <2>6. format = 0
    BY DEF Init
  <2>7. format \in 0..MaxResizes
    BY <2>6, Bounds
  <2> QED
    BY <2>2, <2>3, <2>4, <2>5, <2>7 DEF HandlerTypes
<1>3. DesktopTypes
  BY EmptyTypes, NothingIsRect DEF Init, DesktopTypes, DesktopLocations
<1>4. KeptTypes
  BY EmptyTypes DEF Init, KeptTypes
<1>5. RequestTypes
  BY DEF Init, RequestTypes
<1>6. SenderTypes
  <2>1. NoRequest \in Requests
    BY DEF NoRequest, Requests
  <2> QED
    BY <2>1, EmptyTypes, BlankTyped DEF Init, SenderTypes, SenderLocations
<1>7. ReaderTypes
  BY DEF Init, ReaderTypes, NothingAsked, Questions
<1>8. ViewerTypes
  BY BlankTyped, Bounds DEF Init, ViewerTypes
<1> QED
  BY <1>1, <1>2, <1>3, <1>4, <1>5, <1>6, <1>7, <1>8 DEF Types

-----------------------------------------------------------------------------
(* Each action keeps the types                                             *)

Sending == {"extract", "refresh", "prepare", "flush"}
Flagged(c) == incrUpdIsReq[c] \/ fullUpdIsReq[c]

\* A viewer's flag, and an update on its way to it, each stand for one of its
\* requests that is not answered yet.
RequestInv ==
  \A c \in Clients :
    /\ reqIncr[c] \union reqFull[c] # {} => Flagged(c)
    /\ spc[c] \in Sending => taken[c].incrIsReq \/ taken[c].fullIsReq
    /\ credit[c] >= (IF Flagged(c) THEN 1 ELSE 0) + (IF spc[c] \in Sending THEN 1 ELSE 0)

LEMMA NewPixelTyped ==
  ASSUME ScreenTypes, drawings < MaxDrawings \/ screenFormat < MaxResizes
  PROVE  NewPixel \in PixelValues
BY Bounds DEF ScreenTypes, NewPixel, PixelValues

LEMMA DrawTypes ==
  ASSUME Types, NEW t \in Tiles, Draw(t)
  PROVE  Types'
<1>1. HandlerTypes' /\ DesktopTypes' /\ KeptTypes' /\ RequestTypes' /\ SenderTypes' /\ ReaderTypes' /\ ViewerTypes'
  BY HandlerStays, DesktopStays, KeptStays, RequestsStay, SendersStay, ReadersStay,
     ViewersStay DEF Types, Draw
<1>2. ScreenTypes'
  <2>1. NewPixel \in PixelValues
    BY NewPixelTyped DEF Draw, Types
  <2> HIDE DEF NewPixel
  <2>2. screen' \in [Tiles -> PixelValues]
    BY <2>1 DEF Draw, Types, ScreenTypes
  <2>3. drawings' \in 0..MaxDrawings
    BY Bounds DEF Draw, Types, ScreenTypes
  <2> QED
    BY <2>2, <2>3 DEF Draw, Types, ScreenTypes
<1> QED
  BY <1>1, <1>2 DEF Types

LEMMA MoveWindowTypes ==
  ASSUME Types, NEW first \in 0..NumTiles, NEW last \in 1..(NumTiles + 1), NEW d \in Displacements,
         MoveWindow(first..last, d)
  PROVE  Types'
<1>1. HandlerTypes' /\ DesktopTypes' /\ KeptTypes' /\ RequestTypes' /\ SenderTypes' /\ ReaderTypes' /\ ViewerTypes'
  BY HandlerStays, DesktopStays, KeptStays, RequestsStay, SendersStay, ReadersStay,
     ViewersStay DEF Types, MoveWindow
<1>2. ScreenTypes'
  <2> DEFINE rect == Translate(first..last, d)
             blank == ((first..last) \ rect) \union {t \in rect : t - d \notin Tiles}
  <2>1. NewPixel \in PixelValues
    BY NewPixelTyped DEF MoveWindow, Types
  <2> HIDE DEF NewPixel
  <2>2. moved' = [rect |-> rect, delta |-> d]
    BY DEF MoveWindow
  <2>3. screen' = PaintPixels(CopyPixels(screen, rect, d), blank, [t \in Tiles |-> NewPixel])
    BY <2>2 DEF MoveWindow
  <2>4. screen' \in [Tiles -> PixelValues]
    BY <2>1, <2>3, PixelsTyped DEF Types, ScreenTypes
  <2>5. d \in -NumTiles..NumTiles /\ rect \subseteq Int
    BY Bounds, UpdatesAssumption DEF Translate
  <2>8. IsRect(rect)
    BY <2>5, Bounds, MovedRect
  <2>6. drawings' \in 0..MaxDrawings
    BY Bounds DEF MoveWindow, Types, ScreenTypes
  <2> HIDE DEF rect
  <2>7. moved'.rect \subseteq Int /\ moved'.delta \in -NumTiles..NumTiles /\ IsRect(moved'.rect)
    BY <2>2, <2>5, <2>8
  <2> QED
    BY <2>4, <2>6, <2>7 DEF MoveWindow, Types, ScreenTypes
<1> QED
  BY <1>1, <1>2 DEF Types

LEMMA ResizeTypes ==
  ASSUME Types, ResizeScreen
  PROVE  Types'
<1>1. HandlerTypes' /\ DesktopTypes' /\ KeptTypes' /\ RequestTypes' /\ SenderTypes' /\ ReaderTypes' /\ ViewerTypes'
  BY HandlerStays, DesktopStays, KeptStays, RequestsStay, SendersStay, ReadersStay,
     ViewersStay DEF Types, ResizeScreen
<1>2. ScreenTypes'
  <2>1. NewPixel \in PixelValues
    BY NewPixelTyped DEF ResizeScreen, Types
  <2> HIDE DEF NewPixel
  <2>2. screen' \in [Tiles -> PixelValues]
    BY <2>1 DEF ResizeScreen
  <2>3. screenFormat' \in 0..MaxResizes
    BY Bounds DEF ResizeScreen, Types, ScreenTypes
  <2> QED
    BY <2>2, <2>3 DEF ResizeScreen, Types, ScreenTypes
<1> QED
  BY <1>1, <1>2 DEF Types

LEMMA KeeperFlags ==
  ASSUME NEW k \in UpdateContainer, IsClipped(k)
  PROVE  /\ [k EXCEPT !.size = TRUE] \in UpdateContainer /\ IsClipped([k EXCEPT !.size = TRUE])
         /\ [k EXCEPT !.cursor = TRUE] \in UpdateContainer /\ IsClipped([k EXCEPT !.cursor = TRUE])
         /\ Holds([k EXCEPT !.size = TRUE]) = Holds(k)
         /\ [k EXCEPT !.size = TRUE].copied = k.copied
         /\ [k EXCEPT !.cursor = TRUE].copied = k.copied
BY DEF UpdateContainer, IsClipped, Holds

LEMMA PollTypes ==
  ASSUME Types, Poll
  PROVE  Types'
<1>1. ScreenTypes' /\ DesktopTypes' /\ KeptTypes' /\ RequestTypes' /\ SenderTypes' /\ ReaderTypes' /\ ViewerTypes'
  BY ScreenStays, DesktopStays, KeptStays, RequestsStay, SendersStay, ReadersStay,
     ViewersStay DEF Types, Poll
<1>2. HandlerTypes'
  <2>1. keeper \in UpdateContainer /\ IsClipped(keeper) /\ keeper.copied = {}
    BY DEF Types, HandlerTypes
  <2>2. keeper' \in UpdateContainer /\ IsClipped(keeper') /\ keeper'.copied = {}
    <3>1. keeper' = [keeper EXCEPT !.size = TRUE] \/ keeper' = AddChangedRegion(keeper, Differing)
      BY DEF Poll
    <3>2. CASE keeper' = [keeper EXCEPT !.size = TRUE]
      BY <2>1, <3>2, KeeperFlags
    <3>3. CASE keeper' = AddChangedRegion(keeper, Differing)
      BY <2>1, <3>3, AddChanged
    <3> QED
      BY <3>1, <3>2, <3>3
  <2>3. detected' \in BOOLEAN
    BY DEF Poll, Types, HandlerTypes
  <2> QED
    BY <2>2, <2>3 DEF Poll, Types, HandlerTypes
<1> QED
  BY <1>1, <1>2 DEF Types

LEMMA DetectCursorTypes ==
  ASSUME Types, DetectCursor
  PROVE  Types'
<1>1. DesktopTypes' /\ KeptTypes' /\ RequestTypes' /\ SenderTypes' /\ ReaderTypes' /\ ViewerTypes'
  BY DesktopStays, KeptStays, RequestsStay, SendersStay, ReadersStay, ViewersStay DEF Types,
     DetectCursor
<1>2. ScreenTypes'
  <2>1. cursorMoves' \in 0..MaxCursorMoves
    BY Bounds DEF DetectCursor, Types, ScreenTypes
  <2> QED
    BY <2>1 DEF DetectCursor, Types, ScreenTypes
<1>3. HandlerTypes'
  <2>1. keeper \in UpdateContainer /\ IsClipped(keeper)
    BY DEF Types, HandlerTypes
  <2>2. keeper' \in UpdateContainer /\ IsClipped(keeper')
    BY <2>1, KeeperFlags DEF DetectCursor
  <2> QED
    BY <2>2 DEF DetectCursor, Types, HandlerTypes
<1> QED
  BY <1>1, <1>2, <1>3 DEF Types

LEMMA OnUpdateTypes ==
  ASSUME Types, OnUpdate
  PROVE  Types'
<1>1. ScreenTypes' /\ KeptTypes' /\ RequestTypes' /\ SenderTypes' /\ ReaderTypes' /\ ViewerTypes'
  BY ScreenStays, KeptStays, RequestsStay, SendersStay, ReadersStay, ViewersStay DEF Types, OnUpdate
<1>2. HandlerTypes' /\ DesktopTypes'
  BY DEF OnUpdate, Types, HandlerTypes, DesktopTypes, IsClipped
<1> QED
  BY <1>1, <1>2 DEF Types

LEMMA WakeDesktopTypes ==
  ASSUME Types, WakeDesktop
  PROVE  Types'
<1>1. ScreenTypes' /\ HandlerTypes' /\ KeptTypes' /\ RequestTypes' /\ SenderTypes' /\ ReaderTypes' /\ ViewerTypes'
  BY ScreenStays, HandlerStays, KeptStays, RequestsStay, SendersStay, ReadersStay,
     ViewersStay DEF Types, WakeDesktop
<1>2. DesktopTypes'
  BY DEF WakeDesktop, Types, DesktopTypes, DesktopLocations, DGoto, IsClipped
<1> QED
  BY <1>1, <1>2 DEF Types

LEMMA AskClientTypes ==
  ASSUME Types, NEW c \in Clients, AskClient(c)
  PROVE  Types'
<1>1. ScreenTypes' /\ HandlerTypes' /\ KeptTypes' /\ RequestTypes' /\ SenderTypes' /\ ReaderTypes' /\ ViewerTypes'
  BY ScreenStays, HandlerStays, KeptStays, RequestsStay, SendersStay, ReadersStay,
     ViewersStay DEF Types, AskClient
<1>2. DesktopTypes'
  BY DEF AskClient, Types, DesktopTypes, DesktopLocations, DGoto, IsClipped, ClientIsReady
<1> QED
  BY <1>1, <1>2 DEF Types

LEMMA IsReadyToSendTypes ==
  ASSUME Types, IsReadyToSend
  PROVE  Types'
<1>1. ScreenTypes' /\ HandlerTypes' /\ KeptTypes' /\ RequestTypes' /\ SenderTypes' /\ ReaderTypes' /\ ViewerTypes'
  BY ScreenStays, HandlerStays, KeptStays, RequestsStay, SendersStay, ReadersStay,
     ViewersStay DEF Types, IsReadyToSend
<1>2. DesktopTypes'
  BY DEF IsReadyToSend, Types, DesktopTypes, DesktopLocations, DGoto, IsClipped
<1> QED
  BY <1>1, <1>2 DEF Types

LEMMA DecideToSendTypes ==
  ASSUME Types, DecideToSend
  PROVE  Types'
<1>1. ScreenTypes' /\ HandlerTypes' /\ KeptTypes' /\ RequestTypes' /\ SenderTypes' /\ ReaderTypes' /\ ViewerTypes'
  BY ScreenStays, HandlerStays, KeptStays, RequestsStay, SendersStay, ReadersStay,
     ViewersStay DEF Types, DecideToSend
<1>2. DesktopTypes'
  BY DEF DecideToSend, Types, DesktopTypes, DesktopLocations, DGoto, IsClipped
<1> QED
  BY <1>1, <1>2 DEF Types

LEMMA ExtractFromHandlerTypes ==
  ASSUME Types, ExtractFromHandler
  PROVE  Types'
<1>1. KeptTypes' /\ RequestTypes' /\ SenderTypes' /\ ReaderTypes' /\ ViewerTypes'
  BY KeptStays, RequestsStay, SendersStay, ReadersStay, ViewersStay DEF Types, ExtractFromHandler
<1>2. ScreenTypes'
  BY Bounds, NothingIsRect DEF ExtractFromHandler, Types, ScreenTypes, NoMove
<1>3. HandlerTypes'
  BY EmptyTypes DEF ExtractFromHandler, Types, HandlerTypes, EmptyContainer
<1>4. DesktopTypes'
  <2> DEFINE asked == AddChangedRegion(keeper, fullReqRegion)
  <2>1. /\ keeper \in UpdateContainer /\ IsClipped(keeper) /\ keeper.copied = {}
        /\ moved.delta \in Int /\ moved.rect \subseteq Int /\ IsRect(moved.rect)
    BY Bounds DEF Types, HandlerTypes, ScreenTypes
  <2>2. asked \in UpdateContainer /\ IsClipped(asked) /\ asked.copied = {}
    BY <2>1, AddChanged
  <2>3. update' = AddCopyRect(asked, moved.rect, moved.delta)
    BY DEF ExtractFromHandler
  <2> HIDE DEF asked
  <2>4. update' \in UpdateContainer /\ IsClipped(update')
    BY <2>1, <2>2, <2>3, AddCopy
  <2>5. IsRect(update'.copied)
    BY <2>1, <2>2, <2>3, CopyIsRect
  <2> QED
    BY <2>4, <2>5 DEF ExtractFromHandler, Types, DesktopTypes, DesktopLocations, DGoto
<1> QED
  BY <1>1, <1>2, <1>3, <1>4 DEF Types

\* A container with another changed region is a container still.
LEMMA NewChanged ==
  ASSUME NEW k \in UpdateContainer, NEW region \in SUBSET Tiles
  PROVE  /\ [k EXCEPT !.changed = region] \in UpdateContainer
         /\ [k EXCEPT !.changed = region].changed = region
         /\ [k EXCEPT !.changed = region].copied = k.copied
         /\ [k EXCEPT !.changed = region].delta = k.delta
         /\ [k EXCEPT !.changed = region].size = k.size
         /\ [k EXCEPT !.changed = region].cursor = k.cursor
         /\ IsClipped(k) => IsClipped([k EXCEPT !.changed = region])
         /\ Holds([k EXCEPT !.changed = region]) = region \union k.copied
BY DEF UpdateContainer, IsClipped, Holds

\* The filter passes on every tile whose pixels it changes in the backup buffer.
LEMMA FilterDoes ==
  ASSUME Types, FilterUpdates
  PROVE  /\ backup' \in [Tiles -> PixelValues]
         /\ update' \in UpdateContainer /\ IsClipped(update') /\ update'.copied = update.copied
         /\ \A t \in Tiles : backup'[t] # backup[t] => t \in Holds(update')
         /\ grabFailures' \in 0..MaxGrabFailures
<1> DEFINE moves == CopyPixels(backup, update.copied, update.delta)
           differs == {t \in update.changed \union update.copied : moves[t] # screen[t]}
<1>1. update \in UpdateContainer /\ IsClipped(update) /\ update.changed \subseteq Tiles
      /\ update.copied \subseteq Tiles
  BY DEF Types, DesktopTypes, UpdateContainer
<1>2. differs \subseteq Tiles
  BY <1>1
<1>3. backup \in [Tiles -> PixelValues] /\ screen \in [Tiles -> PixelValues]
  BY DEF Types, HandlerTypes, ScreenTypes
<1>4. moves \in [Tiles -> PixelValues]
  BY <1>3, PixelsTyped
<1>5. \A t \in Tiles : moves[t] # backup[t] => t \in update.copied
  BY DEF CopyPixels
<1>6. \/ /\ backup' = PaintPixels(moves, differs, screen)
         /\ update' = [update EXCEPT !.changed = IF absolute THEN Tiles ELSE differs]
         /\ UNCHANGED grabFailures
      \/ /\ grabFailures < MaxGrabFailures /\ grabFailures' = grabFailures + 1
         /\ backup' = moves
         /\ update' = [update EXCEPT !.changed = IF absolute THEN Tiles ELSE update.changed]
  BY DEF FilterUpdates
<1> HIDE DEF moves
<1>7. \A t \in Tiles : PaintPixels(moves, differs, screen)[t] # moves[t] => t \in differs
  BY DEF PaintPixels
<1>8. PaintPixels(moves, differs, screen) \in [Tiles -> PixelValues]
  BY <1>3, <1>4, PixelsTyped
<1> HIDE DEF differs
<1> DEFINE region1 == IF absolute THEN Tiles ELSE differs
           region2 == IF absolute THEN Tiles ELSE update.changed
<1>9. region1 \in SUBSET Tiles /\ differs \subseteq region1 /\ region2 \in SUBSET Tiles
  BY <1>1, <1>2
<1>10. CASE backup' = PaintPixels(moves, differs, screen) /\ update' = [update EXCEPT !.changed = region1]
            /\ UNCHANGED grabFailures
  <2> HIDE DEF region1
  <2>1. update' \in UpdateContainer /\ IsClipped(update') /\ Holds(update') = region1 \union update.copied
        /\ update'.copied = update.copied
    BY <1>1, <1>9, <1>10, NewChanged
  <2>2. \A t \in Tiles : backup'[t] # backup[t] => t \in Holds(update')
    BY <1>5, <1>7, <1>9, <1>10, <2>1
  <2> QED
    BY <1>8, <1>10, <2>1, <2>2 DEF Types, ScreenTypes
<1>11. CASE grabFailures < MaxGrabFailures /\ grabFailures' = grabFailures + 1
            /\ backup' = moves /\ update' = [update EXCEPT !.changed = region2]
  <2> HIDE DEF region2
  <2>1. update' \in UpdateContainer /\ IsClipped(update') /\ Holds(update') = region2 \union update.copied
        /\ update'.copied = update.copied
    BY <1>1, <1>9, <1>11, NewChanged
  <2>2. grabFailures' \in 0..MaxGrabFailures
    BY <1>11, Bounds DEF Types, ScreenTypes
  <2> QED
    BY <1>4, <1>5, <1>11, <2>1, <2>2
<1> QED
  BY <1>6, <1>10, <1>11

LEMMA FilterUpdatesTypes ==
  ASSUME Types, FilterUpdates
  PROVE  Types'
<1>1. KeptTypes' /\ RequestTypes' /\ SenderTypes' /\ ReaderTypes' /\ ViewerTypes'
  BY KeptStays, RequestsStay, SendersStay, ReadersStay, ViewersStay DEF Types, FilterUpdates
<1>2. ScreenTypes'
  BY FilterDoes DEF FilterUpdates, Types, ScreenTypes
<1>3. HandlerTypes'
  BY FilterDoes DEF FilterUpdates, Types, HandlerTypes
<1>4. DesktopTypes'
  BY FilterDoes DEF FilterUpdates, Types, DesktopTypes, DesktopLocations, DGoto
<1> QED
  BY <1>1, <1>2, <1>3, <1>4 DEF Types

LEMMA ApplyNewScreenTypes ==
  ASSUME Types, ApplyNewScreenProperties
  PROVE  Types'
<1>1. ScreenTypes' /\ KeptTypes' /\ RequestTypes' /\ SenderTypes' /\ ReaderTypes' /\ ViewerTypes'
  BY ScreenStays, KeptStays, RequestsStay, SendersStay, ReadersStay, ViewersStay DEF Types,
     ApplyNewScreenProperties
<1>2. HandlerTypes'
  BY BlankTyped DEF ApplyNewScreenProperties, Types, HandlerTypes, ScreenTypes, IsClipped
<1>3. DesktopTypes'
  <2>1. update \in UpdateContainer
    BY DEF Types, DesktopTypes
  <2>2. PICK resized \in BOOLEAN :
          update' = [update EXCEPT !.changed = {}, !.copied = {}, !.delta = 0,
                                   !.size = update.size \/ resized]
    BY DEF ApplyNewScreenProperties
  <2>5. update.size \in BOOLEAN /\ update.cursor \in BOOLEAN
    BY <2>1 DEF UpdateContainer
  <2>6. (update.size \/ resized) \in BOOLEAN
    OBVIOUS
  <2>7. update' = [changed |-> {}, copied |-> {}, delta |-> 0, size |-> update.size \/ resized,
                   cursor |-> update.cursor]
    BY <2>1, <2>2 DEF UpdateContainer
  <2>3. update' \in UpdateContainer
    BY <2>5, <2>6, <2>7, ContainerTypes
  <2>4. IsClipped(update') /\ IsRect(update'.copied)
    BY <2>7 DEF IsClipped, IsRect
  <2> QED
    BY <2>3, <2>4 DEF ApplyNewScreenProperties, Types, DesktopTypes, DesktopLocations, DGoto
<1> QED
  BY <1>1, <1>2, <1>3 DEF Types

\* A container with another changed region and another size.
LEMMA NewSize ==
  ASSUME NEW k \in UpdateContainer, IsClipped(k), IsRect(k.copied),
         NEW region \in SUBSET Tiles, NEW size, size \in BOOLEAN
  PROVE  LET n == [k EXCEPT !.changed = region, !.size = size]
         IN  n \in UpdateContainer /\ IsClipped(n) /\ IsRect(n.copied)
<1> DEFINE n == [k EXCEPT !.changed = region, !.size = size]
<1>1. k.copied \in SUBSET Tiles /\ k.delta \in Int /\ k.size \in BOOLEAN /\ k.cursor \in BOOLEAN
  BY DEF UpdateContainer
<1>2. PICK m : m = [k EXCEPT !.changed = region]
  OBVIOUS
<1>6. m = [changed |-> region, copied |-> k.copied, delta |-> k.delta, size |-> k.size, cursor |-> k.cursor]
  BY <1>2 DEF UpdateContainer
<1>7. n = [m EXCEPT !.size = size]
  BY <1>2 DEF UpdateContainer
<1>3. n = [changed |-> region, copied |-> k.copied, delta |-> k.delta, size |-> size, cursor |-> k.cursor]
  BY <1>6, <1>7
<1> HIDE DEF n
<1>4. n \in UpdateContainer
  BY <1>1, <1>3, ContainerTypes
<1>5. IsClipped(n) /\ IsRect(n.copied)
  BY <1>3 DEF IsClipped
<1> QED
  BY <1>4, <1>5 DEF n

LEMMA NewScreenFailsTypes ==
  ASSUME Types, NewScreenFails
  PROVE  Types'
<1>1. KeptTypes' /\ RequestTypes' /\ SenderTypes' /\ ReaderTypes' /\ ViewerTypes'
  BY KeptStays, RequestsStay, SendersStay, ReadersStay, ViewersStay DEF Types, NewScreenFails
<1>2. ScreenTypes'
  BY Bounds DEF NewScreenFails, Types, ScreenTypes
<1>3. HandlerTypes'
  BY DEF NewScreenFails, Types, HandlerTypes, IsClipped
<1>4. DesktopTypes'
  <2> DEFINE region == IF absolute THEN Tiles ELSE update.changed
  <2>1. update \in UpdateContainer /\ IsClipped(update) /\ IsRect(update.copied)
    BY DEF Types, DesktopTypes
  <2>2. region \in SUBSET Tiles
    BY <2>1 DEF UpdateContainer
  <2>3. PICK resized \in BOOLEAN :
          update' = [update EXCEPT !.changed = region, !.size = update.size \/ resized]
    BY DEF NewScreenFails
  <2> DEFINE size == update.size \/ resized
  <2>5. size \in BOOLEAN
    OBVIOUS
  <2>6. update' = [update EXCEPT !.changed = region, !.size = size]
    BY <2>3
  <2> HIDE DEF region, size
  <2>4. update' \in UpdateContainer /\ IsClipped(update') /\ IsRect(update'.copied)
    BY <2>1, <2>2, <2>5, <2>6, NewSize
  <2> QED
    BY <2>4 DEF NewScreenFails, Types, DesktopTypes, DesktopLocations, DGoto
<1> QED
  BY <1>1, <1>2, <1>3, <1>4 DEF Types

\* The array of the clients' keepers after one of them has changed.
LEMMA KeptTyped ==
  ASSUME KeptTypes, NEW c \in Clients, NEW k \in UpdateContainer, IsClipped(k), kept' = Set(kept, c, k)
  PROVE  KeptTypes'
<1>1. kept' \in [Clients -> UpdateContainer] /\ kept'[c] = k
      /\ \A d \in Clients : d # c => kept'[d] = kept[d]
  BY DEF KeptTypes, Set
<1> QED
  BY <1>1 DEF KeptTypes, IsClipped

\* The same of the senders' containers.
LEMMA ContTyped ==
  ASSUME SenderTypes, NEW c \in Clients, NEW k \in UpdateContainer, IsClipped(k), cont' = Set(cont, c, k)
  PROVE  cont' \in [Clients -> UpdateContainer] /\ \A d \in Clients : IsClipped(cont'[d])
<1>1. cont' \in [Clients -> UpdateContainer] /\ cont'[c] = k
      /\ \A d \in Clients : d # c => cont'[d] = cont[d]
  BY DEF SenderTypes, Set
<1> QED
  BY <1>1 DEF SenderTypes, IsClipped

LEMMA NoRequestTyped == NoRequest \in Requests
BY DEF NoRequest, Requests

LEMMA GiveUpdatesTypes ==
  ASSUME Types, NEW c \in Clients, GiveUpdates(c)
  PROVE  Types'
<1>1. ScreenTypes' /\ HandlerTypes' /\ RequestTypes' /\ SenderTypes' /\ ReaderTypes' /\ ViewerTypes'
  BY ScreenStays, HandlerStays, RequestsStay, SendersStay, ReadersStay, ViewersStay DEF Types,
     GiveUpdates
<1>2. DesktopTypes'
  BY DEF GiveUpdates, Types, DesktopTypes, DesktopLocations, DGoto, IsClipped
<1>3. KeptTypes'
  <2>1. /\ kept[c] \in UpdateContainer /\ IsClipped(kept[c])
        /\ update \in UpdateContainer /\ IsClipped(update) /\ IsRect(update.copied)
    BY DEF Types, KeptTypes, DesktopTypes
  <2>2. AddUpdateContainer(kept[c], update) \in UpdateContainer
        /\ IsClipped(AddUpdateContainer(kept[c], update))
    BY <2>1, AddContainer
  <2> QED
    BY <2>2, SetTyped, KeptTyped DEF GiveUpdates, Types
<1> QED
  BY <1>1, <1>2, <1>3 DEF Types

LEMMA NotifySenderTypes ==
  ASSUME Types, NotifySender
  PROVE  Types'
<1>1. ScreenTypes' /\ HandlerTypes' /\ KeptTypes' /\ RequestTypes' /\ ReaderTypes' /\ ViewerTypes'
  BY ScreenStays, HandlerStays, KeptStays, RequestsStay, ReadersStay, ViewersStay DEF Types,
     NotifySender
<1>2. DesktopTypes'
  BY DEF NotifySender, Types, DesktopTypes, DesktopLocations, DGoto, IsClipped
<1>3. SenderTypes'
  BY DEF NotifySender, Types, SenderTypes, Set, IsClipped
<1> QED
  BY <1>1, <1>2, <1>3 DEF Types

LEMMA ClearTypes ==
  ASSUME Types, ClearFullReqRegion
  PROVE  Types'
<1>1. ScreenTypes' /\ HandlerTypes' /\ KeptTypes' /\ RequestTypes' /\ SenderTypes' /\ ReaderTypes' /\ ViewerTypes'
  BY ScreenStays, HandlerStays, KeptStays, RequestsStay, SendersStay, ReadersStay,
     ViewersStay DEF Types, ClearFullReqRegion
<1>2. DesktopTypes'
  BY EmptyTypes, NothingIsRect DEF ClearFullReqRegion, Types, DesktopTypes, DesktopLocations
<1> QED
  BY <1>1, <1>2 DEF Types

LEMMA ReadUpdateRequestTypes ==
  ASSUME Types, NEW c \in Clients, NEW region \in Regions, NEW incremental \in Kinds,
         ReadUpdateRequest(c, region, incremental)
  PROVE  Types'
<1>1. ScreenTypes' /\ HandlerTypes' /\ DesktopTypes' /\ KeptTypes' /\ SenderTypes'
  BY ScreenStays, HandlerStays, DesktopStays, KeptStays, SendersStay DEF Types, ReadUpdateRequest
<1>2. RequestTypes'
  <2>1. region \in SUBSET Tiles
    BY UpdatesAssumption
  <2>2. reqIncr[c] \union region \in SUBSET Tiles /\ reqFull[c] \union region \in SUBSET Tiles
    BY <2>1 DEF Types, RequestTypes
  <2>3. CASE incremental
    <3>1. /\ reqIncr' = Set(reqIncr, c, reqIncr[c] \union region)
          /\ incrUpdIsReq' = Set(incrUpdIsReq, c, TRUE)
          /\ reqFull' = reqFull /\ fullUpdIsReq' = fullUpdIsReq
      BY <2>3 DEF ReadUpdateRequest
    <3>2. reqIncr' \in [Clients -> SUBSET Tiles]
      BY <2>2, <3>1, SetTyped DEF Types, RequestTypes
    <3>3. incrUpdIsReq' \in [Clients -> BOOLEAN]
      BY <3>1, SetTyped DEF Types, RequestTypes
    <3> QED
      BY <3>1, <3>2, <3>3 DEF Types, RequestTypes
  <2>4. CASE ~incremental
    <3>1. /\ reqFull' = Set(reqFull, c, reqFull[c] \union region)
          /\ fullUpdIsReq' = Set(fullUpdIsReq, c, TRUE)
          /\ reqIncr' = reqIncr /\ incrUpdIsReq' = incrUpdIsReq
      BY <2>4 DEF ReadUpdateRequest
    <3>2. reqFull' \in [Clients -> SUBSET Tiles]
      BY <2>2, <3>1, SetTyped DEF Types, RequestTypes
    <3>3. fullUpdIsReq' \in [Clients -> BOOLEAN]
      BY <3>1, SetTyped DEF Types, RequestTypes
    <3> QED
      BY <3>1, <3>2, <3>3 DEF Types, RequestTypes
  <2> QED
    BY <2>3, <2>4
<1>3. ReaderTypes'
  <2> DEFINE question == [region |-> region, incremental |-> incremental,
                          combined |-> reqIncr[c] \union reqFull[c] \union region]
  <2>1. question \in Questions
    <3>1. region \in SUBSET Tiles /\ incremental \in BOOLEAN
      BY UpdatesAssumption
    <3>2. reqIncr[c] \in SUBSET Tiles /\ reqFull[c] \in SUBSET Tiles
      BY DEF Types, RequestTypes
    <3> QED
      BY <3>1, <3>2 DEF Questions
  <2>2. asking' = Set(asking, c, question) /\ rpc' = Set(rpc, c, "check")
    BY DEF ReadUpdateRequest, RGoto
  <2> HIDE DEF question
  <2> QED
    BY <2>1, <2>2, SetTyped DEF Types, ReaderTypes
<1>4. ViewerTypes'
  <2>1. credit[c] + 1 \in 0..MaxOutstanding
    BY Bounds DEF ReadUpdateRequest, Types, ViewerTypes
  <2> QED
    BY <2>1 DEF ReadUpdateRequest, Types, ViewerTypes, Set
<1> QED
  BY <1>1, <1>2, <1>3, <1>4 DEF Types

LEMMA CheckTypes ==
  ASSUME Types, NEW c \in Clients, CheckForKeptUpdates(c)
  PROVE  Types'
<1>1. ScreenTypes' /\ HandlerTypes' /\ DesktopTypes' /\ KeptTypes' /\ RequestTypes' /\ ViewerTypes'
  BY ScreenStays, HandlerStays, DesktopStays, KeptStays, RequestsStay, ViewersStay DEF Types,
     CheckForKeptUpdates
<1>2. SenderTypes'
  <2> DEFINE found == newUpdates[c] \/ CheckForUpdates(kept[c], asking[c].combined)
  <2>1. found \in BOOLEAN
    BY DEF Types, SenderTypes, KeptTypes, UpdateContainer, CheckForUpdates
  <2>2. newUpdates' = Set(newUpdates, c, found)
    BY DEF CheckForKeptUpdates
  <2> HIDE DEF found
  <2>3. newUpdates' \in [Clients -> BOOLEAN]
    BY <2>1, <2>2, SetTyped DEF Types, SenderTypes
  <2> QED
    BY <2>3 DEF CheckForKeptUpdates, Types, SenderTypes, IsClipped
<1>3. ReaderTypes'
  BY DEF CheckForKeptUpdates, Types, ReaderTypes, Questions, RGoto, Set
<1> QED
  BY <1>1, <1>2, <1>3 DEF Types

LEMMA OnUpdateRequestTypes ==
  ASSUME Types, NEW c \in Clients, OnUpdateRequest(c)
  PROVE  Types'
<1>1. ScreenTypes' /\ HandlerTypes' /\ KeptTypes' /\ RequestTypes' /\ SenderTypes' /\ ViewerTypes'
  BY ScreenStays, HandlerStays, KeptStays, RequestsStay, SendersStay, ViewersStay DEF Types,
     OnUpdateRequest
<1>2. DesktopTypes'
  <2>1. asking[c].region \subseteq Tiles
    BY DEF Types, ReaderTypes, Questions
  <2> QED
    BY <2>1 DEF OnUpdateRequest, Types, DesktopTypes, IsClipped
<1>3. ReaderTypes'
  BY DEF OnUpdateRequest, Types, ReaderTypes, Questions, NothingAsked, RGoto, Set
<1> QED
  BY <1>1, <1>2, <1>3 DEF Types

LEMMA WakeSenderTypes ==
  ASSUME Types, NEW c \in Clients, WakeSender(c)
  PROVE  Types'
<1>1. ScreenTypes' /\ HandlerTypes' /\ DesktopTypes' /\ KeptTypes' /\ RequestTypes' /\ ReaderTypes' /\ ViewerTypes'
  BY ScreenStays, HandlerStays, DesktopStays, KeptStays, RequestsStay, ReadersStay,
     ViewersStay DEF Types, WakeSender
<1>2. SenderTypes'
  <2>1. spc' \in [Clients -> SenderLocations]
    <3>1. spc' = Set(spc, c, "take") /\ "take" \in SenderLocations
      BY DEF WakeSender, SGoto, SenderLocations
    <3> QED
      BY <3>1, SetTyped DEF Types, SenderTypes
  <2>2. busy' \in [Clients -> BOOLEAN]
    <3>1. busy' = Set(busy, c, TRUE) /\ TRUE \in BOOLEAN
      BY DEF WakeSender, SGoto
    <3> QED
      BY <3>1, SetTyped DEF Types, SenderTypes
  <2>3. newUpdates' \in [Clients -> BOOLEAN]
    <3>1. newUpdates' = Set(newUpdates, c, FALSE) /\ FALSE \in BOOLEAN
      BY DEF WakeSender, SGoto
    <3> QED
      BY <3>1, SetTyped DEF Types, SenderTypes
  <2> QED
    BY <2>1, <2>2, <2>3 DEF WakeSender, Types, SenderTypes, IsClipped
<1> QED
  BY <1>1, <1>2 DEF Types

LEMMA ExtractReqRegionsTypes ==
  ASSUME Types, NEW c \in Clients, ExtractReqRegions(c)
  PROVE  Types'
<1>1. ScreenTypes' /\ HandlerTypes' /\ DesktopTypes' /\ KeptTypes' /\ ReaderTypes' /\ ViewerTypes'
  BY ScreenStays, HandlerStays, DesktopStays, KeptStays, ReadersStay, ViewersStay DEF Types,
     ExtractReqRegions
<1>2. RequestTypes'
  <2>1. reqIncr' \in [Clients -> SUBSET Tiles]
    <3>1. reqIncr' = Set(reqIncr, c, {}) /\ {} \in SUBSET Tiles
      BY DEF ExtractReqRegions, SGoto
    <3> QED
      BY <3>1, SetTyped DEF Types, RequestTypes
  <2>2. reqFull' \in [Clients -> SUBSET Tiles]
    <3>1. reqFull' = Set(reqFull, c, {}) /\ {} \in SUBSET Tiles
      BY DEF ExtractReqRegions, SGoto
    <3> QED
      BY <3>1, SetTyped DEF Types, RequestTypes
  <2>3. incrUpdIsReq' \in [Clients -> BOOLEAN]
    <3>1. incrUpdIsReq' = Set(incrUpdIsReq, c, FALSE) /\ FALSE \in BOOLEAN
      BY DEF ExtractReqRegions, SGoto
    <3> QED
      BY <3>1, SetTyped DEF Types, RequestTypes
  <2>4. fullUpdIsReq' \in [Clients -> BOOLEAN]
    <3>1. fullUpdIsReq' = Set(fullUpdIsReq, c, FALSE) /\ FALSE \in BOOLEAN
      BY DEF ExtractReqRegions, SGoto
    <3> QED
      BY <3>1, SetTyped DEF Types, RequestTypes
  <2> QED
    BY <2>1, <2>2, <2>3, <2>4 DEF ExtractReqRegions, Types, RequestTypes
<1>3. SenderTypes'
  <2> DEFINE r == [incr |-> reqIncr[c], full |-> reqFull[c],
                   incrIsReq |-> incrUpdIsReq[c], fullIsReq |-> fullUpdIsReq[c]]
  <2>1. taken' = Set(taken, c, r)
    BY DEF ExtractReqRegions
  <2>2. r \in Requests
    BY DEF Requests, Types, RequestTypes
  <2> HIDE DEF r
  <2>3. taken' \in [Clients -> Requests]
    BY <2>1, <2>2, SetTyped DEF Types, SenderTypes
  <2> DEFINE l == IF incrUpdIsReq[c] \/ fullUpdIsReq[c] THEN "extract" ELSE "finish"
  <2>4. spc' = Set(spc, c, l) /\ l \in SenderLocations
    BY DEF ExtractReqRegions, SGoto, SenderLocations
  <2> HIDE DEF l
  <2>5. spc' \in [Clients -> SenderLocations]
    BY <2>4, SetTyped DEF Types, SenderTypes
  <2> QED
    BY <2>1, <2>2, <2>3, <2>4, <2>5 DEF ExtractReqRegions, Types, SenderTypes, IsClipped
<1> QED
  BY <1>1, <1>2, <1>3 DEF Types

LEMMA ExtractUpdatesTypes ==
  ASSUME Types, NEW c \in Clients, ExtractUpdates(c)
  PROVE  Types'
<1>1. ScreenTypes' /\ HandlerTypes' /\ DesktopTypes' /\ RequestTypes' /\ ReaderTypes' /\ ViewerTypes'
  BY ScreenStays, HandlerStays, DesktopStays, RequestsStay, ReadersStay, ViewersStay DEF Types,
     ExtractUpdates
<1>2. KeptTypes'
  BY EmptyTypes, KeptTyped DEF ExtractUpdates, Types
<1>3. SenderTypes'
  <2>1. kept[c] \in UpdateContainer /\ IsClipped(kept[c])
    BY DEF Types, KeptTypes
  <2>2. cont' \in [Clients -> UpdateContainer] /\ \A d \in Clients : IsClipped(cont'[d])
    BY <2>1, ContTyped DEF ExtractUpdates, Types
  <2>3. spc' \in [Clients -> SenderLocations]
    <3>1. spc' = Set(spc, c, "refresh") /\ "refresh" \in SenderLocations
      BY DEF ExtractUpdates, SGoto, SenderLocations
    <3> QED
      BY <3>1, SetTyped DEF Types, SenderTypes
  <2> QED
    BY <2>1, <2>2, <2>3 DEF ExtractUpdates, Types, SenderTypes
<1> QED
  BY <1>1, <1>2, <1>3 DEF Types

LEMMA UpdateFrameBufferTypes ==
  ASSUME Types, NEW c \in Clients, UpdateFrameBuffer(c)
  PROVE  Types'
<1>1. ScreenTypes' /\ HandlerTypes' /\ DesktopTypes' /\ KeptTypes' /\ RequestTypes' /\ ReaderTypes' /\ ViewerTypes'
  BY ScreenStays, HandlerStays, DesktopStays, KeptStays, RequestsStay, ReadersStay,
     ViewersStay DEF Types, UpdateFrameBuffer
<1>2. SenderTypes'
  <2>1. cont[c] \in UpdateContainer /\ IsClipped(cont[c])
    BY DEF Types, SenderTypes
  <2>2. cont' \in [Clients -> UpdateContainer] /\ \A d \in Clients : IsClipped(cont'[d])
    <3>1. CASE cont' = cont
      BY <3>1 DEF Types, SenderTypes, IsClipped
    <3>2. CASE cont' = Set(cont, c, [cont[c] EXCEPT !.size = TRUE])
      BY <2>1, <3>2, KeeperFlags, ContTyped DEF Types
    <3> QED
      BY <3>1, <3>2 DEF UpdateFrameBuffer, Set
  <2>3. fb' \in [Clients -> [Tiles -> PixelValues]]
    <3> DEFINE region == cont[c].changed \union cont[c].copied \union reqFull[c]
               p == IF fbFormat[c] = format THEN PaintPixels(fb[c], region, backup)
                    ELSE [t \in Tiles |-> Blank]
    <3>1. fb[c] \in [Tiles -> PixelValues] /\ backup \in [Tiles -> PixelValues]
      BY DEF Types, SenderTypes, HandlerTypes
    <3> HIDE DEF region
    <3>2. p \in [Tiles -> PixelValues]
      BY <3>1, PixelsTyped, BlankTyped
    <3>3. fb' = Set(fb, c, p)
      BY DEF UpdateFrameBuffer, region
    <3> HIDE DEF p
    <3> QED
      BY <3>2, <3>3, SetTyped DEF Types, SenderTypes
  <2>4. fbFormat' \in [Clients -> {NoFormat} \union 0..MaxResizes]
    <3> DEFINE F == {NoFormat} \union 0..MaxResizes
    <3>1. fbFormat \in [Clients -> F] /\ format \in F
      BY DEF Types, SenderTypes, HandlerTypes
    <3> HIDE DEF F
    <3>2. fbFormat' = fbFormat \/ fbFormat' = Set(fbFormat, c, format)
      BY DEF UpdateFrameBuffer
    <3>3. fbFormat' \in [Clients -> F]
      BY <3>1, <3>2, SetTyped
    <3> QED
      BY <3>3 DEF F
  <2>5. spc' \in [Clients -> SenderLocations]
    <3>1. spc' = Set(spc, c, "prepare") /\ "prepare" \in SenderLocations
      BY DEF UpdateFrameBuffer, SGoto, SenderLocations
    <3> QED
      BY <3>1, SetTyped DEF Types, SenderTypes
  <2> QED
    BY <2>1, <2>2, <2>3, <2>4, <2>5 DEF UpdateFrameBuffer, Types, SenderTypes
<1> QED
  BY <1>1, <1>2 DEF Types

LEMMA PrepareNewScreenTypes ==
  ASSUME Types, NEW c \in Clients, PrepareNewScreen(c)
  PROVE  Types'
<1>1. ScreenTypes' /\ HandlerTypes' /\ DesktopTypes' /\ RequestTypes' /\ ReaderTypes' /\ ViewerTypes'
  BY ScreenStays, HandlerStays, DesktopStays, RequestsStay, ReadersStay, ViewersStay DEF Types,
     PrepareNewScreen
<1>2. KeptTypes'
  <2>1. kept[c] \in UpdateContainer /\ IsClipped(kept[c])
    BY DEF Types, KeptTypes
  <2>2. DazzleChangedReg(kept[c]) \in UpdateContainer /\ IsClipped(DazzleChangedReg(kept[c]))
    BY <2>1, AddChanged DEF DazzleChangedReg
  <2> QED
    BY <2>2, KeptTyped DEF PrepareNewScreen, Types
<1>3. SenderTypes'
  <2> DEFINE k == [EmptyContainer EXCEPT !.size = TRUE]
  <2>1. k \in UpdateContainer /\ IsClipped(k)
    BY EmptyTypes, KeeperFlags
  <2>2. cont' = Set(cont, c, k)
    BY DEF PrepareNewScreen
  <2> HIDE DEF k
  <2>3. cont' \in [Clients -> UpdateContainer] /\ \A d \in Clients : IsClipped(cont'[d])
    BY <2>1, <2>2, ContTyped DEF Types
  <2>4. spc' \in [Clients -> SenderLocations]
    <3>1. spc' = Set(spc, c, "flush") /\ "flush" \in SenderLocations
      BY DEF PrepareNewScreen, SGoto, SenderLocations
    <3> QED
      BY <3>1, SetTyped DEF Types, SenderTypes
  <2> QED
    BY <2>1, <2>2, <2>3, <2>4 DEF PrepareNewScreen, Types, SenderTypes
<1> QED
  BY <1>1, <1>2, <1>3 DEF Types

\* Cropping loses nothing unless there is a copy.
LEMMA CropDoes ==
  ASSUME NEW u \in UpdateContainer, IsClipped(u), NEW requested
  PROVE  LET crop == CropToRequest(u, requested) IN
         /\ crop.sent \in UpdateContainer /\ IsClipped(crop.sent)
         /\ crop.sent.size = u.size
         /\ u.copied = {} => crop.sent.copied = {} /\ Holds(u) \subseteq Holds(crop.sent) \union crop.back
<1> DEFINE inscribed == u.copied \union Translate(u.copied, -u.delta) \subseteq requested
           changed == IF inscribed THEN u.changed ELSE u.changed \union u.copied
           copied == IF inscribed THEN u.copied ELSE {}
           delta == IF inscribed THEN u.delta ELSE 0
           sent == CropToRequest(u, requested).sent
<1>1. /\ u.changed \in SUBSET Tiles /\ u.copied \in SUBSET Tiles /\ u.delta \in Int
      /\ u.size \in BOOLEAN /\ u.cursor \in BOOLEAN
  BY DEF UpdateContainer
<1>2. /\ sent = [u EXCEPT !.changed = changed \intersect requested, !.copied = copied, !.delta = delta]
      /\ CropToRequest(u, requested).back = u.changed \ requested
  BY DEF CropToRequest
<1>3. /\ changed \intersect requested \in SUBSET Tiles /\ copied \in SUBSET Tiles /\ delta \in Int
      /\ \A t \in copied : t \in u.copied /\ delta = u.delta
      /\ u.copied = {} => changed = u.changed /\ copied = {}
  BY <1>1
<1> HIDE DEF changed, copied, delta, sent
<1>4. sent = [changed |-> changed \intersect requested, copied |-> copied, delta |-> delta,
              size |-> u.size, cursor |-> u.cursor]
  BY <1>2 DEF UpdateContainer
<1>5. sent \in UpdateContainer /\ IsClipped(sent) /\ sent.size = u.size
  BY <1>1, <1>3, <1>4 DEF UpdateContainer, IsClipped
<1>6. u.copied = {} => sent.copied = {} /\ Holds(u) \subseteq Holds(sent) \union (u.changed \ requested)
  BY <1>3, <1>4 DEF Holds
<1> QED
  BY <1>2, <1>5, <1>6 DEF sent

\* A container with another changed region and another cursor.
LEMMA NewCursor ==
  ASSUME NEW k \in UpdateContainer, NEW region, NEW cursor
  PROVE  [k EXCEPT !.changed = region, !.cursor = cursor] =
           [changed |-> region, copied |-> k.copied, delta |-> k.delta,
            size |-> k.size, cursor |-> cursor]
<1>1. PICK m : m = [k EXCEPT !.changed = region]
  OBVIOUS
<1>2. m = [changed |-> region, copied |-> k.copied, delta |-> k.delta, size |-> k.size, cursor |-> k.cursor]
  BY <1>1 DEF UpdateContainer
<1>3. [k EXCEPT !.changed = region, !.cursor = cursor] = [m EXCEPT !.cursor = cursor]
  BY <1>1 DEF UpdateContainer
<1> QED
  BY <1>2, <1>3

\* What a client's sender holds after it has prepared an update: for a viewer
\* that knows no CopyRect, everything is sent or goes back to the keeper.
LEMMA PrepareDoes ==
  ASSUME Types, NEW c \in Clients, PrepareUpdate(c)
  PROVE  \E k \in UpdateContainer, r \in UpdateContainer :
           /\ IsClipped(k) /\ IsClipped(r)
           /\ cont' = Set(cont, c, k) /\ kept' = Set(kept, c, r)
           /\ k.size = cont[c].size
           /\ Holds(kept[c]) \subseteq Holds(r)
           /\ c \notin CopyRectClients => k.copied = {} /\ Holds(cont[c]) \subseteq Holds(k) \union Holds(r)
<1> DEFINE u == cont[c]
           plain == IF c \in CopyRectClients THEN u
                    ELSE [u EXCEPT !.changed = @ \union u.copied, !.copied = {}, !.delta = 0]
           whole == [plain EXCEPT !.changed = plain.changed \union taken[c].full]
           cropped == CropToRequest(whole, taken[c].incr \union taken[c].full)
           r == AddChangedRegion(kept[c], cropped.back)
<1>1. u \in UpdateContainer /\ IsClipped(u) /\ kept[c] \in UpdateContainer /\ IsClipped(kept[c])
      /\ taken[c].full \in SUBSET Tiles
  BY DEF Types, SenderTypes, KeptTypes, Requests
<1>2. PICK cursor \in BOOLEAN, lossless \in SUBSET Tiles :
        cont' = Set(cont, c, [cropped.sent EXCEPT !.changed = cropped.sent.changed \union lossless,
                                                  !.cursor = cursor])
  BY DEF PrepareUpdate
<1>3. kept' = Set(kept, c, r)
  BY DEF PrepareUpdate
<1> HIDE DEF u
<1>4. /\ plain \in UpdateContainer /\ IsClipped(plain) /\ plain.size = u.size
      /\ Holds(plain) = Holds(u) /\ plain.changed \in SUBSET Tiles
      /\ c \notin CopyRectClients => plain.copied = {}
  <2>1. CASE c \in CopyRectClients
    BY <1>1, <2>1 DEF UpdateContainer
  <2>2. CASE c \notin CopyRectClients
    <3>1. plain = [changed |-> u.changed \union u.copied, copied |-> {}, delta |-> 0,
                   size |-> u.size, cursor |-> u.cursor]
      BY <1>1, <2>2 DEF UpdateContainer
    <3>2. u.changed \in SUBSET Tiles /\ u.copied \in SUBSET Tiles /\ u.size \in BOOLEAN /\ u.cursor \in BOOLEAN
      BY <1>1 DEF UpdateContainer
    <3> HIDE DEF plain
    <3> QED
      BY <3>1, <3>2 DEF UpdateContainer, IsClipped, Holds
  <2> QED
    BY <2>1, <2>2
<1> HIDE DEF plain
<1> DEFINE region == plain.changed \union taken[c].full
<1>5. region \in SUBSET Tiles
  BY <1>1, <1>4
<1>6. /\ whole \in UpdateContainer /\ IsClipped(whole) /\ whole.size = u.size
      /\ whole.copied = plain.copied /\ Holds(whole) = region \union plain.copied
  BY <1>4, <1>5, NewChanged
<1>7. Holds(u) \subseteq Holds(whole)
  BY <1>4, <1>6 DEF Holds
<1> HIDE DEF whole, region
<1>8. /\ cropped.sent \in UpdateContainer /\ IsClipped(cropped.sent) /\ cropped.sent.size = u.size
      /\ c \notin CopyRectClients =>
           cropped.sent.copied = {} /\ Holds(u) \subseteq Holds(cropped.sent) \union cropped.back
  BY <1>4, <1>6, <1>7, CropDoes
<1>9. r \in UpdateContainer /\ IsClipped(r) /\ Holds(r) = Holds(kept[c]) \union (cropped.back \intersect Tiles)
  BY <1>1, AddChanged
<1>10. Holds(u) \subseteq Tiles
  BY <1>1 DEF UpdateContainer, Holds
<1> HIDE DEF cropped, r
<1> DEFINE k == [cropped.sent EXCEPT !.changed = cropped.sent.changed \union lossless, !.cursor = cursor]
<1>11. /\ k \in UpdateContainer /\ IsClipped(k) /\ k.size = cropped.sent.size
       /\ k.copied = cropped.sent.copied /\ Holds(cropped.sent) \subseteq Holds(k)
  <2> DEFINE sent == cropped.sent
             full == sent.changed \union lossless
  <2>1. /\ sent \in UpdateContainer /\ IsClipped(sent) /\ full \in SUBSET Tiles
        /\ sent.copied \in SUBSET Tiles /\ sent.delta \in Int /\ sent.size \in BOOLEAN
    BY <1>8 DEF UpdateContainer
  <2>2. sent.changed \subseteq full
    OBVIOUS
  <2> HIDE DEF sent, full
  <2>3. [sent EXCEPT !.changed = full, !.cursor = cursor] =
          [changed |-> full, copied |-> sent.copied, delta |-> sent.delta,
           size |-> sent.size, cursor |-> cursor]
    BY <2>1, NewCursor
  <2>4. k = [changed |-> full, copied |-> sent.copied, delta |-> sent.delta,
             size |-> sent.size, cursor |-> cursor]
    BY <2>3 DEF sent, full
  <2> HIDE DEF k
  <2>5. k \in UpdateContainer
    BY <2>1, <2>4, ContainerTypes
  <2>6. IsClipped(k) /\ k.size = sent.size /\ k.copied = sent.copied /\ Holds(sent) \subseteq Holds(k)
    BY <2>1, <2>2, <2>4 DEF IsClipped, Holds
  <2> QED
    BY <2>5, <2>6 DEF sent
<1> HIDE DEF k
<1>12. cont' = Set(cont, c, k)
  BY <1>2 DEF k
<1>13. c \notin CopyRectClients => k.copied = {} /\ Holds(u) \subseteq Holds(k) \union Holds(r)
  BY <1>8, <1>9, <1>10, <1>11
<1> QED
  BY <1>3, <1>8, <1>9, <1>11, <1>12, <1>13 DEF u

LEMMA PrepareUpdateTypes ==
  ASSUME Types, NEW c \in Clients, PrepareUpdate(c)
  PROVE  Types'
<1>1. ScreenTypes' /\ HandlerTypes' /\ DesktopTypes' /\ RequestTypes' /\ ReaderTypes' /\ ViewerTypes'
  BY ScreenStays, HandlerStays, DesktopStays, RequestsStay, ReadersStay, ViewersStay DEF Types,
     PrepareUpdate
<1>2. KeptTypes'
  BY PrepareDoes, KeptTyped DEF Types
<1>3. SenderTypes'
  <2>1. cont' \in [Clients -> UpdateContainer] /\ \A d \in Clients : IsClipped(cont'[d])
    BY PrepareDoes, ContTyped DEF Types
  <2>2. spc' \in [Clients -> SenderLocations]
    <3>1. spc' = Set(spc, c, "flush") /\ "flush" \in SenderLocations
      BY DEF PrepareUpdate, SGoto, SenderLocations
    <3> QED
      BY <3>1, SetTyped DEF Types, SenderTypes
  <2> QED
    BY <2>1, <2>2 DEF PrepareUpdate, Types, SenderTypes
<1> QED
  BY <1>1, <1>2, <1>3 DEF Types

LEMMA FlushTypes ==
  ASSUME Types, RequestInv, NEW c \in Clients, Flush(c)
  PROVE  Types'
<1>1. ScreenTypes' /\ HandlerTypes' /\ DesktopTypes' /\ KeptTypes' /\ RequestTypes' /\ ReaderTypes'
  BY ScreenStays, HandlerStays, DesktopStays, KeptStays, RequestsStay, ReadersStay DEF Types, Flush
<1>2. SenderTypes'
  <2>1. cont' \in [Clients -> UpdateContainer] /\ \A d \in Clients : IsClipped(cont'[d])
    BY EmptyTypes, ContTyped DEF Flush, Types
  <2>2. spc' \in [Clients -> SenderLocations]
    <3>1. spc' = Set(spc, c, "finish") /\ "finish" \in SenderLocations
      BY DEF Flush, SGoto, SenderLocations
    <3> QED
      BY <3>1, SetTyped DEF Types, SenderTypes
  <2>3. taken' \in [Clients -> Requests]
    <3>1. taken' = Set(taken, c, NoRequest) /\ NoRequest \in Requests
      BY NoRequestTyped DEF Flush, SGoto
    <3> QED
      BY <3>1, SetTyped DEF Types, SenderTypes
  <2> QED
    BY <2>1, <2>2, <2>3 DEF Flush, Types, SenderTypes
<1>3. ViewerTypes'
  <2> DEFINE p == IF cont[c].size
                    THEN IF c \in DesktopSizeClients THEN [t \in Tiles |-> Blank] ELSE fb[c]
                    ELSE PaintPixels(CopyPixels(viewer[c], cont[c].copied, cont[c].delta),
                                     cont[c].changed, fb[c])
  <2>1. viewer[c] \in [Tiles -> PixelValues] /\ fb[c] \in [Tiles -> PixelValues]
    BY DEF Types, ViewerTypes, SenderTypes
  <2>2. p \in [Tiles -> PixelValues]
    BY <2>1, PixelsTyped, BlankTyped
  <2>3. viewer' = Set(viewer, c, p)
    BY DEF Flush
  <2> HIDE DEF p
  <2>4. viewer' \in [Clients -> [Tiles -> PixelValues]]
    BY <2>2, <2>3, SetTyped DEF Types, ViewerTypes
  <2>5. credit[c] \in 0..MaxOutstanding /\ credit[c] >= 1
    <3>1. spc[c] \in Sending
      BY DEF Flush, SGoto, Sending
    <3> QED
      BY <3>1 DEF RequestInv, Types, ViewerTypes
  <2>6. credit[c] - 1 \in 0..MaxOutstanding
    BY <2>5, Bounds
  <2>7. credit' = Set(credit, c, credit[c] - 1)
    BY DEF Flush
  <2>8. credit' \in [Clients -> 0..MaxOutstanding]
    BY <2>6, <2>7 DEF Types, ViewerTypes, Set
  <2> QED
    BY <2>4, <2>8 DEF ViewerTypes
<1> QED
  BY <1>1, <1>2, <1>3 DEF Types

LEMMA RestoreRequestsTypes ==
  ASSUME Types, NEW c \in Clients, RestoreRequests(c)
  PROVE  Types'
<1>1. ScreenTypes' /\ HandlerTypes' /\ DesktopTypes' /\ KeptTypes' /\ ReaderTypes' /\ ViewerTypes'
  BY ScreenStays, HandlerStays, DesktopStays, KeptStays, ReadersStay, ViewersStay DEF Types,
     RestoreRequests
<1>2. RequestTypes'
  <2>1. /\ reqFull[c] \union taken[c].full \in SUBSET Tiles
        /\ reqIncr[c] \union taken[c].incr \in SUBSET Tiles
        /\ taken[c].incrIsReq \in BOOLEAN /\ taken[c].fullIsReq \in BOOLEAN
    BY DEF Types, RequestTypes, SenderTypes, Requests
  <2>2. reqFull' \in [Clients -> SUBSET Tiles]
    <3>1. reqFull' = Set(reqFull, c, reqFull[c] \union taken[c].full) /\ reqFull[c] \union taken[c].full \in SUBSET Tiles
      BY <2>1 DEF RestoreRequests, SGoto
    <3> QED
      BY <3>1, SetTyped DEF Types, RequestTypes
  <2>3. reqIncr' \in [Clients -> SUBSET Tiles]
    <3>1. reqIncr' = Set(reqIncr, c, reqIncr[c] \union taken[c].incr) /\ reqIncr[c] \union taken[c].incr \in SUBSET Tiles
      BY <2>1 DEF RestoreRequests, SGoto
    <3> QED
      BY <3>1, SetTyped DEF Types, RequestTypes
  <2>4. incrUpdIsReq' \in [Clients -> BOOLEAN]
    <3>1. incrUpdIsReq' = Set(incrUpdIsReq, c, taken[c].incrIsReq) /\ taken[c].incrIsReq \in BOOLEAN
      BY <2>1 DEF RestoreRequests, SGoto
    <3> QED
      BY <3>1, SetTyped DEF Types, RequestTypes
  <2>5. fullUpdIsReq' \in [Clients -> BOOLEAN]
    <3>1. fullUpdIsReq' = Set(fullUpdIsReq, c, taken[c].fullIsReq) /\ taken[c].fullIsReq \in BOOLEAN
      BY <2>1 DEF RestoreRequests, SGoto
    <3> QED
      BY <3>1, SetTyped DEF Types, RequestTypes
  <2> QED
    BY <2>1, <2>2, <2>3, <2>4, <2>5 DEF RestoreRequests, Types, RequestTypes
<1>3. SenderTypes'
  <2>1. spc' \in [Clients -> SenderLocations]
    <3>1. spc' = Set(spc, c, "finish") /\ "finish" \in SenderLocations
      BY DEF RestoreRequests, SGoto, SenderLocations
    <3> QED
      BY <3>1, SetTyped DEF Types, SenderTypes
  <2>2. taken' \in [Clients -> Requests]
    <3>1. taken' = Set(taken, c, NoRequest) /\ NoRequest \in Requests
      BY NoRequestTyped DEF RestoreRequests, SGoto
    <3> QED
      BY <3>1, SetTyped DEF Types, SenderTypes
  <2> QED
    BY <2>1, <2>2 DEF RestoreRequests, Types, SenderTypes, IsClipped
<1> QED
  BY <1>1, <1>2, <1>3 DEF Types

LEMMA FinishSendingTypes ==
  ASSUME Types, NEW c \in Clients, FinishSending(c)
  PROVE  Types'
<1>1. ScreenTypes' /\ HandlerTypes' /\ DesktopTypes' /\ KeptTypes' /\ RequestTypes' /\ ReaderTypes' /\ ViewerTypes'
  BY ScreenStays, HandlerStays, DesktopStays, KeptStays, RequestsStay, ReadersStay,
     ViewersStay DEF Types, FinishSending
<1>2. SenderTypes'
  <2>1. spc' \in [Clients -> SenderLocations]
    <3>1. spc' = Set(spc, c, "wait") /\ "wait" \in SenderLocations
      BY DEF FinishSending, SGoto, SenderLocations
    <3> QED
      BY <3>1, SetTyped DEF Types, SenderTypes
  <2>2. busy' \in [Clients -> BOOLEAN]
    <3>1. busy' = Set(busy, c, FALSE) /\ FALSE \in BOOLEAN
      BY DEF FinishSending, SGoto
    <3> QED
      BY <3>1, SetTyped DEF Types, SenderTypes
  <2>3. taken' \in [Clients -> Requests]
    <3>1. taken' = Set(taken, c, NoRequest) /\ NoRequest \in Requests
      BY NoRequestTyped DEF FinishSending, SGoto
    <3> QED
      BY <3>1, SetTyped DEF Types, SenderTypes
  <2> QED
    BY <2>1, <2>2, <2>3 DEF FinishSending, Types, SenderTypes, IsClipped
<1> QED
  BY <1>1, <1>2 DEF Types

LEMMA SenderFailsTypes ==
  ASSUME Types, NEW c \in Clients, SenderFails(c)
  PROVE  Types'
<1>1. ScreenTypes' /\ HandlerTypes' /\ DesktopTypes' /\ KeptTypes' /\ RequestTypes' /\ ReaderTypes' /\ ViewerTypes'
  BY ScreenStays, HandlerStays, DesktopStays, KeptStays, RequestsStay, ReadersStay,
     ViewersStay DEF Types, SenderFails
<1>2. SenderTypes'
  <2>1. cont' \in [Clients -> UpdateContainer] /\ \A d \in Clients : IsClipped(cont'[d])
    BY EmptyTypes, ContTyped DEF SenderFails, Types
  <2>2. spc' \in [Clients -> SenderLocations]
    <3>1. spc' = Set(spc, c, "dead") /\ "dead" \in SenderLocations
      BY DEF SenderFails, SGoto, SenderLocations
    <3> QED
      BY <3>1, SetTyped DEF Types, SenderTypes
  <2>3. taken' \in [Clients -> Requests]
    <3>1. taken' = Set(taken, c, NoRequest) /\ NoRequest \in Requests
      BY NoRequestTyped DEF SenderFails, SGoto
    <3> QED
      BY <3>1, SetTyped DEF Types, SenderTypes
  <2> QED
    BY <2>1, <2>2, <2>3 DEF SenderFails, Types, SenderTypes
<1> QED
  BY <1>1, <1>2 DEF Types

LEMMA TypeStep ==
  ASSUME TypeOK, RequestInv, [Next]_vars
  PROVE  TypeOK'
<1> SUFFICES ASSUME Types PROVE Types'
  BY TypesAre
<1>1. CASE Screen
  BY <1>1, DrawTypes, MoveWindowTypes, ResizeTypes, DetectCursorTypes DEF Screen
<1>2. CASE Detectors
  BY <1>2, PollTypes, OnUpdateTypes DEF Detectors
<1>3. CASE DesktopThread
  BY <1>3, WakeDesktopTypes, AskClientTypes, IsReadyToSendTypes, ExtractFromHandlerTypes,
     FilterUpdatesTypes, ApplyNewScreenTypes, NewScreenFailsTypes, DecideToSendTypes,
     GiveUpdatesTypes,
     NotifySenderTypes, ClearTypes DEF DesktopThread
<1>4. ASSUME NEW c \in Clients, Viewer(c) PROVE Types'
  BY <1>4, ReadUpdateRequestTypes DEF Viewer
<1>5. ASSUME NEW c \in Clients, Reader(c) PROVE Types'
  BY <1>5, CheckTypes, OnUpdateRequestTypes DEF Reader
<1>6. ASSUME NEW c \in Clients, Sender(c) PROVE Types'
  BY <1>6, WakeSenderTypes, ExtractReqRegionsTypes, ExtractUpdatesTypes, UpdateFrameBufferTypes,
     PrepareNewScreenTypes, PrepareUpdateTypes, FlushTypes, RestoreRequestsTypes,
     FinishSendingTypes DEF Sender
<1>7. ASSUME NEW c \in Clients, SenderFails(c) PROVE Types'
  BY <1>7, SenderFailsTypes
<1>8. CASE UNCHANGED vars
  BY <1>8, ScreenStays, HandlerStays, DesktopStays, KeptStays, RequestsStay, SendersStay,
     ReadersStay, ViewersStay DEF vars, Types
<1> QED
  BY <1>1, <1>2, <1>3, <1>4, <1>5, <1>6, <1>7, <1>8 DEF Next

-----------------------------------------------------------------------------
(* Requests and their flags                                                *)

LEMMA RequestsStand ==
  ASSUME RequestInv, UNCHANGED <<requestVars, spc, taken, credit>>
  PROVE  RequestInv'
BY DEF RequestInv, Flagged, requestVars

LEMMA ReadUpdateRequestFlags ==
  ASSUME Types, RequestInv, NEW c \in Clients, NEW region \in Regions, NEW incremental \in Kinds,
         ReadUpdateRequest(c, region, incremental)
  PROVE  RequestInv'
<1>1. /\ spc' = spc /\ taken' = taken
      /\ credit'[c] = credit[c] + 1 /\ \A d \in Clients : d # c => credit'[d] = credit[d]
      /\ Flagged(c)' /\ \A d \in Clients : d # c => (Flagged(d)' <=> Flagged(d))
      /\ \A d \in Clients : d # c => reqIncr'[d] = reqIncr[d] /\ reqFull'[d] = reqFull[d]
  <2>1. spc' = spc /\ taken' = taken
    BY DEF ReadUpdateRequest, senderVars
  <2>2. credit'[c] = credit[c] + 1 /\ \A d \in Clients : d # c => credit'[d] = credit[d]
    BY DEF ReadUpdateRequest, Set, Types, ViewerTypes
  <2>3. CASE incremental
    BY <2>1, <2>2, <2>3 DEF ReadUpdateRequest, Set, Flagged, Types, RequestTypes
  <2>4. CASE ~incremental
    BY <2>1, <2>2, <2>4 DEF ReadUpdateRequest, Set, Flagged, Types, RequestTypes
  <2> QED
    BY <2>3, <2>4
<1>2. \A d \in Clients : credit[d] \in Int
  BY Bounds DEF Types, ViewerTypes
<1> QED
  BY <1>1, <1>2 DEF RequestInv

LEMMA WakeSenderFlags ==
  ASSUME Types, RequestInv, NEW c \in Clients, WakeSender(c)
  PROVE  RequestInv'
BY DEF WakeSender, RequestInv, Flagged, Sending, Set, SGoto, Types, RequestTypes,
       SenderTypes, ViewerTypes, Requests, requestVars, viewerVars

LEMMA ExtractReqRegionsFlags ==
  ASSUME Types, RequestInv, NEW c \in Clients, ExtractReqRegions(c)
  PROVE  RequestInv'
BY DEF ExtractReqRegions, RequestInv, Flagged, Sending, Set, SGoto, Types, RequestTypes,
       SenderTypes, ViewerTypes, Requests, requestVars, viewerVars

LEMMA ExtractUpdatesFlags ==
  ASSUME Types, RequestInv, NEW c \in Clients, ExtractUpdates(c)
  PROVE  RequestInv'
BY DEF ExtractUpdates, RequestInv, Flagged, Sending, Set, SGoto, Types, RequestTypes,
       SenderTypes, ViewerTypes, Requests, requestVars, viewerVars

LEMMA UpdateFrameBufferFlags ==
  ASSUME Types, RequestInv, NEW c \in Clients, UpdateFrameBuffer(c)
  PROVE  RequestInv'
BY DEF UpdateFrameBuffer, RequestInv, Flagged, Sending, Set, SGoto, Types, RequestTypes,
       SenderTypes, ViewerTypes, Requests, requestVars, viewerVars

LEMMA PrepareNewScreenFlags ==
  ASSUME Types, RequestInv, NEW c \in Clients, PrepareNewScreen(c)
  PROVE  RequestInv'
BY DEF PrepareNewScreen, RequestInv, Flagged, Sending, Set, SGoto, Types, RequestTypes,
       SenderTypes, ViewerTypes, Requests, requestVars, viewerVars

LEMMA PrepareUpdateFlags ==
  ASSUME Types, RequestInv, NEW c \in Clients, PrepareUpdate(c)
  PROVE  RequestInv'
BY DEF PrepareUpdate, RequestInv, Flagged, Sending, Set, SGoto, Types, RequestTypes,
       SenderTypes, ViewerTypes, Requests, requestVars, viewerVars

LEMMA FlushFlags ==
  ASSUME Types, RequestInv, NEW c \in Clients, Flush(c)
  PROVE  RequestInv'
BY DEF Flush, RequestInv, Flagged, Sending, Set, SGoto, Types, RequestTypes,
       SenderTypes, ViewerTypes, Requests, requestVars, viewerVars

LEMMA RestoreRequestsFlags ==
  ASSUME Types, RequestInv, NEW c \in Clients, RestoreRequests(c)
  PROVE  RequestInv'
BY DEF RestoreRequests, RequestInv, Flagged, Sending, Set, SGoto, Types, RequestTypes,
       SenderTypes, ViewerTypes, Requests, requestVars, viewerVars

LEMMA FinishSendingFlags ==
  ASSUME Types, RequestInv, NEW c \in Clients, FinishSending(c)
  PROVE  RequestInv'
BY DEF FinishSending, RequestInv, Flagged, Sending, Set, SGoto, Types, RequestTypes,
       SenderTypes, ViewerTypes, Requests, requestVars, viewerVars

LEMMA SenderFailsFlags ==
  ASSUME Types, RequestInv, NEW c \in Clients, SenderFails(c)
  PROVE  RequestInv'
BY DEF SenderFails, RequestInv, Flagged, Sending, Set, SGoto, Types, RequestTypes,
       SenderTypes, ViewerTypes, Requests, requestVars, viewerVars

LEMMA RequestStep ==
  ASSUME TypeOK, RequestInv, [Next]_vars
  PROVE  RequestInv'
<1>0. Types
  BY TypesAre
<1>1. CASE Screen
  <2>1. UNCHANGED <<requestVars, senderVars, viewerVars>>
    BY <1>1 DEF Screen, Draw, MoveWindow, ResizeScreen, DetectCursor
  <2> QED
    BY <2>1, RequestsStand DEF senderVars, viewerVars
<1>2. CASE Detectors
  <2>1. UNCHANGED <<requestVars, senderVars, viewerVars>>
    BY <1>2 DEF Detectors, Poll, OnUpdate
  <2> QED
    BY <2>1, RequestsStand DEF senderVars, viewerVars
<1>3. CASE DesktopThread
  <2>1. UNCHANGED <<requestVars, spc, taken, viewerVars>>
    BY <1>3 DEF DesktopThread, WakeDesktop, AskClient, IsReadyToSend, ExtractFromHandler,
       FilterUpdates, ApplyNewScreenProperties, NewScreenFails, DecideToSend, GiveUpdates,
       NotifySender,
       ClearFullReqRegion, senderVars
  <2> QED
    BY <2>1, RequestsStand DEF viewerVars
<1>4. ASSUME NEW c \in Clients, Viewer(c) PROVE RequestInv'
  BY <1>0, <1>4, ReadUpdateRequestFlags DEF Viewer
<1>5. ASSUME NEW c \in Clients, Reader(c) PROVE RequestInv'
  <2>1. UNCHANGED <<requestVars, spc, taken, viewerVars>>
    BY <1>5 DEF Reader, CheckForKeptUpdates, OnUpdateRequest, senderVars
  <2> QED
    BY <2>1, RequestsStand DEF viewerVars
<1>6. ASSUME NEW c \in Clients, Sender(c) PROVE RequestInv'
  BY <1>0, <1>6, WakeSenderFlags, ExtractReqRegionsFlags, ExtractUpdatesFlags,
     UpdateFrameBufferFlags,
     PrepareNewScreenFlags, PrepareUpdateFlags, FlushFlags, RestoreRequestsFlags,
     FinishSendingFlags DEF Sender
<1>7. ASSUME NEW c \in Clients, SenderFails(c) PROVE RequestInv'
  BY <1>0, <1>7, SenderFailsFlags
<1>8. CASE UNCHANGED vars
  BY <1>8, RequestsStand DEF vars, senderVars, viewerVars
<1> QED
  BY <1>1, <1>2, <1>3, <1>4, <1>5, <1>6, <1>7, <1>8 DEF Next

LEMMA InitRequests == Init => RequestInv
BY DEF Init, RequestInv, Flagged, Sending

LEMMA RequestsHold == Spec => [](TypeOK /\ RequestInv)
<1>1. Init => TypeOK /\ RequestInv
  BY InitTypes, InitRequests
<1>2. TypeOK /\ RequestInv /\ [Next]_vars => (TypeOK /\ RequestInv)'
  BY TypeStep, RequestStep
<1> QED
  BY <1>1, <1>2, PTL DEF Spec

\* Every variable keeps its domain, and no copy ever reads from outside the
\* screen: AddCopyRect clips both ends (UpdateKeeper.cpp:57).
THEOREM UpdateTypes == Spec => []TypeOK
BY RequestsHold, PTL

\* Restoring what was extracted never leaves a requested region without a flag
\* (UpdateSender.cpp), although it overwrites the flags.
THEOREM RegionsStayFlagged == Spec => []RequestsAreFlagged
<1>1. RequestInv => RequestsAreFlagged
  BY DEF RequestInv, RequestsAreFlagged, Flagged
<1> QED
  BY <1>1, RequestsHold, PTL

\* A viewer never gets more updates than it has asked for.
THEOREM UpdatesAnswerRequests == Spec => []UpdatesAreDemanded
<1>1. TypeOK => UpdatesAreDemanded
  BY Bounds DEF TypeOK, UpdatesAreDemanded
<1> QED
  BY <1>1, RequestsHold, PTL

-----------------------------------------------------------------------------
(* No update is lost                                                       *)

\* What the desktop thread has still to give to a client.
Pending(c) ==
  IF dpc = "decide" \/ (dpc \in {"send", "notify"} /\ c \in toVisit) THEN Holds(update) ELSE {}
Owed(c) == Holds(kept[c]) \union Pending(c)

\* The sender's frame buffer has the screen's format, and is not to be sent whole.
Refreshed(c) == fbFormat[c] = format /\ ~(spc[c] = "prepare" /\ AnswersWithNewScreen(c))

\* A tile that the sender's buffer shows wrongly is owed to the client, or
\* about to be fetched.
BufferIsOwed(c) ==
  Refreshed(c) => \A t \in Tiles :
    fb[c][t] # backup[t] => t \in Owed(c) \/ (spc[c] = "refresh" /\ t \in Holds(cont[c]))

\* What is in the container, and what a new screen leaves to be sent.
ContainerIsRight(c) ==
  /\ spc[c] \notin {"refresh", "prepare", "flush"} => Holds(cont[c]) = {}
  /\ spc[c] = "flush" => cont[c].copied = {}
  /\ spc[c] = "flush" /\ AnswersWithNewScreen(c) => Holds(kept[c]) = Tiles

\* A tile that the viewer shows wrongly is on its way.
IsOnTheWay(c) ==
  spc[c] # "dead" =>
    \/ NewScreenComes(c)
    \/ \A t \in Tiles : viewer[c][t] # backup[t] => t \in OnTheWay(c)

ClientInv(c) == BufferIsOwed(c) /\ ContainerIsRight(c) /\ IsOnTheWay(c)

\* Formats only grow.
FormatsGrow == format <= screenFormat /\ \A c \in Clients : fbFormat[c] <= format

PixelInv == FormatsGrow /\ \A c \in Clients : ClientInv(c)

\* What a viewer is owed is owed to it until it is sent.
DebtStands(c) == Debt(c) \subseteq Debt(c)'
DebtsStand == \A c \in Clients : DebtStands(c)

\* What belongs to a client's sender and viewer.
Mine(c) == <<cont[c], fb[c], fbFormat[c], spc[c], taken[c], viewer[c]>>

\* A step that owes a client no less than before, and whatever changes in the
\* backup buffer, leaves its pixels right.
LEMMA ClientStands ==
  ASSUME NEW c, ClientInv(c), UNCHANGED Mine(c), UNCHANGED format,
         Holds(kept[c]) \subseteq Holds(kept[c])', Holds(kept[c])' \subseteq Tiles,
         Owed(c) \subseteq Owed(c)',
         \A t \in Tiles : backup'[t] # backup[t] => t \in Owed(c)'
  PROVE  ClientInv(c)' /\ DebtStands(c)
<1>1. /\ cont'[c] = cont[c] /\ fb'[c] = fb[c] /\ fbFormat'[c] = fbFormat[c] /\ spc'[c] = spc[c]
      /\ taken'[c] = taken[c] /\ viewer'[c] = viewer[c] /\ format' = format
  BY DEF Mine
<1>2. AnswersWithNewScreen(c)' <=> AnswersWithNewScreen(c)
  BY <1>1 DEF AnswersWithNewScreen
<1>3. Holds(cont[c])' = Holds(cont[c])
  BY <1>1 DEF Holds
<1>4. BufferIsOwed(c)'
  <2> SUFFICES ASSUME Refreshed(c)', NEW t \in Tiles, fb'[c][t] # backup'[t]
               PROVE  t \in Owed(c)' \/ (spc'[c] = "refresh" /\ t \in Holds(cont[c])')
    BY DEF BufferIsOwed
  <2>1. Refreshed(c)
    BY <1>1, <1>2 DEF Refreshed
  <2>2. CASE backup'[t] # backup[t]
    BY <2>2
  <2>3. CASE backup'[t] = backup[t]
    BY <1>1, <1>3, <2>1, <2>3 DEF ClientInv, BufferIsOwed
  <2> QED
    BY <2>2, <2>3
<1>5. ContainerIsRight(c)'
  <2>1. ContainerIsRight(c)
    BY DEF ClientInv
  <2> QED
    BY <1>1, <1>2, <1>3, <2>1 DEF ContainerIsRight
<1>6. IsOnTheWay(c)' /\ DebtStands(c)
  <2>1. NewScreenComes(c)' <=> NewScreenComes(c)
    BY <1>1, <1>2 DEF NewScreenComes
  <2>2. OnTheWay(c) = Owed(c) \union Holds(cont[c]) /\ OnTheWay(c)' = Owed(c)' \union Holds(cont[c])'
    BY DEF OnTheWay, Owed, Pending
  <2>5. DebtStands(c)
    BY <1>1, <1>3, <2>1, <2>2 DEF DebtStands, Debt
  <2> SUFFICES ASSUME spc'[c] # "dead", ~NewScreenComes(c)', NEW t \in Tiles, viewer'[c][t] # backup'[t]
               PROVE  t \in OnTheWay(c)'
    BY <2>5 DEF IsOnTheWay
  <2>3. CASE backup'[t] # backup[t]
    BY <2>2, <2>3
  <2>4. CASE backup'[t] = backup[t]
    BY <1>1, <1>3, <2>1, <2>2, <2>4 DEF ClientInv, IsOnTheWay
  <2> QED
    BY <2>3, <2>4
<1> QED
  BY <1>4, <1>5, <1>6 DEF ClientInv

LEMMA HoldsTiles ==
  ASSUME NEW k \in UpdateContainer
  PROVE  Holds(k) \subseteq Tiles
BY DEF Holds, UpdateContainer

LEMMA DebtTyped ==
  ASSUME Types, NEW c \in Clients
  PROVE  Debt(c) \subseteq Tiles
<1>1. Holds(kept[c]) \subseteq Tiles /\ Holds(cont[c]) \subseteq Tiles /\ Holds(update) \subseteq Tiles
  BY HoldsTiles DEF Types, KeptTypes, SenderTypes, DesktopTypes
<1> QED
  BY <1>1 DEF Debt, OnTheWay

LEMMA DebtTypedNext ==
  ASSUME Types', NEW c \in Clients
  PROVE  Debt(c)' \subseteq Tiles
<1>1. Holds(kept[c])' \subseteq Tiles /\ Holds(cont[c])' \subseteq Tiles /\ Holds(update)' \subseteq Tiles
  BY HoldsTiles DEF Types, KeptTypes, SenderTypes, DesktopTypes, Holds, UpdateContainer
<1> QED
  BY <1>1 DEF Debt, OnTheWay

\* A step that touches nothing of a client.
LEMMA ClientUntouched ==
  ASSUME Types, NEW c \in Clients, ClientInv(c), UNCHANGED Mine(c),
         UNCHANGED <<format, backup, dpc, toVisit, update>>, kept'[c] = kept[c]
  PROVE  ClientInv(c)' /\ Debt(c)' = Debt(c)
<1>1. Holds(kept[c])' = Holds(kept[c]) /\ Pending(c)' = Pending(c) /\ Owed(c)' = Owed(c)
  BY DEF Owed, Pending, Holds
<1>2. Holds(kept[c]) \subseteq Tiles
  BY HoldsTiles DEF Types, KeptTypes
<1>3. Debt(c)' = Debt(c)
  BY <1>1 DEF Mine, Debt, NewScreenComes, AnswersWithNewScreen, OnTheWay, Holds
<1> QED
  BY <1>1, <1>2, <1>3, ClientStands

\* A step of the screen, of a detector, or of the desktop thread between two
\* changes of the buffer.
LEMMA PixelsStand ==
  ASSUME Types, PixelInv, UNCHANGED <<cont, fb, fbFormat, spc, taken, viewer, format, backup,
  kept>>,
         screenFormat' \in {screenFormat, screenFormat + 1}, \A c \in Clients : Pending(c) \subseteq Pending(c)'
  PROVE  PixelInv' /\ DebtsStand
<1>1. ASSUME NEW c \in Clients PROVE ClientInv(c)' /\ DebtStands(c)
  <2>1. ClientInv(c)
    BY DEF PixelInv
  <2>2. UNCHANGED Mine(c)
    BY DEF Mine
  <2>3. Holds(kept[c])' = Holds(kept[c]) /\ Holds(kept[c]) \subseteq Tiles
    BY HoldsTiles DEF Types, KeptTypes, Holds
  <2>4. Pending(c) \subseteq Pending(c)'
    OBVIOUS
  <2>5. Owed(c) \subseteq Owed(c)'
    BY <2>3, <2>4 DEF Owed
  <2>6. format' = format /\ backup' = backup
    OBVIOUS
  <2> QED
    BY <2>1, <2>2, <2>3, <2>5, <2>6, ClientStands
<1>2. FormatsGrow'
  <2>1. screenFormat \in Int /\ format \in Int /\ format <= screenFormat
    BY DEF PixelInv, FormatsGrow, Types, ScreenTypes, HandlerTypes
  <2>2. format' <= screenFormat'
    BY <2>1
  <2> QED
    BY <2>2 DEF PixelInv, FormatsGrow, Types, ScreenTypes, HandlerTypes
<1> QED
  BY <1>1, <1>2 DEF PixelInv, DebtsStand

LEMMA ScreenPixels ==
  ASSUME Types, PixelInv, Screen
  PROVE  PixelInv' /\ DebtsStand
<1>1. /\ UNCHANGED <<format, backup, dpc, toVisit, update, kept, senderVars, viewerVars>>
      /\ screenFormat' = screenFormat \/ screenFormat' = screenFormat + 1
  BY DEF Screen, Draw, MoveWindow, ResizeScreen, DetectCursor, handlerVars, desktopVars
<1>2. screenFormat' \in {screenFormat, screenFormat + 1}
  BY <1>1
<1>3. \A c \in Clients : Pending(c)' = Pending(c)
  BY <1>1 DEF Pending, Holds
<1> QED
  BY <1>1, <1>2, <1>3, PixelsStand DEF senderVars, viewerVars

LEMMA DetectorPixels ==
  ASSUME Types, PixelInv, Detectors
  PROVE  PixelInv' /\ DebtsStand
<1>1. UNCHANGED <<screenFormat, format, backup, dpc, toVisit, update, kept, senderVars, viewerVars>>
  BY DEF Detectors, Poll, OnUpdate, screenVars, desktopVars
<1>2. screenFormat' \in {screenFormat, screenFormat + 1}
  BY <1>1
<1>3. \A c \in Clients : Pending(c)' = Pending(c)
  BY <1>1 DEF Pending, Holds
<1> QED
  BY <1>1, <1>2, <1>3, PixelsStand DEF senderVars, viewerVars

\* Before the desktop thread has filtered an update nothing is pending, and
\* what nobody is left to get may be forgotten.
LEMMA DesktopPixels ==
  ASSUME Types, PixelInv,
         \/ WakeDesktop \/ (\E c \in Clients : AskClient(c)) \/ IsReadyToSend
         \/ ExtractFromHandler \/ NewScreenFails \/ DecideToSend \/ NotifySender
         \/ ClearFullReqRegion
  PROVE  PixelInv' /\ DebtsStand
<1>1. UNCHANGED <<screenFormat, format, backup, kept, cont, fb, fbFormat, spc, taken, viewerVars>>
  BY DEF WakeDesktop, AskClient, IsReadyToSend, ExtractFromHandler, NewScreenFails, DecideToSend,
     NotifySender, ClearFullReqRegion, screenVars, handlerVars, senderVars
<1>2. screenFormat' \in {screenFormat, screenFormat + 1}
  BY <1>1
<1>3. ASSUME NEW c \in Clients PROVE Pending(c) \subseteq Pending(c)'
  <2>1. CASE WakeDesktop \/ (\E d \in Clients : AskClient(d)) \/ IsReadyToSend
             \/ ExtractFromHandler \/ NewScreenFails
    BY <2>1 DEF WakeDesktop, AskClient, IsReadyToSend, ExtractFromHandler, NewScreenFails, DGoto,
       Pending
  <2>2. CASE DecideToSend
    <3>1. IsEmpty(update) => Holds(update) = {}
      BY DEF IsEmpty, Holds
    <3>2. Holds(update)' = Holds(update)
      BY <2>2 DEF DecideToSend, Holds
    <3> QED
      BY <2>2, <3>1, <3>2 DEF DecideToSend, DGoto, Pending
  <2>3. CASE NotifySender
    <3>1. Holds(update)' = Holds(update)
      BY <2>3 DEF NotifySender, Holds
    <3> QED
      BY <2>3, <3>1 DEF NotifySender, DGoto, Pending
  <2>4. CASE ClearFullReqRegion
    BY <2>4 DEF ClearFullReqRegion, Pending
  <2> QED
    BY <2>1, <2>2, <2>3, <2>4
<1> QED
  BY <1>1, <1>2, <1>3, PixelsStand DEF viewerVars

LEMMA FilterPixels ==
  ASSUME Types, PixelInv, FilterUpdates
  PROVE  PixelInv' /\ DebtsStand
<1>1. UNCHANGED <<screenFormat, format, kept, senderVars, viewerVars>> /\ dpc = "filter" /\ dpc' = "decide"
  BY DEF FilterUpdates, DGoto
<1>2. ASSUME NEW c \in Clients PROVE ClientInv(c)' /\ DebtStands(c)
  <2>1. ClientInv(c)
    BY DEF PixelInv
  <2>2. UNCHANGED Mine(c)
    BY <1>1 DEF Mine, senderVars, viewerVars
  <2>3. Holds(kept[c])' = Holds(kept[c]) /\ Holds(kept[c]) \subseteq Tiles
    BY <1>1, HoldsTiles DEF Types, KeptTypes, Holds
  <2>4. Pending(c) = {} /\ Pending(c)' = Holds(update')
    BY <1>1 DEF Pending, Holds
  <2>5. Owed(c) \subseteq Owed(c)' /\ Holds(update') \subseteq Owed(c)'
    BY <2>3, <2>4 DEF Owed
  <2>6. \A t \in Tiles : backup'[t] # backup[t] => t \in Owed(c)'
    BY <2>5, FilterDoes
  <2> QED
    BY <1>1, <2>1, <2>2, <2>3, <2>5, <2>6, ClientStands
<1>3. FormatsGrow'
  BY <1>1 DEF PixelInv, FormatsGrow, senderVars
<1> QED
  BY <1>2, <1>3 DEF PixelInv, DebtsStand

\* After a change of the screen's format every sender has an older one.
LEMMA NewScreenPixels ==
  ASSUME Types, PixelInv, ApplyNewScreenProperties
  PROVE  PixelInv' /\ DebtsStand
<1>1. /\ UNCHANGED <<screenFormat, kept, senderVars, viewerVars>>
      /\ screenFormat # format /\ format' = screenFormat
  BY DEF ApplyNewScreenProperties, screenVars
<1>2. format < format' /\ format \in Int /\ format' \in Int
  BY <1>1 DEF PixelInv, FormatsGrow, Types, ScreenTypes, HandlerTypes
<1>3. ASSUME NEW c \in Clients PROVE fbFormat[c] \in Int /\ fbFormat'[c] = fbFormat[c] /\ fbFormat[c] < format'
  <2>1. fbFormat[c] \in Int
    BY Bounds DEF Types, SenderTypes, NoFormat
  <2> QED
    BY <1>1, <1>2, <2>1 DEF PixelInv, FormatsGrow, senderVars
<1>4. ASSUME NEW c \in Clients PROVE ClientInv(c)' /\ DebtStands(c)
  <2>1. ~Refreshed(c)' /\ NewScreenComes(c)'
    BY <1>2, <1>3 DEF Refreshed, NewScreenComes
  <2>2. ContainerIsRight(c)
    BY DEF PixelInv, ClientInv
  <2>3. cont'[c] = cont[c] /\ spc'[c] = spc[c] /\ kept'[c] = kept[c] /\ taken'[c] = taken[c]
    BY <1>1 DEF senderVars
  <2>4. ContainerIsRight(c)'
    BY <2>2, <2>3 DEF ContainerIsRight, AnswersWithNewScreen, Holds
  <2>5. DebtStands(c)
    BY <2>1, DebtTyped DEF DebtStands, Debt
  <2> QED
    BY <2>1, <2>4, <2>5 DEF ClientInv, BufferIsOwed, IsOnTheWay
<1>5. FormatsGrow'
  BY <1>1, <1>2, <1>3 DEF FormatsGrow, Types, ScreenTypes
<1> QED
  BY <1>4, <1>5 DEF PixelInv, DebtsStand

LEMMA GivePixels ==
  ASSUME Types, PixelInv, NEW c \in Clients, GiveUpdates(c)
  PROVE  PixelInv' /\ DebtsStand
<1>1. /\ UNCHANGED <<screenFormat, format, backup, update, senderVars, viewerVars>>
      /\ dpc = "send" /\ dpc' = "notify" /\ c \in toVisit /\ toVisit' = toVisit \ {c}
      /\ kept' = Set(kept, c, AddUpdateContainer(kept[c], update))
  BY DEF GiveUpdates, DGoto, screenVars, handlerVars
<1>2. /\ kept'[c] = AddUpdateContainer(kept[c], update)
      /\ \A d \in Clients : d # c => kept'[d] = kept[d]
  BY <1>1, SetTyped, Zenon DEF Types, KeptTypes, Set
<1>3. /\ kept[c] \in UpdateContainer /\ IsClipped(kept[c])
      /\ update \in UpdateContainer /\ IsClipped(update) /\ IsRect(update.copied)
  BY DEF Types, KeptTypes, DesktopTypes
<1>4. kept'[c] \in UpdateContainer /\ Holds(kept[c]) \union Holds(update) \subseteq Holds(kept[c])'
  <2>1. /\ AddUpdateContainer(kept[c], update) \in UpdateContainer
        /\ Holds(kept[c]) \union Holds(update) \subseteq Holds(AddUpdateContainer(kept[c], update))
    BY <1>3, AddContainer
  <2>2. Holds(kept[c])' = Holds(AddUpdateContainer(kept[c], update))
    BY <1>2 DEF Holds
  <2> QED
    BY <1>2, <2>1, <2>2
<1>5. ASSUME NEW d \in Clients PROVE ClientInv(d)' /\ DebtStands(d)
  <2>1. ClientInv(d) /\ UNCHANGED Mine(d) /\ UNCHANGED format
    BY <1>1 DEF PixelInv, Mine, senderVars, viewerVars
  <2>2. backup' = backup
    BY <1>1
  <2>3. Holds(kept[d]) \subseteq Holds(kept[d])' /\ Holds(kept[d])' \subseteq Tiles /\ Owed(d) \subseteq Owed(d)'
    <3>1. CASE d = c
      <4>1. Holds(kept[c])' \subseteq Tiles
        BY <1>4, HoldsTiles DEF Holds
      <4>2. Owed(c) = Holds(kept[c]) \union Holds(update)
        BY <1>1 DEF Owed, Pending
      <4>3. Holds(kept[c])' \subseteq Owed(c)'
        BY DEF Owed
      <4> QED
        BY <1>4, <3>1, <4>1, <4>2, <4>3
    <3>2. CASE d # c
      <4>1. Holds(kept[d])' = Holds(kept[d]) /\ Holds(kept[d]) \subseteq Tiles
        BY <1>2, <3>2, HoldsTiles DEF Types, KeptTypes, Holds
      <4>2. Pending(d) \subseteq Pending(d)'
        BY <1>1, <3>2 DEF Pending, Holds
      <4> QED
        BY <4>1, <4>2 DEF Owed
    <3> QED
      BY <3>1, <3>2
  <2> QED
    BY <2>1, <2>2, <2>3, ClientStands
<1>6. FormatsGrow'
  BY <1>1 DEF PixelInv, FormatsGrow, senderVars
<1> QED
  BY <1>5, <1>6 DEF PixelInv, DebtsStand

\* A sender's step touches nobody else.
LEMMA OthersUntouched ==
  ASSUME Types, NEW c \in Clients, Sender(c) \/ SenderFails(c), NEW d \in Clients, d # c
  PROVE  kept'[d] = kept[d] /\ UNCHANGED Mine(d)
<1>1. \A f, v : Set(f, c, v)[d] = f[d]
  BY DEF Set
<1>2. kept' = kept \/ \E v : kept' = Set(kept, c, v)
  BY DEF Sender, SenderFails, WakeSender, ExtractReqRegions, ExtractUpdates, UpdateFrameBuffer,
     PrepareNewScreen, PrepareUpdate, Flush, RestoreRequests, FinishSending
<1>3. cont' = cont \/ \E v : cont' = Set(cont, c, v)
  BY DEF Sender, SenderFails, WakeSender, ExtractReqRegions, ExtractUpdates, UpdateFrameBuffer,
     PrepareNewScreen, PrepareUpdate, Flush, RestoreRequests, FinishSending, Set
<1>4. fb' = fb \/ \E v : fb' = Set(fb, c, v)
  BY DEF Sender, SenderFails, WakeSender, ExtractReqRegions, ExtractUpdates, UpdateFrameBuffer,
     PrepareNewScreen, PrepareUpdate, Flush, RestoreRequests, FinishSending, SGoto
<1>5. fbFormat' = fbFormat \/ \E v : fbFormat' = Set(fbFormat, c, v)
  BY DEF Sender, SenderFails, WakeSender, ExtractReqRegions, ExtractUpdates, UpdateFrameBuffer,
     PrepareNewScreen, PrepareUpdate, Flush, RestoreRequests, FinishSending, SGoto
<1>6. spc' = spc \/ \E v : spc' = Set(spc, c, v)
  BY DEF Sender, SenderFails, WakeSender, ExtractReqRegions, ExtractUpdates, UpdateFrameBuffer,
     PrepareNewScreen, PrepareUpdate, Flush, RestoreRequests, FinishSending, SGoto
<1>7. taken' = taken \/ \E v : taken' = Set(taken, c, v)
  BY DEF Sender, SenderFails, WakeSender, ExtractReqRegions, ExtractUpdates, UpdateFrameBuffer,
     PrepareNewScreen, PrepareUpdate, Flush, RestoreRequests, FinishSending, SGoto
<1>8. viewer' = viewer \/ \E v : viewer' = Set(viewer, c, v)
  BY DEF Sender, SenderFails, WakeSender, ExtractReqRegions, ExtractUpdates, UpdateFrameBuffer,
     PrepareNewScreen, PrepareUpdate, Flush, RestoreRequests, FinishSending, viewerVars
<1> QED
  BY <1>1, <1>2, <1>3, <1>4, <1>5, <1>6, <1>7, <1>8 DEF Mine

LEMMA SenderStep ==
  ASSUME Types, PixelInv, NEW c \in Clients, Sender(c) \/ SenderFails(c), ClientInv(c)'
  PROVE  PixelInv' /\ \A d \in Clients \ {c} : Debt(d)' = Debt(d)
<1>1. UNCHANGED <<screenFormat, format, backup, dpc, toVisit, update>>
  BY DEF Sender, SenderFails, WakeSender, ExtractReqRegions, ExtractUpdates, UpdateFrameBuffer,
     PrepareNewScreen, PrepareUpdate, Flush, RestoreRequests, FinishSending, screenVars,
     handlerVars, desktopVars
<1>2. ASSUME NEW d \in Clients, d # c PROVE ClientInv(d)' /\ Debt(d)' = Debt(d)
  <2>1. ClientInv(d)
    BY DEF PixelInv
  <2>2. kept'[d] = kept[d] /\ UNCHANGED Mine(d)
    BY <1>2, OthersUntouched
  <2> QED
    BY <1>1, <2>1, <2>2, ClientUntouched
<1>3. fbFormat' = fbFormat \/ fbFormat' = Set(fbFormat, c, format)
  BY DEF Sender, SenderFails, WakeSender, ExtractReqRegions, ExtractUpdates, UpdateFrameBuffer,
     PrepareNewScreen, PrepareUpdate, Flush, RestoreRequests, FinishSending
<1>4. FormatsGrow'
  <2>1. format \in Int
    BY DEF Types, HandlerTypes
  <2>2. \A d \in Clients : fbFormat'[d] = fbFormat[d] \/ fbFormat'[d] = format
    BY <1>3 DEF Types, SenderTypes, Set
  <2> QED
    BY <1>1, <2>1, <2>2 DEF PixelInv, FormatsGrow
<1> QED
  BY <1>2, <1>4 DEF PixelInv

\* A step that changes only where the thread is: no container is held but
\* between the extraction and the end.
LEMMA Moves ==
  ASSUME Types, NEW c \in Clients, ClientInv(c),
         UNCHANGED <<cont, fb, fbFormat, viewer, kept, dpc, toVisit, update, format, backup>>,
         spc[c] \in {"wait", "take", "finish"}, spc'[c] \in {"wait", "take", "extract", "finish"}
  PROVE  ClientInv(c)' /\ DebtStands(c)
<1>1. Holds(cont[c]) = {} /\ Holds(cont[c])' = {}
  BY DEF ClientInv, ContainerIsRight, Holds
<1>2. Owed(c)' = Owed(c)
  BY DEF Owed, Pending, Holds
<1>3. BufferIsOwed(c)'
  BY <1>1, <1>2 DEF ClientInv, BufferIsOwed, Refreshed
<1>4. ContainerIsRight(c)'
  BY <1>1 DEF ContainerIsRight
<1>5. IsOnTheWay(c)' /\ DebtStands(c)
  <2>1. NewScreenComes(c)' <=> NewScreenComes(c)
    BY DEF NewScreenComes
  <2>2. OnTheWay(c)' = OnTheWay(c)
    BY <1>1, <1>2 DEF OnTheWay, Owed, Pending, Holds
  <2> QED
    BY <2>1, <2>2 DEF ClientInv, IsOnTheWay, DebtStands, Debt
<1> QED
  BY <1>3, <1>4, <1>5 DEF ClientInv

LEMMA WakePixels ==
  ASSUME Types, NEW c \in Clients, ClientInv(c), WakeSender(c)
  PROVE  ClientInv(c)' /\ DebtStands(c)
<1>1. spc[c] = "wait" /\ spc'[c] = "take"
  BY DEF WakeSender, SGoto, Set, Types, SenderTypes
<1>2. UNCHANGED <<cont, fb, fbFormat, viewer, kept, dpc, toVisit, update, format, backup>>
  BY DEF WakeSender, handlerVars, desktopVars, viewerVars
<1> QED
  BY <1>1, <1>2, Moves

LEMMA TakePixels ==
  ASSUME Types, NEW c \in Clients, ClientInv(c), ExtractReqRegions(c)
  PROVE  ClientInv(c)' /\ DebtStands(c)
<1>1. spc[c] = "take" /\ spc'[c] \in {"extract", "finish"}
  BY DEF ExtractReqRegions, SGoto, Set, Types, SenderTypes
<1>2. UNCHANGED <<cont, fb, fbFormat, viewer, kept, dpc, toVisit, update, format, backup>>
  BY DEF ExtractReqRegions, handlerVars, desktopVars, viewerVars
<1> QED
  BY <1>1, <1>2, Moves

LEMMA FinishPixels ==
  ASSUME Types, NEW c \in Clients, ClientInv(c), FinishSending(c)
  PROVE  ClientInv(c)' /\ DebtStands(c)
<1>1. spc[c] = "finish" /\ spc'[c] = "wait"
  BY DEF FinishSending, SGoto, Set, Types, SenderTypes
<1>2. UNCHANGED <<cont, fb, fbFormat, viewer, kept, dpc, toVisit, update, format, backup>>
  BY DEF FinishSending, handlerVars, desktopVars, viewerVars
<1> QED
  BY <1>1, <1>2, Moves

\* The container takes over what the keeper held.
LEMMA ExtractPixels ==
  ASSUME Types, NEW c \in Clients, ClientInv(c), ExtractUpdates(c)
  PROVE  ClientInv(c)' /\ DebtStands(c)
<1>1. /\ spc[c] = "extract" /\ spc'[c] = "refresh"
      /\ cont'[c] = kept[c] /\ kept'[c] = EmptyContainer
      /\ UNCHANGED <<fb, fbFormat, viewer, dpc, toVisit, update, format, backup>>
  BY DEF ExtractUpdates, SGoto, Set, Types, SenderTypes, KeptTypes, handlerVars, desktopVars,
     viewerVars
<1>2. Holds(cont[c]) = {} /\ Holds(cont[c])' = Holds(kept[c]) /\ Holds(kept[c])' = {}
  BY <1>1, EmptyTypes DEF ClientInv, ContainerIsRight, Holds
<1>3. Pending(c)' = Pending(c)
  BY <1>1 DEF Pending, Holds
<1>4. BufferIsOwed(c)'
  BY <1>1, <1>2, <1>3 DEF ClientInv, BufferIsOwed, Refreshed, Owed
<1>5. ContainerIsRight(c)'
  BY <1>1 DEF ContainerIsRight
<1>6. IsOnTheWay(c)' /\ DebtStands(c)
  <2>1. NewScreenComes(c)' <=> NewScreenComes(c)
    BY <1>1 DEF NewScreenComes
  <2>2. OnTheWay(c) = Owed(c) \union Holds(cont[c]) /\ OnTheWay(c)' = Owed(c)' \union Holds(cont[c])'
    BY DEF OnTheWay, Owed, Pending
  <2>3. OnTheWay(c)' = OnTheWay(c)
    BY <1>2, <1>3, <2>2 DEF Owed
  <2> QED
    BY <1>1, <2>1, <2>3 DEF ClientInv, IsOnTheWay, DebtStands, Debt
<1> QED
  BY <1>4, <1>5, <1>6 DEF ClientInv

\* What the container holds is fetched from the backup buffer; a buffer of
\* another format is replaced, and the whole screen is to be sent.
LEMMA RefreshPixels ==
  ASSUME Types, NEW c \in Clients, ClientInv(c), UpdateFrameBuffer(c)
  PROVE  ClientInv(c)' /\ DebtStands(c)
<1>1. /\ spc[c] = "refresh" /\ spc'[c] = "prepare"
      /\ UNCHANGED <<viewer, kept, dpc, toVisit, update, format, backup, taken>>
  BY DEF UpdateFrameBuffer, SGoto, Set, Types, SenderTypes, handlerVars, desktopVars, viewerVars
<1>2. Owed(c)' = Owed(c)
  BY <1>1 DEF Owed, Pending, Holds
<1>3. ContainerIsRight(c)'
  BY <1>1 DEF ContainerIsRight
<1>4. CASE fbFormat[c] = format
  <2> DEFINE region == cont[c].changed \union cont[c].copied \union reqFull[c]
  <2>1. fb'[c] = PaintPixels(fb[c], region, backup) /\ cont' = cont /\ fbFormat' = fbFormat
    BY <1>4 DEF UpdateFrameBuffer, Set, Types, SenderTypes
  <2>2. ASSUME NEW t \in Tiles, fb'[c][t] # backup[t] PROVE fb[c][t] # backup[t] /\ t \notin Holds(cont[c])
    BY <2>1, <2>2 DEF PaintPixels, Holds
  <2>3. BufferIsOwed(c)'
    <3>1. Refreshed(c)
      BY <1>1, <1>4 DEF Refreshed
    <3>2. \A t \in Tiles : fb'[c][t] # backup'[t] => t \in Owed(c)'
      BY <1>1, <1>2, <2>2, <3>1 DEF ClientInv, BufferIsOwed
    <3> QED
      BY <3>2 DEF BufferIsOwed
  <2>4. IsOnTheWay(c)' /\ DebtStands(c)
    <3>1. ~NewScreenComes(c)
      BY <1>1, <1>4 DEF NewScreenComes
    <3>2. OnTheWay(c)' = OnTheWay(c)
      BY <1>1, <2>1 DEF OnTheWay, Holds
    <3>3. DebtStands(c)
      BY <1>1, <3>1, <3>2, DebtTyped DEF DebtStands, Debt
    <3> QED
      BY <1>1, <3>1, <3>2, <3>3 DEF ClientInv, IsOnTheWay
  <2> QED
    BY <1>3, <2>3, <2>4 DEF ClientInv
<1>5. CASE fbFormat[c] # format
  <2>1. cont'[c] = [cont[c] EXCEPT !.size = TRUE] /\ cont[c] \in UpdateContainer
    BY <1>5 DEF UpdateFrameBuffer, Types, SenderTypes
  <2>2. cont'[c].size
    BY <2>1 DEF UpdateContainer
  <2>3. AnswersWithNewScreen(c)'
    BY <2>2 DEF AnswersWithNewScreen
  <2>4. ~Refreshed(c)' /\ NewScreenComes(c)'
    BY <1>1, <2>3 DEF Refreshed, NewScreenComes
  <2>5. DebtStands(c)
    BY <2>4, DebtTyped DEF DebtStands, Debt
  <2> QED
    BY <1>3, <2>4, <2>5 DEF ClientInv, BufferIsOwed, IsOnTheWay
<1> QED
  BY <1>4, <1>5

\* A new screen leaves everything in the keeper.
LEMMA NewScreenAnswered ==
  ASSUME Types, NEW c \in Clients, ClientInv(c), PrepareNewScreen(c)
  PROVE  ClientInv(c)' /\ DebtStands(c)
<1>1. /\ spc'[c] = "flush"
      /\ cont'[c] = [EmptyContainer EXCEPT !.size = TRUE] /\ kept'[c] = DazzleChangedReg(kept[c])
  BY DEF PrepareNewScreen, SGoto, Set, Types, SenderTypes, KeptTypes
<1>2. kept[c] \in UpdateContainer
  BY DEF Types, KeptTypes
<1>3. Holds(kept[c])' = Tiles
  <2>1. Holds(DazzleChangedReg(kept[c])) = Holds(kept[c]) \union Tiles
    BY <1>2, AddChanged DEF DazzleChangedReg
  <2>2. Holds(kept[c])' = Holds(DazzleChangedReg(kept[c]))
    BY <1>1 DEF Holds
  <2> QED
    BY <1>2, <2>1, <2>2, HoldsTiles
<1>4. cont'[c].copied = {}
  BY <1>1 DEF EmptyContainer
<1>5. Tiles \subseteq Owed(c)' /\ Tiles \subseteq OnTheWay(c)'
  BY <1>3 DEF Owed, OnTheWay
<1>6. BufferIsOwed(c)' /\ IsOnTheWay(c)' /\ DebtStands(c)
  BY <1>5, DebtTyped DEF BufferIsOwed, IsOnTheWay, DebtStands, Debt
<1>7. ContainerIsRight(c)'
  BY <1>1, <1>3, <1>4 DEF ContainerIsRight
<1> QED
  BY <1>6, <1>7 DEF ClientInv

\* Without copies, everything in the container is sent or goes back.
LEMMA PreparePixels ==
  ASSUME Types, NEW c \in Clients, c \notin CopyRectClients, ClientInv(c), PrepareUpdate(c)
  PROVE  ClientInv(c)' /\ DebtStands(c)
<1>1. PICK k \in UpdateContainer, r \in UpdateContainer :
        /\ cont' = Set(cont, c, k) /\ kept' = Set(kept, c, r) /\ k.size = cont[c].size
        /\ Holds(kept[c]) \subseteq Holds(r)
        /\ k.copied = {} /\ Holds(cont[c]) \subseteq Holds(k) \union Holds(r)
  BY PrepareDoes
<1>2. /\ spc[c] = "prepare" /\ spc'[c] = "flush" /\ ~AnswersWithNewScreen(c)
      /\ cont'[c] = k /\ kept'[c] = r
      /\ UNCHANGED <<fb, fbFormat, taken, viewer, dpc, toVisit, update, format, backup>>
  BY <1>1 DEF PrepareUpdate, SGoto, Set, Types, SenderTypes, KeptTypes, handlerVars, desktopVars,
     viewerVars
<1>3. ~AnswersWithNewScreen(c)'
  BY <1>1, <1>2 DEF AnswersWithNewScreen
<1>4. Holds(cont[c])' = Holds(k) /\ Holds(kept[c])' = Holds(r) /\ Pending(c)' = Pending(c)
  BY <1>2 DEF Holds, Pending
<1>5. BufferIsOwed(c)'
  <2>1. Owed(c) \subseteq Owed(c)'
    BY <1>1, <1>4 DEF Owed
  <2> QED
    BY <1>2, <2>1 DEF ClientInv, BufferIsOwed, Refreshed
<1>6. ContainerIsRight(c)'
  BY <1>1, <1>2, <1>3 DEF ContainerIsRight
<1>7. IsOnTheWay(c)' /\ DebtStands(c)
  <2>1. NewScreenComes(c)' <=> NewScreenComes(c)
    BY <1>2, <1>3 DEF NewScreenComes
  <2>2. OnTheWay(c) = Owed(c) \union Holds(cont[c]) /\ OnTheWay(c)' = Owed(c)' \union Holds(cont[c])'
    BY DEF OnTheWay, Owed, Pending
  <2>3. OnTheWay(c) \subseteq OnTheWay(c)'
    BY <1>1, <1>4, <2>2 DEF Owed
  <2> QED
    BY <1>2, <2>1, <2>3 DEF ClientInv, IsOnTheWay, DebtStands, Debt
<1> QED
  BY <1>5, <1>6, <1>7 DEF ClientInv

\* What the sender's buffer may show wrongly is owed already when it is sent.
LEMMA FlushPixels ==
  ASSUME Types, NEW c \in Clients, ClientInv(c), Flush(c)
  PROVE  ClientInv(c)'
<1>1. /\ spc[c] = "flush" /\ spc'[c] = "finish" /\ cont'[c] = EmptyContainer
      /\ UNCHANGED <<kept, fb, fbFormat, dpc, toVisit, update, format, backup>>
  BY DEF Flush, SGoto, Set, Types, SenderTypes, handlerVars, desktopVars
<1>2. Owed(c)' = Owed(c) /\ Holds(cont[c])' = {}
  BY <1>1, EmptyTypes DEF Owed, Pending, Holds
<1>3. Owed(c) \subseteq OnTheWay(c)'
  BY <1>2 DEF OnTheWay, Owed, Pending
<1>4. BufferIsOwed(c)'
  BY <1>1, <1>2 DEF ClientInv, BufferIsOwed, Refreshed
<1>5. ContainerIsRight(c)'
  BY <1>1, <1>2 DEF ContainerIsRight
<1>6. IsOnTheWay(c)'
  <2>1. CASE AnswersWithNewScreen(c)
    <3>1. Tiles \subseteq OnTheWay(c)'
      BY <1>1, <1>3, <2>1 DEF ClientInv, ContainerIsRight, Owed
    <3> QED
      BY <3>1 DEF IsOnTheWay
  <2>2. CASE fbFormat[c] # format
    BY <1>1, <2>2 DEF IsOnTheWay, NewScreenComes
  <2>3. CASE ~AnswersWithNewScreen(c) /\ fbFormat[c] = format
    <3>1. viewer'[c] = PaintPixels(CopyPixels(viewer[c], {}, cont[c].delta), cont[c].changed, fb[c])
      <4>1. ~cont[c].size /\ cont[c].copied = {}
        BY <1>1, <2>3 DEF AnswersWithNewScreen, ClientInv, ContainerIsRight
      <4> QED
        BY <4>1 DEF Flush, Set, Types, ViewerTypes
    <3>2. \A t \in Tiles : viewer'[c][t] = IF t \in cont[c].changed THEN fb[c][t] ELSE viewer[c][t]
      BY <3>1 DEF PaintPixels, CopyPixels
    <3>3. ~NewScreenComes(c) /\ Refreshed(c)
      BY <1>1, <2>3 DEF NewScreenComes, Refreshed
    <3>4. OnTheWay(c) = Owed(c) \union cont[c].changed
      BY <1>1 DEF OnTheWay, Owed, Pending, Holds, ClientInv, ContainerIsRight
    <3>5. ASSUME NEW t \in Tiles, viewer'[c][t] # backup[t] PROVE t \in Owed(c)
      <4>1. CASE t \in cont[c].changed
        BY <1>1, <3>2, <3>3, <3>5, <4>1 DEF ClientInv, BufferIsOwed
      <4>2. CASE t \notin cont[c].changed
        BY <1>1, <3>2, <3>3, <3>4, <3>5, <4>2 DEF ClientInv, IsOnTheWay
      <4> QED
        BY <4>1, <4>2
    <3> QED
      BY <1>1, <1>3, <3>5 DEF IsOnTheWay
  <2> QED
    BY <2>1, <2>2, <2>3
<1> QED
  BY <1>4, <1>5, <1>6 DEF ClientInv

\* An empty container holds nothing.
LEMMA RestorePixels ==
  ASSUME Types, NEW c \in Clients, ClientInv(c), RestoreRequests(c)
  PROVE  ClientInv(c)' /\ DebtStands(c)
<1>1. /\ spc[c] = "flush" /\ spc'[c] = "finish"
      /\ UNCHANGED <<cont, kept, fb, fbFormat, viewer, dpc, toVisit, update, format, backup>>
  BY DEF RestoreRequests, SGoto, Set, Types, SenderTypes, handlerVars, desktopVars, viewerVars
<1>2. Owed(c)' = Owed(c) /\ OnTheWay(c)' = OnTheWay(c) /\ Holds(cont[c])' = Holds(cont[c])
  BY <1>1 DEF Owed, OnTheWay, Pending, Holds
<1>3. Holds(cont[c]) = {}
  BY DEF RestoreRequests, IsEmpty, Holds
<1>4. BufferIsOwed(c)'
  BY <1>1, <1>2 DEF ClientInv, BufferIsOwed, Refreshed
<1>5. ContainerIsRight(c)'
  BY <1>1, <1>2, <1>3 DEF ContainerIsRight
<1>6. IsOnTheWay(c)' /\ DebtStands(c)
  <2>1. CASE AnswersWithNewScreen(c)
    <3>1. Tiles \subseteq OnTheWay(c)'
      BY <1>1, <1>2, <2>1 DEF ClientInv, ContainerIsRight, OnTheWay
    <3> QED
      BY <3>1, DebtTyped DEF IsOnTheWay, DebtStands, Debt
  <2>2. CASE ~AnswersWithNewScreen(c)
    <3>1. NewScreenComes(c) => NewScreenComes(c)'
      BY <1>1, <2>2 DEF NewScreenComes
    <3>2. DebtStands(c)
      BY <1>1, <1>2, <3>1, DebtTyped DEF DebtStands, Debt
    <3> QED
      BY <1>1, <1>2, <3>1, <3>2 DEF ClientInv, IsOnTheWay
  <2> QED
    BY <2>1, <2>2
<1> QED
  BY <1>4, <1>5, <1>6 DEF ClientInv

LEMMA FailPixels ==
  ASSUME Types, NEW c \in Clients, ClientInv(c), SenderFails(c)
  PROVE  ClientInv(c)' /\ DebtStands(c)
<1>1. /\ spc[c] = "flush" /\ spc'[c] = "dead" /\ cont'[c] = EmptyContainer
      /\ UNCHANGED <<kept, fb, fbFormat, dpc, toVisit, update, format, backup>>
  BY DEF SenderFails, SGoto, Set, Types, SenderTypes, handlerVars, desktopVars
<1>2. Owed(c)' = Owed(c) /\ Holds(cont[c])' = {}
  BY <1>1, EmptyTypes DEF Owed, Pending, Holds
<1>3. BufferIsOwed(c)'
  BY <1>1, <1>2 DEF ClientInv, BufferIsOwed, Refreshed
<1>4. DebtStands(c)
  BY <1>1, DebtTyped DEF DebtStands, Debt
<1> QED
  BY <1>1, <1>2, <1>3, <1>4 DEF ClientInv, ContainerIsRight, IsOnTheWay

LEMMA ReaderPixels ==
  ASSUME Types, PixelInv, NEW c \in Clients, Viewer(c) \/ Reader(c)
  PROVE  PixelInv' /\ DebtsStand
<1>1. UNCHANGED <<screenFormat, format, backup, kept, cont, fb, fbFormat, spc, taken, viewer>>
  BY DEF Viewer, Reader, ReadUpdateRequest, CheckForKeptUpdates, OnUpdateRequest, screenVars,
     handlerVars, senderVars, viewerVars
<1>2. UNCHANGED <<dpc, toVisit, update>>
  BY DEF Viewer, Reader, ReadUpdateRequest, CheckForKeptUpdates, OnUpdateRequest, desktopVars
<1>3. \A d \in Clients : Pending(d)' = Pending(d)
  BY <1>2 DEF Pending, Holds
<1> QED
  BY <1>1, <1>3, PixelsStand

LEMMA InitPixels == Init => PixelInv
<1> SUFFICES ASSUME Init PROVE PixelInv
  OBVIOUS
<1>1. ASSUME NEW c \in Clients PROVE ClientInv(c)
  <2>1. Holds(cont[c]) = {} /\ fbFormat[c] = NoFormat /\ spc[c] = "wait" /\ format = 0
    BY EmptyTypes DEF Init
  <2>2. ~Refreshed(c) /\ NewScreenComes(c)
    BY <2>1 DEF Refreshed, NewScreenComes, NoFormat
  <2> QED
    BY <2>1, <2>2 DEF ClientInv, BufferIsOwed, ContainerIsRight, IsOnTheWay
<1>2. FormatsGrow
  BY DEF Init, FormatsGrow, NoFormat
<1> QED
  BY <1>1, <1>2 DEF PixelInv

LEMMA PixelStep ==
  ASSUME CopyRectClients = {}, TypeOK, PixelInv, [Next]_vars
  PROVE  PixelInv'
<1>0. Types
  BY TypesAre
<1>1. CASE Screen \/ Detectors
  BY <1>0, <1>1, ScreenPixels, DetectorPixels
<1>2. CASE DesktopThread
  BY <1>0, <1>2, DesktopPixels, FilterPixels, NewScreenPixels, GivePixels DEF DesktopThread
<1>3. ASSUME NEW c \in Clients, Viewer(c) \/ Reader(c) PROVE PixelInv'
  BY <1>0, <1>3, ReaderPixels
<1>4. ASSUME NEW c \in Clients, Sender(c) \/ SenderFails(c) PROVE PixelInv'
  <2>1. ClientInv(c) /\ c \notin CopyRectClients
    BY DEF PixelInv
  <2>2. ClientInv(c)'
    BY <1>0, <1>4, <2>1, WakePixels, TakePixels, ExtractPixels, RefreshPixels, NewScreenAnswered,
       PreparePixels, FlushPixels, RestorePixels, FinishPixels, FailPixels DEF Sender
  <2> QED
    BY <1>0, <1>4, <2>2, SenderStep
<1>5. CASE UNCHANGED vars
  <2>1. UNCHANGED <<screenFormat, format, backup, kept, cont, fb, fbFormat, spc, taken, viewer>>
    BY <1>5 DEF vars, screenVars, handlerVars, senderVars, viewerVars
  <2>2. \A d \in Clients : Pending(d)' = Pending(d)
    BY <1>5 DEF vars, desktopVars, Pending, Holds
  <2> QED
    BY <1>0, <2>1, <2>2, PixelsStand
<1> QED
  BY <1>1, <1>2, <1>3, <1>4, <1>5 DEF Next

\* "The sendUpdate() function sends all stored updates to the client"
\* (UpdateSender.h:112): as long as no viewer knows CopyRect, a tile that a
\* viewer shows wrongly is on its way to it, whatever the viewers request and
\* however the threads interleave.
THEOREM NothingIsLost == ASSUME CopyRectClients = {} PROVE Spec => []NoLostUpdate
<1>1. Init => PixelInv
  BY InitPixels
<1>2. TypeOK /\ PixelInv /\ [Next]_vars => PixelInv'
  BY PixelStep
<1>3. PixelInv => NoLostUpdate
  BY DEF PixelInv, ClientInv, IsOnTheWay, NoLostUpdate
<1> QED
  BY <1>1, <1>2, <1>3, RequestsHold, PTL DEF Spec

-----------------------------------------------------------------------------
(* The account of what is owed                                             *)

\* Only a request and an answer change what the viewers show and ask.
AccountStep ==
  \/ DebtsStand /\ UNCHANGED viewerVars
  \/ \E c \in Clients : Viewer(c) \/ Flush(c)

\* Every other step owes no viewer less than before.
LEMMA AccountSteps ==
  ASSUME CopyRectClients = {}, TypeOK, PixelInv, [Next]_vars
  PROVE  AccountStep
<1>0. Types
  BY TypesAre
<1>1. CASE Screen \/ Detectors
  <2>1. UNCHANGED viewerVars
    BY <1>1 DEF Screen, Draw, MoveWindow, ResizeScreen, DetectCursor, Detectors, Poll, OnUpdate
  <2> QED
    BY <1>0, <1>1, <2>1, ScreenPixels, DetectorPixels DEF AccountStep
<1>2. CASE DesktopThread
  <2>1. UNCHANGED viewerVars
    BY <1>2 DEF DesktopThread, WakeDesktop, AskClient, IsReadyToSend, ExtractFromHandler,
       FilterUpdates, ApplyNewScreenProperties, NewScreenFails, DecideToSend, GiveUpdates,
       NotifySender,
       ClearFullReqRegion
  <2>2. DebtsStand
    BY <1>0, <1>2, DesktopPixels, FilterPixels, NewScreenPixels, GivePixels DEF DesktopThread
  <2> QED
    BY <2>1, <2>2 DEF AccountStep
<1>3. ASSUME NEW c \in Clients, Reader(c) PROVE AccountStep
  <2>1. UNCHANGED viewerVars
    BY <1>3 DEF Reader, CheckForKeptUpdates, OnUpdateRequest
  <2> QED
    BY <1>0, <1>3, <2>1, ReaderPixels DEF AccountStep
<1>4. ASSUME NEW c \in Clients, Sender(c) \/ SenderFails(c), ~Flush(c) PROVE AccountStep
  <2>1. UNCHANGED viewerVars
    BY <1>4 DEF Sender, SenderFails, WakeSender, ExtractReqRegions, ExtractUpdates,
       UpdateFrameBuffer,
       PrepareNewScreen, PrepareUpdate, RestoreRequests, FinishSending
  <2>2. ClientInv(c) /\ c \notin CopyRectClients
    BY DEF PixelInv
  <2>3. ClientInv(c)' /\ DebtStands(c)
    BY <1>0, <1>4, <2>2, WakePixels, TakePixels, ExtractPixels, RefreshPixels, NewScreenAnswered,
       PreparePixels, RestorePixels, FinishPixels, FailPixels DEF Sender
  <2>4. \A d \in Clients \ {c} : Debt(d)' = Debt(d)
    BY <1>0, <1>4, <2>3, SenderStep
  <2>5. DebtsStand
    BY <2>3, <2>4 DEF DebtsStand, DebtStands
  <2> QED
    BY <2>1, <2>5 DEF AccountStep
<1>5. CASE UNCHANGED vars
  <2>1. \A c \in Clients : Debt(c)' = Debt(c)
    BY <1>5 DEF vars, handlerVars, desktopVars, senderVars, Debt, NewScreenComes,
       AnswersWithNewScreen, OnTheWay, Holds
  <2>2. DebtsStand /\ UNCHANGED viewerVars
    BY <1>5, <2>1 DEF vars, DebtsStand, DebtStands
  <2> QED
    BY <2>2 DEF AccountStep
<1> QED
  BY <1>1, <1>2, <1>3, <1>4, <1>5 DEF Next, AccountStep, Sender

\* What is not owed is shown as it is.
LEMMA ShownIfNotOwed ==
  ASSUME NEW c \in Clients, NEW t \in Tiles
  PROVE  /\ PixelInv /\ t \notin Debt(c) => viewer[c][t] = backup[t]
         /\ (PixelInv /\ t \notin Debt(c) => viewer[c][t] = backup[t])'
BY DEF PixelInv, ClientInv, IsOnTheWay, Debt

\* A step that owes nobody less redraws the picture.
LEMMA RedrawStep ==
  ASSUME Types', PixelInv', DebtsStand, UNCHANGED viewerVars
  PROVE  Account!Redraw
<1> DEFINE owes == [c \in Clients |-> Debt(c)]
<1>1. backup' \in [Tiles -> PixelValues]
  BY DEF Types, HandlerTypes
<1>2. owes' \in [Clients -> SUBSET Tiles]
  BY DebtTypedNext
<1>3. ASSUME NEW c \in Clients
      PROVE  /\ owes[c] \subseteq owes'[c]
             /\ \A t \in Tiles \ owes'[c] : viewer[c][t] = backup'[t]
  BY ShownIfNotOwed DEF DebtsStand, DebtStands, viewerVars
<1> QED
  BY <1>1, <1>2, <1>3 DEF Account!Redraw, viewerVars

LEMMA AskStep ==
  ASSUME Types, NEW c \in Clients, Viewer(c)
  PROVE  Account!Ask(c)
<1>1. /\ credit' = [credit EXCEPT ![c] = @ + 1]
      /\ UNCHANGED <<viewer, backup, format, kept, dpc, toVisit, update, spc, cont, taken, fbFormat>>
  BY DEF Viewer, ReadUpdateRequest, Set, Types, ViewerTypes, handlerVars, desktopVars, senderVars
<1>2. \A d \in Clients : Debt(d)' = Debt(d)
  BY <1>1 DEF Debt, NewScreenComes, AnswersWithNewScreen, OnTheWay, Holds
<1> QED
  BY <1>1, <1>2 DEF Account!Ask

\* An update is sent for a request, and it shows what was owed.
LEMMA AnswerStep ==
  ASSUME CopyRectClients = {}, Types, RequestInv, PixelInv, Types', PixelInv', NEW c \in Clients, Flush(c)
  PROVE  Account!Answer(c)
<1> DEFINE owes == [d \in Clients |-> Debt(d)]
<1>1. /\ spc[c] = "flush" /\ spc'[c] = "finish" /\ cont'[c] = EmptyContainer
      /\ credit' = [credit EXCEPT ![c] = @ - 1]
      /\ UNCHANGED <<kept, fb, fbFormat, dpc, toVisit, update, format, backup>>
      /\ \A d \in Clients \ {c} : viewer'[d] = viewer[d]
  BY DEF Flush, SGoto, Set, Types, SenderTypes, ViewerTypes, handlerVars, desktopVars
<1>2. credit[c] > 0
  <2>1. credit[c] \in Nat /\ credit[c] >= (IF Flagged(c) THEN 1 ELSE 0) + 1
    BY <1>1, Bounds DEF RequestInv, Sending, Types, ViewerTypes
  <2> QED
    BY <2>1
<1>3. viewer' \in [Clients -> [Tiles -> PixelValues]] /\ owes' \in [Clients -> SUBSET Tiles]
  BY DebtTypedNext DEF Types, ViewerTypes
<1>4. \A d \in Clients \ {c} : Debt(d)' = Debt(d)
  <2>1. Sender(c) /\ ClientInv(c)'
    BY DEF Sender, PixelInv
  <2> QED
    BY <2>1, SenderStep
<1>5. OnTheWay(c)' \subseteq OnTheWay(c)
  BY <1>1, EmptyTypes DEF OnTheWay, Holds
<1>6. Debt(c)' \subseteq Debt(c)
  <2>1. CASE NewScreenComes(c)
    BY <2>1, DebtTypedNext DEF Debt
  <2>2. CASE ~NewScreenComes(c)
    BY <1>1, <1>5, <2>2 DEF Debt, NewScreenComes
  <2> QED
    BY <2>1, <2>2
<1>7. ASSUME NEW t \in Tiles \ Debt(c) PROVE viewer'[c][t] = viewer[c][t]
  <2>1. ~AnswersWithNewScreen(c) /\ t \notin OnTheWay(c)
    BY <1>1, <1>7 DEF Debt, NewScreenComes
  <2>2. ~cont[c].size /\ cont[c].copied = {} /\ t \notin cont[c].changed
    BY <1>1, <2>1 DEF AnswersWithNewScreen, OnTheWay, Holds, PixelInv, ClientInv, ContainerIsRight
  <2>3. viewer'[c] = PaintPixels(CopyPixels(viewer[c], {}, cont[c].delta), cont[c].changed, fb[c])
    BY <2>2 DEF Flush, Set, Types, ViewerTypes
  <2> QED
    BY <2>2, <2>3 DEF PaintPixels, CopyPixels
<1>8. \A t \in Tiles \ Debt(c)' : viewer'[c][t] = backup[t]
  BY <1>1, ShownIfNotOwed
<1> QED
  BY <1>1, <1>2, <1>3, <1>4, <1>6, <1>7, <1>8 DEF Account!Answer

LEMMA InitAccount == Init => Account!Init
<1> SUFFICES ASSUME Init PROVE Account!Init
  OBVIOUS
<1>1. Types
  BY InitTypes, TypesAre
<1>2. \A c \in Clients : Debt(c) = Tiles
  BY DEF Init, Debt, NewScreenComes, NoFormat
<1> QED
  BY <1>1, <1>2 DEF Init, Account!Init, Types, HandlerTypes, ViewerTypes

\* The way of updates keeps account of what it owes (UpdateSender.h:112): as
\* long as no viewer knows CopyRect, every step of every thread redraws the
\* picture, takes a request or answers one, and a debt is paid by an answer only.
THEOREM AccountIsKept == ASSUME CopyRectClients = {} PROVE Spec => KeepsAccount
<1>1. Init => Account!Init
  BY InitAccount
<1>2. Init => PixelInv
  BY InitPixels
<1>3. TypeOK /\ PixelInv /\ [Next]_vars => PixelInv'
  BY PixelStep
<1>4. /\ TypeOK /\ RequestInv /\ PixelInv /\ TypeOK' /\ PixelInv' /\ [Next]_vars
      => [Account!Next]_(Account!vars)
  <2> SUFFICES ASSUME TypeOK, RequestInv, PixelInv, TypeOK', PixelInv', [Next]_vars
               PROVE  Account!Next
    OBVIOUS
  <2>1. Types /\ Types' /\ AccountStep
    BY TypesAre, AccountSteps
  <2>2. CASE DebtsStand /\ UNCHANGED viewerVars
    BY <2>1, <2>2, RedrawStep DEF Account!Next
  <2>3. ASSUME NEW c \in Clients, Viewer(c) \/ Flush(c) PROVE Account!Next
    BY <2>1, <2>3, AskStep, AnswerStep DEF Account!Next
  <2> QED
    BY <2>1, <2>2, <2>3 DEF AccountStep
<1> QED
  BY <1>1, <1>2, <1>3, <1>4, RequestsHold, PTL DEF Spec, KeepsAccount, Account!Spec

=============================================================================
