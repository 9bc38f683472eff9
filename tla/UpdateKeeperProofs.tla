------------------------- MODULE UpdateKeeperProofs -------------------------
(***************************************************************************)
(* Theorems about UpdateKeeper, for screens of any size and any pixels.    *)
(***************************************************************************)
EXTENDS UpdateKeeper, TLAPS

\* A copy reads its destination's pixels at the source, and leaves the others.
LEMMA CopyReads ==
  ASSUME NEW p, NEW dst, NEW d, NEW t \in Tiles
  PROVE  CopyPixels(p, dst, d)[t] =
           IF t \in dst /\ t - d \in Tiles THEN p[t - d] ELSE p[t]
  BY DEF CopyPixels

\* Painting replaces the tiles of a region and leaves the others.
LEMMA PaintReads ==
  ASSUME NEW p, NEW region, NEW q, NEW t \in Tiles
  PROVE  PaintPixels(p, region, q)[t] = IF t \in region THEN q[t] ELSE p[t]
  BY DEF PaintPixels

\* Copying yields pixels for every tile ...
LEMMA CopyTyped ==
  ASSUME NEW p \in [Tiles -> Pixels], NEW dst, NEW d
  PROVE  CopyPixels(p, dst, d) \in [Tiles -> Pixels]
  BY DEF CopyPixels

\* ... as does painting.
LEMMA PaintTyped ==
  ASSUME NEW p \in [Tiles -> Pixels], NEW q \in [Tiles -> Pixels], NEW region
  PROVE  PaintPixels(p, region, q) \in [Tiles -> Pixels]
  BY DEF PaintPixels

\* Tiles can be displaced.
LEMMA TilesAreIntegers == \A t \in Tiles : t \in Int
  BY NumTilesAssumption DEF Tiles

HasCopy(k) == k.copied # {}
HasNoCopy(k) == k.copied = {}
StaysInside(rect, d) == rect = ClipCopy(rect, d) /\ rect # {}

\* A copy that lies inside the border at both ends, into a container that has
\* one already: both become changes.
LEMMA SecondCopy ==
  ASSUME NEW k \in UpdateContainer, NEW rect \in SUBSET Tiles, NEW d \in Int,
         StaysInside(rect, d), HasCopy(k)
  PROVE  /\ AddCopyRect(k, rect, d) \in UpdateContainer
         /\ AddCopyRect(k, rect, d).changed = k.changed \union k.copied \union rect
         /\ AddCopyRect(k, rect, d).copied = {}
         /\ AddCopyRect(k, rect, d).delta = 0
  <1> DEFINE merged == AddChangedRegion(k, k.copied \union rect)
  <1>1. AddChangedRegion(k, {}) = k
    BY DEF AddChangedRegion, UpdateContainer
  <1>2. rect \ ClipCopy(rect, d) = {} /\ rect = ClipCopy(rect, d) /\ rect # {}
    BY DEF StaysInside
  <1>3. AddCopyRect(k, rect, d) = [merged EXCEPT !.copied = {}, !.delta = 0]
    BY <1>1, <1>2 DEF AddCopyRect, HasCopy
  <1>4. /\ merged \in UpdateContainer
        /\ merged.changed = k.changed \union k.copied \union rect
    BY DEF AddChangedRegion, UpdateContainer
  <1> HIDE DEF merged
  <1>5. AddCopyRect(k, rect, d) =
          [changed |-> merged.changed, copied |-> {}, delta |-> 0,
           size |-> merged.size, cursor |-> merged.cursor]
    BY <1>3, <1>4 DEF UpdateContainer
  <1> QED BY <1>4, <1>5 DEF UpdateContainer

\* The same, into a container without a copy.
LEMMA FirstCopy ==
  ASSUME NEW k \in UpdateContainer, NEW rect \in SUBSET Tiles, NEW d \in Int,
         StaysInside(rect, d), HasNoCopy(k)
  PROVE  /\ AddCopyRect(k, rect, d) \in UpdateContainer
         /\ AddCopyRect(k, rect, d).changed =
              CarryChanged(k.changed, rect, d) \intersect Tiles
         /\ AddCopyRect(k, rect, d).copied = rect
         /\ AddCopyRect(k, rect, d).delta = d
  <1>1. AddChangedRegion(k, {}) = k
    BY DEF AddChangedRegion, UpdateContainer
  <1>2. rect \ ClipCopy(rect, d) = {} /\ rect = ClipCopy(rect, d) /\ rect # {}
    BY DEF StaysInside
  <1>3. AddCopyRect(k, rect, d) =
          [k EXCEPT !.changed = CarryChanged(@, rect, d) \intersect Tiles,
                    !.copied = rect, !.delta = d]
    BY <1>1, <1>2 DEF AddCopyRect, HasNoCopy
  <1> QED BY <1>3 DEF UpdateContainer

\* What is copied inside the border has both its ends there.
LEMMA ClippedCopy ==
  ASSUME NEW dst, NEW d, dst = ClipCopy(dst, d), NEW t \in dst
  PROVE  t \in Tiles /\ t - d \in Tiles
  BY DEF ClipCopy

\* What a keeper copies has its source inside the border, whatever is added.
LEMMA CopyRectClipped ==
  ASSUME NEW k \in UpdateContainer, NEW rect \in SUBSET Tiles, NEW d \in Int,
         StaysInside(rect, d)
  PROVE  IsClipped(AddCopyRect(k, rect, d))
  <1> DEFINE m == AddCopyRect(k, rect, d)
  <1>1. m.copied = {} \/ (m.copied = rect /\ m.delta = d)
    <2>1. CASE HasCopy(k)
      BY <2>1, SecondCopy, Zenon
    <2>2. CASE HasNoCopy(k)
      <3>1. m.copied = rect
        BY <2>2, FirstCopy, SMT
      <3>2. m.delta = d
        BY <2>2, FirstCopy, SMT
      <3> QED BY <3>1, <3>2
    <2> QED BY <2>1, <2>2 DEF HasCopy, HasNoCopy
  <1> HIDE DEF m
  <1>2. \A t \in rect : t - d \in Tiles
    BY ClippedCopy DEF StaysInside
  <1>3. IsClipped(m)
    BY <1>1, <1>2 DEF IsClipped
  <1> QED BY <1>3 DEF m

\* A region without gaps is its own first rectangle.
LEMMA RectIsFirst ==
  ASSUME NEW region, IsRect(region)
  PROVE  FirstRect(region) = region
  BY DEF IsRect, FirstRect

\* The keeper's container after one of the desktop's containers, whose copied
\* region is one rectangle.
LEMMA AddUpdateContainerIs ==
  ASSUME NEW k \in UpdateContainer, NEW u \in UpdateContainer,
         IsRect(u.copied), u.copied = ClipCopy(u.copied, u.delta)
  PROVE  LET n == IF u.copied = {} THEN k ELSE AddCopyRect(k, u.copied, u.delta)
             m == AddUpdateContainer(k, u)
         IN  /\ n \in UpdateContainer
             /\ m \in UpdateContainer
             /\ m.changed = n.changed \union u.changed
             /\ m.copied = n.copied
             /\ m.delta = n.delta
  <1> DEFINE n == IF u.copied = {} THEN k ELSE AddCopyRect(k, u.copied, u.delta)
             p == AddChangedRegion(n, u.changed)
  <1>1. n \in UpdateContainer
    <2>1. u.copied \in SUBSET Tiles /\ u.delta \in Int
      BY DEF UpdateContainer
    <2>2. CASE u.copied = {}
      BY <2>2
    <2>3. CASE u.copied # {}
      <3>1. StaysInside(u.copied, u.delta)
        BY <2>3 DEF StaysInside
      <3>2. AddCopyRect(k, u.copied, u.delta) \in UpdateContainer
        BY <2>1, <3>1, FirstCopy, SecondCopy DEF HasCopy, HasNoCopy
      <3> QED BY <2>3, <3>2
    <2> QED BY <2>2, <2>3
  <1>2. AddUpdateContainer(k, u) =
          [p EXCEPT !.size = @ \/ u.size, !.cursor = @ \/ u.cursor]
    BY RectIsFirst DEF AddUpdateContainer
  <1> HIDE DEF n
  <1>3. /\ p \in UpdateContainer
        /\ p.changed = n.changed \union u.changed
        /\ p.copied = n.copied /\ p.delta = n.delta
    BY <1>1 DEF AddChangedRegion, UpdateContainer
  <1> HIDE DEF p
  <1>4. u.size \in BOOLEAN /\ u.cursor \in BOOLEAN
    BY DEF UpdateContainer
  <1>5. /\ AddUpdateContainer(k, u) \in UpdateContainer
        /\ AddUpdateContainer(k, u).changed = p.changed
        /\ AddUpdateContainer(k, u).copied = p.copied
        /\ AddUpdateContainer(k, u).delta = p.delta
    BY <1>2, <1>3, <1>4 DEF UpdateContainer
  <1> QED BY <1>1, <1>3, <1>5 DEF n

-----------------------------------------------------------------------------

\* A change of the source is carried along to the destination, unless the copy
\* overwrites it.
LEMMA CarryChangedCarries ==
  ASSUME NEW changed \in SUBSET Tiles, NEW dst \in SUBSET Tiles, NEW d \in Int,
         NEW t \in dst, t - d \in changed, t - d \notin dst
  PROVE  t \in CarryChanged(changed, dst, d)
  <1>1. t \in Int
    BY TilesAreIntegers
  <1>2. t - d \in Translate(dst, -d)
    BY <1>1 DEF Translate
  <1>3. t - d \in Translate(dst, -d) \intersect (changed \ dst)
    BY <1>2
  <1>4. (t - d) + d = t
    BY <1>1
  <1>5. t \in Translate(Translate(dst, -d) \intersect (changed \ dst), d)
    BY <1>3, <1>4 DEF Translate
  <1> QED BY <1>5 DEF CarryChanged

\* What is carried, or was changed outside the destination, stays changed.
LEMMA CarryChangedKeeps ==
  ASSUME NEW changed \in SUBSET Tiles, NEW dst, NEW d, NEW t \in changed \ dst
  PROVE  t \in CarryChanged(changed, dst, d)
  BY DEF CarryChanged

-----------------------------------------------------------------------------
(* The state machine                                                       *)

\* What NewUpdates gives to the keeper.
Given(copied, d, changed) ==
  [changed |-> changed, copied |-> copied, delta |-> d,
   size |-> FALSE, cursor |-> FALSE]

\* It is a container, with these parts.
LEMMA GivenTyped ==
  ASSUME NEW copied \in SUBSET Tiles, NEW changed \in SUBSET Tiles, NEW d \in Int
  PROVE  /\ Given(copied, d, changed) \in UpdateContainer
         /\ Given(copied, d, changed).changed = changed
         /\ Given(copied, d, changed).copied = copied
         /\ Given(copied, d, changed).delta = d
  BY DEF Given, UpdateContainer

\* What is left of a type-correct state after new updates, the keeper apart.
LEMMA NewPixelsTyped ==
  ASSUME TypeOK, NEW copied \in SUBSET Tiles, NEW d, NEW changed, NewUpdates(copied, d, changed),
         keeper' \in UpdateContainer, IsClipped(keeper')
  PROVE  TypeOK'
  <1>1. PICK drawn \in [Tiles -> Pixels] :
          backup' = PaintPixels(CopyPixels(backup, copied, d), changed, drawn)
    BY DEF NewUpdates
  <1>2. backup' \in [Tiles -> Pixels]
    BY <1>1, CopyTyped, PaintTyped DEF TypeOK
  <1>3. ForgottenAfter(copied, d) \subseteq Tiles
    BY DEF ForgottenAfter, DroppedBy, TypeOK
  <1>4. forgotten' \subseteq Tiles
    BY <1>3 DEF NewUpdates
  <1> QED BY <1>2, <1>4 DEF NewUpdates, TypeOK

\* The keeper's container stays one whose copy lies inside the border, and what
\* is forgotten are tiles, whatever the desktop passes on (UpdateKeeper.cpp:57-131).
THEOREM KeeperTypeCorrect == Spec => []TypeOK
  <1>1. Init => TypeOK
    BY DEF Init, TypeOK, EmptyContainer, UpdateContainer, IsClipped
  <1>2. TypeOK /\ [Next]_vars => TypeOK'
    <2> SUFFICES ASSUME TypeOK, [Next]_vars PROVE TypeOK'
      OBVIOUS
    <2>1. ASSUME NEW copied \in SUBSET Tiles, NEW changed \in SUBSET Tiles,
                 NEW d \in -NumTiles..NumTiles, NewUpdates(copied, d, changed)
          PROVE  TypeOK'
      <3> DEFINE u == Given(copied, d, changed)
                 n == IF copied = {} THEN keeper ELSE AddCopyRect(keeper, copied, d)
      <3>0. d \in Int
        BY NumTilesAssumption
      <3>1. copied = ClipCopy(copied, d) /\ IsRect(copied)
        BY <2>1 DEF NewUpdates
      <3>2. u \in UpdateContainer /\ u.copied = copied /\ u.delta = d
        BY <3>0, GivenTyped
      <3>3. keeper' = AddUpdateContainer(keeper, u)
        BY <2>1 DEF NewUpdates, Given
      <3>4. keeper \in UpdateContainer /\ IsClipped(keeper)
        BY DEF TypeOK
      <3> HIDE DEF u
      <3>5. /\ keeper' \in UpdateContainer
            /\ keeper'.copied = n.copied /\ keeper'.delta = n.delta
        BY <3>1, <3>2, <3>3, <3>4, AddUpdateContainerIs
      <3>6. CASE copied = {}
        <4>1. keeper'.copied = keeper.copied /\ keeper'.delta = keeper.delta
          BY <3>5, <3>6
        <4>2. IsClipped(keeper')
          BY <3>4, <4>1 DEF IsClipped
        <4> QED BY <2>1, <3>5, <4>2, NewPixelsTyped
      <3>7. CASE copied # {}
        <4>0. StaysInside(copied, d)
          BY <3>1, <3>7 DEF StaysInside
        <4>1. /\ keeper'.copied = AddCopyRect(keeper, copied, d).copied
              /\ keeper'.delta = AddCopyRect(keeper, copied, d).delta
          BY <3>5, <3>7
        <4>2. IsClipped(AddCopyRect(keeper, copied, d))
          BY <3>0, <3>4, <4>0, CopyRectClipped, Zenon
        <4>3. IsClipped(keeper')
          BY <4>1, <4>2 DEF IsClipped
        <4> QED BY <2>1, <3>5, <4>3, NewPixelsTyped
      <3> QED BY <3>6, <3>7
    <2>2. CASE SendUpdate
      <3>1. viewer' \in [Tiles -> Pixels]
        BY <2>2, CopyTyped, PaintTyped DEF SendUpdate, TypeOK
      <3>2. keeper' \in UpdateContainer /\ IsClipped(keeper')
        BY <2>2 DEF SendUpdate, EmptyContainer, UpdateContainer, IsClipped
      <3> QED BY <2>2, <3>1, <3>2 DEF SendUpdate, TypeOK
    <2>3. CASE UNCHANGED vars
      BY <2>3 DEF vars, TypeOK, IsClipped
    <2> QED BY <2>1, <2>2, <2>3 DEF Next
  <1> QED BY <1>1, <1>2, PTL DEF Spec

\* Adding a container keeps the keeper sound.
LEMMA NewUpdatesSound ==
  ASSUME TypeOK, KeeperIsSound,
         NEW copied \in SUBSET Tiles, NEW changed \in SUBSET Tiles,
         NEW d \in -NumTiles..NumTiles, NewUpdates(copied, d, changed)
  PROVE  KeeperIsSound'
  <1> DEFINE u == Given(copied, d, changed)
             n == IF copied = {} THEN keeper ELSE AddCopyRect(keeper, copied, d)
  <1>0. d \in Int
    BY NumTilesAssumption
  <1>1. /\ copied = ClipCopy(copied, d) /\ IsRect(copied)
        /\ forgotten' = ForgottenAfter(copied, d) \ keeper'.changed
        /\ viewer' = viewer
    BY DEF NewUpdates
  <1>2. keeper \in UpdateContainer
    BY DEF TypeOK
  <1>3. /\ u \in UpdateContainer /\ u.changed = changed
        /\ u.copied = copied /\ u.delta = d
    BY <1>0, GivenTyped
  <1>4. keeper' = AddUpdateContainer(keeper, u)
    BY DEF NewUpdates, Given
  <1> HIDE DEF u
  <1>5. /\ n \in UpdateContainer
        /\ keeper'.changed = n.changed \union changed
        /\ keeper'.copied = n.copied /\ keeper'.delta = n.delta
    BY <1>1, <1>2, <1>3, <1>4, AddUpdateContainerIs
  <1> SUFFICES ASSUME NEW t \in Tiles, t \notin n.changed, t \notin changed,
                      t \notin ForgottenAfter(copied, d)
               PROVE  CopyPixels(viewer, n.copied, n.delta)[t] = backup'[t]
    BY <1>1, <1>5 DEF KeeperIsSound
  <1>6. backup'[t] = IF t \in copied THEN backup[t - d] ELSE backup[t]
    <2>1. PICK drawn \in [Tiles -> Pixels] :
            backup' = PaintPixels(CopyPixels(backup, copied, d), changed, drawn)
      BY DEF NewUpdates
    <2>2. backup'[t] = CopyPixels(backup, copied, d)[t]
      BY <2>1, PaintReads
    <2> QED BY <1>1, <2>2, CopyReads, ClippedCopy
  <1>7. CASE copied = {}
    <2>1. t \notin forgotten
      BY <1>7 DEF ForgottenAfter
    <2> QED BY <1>6, <1>7, <2>1 DEF KeeperIsSound
  <1>8. CASE copied # {} /\ HasCopy(keeper)
    <2>0. n = AddCopyRect(keeper, copied, d)
      BY <1>8
    <2> HIDE DEF n
    <2>1. /\ n.changed = keeper.changed \union keeper.copied \union copied
          /\ n.copied = {}
      <3>1. StaysInside(copied, d)
        BY <1>1, <1>8 DEF StaysInside
      <3>2. /\ AddCopyRect(keeper, copied, d).changed =
                 keeper.changed \union keeper.copied \union copied
            /\ AddCopyRect(keeper, copied, d).copied = {}
        BY <1>0, <1>2, <1>8, <3>1, SecondCopy, Zenon
      <3> QED BY <2>0, <3>2
    <2>2. CopyPixels(viewer, n.copied, n.delta)[t] = viewer[t]
      BY <2>1, CopyReads
    <2>3. CopyPixels(viewer, keeper.copied, keeper.delta)[t] = viewer[t]
      BY <2>1, CopyReads
    <2>4. viewer[t] = backup[t]
      <3>1. t \notin forgotten
        BY <2>1 DEF ForgottenAfter
      <3> QED BY <2>1, <2>3, <3>1 DEF KeeperIsSound
    <2> QED BY <1>6, <2>1, <2>2, <2>4
  <1>9. CASE copied # {} /\ HasNoCopy(keeper)
    <2>0. n = AddCopyRect(keeper, copied, d)
      BY <1>9
    <2> HIDE DEF n
    <2>1. /\ n.changed = CarryChanged(keeper.changed, copied, d) \intersect Tiles
          /\ n.copied = copied /\ n.delta = d
      <3>1. StaysInside(copied, d)
        BY <1>1, <1>9 DEF StaysInside
      <3>2. /\ AddCopyRect(keeper, copied, d).changed =
                 CarryChanged(keeper.changed, copied, d) \intersect Tiles
            /\ AddCopyRect(keeper, copied, d).copied = copied
            /\ AddCopyRect(keeper, copied, d).delta = d
        BY <1>0, <1>2, <1>9, <3>1, FirstCopy
      <3> QED BY <2>0, <3>2
    <2>2. \A s \in Tiles \ (keeper.changed \union forgotten) : viewer[s] = backup[s]
      BY <1>9, CopyReads DEF KeeperIsSound, HasNoCopy
    <2>3. keeper.changed \in SUBSET Tiles
      BY <1>2 DEF UpdateContainer
    <2>4. CASE t \in copied
      <3>1. t - d \in Tiles
        BY <1>1, <2>4, ClippedCopy
      <3>2. t - d \notin forgotten
        BY <2>4 DEF ForgottenAfter
      <3>3. ~(t - d \in keeper.changed /\ t - d \in copied)
        BY <1>9, <2>4 DEF ForgottenAfter, DroppedBy, HasNoCopy
      <3>4. t - d \notin keeper.changed
        BY <1>0, <2>1, <2>3, <2>4, <3>3, CarryChangedCarries
      <3> QED BY <1>6, <2>1, <2>2, <2>4, <3>1, <3>2, <3>4, CopyReads
    <2>5. CASE t \notin copied
      <3>1. t \notin keeper.changed
        BY <2>1, <2>3, <2>5, CarryChangedKeeps
      <3>2. t \notin forgotten
        BY <2>5 DEF ForgottenAfter
      <3> QED BY <1>6, <2>1, <2>2, <2>5, <3>1, <3>2, CopyReads
    <2> QED BY <2>4, <2>5
  <1> QED BY <1>7, <1>8, <1>9 DEF HasCopy, HasNoCopy

\* Sending what is kept makes every tile right that is not forgotten.
LEMMA SendingCatchesUp ==
  ASSUME KeeperIsSound, SendUpdate, NEW t \in Tiles, t \notin forgotten
  PROVE  viewer'[t] = backup'[t]
  <1> DEFINE copy == CopyPixels(viewer, keeper.copied, keeper.delta)
  <1>1. /\ viewer' = PaintPixels(copy, keeper.changed, backup)
        /\ backup' = backup
    BY DEF SendUpdate
  <1>2. t \notin keeper.changed => copy[t] = backup[t]
    BY DEF KeeperIsSound
  <1> QED BY <1>1, <1>2, PaintReads

\* UpdateKeeper keeps enough: whatever copies and changes are added, sending what
\* is kept makes every tile of the viewer right but those whose change was dropped
\* by a copy that overlaps its own source (UpdateKeeper.cpp:57-196).
THEOREM KeeperSound == Spec => []KeeperIsSound
  <1>1. Init => KeeperIsSound
    <2> SUFFICES ASSUME Init, NEW t \in Tiles
                 PROVE  CopyPixels(viewer, keeper.copied, keeper.delta)[t] = backup[t]
      BY DEF KeeperIsSound
    <2> QED BY CopyReads DEF Init, EmptyContainer
  <1>2. TypeOK /\ KeeperIsSound /\ [Next]_vars => KeeperIsSound'
    <2> SUFFICES ASSUME TypeOK, KeeperIsSound, [Next]_vars PROVE KeeperIsSound'
      OBVIOUS
    <2>1. ASSUME NEW copied \in SUBSET Tiles, NEW changed \in SUBSET Tiles,
                 NEW d \in -NumTiles..NumTiles, NewUpdates(copied, d, changed)
          PROVE  KeeperIsSound'
      BY <2>1, NewUpdatesSound
    <2>2. CASE SendUpdate
      <3>1. keeper'.copied = {}
        BY <2>2 DEF SendUpdate, EmptyContainer
      <3>2. \A t \in Tiles : CopyPixels(viewer', keeper'.copied, keeper'.delta)[t] = viewer'[t]
        BY <3>1, CopyReads
      <3>3. keeper'.changed = {} /\ forgotten' = forgotten
        BY <2>2 DEF SendUpdate, EmptyContainer
      <3> QED BY <2>2, <3>2, <3>3, SendingCatchesUp DEF KeeperIsSound
    <2>3. CASE UNCHANGED vars
      BY <2>3 DEF vars, KeeperIsSound
    <2> QED BY <2>1, <2>2, <2>3 DEF Next
  <1>3. Spec => []TypeOK
    BY KeeperTypeCorrect
  <1> QED BY <1>1, <1>2, <1>3, PTL DEF Spec
=============================================================================
