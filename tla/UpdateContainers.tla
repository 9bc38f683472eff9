-------------------------- MODULE UpdateContainers --------------------------
(***************************************************************************)
(* Update containers and the operations of UpdateKeeper on the one it      *)
(* keeps.  The screen is a strip of tiles 1..NumTiles, a region a set of   *)
(* tiles and a displacement an integer: copying a region by d takes the    *)
(* pixels of tile t - d to tile t.  Every operation runs under the         *)
(* keeper's own mutex.                                                     *)
(*                                                                         *)
(* videoRegion only selects another encoder and is not kept apart; cursor  *)
(* stands for cursorPosChanged and cursorShapeChanged.                     *)
(***************************************************************************)
EXTENDS Integers

CONSTANT NumTiles

ASSUME NumTilesAssumption == NumTiles \in Nat

\* The keeper's m_borderRect.
Tiles == 1..NumTiles

Translate(region, d) == {t + d : t \in region}

UpdateContainer ==
  [changed : SUBSET Tiles, copied : SUBSET Tiles, delta : Int,
   size : BOOLEAN, cursor : BOOLEAN]

EmptyContainer ==
  [changed |-> {}, copied |-> {}, delta |-> 0, size |-> FALSE, cursor |-> FALSE]

\* What is copied has its source inside the border.
IsClipped(k) == \A t \in k.copied : t - k.delta \in Tiles

IsEmpty(k) ==
  k.changed = {} /\ k.copied = {} /\ ~k.size /\ ~k.cursor

AddChangedRegion(k, region) ==
  [k EXCEPT !.changed = @ \union (region \intersect Tiles)]

\* The part of a copied rectangle that is inside the border at both ends.
ClipCopy(rect, d) == {t \in rect \intersect Tiles : t - d \in Tiles}

\* A mistake: the changed part of the source is forgotten.
CarryNothing(changed, dst, d) == changed \ dst

\* What a copy of dst leaves changed: the copied tiles are removed first, then
\* the changed part of what remains of the source is carried along.
CarryChanged(changed, dst, d) ==
  LET remaining == changed \ dst IN
    remaining \union Translate(Translate(dst, -d) \intersect remaining, d)

\* A region without gaps is one rectangle.
IsRect(region) == \A s, t \in region : s..t \subseteq region

\* The first of the rectangles a region consists of.
FirstRect(region) == {t \in region : \A s \in region : s..t \subseteq region}

AddCopyRect(k, rect, d) ==
  LET dst  == ClipCopy(rect, d)
      lost == AddChangedRegion(k, rect \ dst)
  IN  IF dst = {} THEN k
      ELSE IF k.copied # {}
        THEN [AddChangedRegion(lost, k.copied \union rect)
                EXCEPT !.copied = {}, !.delta = 0]
        ELSE [lost EXCEPT !.changed = CarryChanged(@, dst, d) \intersect Tiles,
                          !.copied = dst, !.delta = d]

\* A container passed on to a keeper: one copied rectangle first ("FIXME: Use
\* addCopyRegion instead of addCopyRect"), then the rest.
AddUpdateContainer(k, u) ==
  LET copied == IF u.copied = {} THEN k
                ELSE AddCopyRect(k, FirstRect(u.copied), u.delta)
  IN  [AddChangedRegion(copied, u.changed)
         EXCEPT !.size = @ \/ u.size, !.cursor = @ \/ u.cursor]

DazzleChangedReg(k) == AddChangedRegion(k, Tiles)

CheckForUpdates(k, region) ==
  k.cursor \/ k.size \/ (k.changed \union k.copied) \intersect region # {}

-----------------------------------------------------------------------------
(* What applying a container does to pixels                                *)

\* A copy reads the pixels as they were before it.
CopyPixels(pixels, dst, d) ==
  [t \in Tiles |-> IF t \in dst /\ t - d \in Tiles THEN pixels[t - d] ELSE pixels[t]]

\* The pixels of source for the tiles of a region, the others as they were.
PaintPixels(pixels, region, source) ==
  [t \in Tiles |-> IF t \in region THEN source[t] ELSE pixels[t]]

=============================================================================
