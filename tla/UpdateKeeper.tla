---------------------------- MODULE UpdateKeeper ----------------------------
(***************************************************************************)
(* One client's UpdateKeeper between the desktop, which adds containers to *)
(* it whenever any client is ready, and the client's UpdateSender, which   *)
(* extracts it when this client asks.  Adding and sending are each one     *)
(* step here; ScreenUpdates takes them apart.                              *)
(***************************************************************************)
EXTENDS UpdateContainers

CONSTANT Pixels  \* what a tile may show

VARIABLES
  backup,    \* the desktop's frame buffer
  viewer,    \* what the client's user sees
  keeper,    \* m_updateContainer
  forgotten  \* history: the tiles whose change a copy has dropped

vars == <<backup, viewer, keeper, forgotten>>

Init ==
  /\ backup \in [Tiles -> Pixels]
  /\ viewer = backup
  /\ keeper = EmptyContainer
  /\ forgotten = {}

\* The tiles that a copy fills from tiles which wait to be sent and which it
\* overwrites as well: addCopyRect takes its destination out of the changed region
\* before it looks for changes in the source, so that these are not carried along.
DroppedBy(copied, d) ==
  IF keeper.copied # {} THEN {}
  ELSE {t \in copied : t - d \in keeper.changed \intersect copied}

\* Wrong tiles are moved by a copy like any others, until they are sent again.
ForgottenAfter(copied, d) ==
  (forgotten \ copied) \union {t \in copied : t - d \in forgotten}
    \union DroppedBy(copied, d)

\* What the desktop's filter passes on: a rectangle moved by d if there is one,
\* which may overlap its own source, then the tiles that have got other pixels.
NewUpdates(copied, d, changed) ==
  /\ IsRect(copied) /\ copied = ClipCopy(copied, d) /\ (copied # {} => d # 0)
  /\ \E drawn \in [Tiles -> Pixels] :
       backup' = PaintPixels(CopyPixels(backup, copied, d), changed, drawn)
  /\ keeper' = AddUpdateContainer(keeper,
                 [changed |-> changed, copied |-> copied, delta |-> d,
                  size |-> FALSE, cursor |-> FALSE])
  /\ forgotten' = ForgottenAfter(copied, d) \ keeper'.changed
  /\ UNCHANGED viewer

\* The sender extracts everything and sends it, CopyRect rectangles first.
SendUpdate ==
  /\ ~IsEmpty(keeper)
  /\ viewer' = PaintPixels(CopyPixels(viewer, keeper.copied, keeper.delta),
                           keeper.changed, backup)
  /\ keeper' = EmptyContainer
  /\ UNCHANGED <<backup, forgotten>>

Next ==
  \/ \E copied, changed \in SUBSET Tiles, d \in -NumTiles..NumTiles :
       NewUpdates(copied, d, changed)
  \/ SendUpdate

Spec == Init /\ [][Next]_vars

-----------------------------------------------------------------------------

\* Pixels, and a container whose copy lies inside the border at both ends.
TypeOK ==
  /\ backup \in [Tiles -> Pixels] /\ viewer \in [Tiles -> Pixels]
  /\ keeper \in UpdateContainer
  /\ IsClipped(keeper)
  /\ forgotten \subseteq Tiles

\* What is kept is enough: whatever sequence of copies and changes was added,
\* sending it makes every tile of the viewer right, except for the tiles whose
\* change was dropped by a copy that overlaps its own source.  The keeper merges
\* copies into changes (UpdateKeeper.cpp:105), and "Create region that is
\* intersection of changedRegion and srcCopyRect" (UpdateKeeper.cpp:119) is there
\* so that a tile copied from one that is still waiting is waiting as well.
KeeperIsSound ==
  \A t \in Tiles \ (keeper.changed \union forgotten) :
    CopyPixels(viewer, keeper.copied, keeper.delta)[t] = backup[t]

=============================================================================
