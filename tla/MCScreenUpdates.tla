--------------------------- MODULE MCScreenUpdates ---------------------------
(* Instances of ScreenUpdates for TLC.                                     *)
EXTENDS ScreenUpdates

\* What a viewer requests: always the whole screen, or sometimes a part of it.
WholeScreen == {Tiles}
PartOrWhole == {{1}, Tiles}

\* Bounds on what may happen at once.  Besides a resize and a failure, or a move of
\* the cursor instead, two requests wait together only while nothing has happened
\* yet or when both are incremental and only one thing has.
Events == screenFormat + cursorMoves + grabFailures
FullRequest(c) == fullUpdIsReq[c] \/ taken[c].fullIsReq
NotEverything ==
  /\ cursorMoves = 0 \/ screenFormat + grabFailures = 0
  /\ \A c \in Clients :
       credit[c] > 1 => Events = 0 \/ (Events = 1 /\ ~FullRequest(c))

\* The grab fails when what the viewer requests is the whole screen.
FailsForWholeScreen ==
  \A c \in Clients :
    grabFailures > 0 => {reqIncr[c], taken[c].incr} \subseteq {{}, Tiles}
=============================================================================
