----------------------------- MODULE OwedUpdates -----------------------------
(***************************************************************************)
(* What the way of updates promises a viewer (UpdateSender.h, sendUpdate:  *)
(* "sends all stored updates to the client").  The server keeps account of *)
(* what it owes: what it does not owe is shown rightly, a debt is paid by  *)
(* an answer and by nothing else, an answer is given to a request, and it  *)
(* touches what is owed only.                                              *)
(***************************************************************************)
EXTENDS Naturals

CONSTANTS Clients, Tiles, Pixels

VARIABLES
  picture,  \* what there is to show
  shown,    \* what each viewer shows
  owed,     \* the tiles each viewer has still to be sent
  asked     \* the requests of each viewer that have not been answered

vars == <<picture, shown, owed, asked>>

\* Who has connected shows nothing yet, and is owed everything.
Init ==
  /\ picture \in [Tiles -> Pixels] /\ shown \in [Clients -> [Tiles -> Pixels]]
  /\ owed = [c \in Clients |-> Tiles]
  /\ asked = [c \in Clients |-> 0]

\* The picture changes, and the changed tiles are owed to everybody who does not
\* show them yet.
Redraw ==
  /\ picture' \in [Tiles -> Pixels] /\ owed' \in [Clients -> SUBSET Tiles]
  /\ \A c \in Clients :
       /\ owed[c] \subseteq owed'[c]
       /\ \A t \in Tiles \ owed'[c] : shown[c][t] = picture'[t]
  /\ UNCHANGED <<shown, asked>>

Ask(c) ==
  /\ asked' = [asked EXCEPT ![c] = @ + 1]
  /\ UNCHANGED <<picture, shown, owed>>

\* One request is answered with some of what is owed; what is not owed any more
\* is shown as it is.
Answer(c) ==
  /\ asked[c] > 0 /\ asked' = [asked EXCEPT ![c] = @ - 1]
  /\ shown' \in [Clients -> [Tiles -> Pixels]] /\ owed' \in [Clients -> SUBSET Tiles]
  /\ \A d \in Clients \ {c} : shown'[d] = shown[d] /\ owed'[d] = owed[d]
  /\ owed'[c] \subseteq owed[c]
  /\ \A t \in Tiles \ owed[c] : shown'[c][t] = shown[c][t]
  /\ \A t \in Tiles \ owed'[c] : shown'[c][t] = picture[t]
  /\ UNCHANGED picture

Next == Redraw \/ \E c \in Clients : Ask(c) \/ Answer(c)

Spec == Init /\ [][Next]_vars
=============================================================================
