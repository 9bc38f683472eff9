--------------------------- MODULE MCFileTransfer ---------------------------
(* An instance of FileTransfer for TLC.                                    *)
EXTENDS FileTransfer, TLC

Tree(t) == [p \in Paths |-> IF p \in DOMAIN t THEN t[p] ELSE Absent]

\* A folder both sides have, with a file that is longer on the server in it, and a file
\* that is longer here.
LocalTree == Tree(<<1>> :> Folder @@ <<1, 1>> :> File(<<"a">>) @@ <<2>> :> File(<<"a", "b">>))
RemoteTree == Tree(<<1>> :> Folder @@ <<1, 1>> :> File(<<"b", "b">>) @@ <<2>> :> File(<<"b">>))

Transfers ==
  [kind : {"upload", "remove"}, names : {{1, 2}}]
  \cup [kind : {"download"}, names : {{1, 2}, {2}, {3}}]
  \cup {[kind |-> "mkdir", path |-> <<3>>], [kind |-> "rename", path |-> <<2>>, to |-> <<1, 3>>]}
=============================================================================
