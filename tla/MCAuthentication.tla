-------------------------- MODULE MCAuthentication --------------------------
(* An instance of Authentication for TLC.                                  *)
EXTENDS Authentication, TLC

Default ==
  [useAuth |-> TRUE, hasPrimary |-> TRUE, primary |-> "full",
   hasReadOnly |-> TRUE, readOnly |-> "view",
   rule |-> [a \in Addresses |-> "query"], acceptByDefault |-> FALSE,
   allowLoopback |-> FALSE, onlyLoopback |-> FALSE,
   alwaysShared |-> FALSE, neverShared |-> TRUE, disconnectClients |-> TRUE]

\* The default; no password is needed, the old client stays, and who gets no
\* answer is accepted; no primary password any more, and no connections, or none but
\* from this computer if a client is past the rules.
Family ==
  {Default,
   [Default EXCEPT !.useAuth = FALSE, !.disconnectClients = FALSE, !.acceptByDefault = TRUE],
   [Default EXCEPT !.hasPrimary = FALSE, !.onlyLoopback = TRUE,
                   !.rule = [a \in Addresses |-> "deny"]]}

\* A bound: the settings change at most once during a connection.
OneChange == \A c \in Clients : Cardinality(seen[c]) <= 2

Reused == Permutations(Clients)
=============================================================================
