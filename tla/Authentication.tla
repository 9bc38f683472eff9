--------------------------- MODULE Authentication ---------------------------
(***************************************************************************)
(* How a connection becomes a client: the handshake of RfbInitializer, the *)
(* ban list and the access rules of RfbClientManager it consults, and the  *)
(* settings, which the administrator may change at any time.  Each client  *)
(* runs in a thread of its own; a step ends where it waits for its viewer  *)
(* or leaves the mutex of the ban list, of the client lists or of the      *)
(* settings.                                                               *)
(***************************************************************************)
EXTENDS Integers, FiniteSets

CONSTANTS
  Clients,      \* connections; one that has ended may be made again
  Addresses,
  Loopback,     \* the addresses of this computer
  Passwords,
  NoPassword,   \* no response yet
  NotListed,    \* no entry in the ban list
  MaxBanCount,  \* MAX_BAN_COUNT
  BanTime,      \* BAN_TIME
  MaxTime,      \* bounds the clock
  Settings      \* a family of settings the administrator chooses from

Rules == {"allow", "deny", "query"}
\* A password that is deleted stays in store: only the flag is taken back.
Setting == [useAuth : BOOLEAN, hasPrimary : BOOLEAN, primary : Passwords,
            hasReadOnly : BOOLEAN, readOnly : Passwords, rule : [Addresses -> Rules],
            acceptByDefault : BOOLEAN, allowLoopback : BOOLEAN, onlyLoopback : BOOLEAN,
            alwaysShared : BOOLEAN, neverShared : BOOLEAN, disconnectClients : BOOLEAN]
BanProp == [count : Nat, first : Nat]

ASSUME AuthenticationAssumption ==
  /\ IsFiniteSet(Clients)
  /\ Loopback \subseteq Addresses
  /\ NoPassword \notin Passwords
  /\ NotListed \notin BanProp
  /\ MaxBanCount \in Nat /\ BanTime \in Nat \ {0} /\ MaxTime \in Nat
  /\ Settings \subseteq Setting

VARIABLES
  settings,     \* ServerConfig
  now,          \* DateTime::now
  banList,      \* m_banList
  clientList,   \* m_clientList: the authorized clients
  pc,           \* what each client's thread does next
  peer,         \* the address of its viewer
  outgoing,     \* m_isOutgoing
  viewOnly,     \* RfbClient::m_viewOnly
  viewOnlyAuth, \* RfbInitializer::m_viewOnlyAuth
  offered,      \* primSecType
  response,     \* the password the response was made with
  hasRdly,      \* the local variable of doVncAuth
  shared,       \* m_shared
  open,         \* whether disconnect() has not been called
  seen,         \* history: the settings in force while it was connected
  accepted,     \* history: who accepted it
  failures      \* history: failures of an address since its entry was made

environment == <<settings, now>>
manager == <<banList, clientList, failures>>
identity == <<peer, outgoing, seen>>
flags == <<viewOnly, viewOnlyAuth, shared, open>>
handshake == <<offered, response, hasRdly, accepted>>
vars == <<environment, manager, pc, identity, flags, handshake>>

Waiting == {"version", "select", "selectTight", "challenge", "clientInit", "normal"}
Comparing == {"passwords", "comparePrimary", "compareReadOnly"}
Querying == {"queryRejecting", "queryAccepting"}
Places == Waiting \cup Comparing \cup Querying
  \cup {"none", "offer", "impose", "offerTight", "wrong", "access", "auth", "list", "leaving"}
SecTypes == {"vnc", "none"}

\* Clients whose response was read before the ban list was asked the last time,
\* and those of them whose failure is not in it yet.
InFlight(a) == {c \in Clients : pc[c] \in Comparing \cup {"wrong"} /\ peer[c] = a}
Wrong(a) == {c \in Clients : pc[c] = "wrong" /\ peer[c] = a}

TypeOK ==
  /\ settings \in Setting
  /\ now \in 0..MaxTime
  /\ banList \in [Addresses -> BanProp \cup {NotListed}]
  /\ clientList \subseteq {c \in Clients : pc[c] \in {"normal", "leaving"}}
  /\ pc \in [Clients -> Places]
  /\ peer \in [Clients -> Addresses]
  /\ outgoing \in [Clients -> BOOLEAN]
  /\ viewOnly \in [Clients -> BOOLEAN] /\ viewOnlyAuth \in [Clients -> BOOLEAN]
  /\ shared \in [Clients -> BOOLEAN] /\ open \in [Clients -> BOOLEAN]
  /\ offered \in [Clients -> SecTypes]
  /\ response \in [Clients -> Passwords \cup {NoPassword}]
  /\ hasRdly \in [Clients -> BOOLEAN]
  /\ seen \in [Clients -> SUBSET Setting]
  /\ accepted \in [Clients -> {"nobody", "user", "default"}]
  /\ failures \in [Addresses -> Nat]

Init ==
  /\ settings \in Settings /\ now = 0
  /\ banList = [a \in Addresses |-> NotListed]
  /\ clientList = {}
  /\ pc = [c \in Clients |-> "none"]
  /\ peer \in [Clients -> Addresses]
  /\ outgoing = [c \in Clients |-> FALSE]
  /\ viewOnly = [c \in Clients |-> FALSE] /\ viewOnlyAuth = [c \in Clients |-> FALSE]
  /\ shared = [c \in Clients |-> FALSE] /\ open = [c \in Clients |-> FALSE]
  /\ offered = [c \in Clients |-> "none"]
  /\ response = [c \in Clients |-> NoPassword]
  /\ hasRdly = [c \in Clients |-> FALSE]
  /\ seen = [c \in Clients |-> {}]
  /\ accepted = [c \in Clients |-> "nobody"]
  /\ failures = [a \in Addresses |-> 0]

-----------------------------------------------------------------------------
(* The ban list                                                            *)

\* The difference of two times is unsigned: it is huge if the clock was put
\* back beyond the first failure.
Expired(entry) == now < entry.first \/ now - entry.first >= BanTime
Refreshed ==
  [a \in Addresses |->
    IF banList[a] # NotListed /\ Expired(banList[a]) THEN NotListed ELSE banList[a]]
FailuresOf(list) == [a \in Addresses |-> IF list[a] = NotListed THEN 0 ELSE failures[a]]

Banned(a) == Refreshed[a] # NotListed /\ Refreshed[a].count >= MaxBanCount

\* A mistake: the entry is made, and never counted up.
CountedOnce(a) ==
  [Refreshed EXCEPT ![a] =
    IF Refreshed[a] = NotListed THEN [count |-> 0, first |-> now] ELSE Refreshed[a]]

\* updateIpInBan
Counted(a) ==
  [Refreshed EXCEPT ![a] =
    IF Refreshed[a] = NotListed THEN [count |-> 0, first |-> now]
    ELSE [Refreshed[a] EXCEPT !.count = @ + 1]]

Pardoned(a) == [Refreshed EXCEPT ![a] = NotListed]

-----------------------------------------------------------------------------
(* Connecting                                                              *)

Go(c, place) == pc' = [pc EXCEPT ![c] = place]

\* RfbClient's and RfbInitializer's constructors.
Fresh(c, vo, isOpen) ==
  /\ viewOnly' = [viewOnly EXCEPT ![c] = vo]
  /\ viewOnlyAuth' = [viewOnlyAuth EXCEPT ![c] = FALSE]
  /\ shared' = [shared EXCEPT ![c] = FALSE]
  /\ open' = [open EXCEPT ![c] = isOpen]
  /\ offered' = [offered EXCEPT ![c] = "none"]
  /\ response' = [response EXCEPT ![c] = NoPassword]
  /\ hasRdly' = [hasRdly EXCEPT ![c] = FALSE]
  /\ accepted' = [accepted EXCEPT ![c] = "nobody"]

\* RfbClientManager::addNewConnection
Connect(c, a, out, vo) ==
  /\ pc[c] = "none"
  /\ Go(c, "version")
  /\ peer' = [peer EXCEPT ![c] = a]
  /\ outgoing' = [outgoing EXCEPT ![c] = out]
  /\ seen' = [seen EXCEPT ![c] = {settings}]
  /\ Fresh(c, vo, TRUE)
  /\ UNCHANGED <<environment, manager>>

\* RfbServer::onAcceptConnection: an address that is denied is turned away.
Accept(c, a) == settings.rule[a] # "deny" /\ Connect(c, a, FALSE, FALSE)
\* The user connects to a viewer that listens.
CallViewer(c, a, vo) == Connect(c, a, TRUE, vo)

\* initVersion. A bad version, a loopback address that is not allowed and a
\* banned one end the connection.
LoopbackAllows(a) ==
  IF a \in Loopback THEN settings.allowLoopback ELSE ~settings.onlyLoopback
ReadVersion(c) ==
  /\ pc[c] = "version"
  /\ \/ /\ ~LoopbackAllows(peer[c])
        /\ Go(c, "leaving")
        /\ UNCHANGED manager
     \/ /\ LoopbackAllows(peer[c])
        /\ banList' = Refreshed /\ failures' = FailuresOf(Refreshed)
        /\ IF Banned(peer[c])
             THEN Go(c, "leaving")
             ELSE \E next \in {"offer", "impose"} : Go(c, next)
        /\ UNCHANGED clientList
  /\ UNCHANGED <<environment, identity, flags, handshake>>

-----------------------------------------------------------------------------
(* Security types                                                          *)

Required(c) == IF settings.useAuth /\ ~outgoing[c] THEN "vnc" ELSE "none"
DoAuth(c, type) == Go(c, IF type = "vnc" THEN "challenge" ELSE "access")
NothingElse == UNCHANGED <<environment, manager, identity, flags, response, hasRdly, accepted>>

\* initAuthenticate from version 3.7 on: the viewer selects ...
OfferSecurity(c) ==
  /\ pc[c] = "offer"
  /\ offered' = [offered EXCEPT ![c] = Required(c)]
  /\ Go(c, "select")
  /\ NothingElse
\* ... and before, it is told.
ImposeSecurity(c) ==
  /\ pc[c] = "impose"
  /\ DoAuth(c, Required(c))
  /\ NothingElse /\ UNCHANGED offered

\* A mistake: every type the server knows is taken, offered or not.
SelectAnySecurity(c, type) ==
  /\ pc[c] = "select"
  /\ CASE type = "tight"  -> Go(c, "offerTight")
       [] type \in SecTypes -> DoAuth(c, type)
       [] OTHER -> Go(c, "leaving")
  /\ NothingElse /\ UNCHANGED offered

SelectSecurity(c, type) ==
  /\ pc[c] = "select"
  /\ CASE type = "tight"  -> Go(c, "offerTight")
       [] type = offered[c] -> DoAuth(c, type)
       [] OTHER -> Go(c, "leaving")
  /\ NothingElse /\ UNCHANGED offered

\* doTightAuth reads the settings again.
OfferTight(c) ==
  /\ pc[c] = "offerTight"
  /\ IF Required(c) = "vnc" THEN Go(c, "selectTight") ELSE DoAuth(c, "none")
  /\ NothingElse /\ UNCHANGED offered
SelectTight(c, type) ==
  /\ pc[c] = "selectTight"
  /\ Go(c, IF type = "vnc" THEN "challenge" ELSE "leaving")
  /\ NothingElse /\ UNCHANGED offered

-----------------------------------------------------------------------------
(* doVncAuth                                                               *)

\* The response is read and the ban list asked once more.
Respond(c, p) ==
  /\ pc[c] = "challenge"
  /\ response' = [response EXCEPT ![c] = p]
  /\ banList' = Refreshed /\ failures' = FailuresOf(Refreshed)
  /\ Go(c, IF Banned(peer[c]) THEN "leaving" ELSE "passwords")
  /\ UNCHANGED <<environment, clientList, identity, flags, offered, hasRdly, accepted>>

ReadPasswordFlags(c) ==
  /\ pc[c] = "passwords"
  /\ hasRdly' = [hasRdly EXCEPT ![c] = settings.hasReadOnly]
  /\ Go(c, IF settings.hasPrimary THEN "comparePrimary"
           ELSE IF settings.hasReadOnly THEN "compareReadOnly"
           ELSE "leaving")
  /\ UNCHANGED <<environment, manager, identity, flags, offered, response, accepted>>

ComparePrimary(c) ==
  /\ pc[c] = "comparePrimary"
  /\ Go(c, IF response[c] = settings.primary THEN "access"
           ELSE IF hasRdly[c] THEN "compareReadOnly"
           ELSE "wrong")
  /\ UNCHANGED <<environment, manager, identity, flags, handshake>>

CompareReadOnly(c) ==
  /\ pc[c] = "compareReadOnly"
  /\ viewOnlyAuth' = [viewOnlyAuth EXCEPT ![c] = response[c] = settings.readOnly]
  /\ Go(c, IF response[c] = settings.readOnly THEN "access" ELSE "wrong")
  /\ UNCHANGED <<environment, manager, identity, viewOnly, shared, open, handshake>>

\* RfbClientManager::onAuthFailed
AuthFailed(c) ==
  /\ pc[c] = "wrong"
  /\ banList' = Counted(peer[c])
  /\ failures' = [FailuresOf(Refreshed) EXCEPT ![peer[c]] = @ + 1]
  /\ Go(c, "leaving")
  /\ UNCHANGED <<environment, clientList, identity, flags, handshake>>

-----------------------------------------------------------------------------
(* Access control and the end of the handshake                             *)

\* RfbClientManager::onCheckAccessControl: only "query" is looked for. What to do
\* without an answer is read together with the rule.
Query == IF settings.acceptByDefault THEN "queryAccepting" ELSE "queryRejecting"

\* A mistake: the connections the server made itself are asked about.
CheckAccessOfOutgoing(c) ==
  /\ pc[c] = "access"
  /\ Go(c, IF outgoing[c] /\ settings.rule[peer[c]] = "query" THEN Query ELSE "clientInit")
  /\ UNCHANGED <<environment, manager, identity, flags, handshake>>

CheckAccess(c) ==
  /\ pc[c] = "access"
  /\ Go(c, IF ~outgoing[c] /\ settings.rule[peer[c]] = "query" THEN Query ELSE "clientInit")
  /\ UNCHANGED <<environment, manager, identity, flags, handshake>>

\* QueryConnectionApplication::execute: the user answers in another process ...
AnswerQuery(c, accept) ==
  /\ pc[c] \in Querying
  /\ accepted' = [accepted EXCEPT ![c] = IF accept THEN "user" ELSE "nobody"]
  /\ Go(c, IF accept THEN "clientInit" ELSE "leaving")
  /\ UNCHANGED <<environment, manager, identity, flags, offered, response, hasRdly>>

\* ... or the default action is taken: the time for the answer passes, the process
\* does not start, or it ends with a code that is no answer.
StayUnanswered(c) ==
  /\ pc[c] \in Querying
  /\ accepted' = [accepted EXCEPT ![c] = IF pc[c] = "queryAccepting" THEN "default" ELSE "nobody"]
  /\ Go(c, IF pc[c] = "queryAccepting" THEN "clientInit" ELSE "leaving")
  /\ UNCHANGED <<environment, manager, identity, flags, offered, response, hasRdly>>

\* readClientInit and what RfbClient::execute takes over from the initializer.
\* A mistake: the result of the authentication is not taken over.
ReadClientInitOnly(c, s) ==
  /\ pc[c] = "clientInit"
  /\ shared' = [shared EXCEPT ![c] = s]
  /\ Go(c, "auth")
  /\ UNCHANGED <<environment, manager, identity, viewOnly, viewOnlyAuth, open, handshake>>

ReadClientInit(c, s) ==
  /\ pc[c] = "clientInit"
  /\ shared' = [shared EXCEPT ![c] = s]
  /\ viewOnly' = [viewOnly EXCEPT ![c] = @ \/ viewOnlyAuth[c]]
  /\ Go(c, "auth")
  /\ UNCHANGED <<environment, manager, identity, viewOnlyAuth, open, handshake>>

\* RfbClientManager::onClientAuth, first under the mutex of the ban list ...
PardonAddress(c) ==
  /\ pc[c] = "auth"
  /\ banList' = Pardoned(peer[c])
  /\ failures' = FailuresOf(Pardoned(peer[c]))
  /\ Go(c, "list")
  /\ UNCHANGED <<environment, clientList, identity, flags, handshake>>

\* ... then under that of the lists. disconnect() closes the sockets only.
\* A mistake: the viewer's wish goes first.
ResultSharedAsWished(c) == settings.alwaysShared \/ shared[c]

ResultShared(c) == settings.alwaysShared \/ (~settings.neverShared /\ shared[c])

Admit(c) ==
  /\ pc[c] = "list"
  /\ IF ~ResultShared(c) /\ ~settings.disconnectClients /\ clientList # {}
       THEN Go(c, "leaving") /\ UNCHANGED <<clientList, open>>
       ELSE /\ clientList' = clientList \cup {c}
            /\ open' = [d \in Clients |->
                 open[d] /\ ~(d \in clientList /\ ~ResultShared(c))]
            /\ Go(c, "normal")
  /\ UNCHANGED <<environment, banList, failures, identity, viewOnly, viewOnlyAuth, shared, handshake>>

-----------------------------------------------------------------------------
(* Leaving, and the environment                                            *)

\* The viewer goes, sends what cannot be read, or is silent for too long.
Drop(c) ==
  /\ pc[c] \in Waiting
  /\ Go(c, "leaving")
  /\ UNCHANGED <<environment, manager, identity, flags, handshake>>

\* The client is removed from the lists and freed (see RfbClientManager).
Leave(c) ==
  /\ pc[c] = "leaving"
  /\ clientList' = clientList \ {c}
  /\ Go(c, "none")
  /\ outgoing' = [outgoing EXCEPT ![c] = FALSE] /\ seen' = [seen EXCEPT ![c] = {}]
  /\ Fresh(c, FALSE, FALSE)
  /\ UNCHANGED <<environment, banList, failures, peer>>

ChangeSettings ==
  /\ settings' \in Settings \ {settings}
  /\ seen' = [c \in Clients |-> IF pc[c] = "none" THEN {} ELSE seen[c] \cup {settings'}]
  /\ UNCHANGED <<now, manager, pc, peer, outgoing, flags, handshake>>

\* DateTime::now is the local time: it also jumps back.
SetClock ==
  /\ now' \in 0..MaxTime /\ now' # now
  /\ UNCHANGED <<settings, manager, pc, identity, flags, handshake>>

Thread(c) ==
  \/ \E a \in Addresses : Accept(c, a) \/ \E vo \in BOOLEAN : CallViewer(c, a, vo)
  \/ ReadVersion(c)
  \/ OfferSecurity(c) \/ ImposeSecurity(c) \/ OfferTight(c)
  \/ \E type \in SecTypes \cup {"tight"} : SelectSecurity(c, type) \/ SelectTight(c, type)
  \/ \E p \in Passwords : Respond(c, p)
  \/ ReadPasswordFlags(c) \/ ComparePrimary(c) \/ CompareReadOnly(c) \/ AuthFailed(c)
  \/ CheckAccess(c) \/ \E accept \in BOOLEAN : AnswerQuery(c, accept)
  \/ StayUnanswered(c)
  \/ \E s \in BOOLEAN : ReadClientInit(c, s)
  \/ PardonAddress(c) \/ Admit(c)
  \/ Drop(c) \/ Leave(c)

Next == (\E c \in Clients : Thread(c)) \/ ChangeSettings \/ SetClock

Spec == Init /\ [][Next]_vars

-----------------------------------------------------------------------------
(* Properties                                                              *)

Limit == MaxBanCount + Cardinality(Clients)
Guesses(a) == failures[a] + Cardinality(Wrong(a))

\* From one address at most MAX_BAN_COUNT wrong passwords are compared, and as
\* many more as connections were already being answered, before the time since
\* the first failure is over or another client of that address succeeds: the
\* ban list is asked in another critical section than the failure is counted in
\* (checkForBan, updateIpInBan).
GuessesAreBounded == \A a \in Addresses : Guesses(a) <= Limit

\* The ban list keeps the promise of GuessLimit, whatever the settings, the
\* clock and the other clients of an address do.
BanList == INSTANCE GuessLimit WITH guesses <- [a \in Addresses |-> Guesses(a)]
KeepsGuessLimit == BanList!Spec

Admitted(c) == pc[c] \in {"auth", "list", "normal"} /\ ~outgoing[c]
AuthRequired(c) == \A cf \in seen[c] : cf.useAuth
\* A password was set, and the response was made with one that was in store.
Knows(c, has, field) ==
  (\E cf \in seen[c] : cf[has]) /\ \E cf \in seen[c] : response[c] = cf[field]
KnowsPrimary(c) == Knows(c, "hasPrimary", "primary")
KnowsReadOnly(c) == Knows(c, "hasReadOnly", "readOnly")

\* A viewer that was let in has answered with a password, unless at some time
\* since it connected none was required, whichever of the three ways the
\* security type was agreed on (initAuthenticate, doTightAuth), and although
\* the settings are read anew at every step.
PasswordWasAsked ==
  \A c \in Clients :
    Admitted(c) /\ AuthRequired(c) => KnowsPrimary(c) \/ KnowsReadOnly(c)

\* Who only knew the read-only password may only view (m_viewOnlyAuth).
ReadOnlyPasswordOnlyViews ==
  \A c \in Clients :
    Admitted(c) /\ AuthRequired(c) /\ ~KnowsPrimary(c) => viewOnly[c]

\* While the rule for its address is to ask the user, nobody gets in whom the user
\* has not accepted, unless nobody answered and accepting was the default while
\* it was connected (onCheckAccessControl comes after either kind of
\* authentication; the query's process may fail in any way).
UserWasAsked ==
  \A c \in Clients :
    Admitted(c) /\ (\A cf \in seen[c] : cf.rule[peer[c]] = "query") =>
      \/ accepted[c] = "user"
      \/ accepted[c] = "default" /\ \E cf \in seen[c] : cf.acceptByDefault

\* As long as sharing is switched off, at most one client is connected, whether
\* the old or the new one is to give way, and while others are on their way in
\* (onClientAuth).
NeverSharedIsAlone ==
  \A c, d \in clientList :
    c # d /\ open[c] /\ open[d] =>
      \E cf \in seen[c] \cap seen[d] : cf.alwaysShared \/ ~cf.neverShared
=============================================================================
