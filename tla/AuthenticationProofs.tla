------------------------ MODULE AuthenticationProofs ------------------------
(***************************************************************************)
(* For any number of connections, addresses and passwords: the ban list    *)
(* limits the guesses, and nobody gets past the handshake without what the *)
(* settings ask for.                                                       *)
(***************************************************************************)
EXTENDS Authentication, FiniteSetTheorems, TLAPS

N == Cardinality(Clients)

\* The entry of an address has room for every client that is being compared.
RoomForInFlight ==
  \A a \in Addresses :
    banList[a] # NotListed =>
      banList[a].count + Cardinality(InFlight(a)) <= MaxBanCount + N - 1

FailuresAreCounted ==
  \A a \in Addresses :
    failures[a] = IF banList[a] = NotListed THEN 0 ELSE banList[a].count + 1

BanTypes ==
  /\ banList \in [Addresses -> BanProp \cup {NotListed}]
  /\ failures \in [Addresses -> Nat]
  /\ pc \in [Clients -> Places]
  /\ peer \in [Clients -> Addresses]
  /\ now \in Nat

BanInv == BanTypes /\ RoomForInFlight /\ FailuresAreCounted

-----------------------------------------------------------------------------

\* How many clients are in flight, or wrong, is a number of clients.
LEMMA Counts ==
  /\ N \in Nat
  /\ \A a : /\ IsFiniteSet(InFlight(a)) /\ IsFiniteSet(Wrong(a))
            /\ Cardinality(InFlight(a)) \in Nat /\ Cardinality(Wrong(a)) \in Nat
            /\ Cardinality(Wrong(a)) <= Cardinality(InFlight(a))
            /\ Cardinality(InFlight(a)) <= N
  <1>1. N \in Nat
    BY AuthenticationAssumption, FS_CardinalityType DEF N
  <1>2. ASSUME NEW a
        PROVE  /\ IsFiniteSet(InFlight(a)) /\ IsFiniteSet(Wrong(a))
               /\ Cardinality(InFlight(a)) \in Nat /\ Cardinality(Wrong(a)) \in Nat
               /\ Cardinality(Wrong(a)) <= Cardinality(InFlight(a))
               /\ Cardinality(InFlight(a)) <= N
    <2>1. InFlight(a) \in SUBSET Clients /\ Wrong(a) \in SUBSET InFlight(a)
      BY DEF InFlight, Wrong
    <2>2. IsFiniteSet(InFlight(a)) /\ Cardinality(InFlight(a)) <= N
      BY <2>1, AuthenticationAssumption, FS_Subset DEF N
    <2>3. IsFiniteSet(Wrong(a)) /\ Cardinality(Wrong(a)) <= Cardinality(InFlight(a))
      BY <2>1, <2>2, FS_Subset
    <2> QED
      BY <2>2, <2>3, FS_CardinalityType
  <1> QED
    BY <1>1, <1>2

\* The same for the next state.
LEMMA CountsNext ==
  \A a : /\ IsFiniteSet(InFlight(a)') /\ IsFiniteSet(Wrong(a)')
         /\ Cardinality(InFlight(a)') \in Nat /\ Cardinality(Wrong(a)') \in Nat
         /\ Cardinality(Wrong(a)') <= Cardinality(InFlight(a)')
         /\ Cardinality(InFlight(a)') <= N
  <1>1. ASSUME NEW a
        PROVE  /\ IsFiniteSet(InFlight(a)') /\ IsFiniteSet(Wrong(a)')
               /\ Cardinality(InFlight(a)') \in Nat /\ Cardinality(Wrong(a)') \in Nat
               /\ Cardinality(Wrong(a)') <= Cardinality(InFlight(a)')
               /\ Cardinality(InFlight(a)') <= N
    <2>1. InFlight(a)' \in SUBSET Clients /\ Wrong(a)' \in SUBSET InFlight(a)'
      BY DEF InFlight, Wrong
    <2>2. IsFiniteSet(InFlight(a)') /\ Cardinality(InFlight(a)') <= N
      BY <2>1, AuthenticationAssumption, FS_Subset DEF N
    <2>3. IsFiniteSet(Wrong(a)') /\ Cardinality(Wrong(a)') <= Cardinality(InFlight(a)')
      BY <2>1, <2>2, FS_Subset
    <2> QED
      BY <2>2, <2>3, FS_CardinalityType
  <1> QED
    BY <1>1

\* Forgetting old entries keeps the types and the account.
LEMMA RefreshedTypes ==
  ASSUME BanInv
  PROVE  /\ Refreshed \in [Addresses -> BanProp \cup {NotListed}]
         /\ FailuresOf(Refreshed) \in [Addresses -> Nat]
         /\ \A a \in Addresses :
              /\ Refreshed[a] # NotListed => Refreshed[a] = banList[a]
              /\ FailuresOf(Refreshed)[a] =
                   IF Refreshed[a] = NotListed THEN 0 ELSE Refreshed[a].count + 1
              /\ FailuresOf(Refreshed)[a] <= failures[a]
  BY DEF BanInv, BanTypes, FailuresAreCounted, Refreshed, FailuresOf, BanProp

\* A step that makes no client compared, and at most forgets entries.
LEMMA QuietInv ==
  ASSUME BanInv, BanTypes',
         \A a \in Addresses : InFlight(a)' \subseteq InFlight(a),
         \A a \in Addresses :
           \/ banList'[a] = banList[a] /\ failures'[a] = failures[a]
           \/ banList'[a] = NotListed /\ failures'[a] = 0
  PROVE  BanInv'
  <1>1. ASSUME NEW a \in Addresses
        PROVE  Cardinality(InFlight(a)') <= Cardinality(InFlight(a))
    BY <1>1, Counts, FS_Subset
  <1>2. ASSUME NEW a \in Addresses, banList'[a] # NotListed
        PROVE  banList'[a].count + Cardinality(InFlight(a)') <= MaxBanCount + N - 1
    <2>1. banList'[a] = banList[a] /\ banList[a].count \in Nat
      BY <1>2 DEF BanInv, BanTypes, BanProp
    <2>2. banList[a].count + Cardinality(InFlight(a)) <= MaxBanCount + N - 1
      BY <1>2, <2>1 DEF BanInv, RoomForInFlight
    <2> QED
      BY <1>1, <2>1, <2>2, Counts, CountsNext, AuthenticationAssumption
  <1>3. FailuresAreCounted'
    BY DEF BanInv, FailuresAreCounted
  <1> QED
    BY <1>2, <1>3 DEF BanInv, RoomForInFlight

\* The initial ban list is empty.
LEMMA InitBan == Init => BanInv
  BY AuthenticationAssumption
  DEF Init, BanInv, BanTypes, RoomForInFlight, FailuresAreCounted, Places, Querying, Waiting,
     Comparing
-----------------------------------------------------------------------------

\* A step that leaves the ban list alone and compares nobody.
LEMMA IdleBan ==
  ASSUME BanInv, UNCHANGED <<banList, failures>>, pc' \in [Clients -> Places],
         peer' \in [Clients -> Addresses], now' \in Nat,
         \A c \in Clients :
           pc'[c] \in Comparing \cup {"wrong"} =>
             pc[c] \in Comparing \cup {"wrong"} /\ peer'[c] = peer[c]
  PROVE  BanInv'
  <1>1. BanTypes'
    BY DEF BanInv, BanTypes
  <1>2. \A a \in Addresses : InFlight(a)' \subseteq InFlight(a)
    BY DEF InFlight
  <1> QED
    BY <1>1, <1>2, QuietInv

\* Connecting and leaving.
LEMMA ConnectBan ==
  ASSUME BanInv, NEW c \in Clients, NEW a \in Addresses, NEW vo \in BOOLEAN,
         Accept(c, a) \/ CallViewer(c, a, vo) \/ Leave(c) \/ Drop(c)
  PROVE  BanInv'
  BY IdleBan
  DEF Accept, CallViewer, Connect, Fresh, Leave, Drop, Go, BanInv, BanTypes, Places, Querying,
     Waiting,
      Comparing, environment, manager, identity

\* Agreeing on a security type.
LEMMA SecurityBan ==
  ASSUME BanInv, NEW c \in Clients, NEW type \in SecTypes \cup {"tight"},
         \/ OfferSecurity(c) \/ ImposeSecurity(c) \/ OfferTight(c)
         \/ SelectSecurity(c, type) \/ SelectTight(c, type)
  PROVE  BanInv'
  BY IdleBan
  DEF OfferSecurity, ImposeSecurity, OfferTight, SelectSecurity, SelectTight, DoAuth, NothingElse,
      Go, BanInv, BanTypes, Places, Querying, Waiting, Comparing, environment, manager, identity

\* Comparing passwords.
LEMMA CompareBan ==
  ASSUME BanInv, NEW c \in Clients,
         ReadPasswordFlags(c) \/ ComparePrimary(c) \/ CompareReadOnly(c)
  PROVE  BanInv'
  BY IdleBan
  DEF ReadPasswordFlags, ComparePrimary, CompareReadOnly,
      Go, BanInv, BanTypes, Places, Querying, Waiting, Comparing, environment, manager, identity

\* The rest of the handshake, but for the ban list.
LEMMA AccessBan ==
  ASSUME BanInv, NEW c \in Clients, NEW b \in BOOLEAN,
         CheckAccess(c) \/ AnswerQuery(c, b) \/ StayUnanswered(c) \/ ReadClientInit(c, b) \/ Admit(c)
  PROVE  BanInv'
  BY IdleBan
  DEF CheckAccess, AnswerQuery, StayUnanswered, Query, Querying, ReadClientInit, Admit,
      Go, BanInv, BanTypes, Places, Querying, Waiting, Comparing, environment, manager, identity

\* The ban list is asked before the security types are agreed on.
LEMMA ReadVersionBan ==
  ASSUME BanInv, NEW c \in Clients, ReadVersion(c)
  PROVE  BanInv'
  <1>1. /\ pc' \in [Clients -> Places] /\ UNCHANGED <<peer, now>>
        /\ \A a \in Addresses : InFlight(a)' \subseteq InFlight(a)
    BY DEF ReadVersion, Go, BanInv, BanTypes, Places, Querying, Waiting, Comparing, InFlight,
           environment, identity
  <1>2. CASE UNCHANGED <<banList, failures>>
    BY <1>1, <1>2, QuietInv DEF BanInv, BanTypes
  <1>3. CASE banList' = Refreshed /\ failures' = FailuresOf(Refreshed)
    <2>1. BanTypes'
      BY <1>1, <1>3, RefreshedTypes DEF BanInv, BanTypes
    <2>2. \A a \in Addresses :
            \/ banList'[a] = banList[a] /\ failures'[a] = failures[a]
            \/ banList'[a] = NotListed /\ failures'[a] = 0
      BY <1>3, RefreshedTypes DEF BanInv, FailuresAreCounted
    <2> QED
      BY <1>1, <2>1, <2>2, QuietInv
  <1> QED
    BY <1>2, <1>3 DEF ReadVersion, manager

\* The ban list is asked once more, and the client is compared.
LEMMA RespondBan ==
  ASSUME BanInv, NEW c \in Clients, NEW p \in Passwords, Respond(c, p)
  PROVE  BanInv'
  <1> DEFINE a == peer[c]
  <1>1. /\ a \in Addresses /\ UNCHANGED <<peer, now>>
        /\ banList' = Refreshed /\ failures' = FailuresOf(Refreshed)
        /\ pc[c] = "challenge"
    BY DEF Respond, BanInv, BanTypes, environment, identity
  <1>2. pc' \in [Clients -> Places]
    BY DEF Respond, Go, BanInv, BanTypes, Places, Querying, Waiting, Comparing
  <1>3. BanTypes'
    BY <1>1, <1>2, RefreshedTypes DEF BanInv, BanTypes
  <1>4. \A b \in Addresses :
            \/ banList'[b] = banList[b] /\ failures'[b] = failures[b]
            \/ banList'[b] = NotListed /\ failures'[b] = 0
    BY <1>1, RefreshedTypes DEF BanInv, FailuresAreCounted
  <1>5. CASE Banned(a)
    <2>1. \A b \in Addresses : InFlight(b)' \subseteq InFlight(b)
      BY <1>1, <1>5 DEF Respond, Go, InFlight, Comparing, BanInv, BanTypes
    <2> QED
      BY <1>3, <1>4, <2>1, QuietInv
  <1>6. CASE ~Banned(a)
    <2>1. \A b \in Addresses : b # a => InFlight(b)' \subseteq InFlight(b)
      BY <1>1, <1>6 DEF Respond, Go, InFlight, Comparing, BanInv, BanTypes
    <2>2. ASSUME NEW b \in Addresses, banList'[b] # NotListed
          PROVE  banList'[b].count + Cardinality(InFlight(b)') <= MaxBanCount + N - 1
      <3>1. banList'[b] = banList[b] /\ banList[b].count \in Nat
        BY <1>4, <2>2 DEF BanInv, BanTypes, BanProp
      <3>2. CASE b # a
        <4>1. Cardinality(InFlight(b)') <= Cardinality(InFlight(b))
          BY <2>1, <3>2, Counts, FS_Subset
        <4>2. banList[b].count + Cardinality(InFlight(b)) <= MaxBanCount + N - 1
          BY <2>2, <3>1 DEF BanInv, RoomForInFlight
        <4> QED
          BY <3>1, <4>1, <4>2, Counts, CountsNext, AuthenticationAssumption
      <3>3. CASE b = a
        <4>1. banList[b].count < MaxBanCount
          BY <1>1, <1>6, <2>2, <3>1, <3>3, AuthenticationAssumption DEF Banned
        <4> QED
          BY <3>1, <4>1, Counts, CountsNext, AuthenticationAssumption
      <3> QED
        BY <3>2, <3>3
    <2>3. FailuresAreCounted'
      BY <1>4 DEF BanInv, FailuresAreCounted
    <2> QED
      BY <1>3, <2>2, <2>3 DEF BanInv, RoomForInFlight
  <1> QED
    BY <1>5, <1>6

\* The failure of a client makes room for as much as it takes.
LEMMA AuthFailedBan ==
  ASSUME BanInv, NEW c \in Clients, AuthFailed(c)
  PROVE  BanInv'
  <1>0. PICK a \in Addresses : a = peer[c]
    BY DEF BanInv, BanTypes
  <1>1. /\ a \in Addresses /\ UNCHANGED <<peer, now>> /\ pc[c] = "wrong"
        /\ banList' = Counted(a)
        /\ failures' = [FailuresOf(Refreshed) EXCEPT ![a] = @ + 1]
    BY <1>0 DEF AuthFailed, environment, identity
  <1>2. pc' = [pc EXCEPT ![c] = "leaving"] /\ pc' \in [Clients -> Places]
    BY DEF AuthFailed, Go, BanInv, BanTypes, Places, Querying, Waiting, Comparing
  <1>3. /\ Counted(a) \in [Addresses -> BanProp \cup {NotListed}]
        /\ Counted(a)[a] # NotListed
        /\ Counted(a)[a].count =
             IF Refreshed[a] = NotListed THEN 0 ELSE Refreshed[a].count + 1
        /\ \A b \in Addresses : b # a => Counted(a)[b] = Refreshed[b]
    <2>1. Refreshed[a] \in BanProp \cup {NotListed}
      BY <1>1, RefreshedTypes
    <2>2. [count |-> 0, first |-> now] \in BanProp
      BY DEF BanInv, BanTypes, BanProp
    <2>3. Refreshed[a] # NotListed =>
            /\ [Refreshed[a] EXCEPT !.count = @ + 1] \in BanProp
            /\ [Refreshed[a] EXCEPT !.count = @ + 1].count = Refreshed[a].count + 1
      BY <2>1 DEF BanProp
    <2> DEFINE new == IF Refreshed[a] = NotListed THEN [count |-> 0, first |-> now]
                      ELSE [Refreshed[a] EXCEPT !.count = @ + 1]
    <2>4. new \in BanProp /\ new # NotListed
          /\ new.count = IF Refreshed[a] = NotListed THEN 0 ELSE Refreshed[a].count + 1
      BY <2>2, <2>3, AuthenticationAssumption
    <2>5. Counted(a) = [Refreshed EXCEPT ![a] = new]
      BY DEF Counted
    <2> HIDE DEF new
    <2> QED
      BY <1>1, <2>4, <2>5, RefreshedTypes
  <1>4. BanTypes'
    BY <1>1, <1>2, <1>3, RefreshedTypes DEF BanInv, BanTypes
  <1>5. FailuresAreCounted'
    BY <1>1, <1>3, RefreshedTypes DEF FailuresAreCounted, BanInv, BanTypes, BanProp
  <1>6. InFlight(a)' = InFlight(a) \ {c} /\ c \in InFlight(a)
    BY <1>0, <1>1, <1>2 DEF InFlight, Comparing, BanInv, BanTypes
  <1>7. Cardinality(InFlight(a)') = Cardinality(InFlight(a)) - 1
    BY <1>6, Counts, FS_RemoveElement
  <1>8. ASSUME NEW b \in Addresses, banList'[b] # NotListed
        PROVE  banList'[b].count + Cardinality(InFlight(b)') <= MaxBanCount + N - 1
    <2>1. CASE b # a
      <3>1. banList'[b] = banList[b] /\ banList[b].count \in Nat
        BY <1>1, <1>3, <1>8, <2>1, RefreshedTypes DEF BanInv, BanTypes, BanProp
      <3>2. InFlight(b)' \subseteq InFlight(b)
        BY <1>0, <1>1, <1>2, <2>1 DEF InFlight, Comparing, BanInv, BanTypes
      <3>3. Cardinality(InFlight(b)') <= Cardinality(InFlight(b))
        BY <3>2, Counts, FS_Subset
      <3>4. banList[b].count + Cardinality(InFlight(b)) <= MaxBanCount + N - 1
        BY <1>8, <3>1 DEF BanInv, RoomForInFlight
      <3>5. Cardinality(InFlight(b)) \in Nat /\ Cardinality(InFlight(b)') \in Nat
        BY Counts, CountsNext
      <3> QED
        BY <3>1, <3>3, <3>4, <3>5, Counts, AuthenticationAssumption
    <2>2. CASE b = a /\ Refreshed[a] = NotListed
      <3>1. banList'[b].count = 0
        BY <1>1, <1>3, <2>2
      <3>2. Cardinality(InFlight(a)) \in Nat /\ Cardinality(InFlight(a)) <= N /\ N \in Nat
        BY Counts
      <3> QED
        BY ONLY <1>7, <2>2, <3>1, <3>2, AuthenticationAssumption
    <2>3. CASE b = a /\ Refreshed[a] # NotListed
      <3>1. Refreshed[a] = banList[a] /\ banList[a].count \in Nat
        BY <1>1, <2>3, RefreshedTypes DEF BanInv, BanTypes, BanProp
      <3>2. banList'[b].count = banList[a].count + 1
        BY <1>1, <1>3, <2>3, <3>1
      <3>3. banList[a].count + Cardinality(InFlight(a)) <= MaxBanCount + N - 1
        BY <1>1, <2>3, <3>1 DEF BanInv, RoomForInFlight
      <3> QED
        BY <1>7, <2>3, <3>1, <3>2, <3>3, Counts, AuthenticationAssumption
    <2> QED
      BY <2>1, <2>2, <2>3
  <1> QED
    BY <1>4, <1>5, <1>8 DEF BanInv, RoomForInFlight

\* A success forgets the address.
LEMMA PardonBan ==
  ASSUME BanInv, NEW c \in Clients, PardonAddress(c)
  PROVE  BanInv'
  <1>1. /\ peer[c] \in Addresses /\ UNCHANGED <<peer, now>>
        /\ banList' = Pardoned(peer[c]) /\ failures' = FailuresOf(Pardoned(peer[c]))
        /\ pc' \in [Clients -> Places]
    BY DEF PardonAddress, Go, BanInv, BanTypes, Places, Querying, Waiting, Comparing,
           environment, identity
  <1>2. /\ Pardoned(peer[c]) \in [Addresses -> BanProp \cup {NotListed}]
        /\ \A a \in Addresses :
             Pardoned(peer[c])[a] = Refreshed[a] \/ Pardoned(peer[c])[a] = NotListed
    BY <1>1, RefreshedTypes DEF Pardoned
  <1>3. BanTypes'
    <2>1. failures' \in [Addresses -> Nat]
      BY <1>1 DEF BanInv, BanTypes, FailuresOf
    <2> QED
      BY <1>1, <1>2, <2>1 DEF BanInv, BanTypes
  <1>4. \A a \in Addresses :
            \/ banList'[a] = banList[a] /\ failures'[a] = failures[a]
            \/ banList'[a] = NotListed /\ failures'[a] = 0
    BY <1>1, <1>2, RefreshedTypes DEF BanInv, FailuresAreCounted, FailuresOf
  <1>5. \A a \in Addresses : InFlight(a)' \subseteq InFlight(a)
    BY DEF PardonAddress, Go, BanInv, BanTypes, Comparing, InFlight, identity
  <1> QED
    BY <1>3, <1>4, <1>5, QuietInv

\* The administrator and the clock.
LEMMA EnvironmentBan ==
  ASSUME BanInv, ChangeSettings \/ SetClock
  PROVE  BanInv'
  BY IdleBan, AuthenticationAssumption
  DEF ChangeSettings, SetClock, BanInv, BanTypes, manager, identity

\* Every step keeps the ban list's invariant.
LEMMA BanStep == BanInv /\ [Next]_vars => BanInv'
  <1> SUFFICES ASSUME BanInv, [Next]_vars PROVE BanInv'
    OBVIOUS
  <1>1. CASE UNCHANGED vars
    BY <1>1, IdleBan DEF vars, BanInv, BanTypes, manager, identity, environment
  <1>2. ASSUME NEW c \in Clients, Thread(c)
        PROVE  BanInv'
    <2>1. CASE \E a \in Addresses : Accept(c, a) \/ \E vo \in BOOLEAN : CallViewer(c, a, vo)
      BY <2>1, ConnectBan
    <2>2. CASE \/ OfferSecurity(c) \/ ImposeSecurity(c) \/ OfferTight(c)
               \/ \E type \in SecTypes \cup {"tight"} : SelectSecurity(c, type) \/ SelectTight(c, type)
      BY <2>2, SecurityBan
    <2>3. CASE \E p \in Passwords : Respond(c, p)
      BY <2>3, RespondBan
    <2>4. CASE ReadPasswordFlags(c) \/ ComparePrimary(c) \/ CompareReadOnly(c)
      BY <2>4, CompareBan
    <2>5. CASE \/ CheckAccess(c) \/ Admit(c) \/ StayUnanswered(c) \/ \E b \in BOOLEAN : AnswerQuery(c, b)
               \/ \E b \in BOOLEAN : ReadClientInit(c, b)
      BY <2>5, AccessBan
    <2>6. CASE Drop(c) \/ Leave(c)
      <3>1. peer[c] \in Addresses
        BY DEF BanInv, BanTypes
      <3> QED
        BY <2>6, <3>1, ConnectBan
    <2> QED
      BY <1>2, <2>1, <2>2, <2>3, <2>4, <2>5, <2>6, ReadVersionBan, AuthFailedBan, PardonBan
      DEF Thread
  <1> QED
    BY <1>1, <1>2, EnvironmentBan DEF Next

\* In every state an entry has room for the clients in flight.
LEMMA BanInvariance == Spec => []BanInv
  BY InitBan, BanStep, PTL DEF Spec

\* What the account and the room are for.
LEMMA BanInvBounds == BanInv => GuessesAreBounded
  <1> SUFFICES ASSUME BanInv, NEW a \in Addresses PROVE Guesses(a) <= Limit
    BY DEF GuessesAreBounded
  <1>1. CASE banList[a] = NotListed
    <2>1. failures[a] = 0
      BY <1>1 DEF BanInv, FailuresAreCounted
    <2> QED
      BY <2>1, Counts, AuthenticationAssumption DEF Guesses, Limit, N
  <1>2. CASE banList[a] # NotListed
    <2>1. banList[a].count \in Nat /\ failures[a] = banList[a].count + 1
      BY <1>2 DEF BanInv, BanTypes, BanProp, FailuresAreCounted
    <2>2. banList[a].count + Cardinality(InFlight(a)) <= MaxBanCount + N - 1
      BY <1>2 DEF BanInv, RoomForInFlight
    <2> QED
      BY <2>1, <2>2, Counts, AuthenticationAssumption DEF Guesses, Limit, N
  <1> QED
    BY <1>1, <1>2

\* From one address no more wrong passwords are compared than the limit and the
\* number of connections allow.
THEOREM GuessingIsBounded == Spec => []GuessesAreBounded
  BY BanInvariance, BanInvBounds, PTL

-----------------------------------------------------------------------------

\* Connecting and leaving keep the types.
LEMMA ConnectTypes ==
  ASSUME TypeOK, NEW c \in Clients, NEW a \in Addresses, NEW vo \in BOOLEAN,
         Accept(c, a) \/ CallViewer(c, a, vo) \/ Leave(c) \/ Drop(c)
  PROVE  TypeOK'
  <1>1. CASE Accept(c, a) \/ CallViewer(c, a, vo)
    <2>1. PICK out \in BOOLEAN, v \in BOOLEAN : Connect(c, a, out, v)
      BY <1>1 DEF Accept, CallViewer
    <2> QED
      BY <2>1 DEF Connect, Fresh, Go, TypeOK, Places, Querying, Waiting, SecTypes, environment,
         manager
  <1>2. CASE Leave(c)
    BY <1>2 DEF Leave, Fresh, Go, TypeOK, Places, SecTypes, environment
  <1>3. CASE Drop(c)
    BY <1>3 DEF Drop, Go, TypeOK, Places, Querying, Waiting, environment, manager, identity,
       flags, handshake
  <1> QED
    BY <1>1, <1>2, <1>3

\* Agreeing on a security type keeps them.
LEMMA SecurityTypes ==
  ASSUME TypeOK, NEW c \in Clients, NEW type \in SecTypes \cup {"tight"},
         \/ OfferSecurity(c) \/ ImposeSecurity(c) \/ OfferTight(c)
         \/ SelectSecurity(c, type) \/ SelectTight(c, type)
  PROVE  TypeOK'
  <1>1. /\ pc[c] \notin {"normal", "leaving"} /\ \E place \in Places : Go(c, place)
        /\ offered' \in [Clients -> SecTypes]
    BY DEF OfferSecurity, ImposeSecurity, OfferTight, SelectSecurity, SelectTight, DoAuth,
           Required, Go, TypeOK, Places, Querying, Waiting, SecTypes
  <1>2. NothingElse
    BY DEF OfferSecurity, ImposeSecurity, OfferTight, SelectSecurity, SelectTight
  <1> QED
    BY <1>1, <1>2 DEF NothingElse, Go, TypeOK, environment, manager, identity, flags

\* Comparing passwords keeps them.
LEMMA CompareTypes ==
  ASSUME TypeOK, NEW c \in Clients,
         ReadPasswordFlags(c) \/ ComparePrimary(c) \/ CompareReadOnly(c)
  PROVE  TypeOK'
  BY DEF ReadPasswordFlags, ComparePrimary, CompareReadOnly, Go, TypeOK, Places, Querying, Waiting,
         Comparing, Setting, environment, manager, identity, flags, handshake

\* So does the rest of the handshake, but for the ban list.
LEMMA AccessTypes ==
  ASSUME TypeOK, NEW c \in Clients, NEW b \in BOOLEAN,
         CheckAccess(c) \/ AnswerQuery(c, b) \/ StayUnanswered(c) \/ ReadClientInit(c, b) \/ Admit(c)
  PROVE  TypeOK'
  <1>1. CASE CheckAccess(c) \/ AnswerQuery(c, b) \/ StayUnanswered(c) \/ ReadClientInit(c, b)
    BY <1>1 DEF CheckAccess, AnswerQuery, StayUnanswered, Query, Querying, ReadClientInit, Go,
       TypeOK, Places, Querying, Waiting,
         environment, manager, identity, flags, handshake
  <1>2. CASE Admit(c)
    <2>1. open' \in [Clients -> BOOLEAN]
      BY <1>2, Zenon DEF Admit, TypeOK
    <2>2. /\ clientList' \subseteq {d \in Clients : pc'[d] \in {"normal", "leaving"}}
          /\ pc' \in [Clients -> Places]
      BY <1>2 DEF Admit, Go, TypeOK, Places, Querying, Waiting
    <2>3. UNCHANGED <<environment, banList, failures, identity, viewOnly, viewOnlyAuth, shared,
    handshake>>
      BY <1>2 DEF Admit
    <2> QED
      BY <2>1, <2>2, <2>3 DEF TypeOK, environment, identity, handshake
  <1> QED
    BY <1>1, <1>2

\* And so do the steps that ask the ban list.
LEMMA BanListTypes ==
  ASSUME TypeOK, BanInv', NEW c \in Clients,
         \/ ReadVersion(c) \/ AuthFailed(c) \/ PardonAddress(c)
         \/ \E p \in Passwords : Respond(c, p)
  PROVE  TypeOK'
  <1>1. /\ banList' \in [Addresses -> BanProp \cup {NotListed}]
        /\ failures' \in [Addresses -> Nat]
        /\ pc' \in [Clients -> Places]
    BY DEF BanInv, BanTypes
  <1>2. /\ clientList' = clientList /\ UNCHANGED <<environment, identity, flags>>
        /\ pc[c] \notin {"normal", "leaving"} /\ \E place : Go(c, place)
    BY DEF ReadVersion, Respond, AuthFailed, PardonAddress, manager
  <1>3. /\ offered' = offered /\ hasRdly' = hasRdly /\ accepted' = accepted
        /\ response' \in [Clients -> Passwords \cup {NoPassword}]
    BY DEF ReadVersion, Respond, AuthFailed, PardonAddress, handshake, TypeOK
  <1>4. clientList' \subseteq {d \in Clients : pc'[d] \in {"normal", "leaving"}}
    BY <1>2 DEF TypeOK, Go
  <1>5. UNCHANGED <<settings, now, peer, outgoing, seen, viewOnly, viewOnlyAuth, shared, open>>
    BY <1>2 DEF environment, identity, flags
  <1> QED
    BY <1>1, <1>3, <1>4, <1>5 DEF TypeOK

\* Every step keeps the types.
LEMMA TypeStep == TypeOK /\ BanInv' /\ [Next]_vars => TypeOK'
  <1> SUFFICES ASSUME TypeOK, BanInv', [Next]_vars PROVE TypeOK'
    OBVIOUS
  <1>1. CASE UNCHANGED vars
    BY <1>1 DEF vars, TypeOK, environment, manager, identity, flags, handshake
  <1>2. ASSUME NEW c \in Clients, Thread(c)
        PROVE  TypeOK'
    <2>1. CASE \E a \in Addresses : Accept(c, a) \/ \E vo \in BOOLEAN : CallViewer(c, a, vo)
      BY <2>1, ConnectTypes
    <2>2. CASE \/ OfferSecurity(c) \/ ImposeSecurity(c) \/ OfferTight(c)
               \/ \E type \in SecTypes \cup {"tight"} : SelectSecurity(c, type) \/ SelectTight(c, type)
      BY <2>2, SecurityTypes
    <2>3. CASE \/ ReadVersion(c) \/ AuthFailed(c) \/ PardonAddress(c)
               \/ \E p \in Passwords : Respond(c, p)
      BY <2>3, BanListTypes
    <2>4. CASE ReadPasswordFlags(c) \/ ComparePrimary(c) \/ CompareReadOnly(c)
      BY <2>4, CompareTypes
    <2>5. CASE \/ CheckAccess(c) \/ Admit(c) \/ StayUnanswered(c) \/ \E b \in BOOLEAN : AnswerQuery(c, b)
               \/ \E b \in BOOLEAN : ReadClientInit(c, b)
      BY <2>5, AccessTypes
    <2>6. CASE Drop(c) \/ Leave(c)
      <3>1. peer[c] \in Addresses
        BY DEF TypeOK
      <3> QED
        BY <2>6, <3>1, ConnectTypes
    <2> QED
      BY <1>2, <2>1, <2>2, <2>3, <2>4, <2>5, <2>6 DEF Thread
  <1>3. CASE ChangeSettings \/ SetClock
    BY <1>3, AuthenticationAssumption
    DEF ChangeSettings, SetClock, TypeOK, manager, identity, flags, handshake
  <1> QED
    BY <1>1, <1>2, <1>3 DEF Next

\* Every variable stays in its domain.
THEOREM AuthenticationTypes == Spec => []TypeOK
  <1>1. Init => TypeOK
    BY AuthenticationAssumption DEF Init, TypeOK, Places, Querying, Waiting, SecTypes
  <1> QED
    BY <1>1, BanInvariance, TypeStep, PTL DEF Spec

-----------------------------------------------------------------------------

\* Whom the settings let through, at each place of the handshake.
Past == Querying \cup {"access", "clientInit", "auth", "list", "normal"}
SettingsAreSeen == \A c \in Clients : pc[c] # "none" => settings \in seen[c]
OfferWasMade ==
  \A c \in Clients :
    pc[c] = "select" /\ offered[c] = "none" /\ ~outgoing[c] => ~AuthRequired(c)
PasswordWasSet ==
  \A c \in Clients :
    /\ pc[c] = "comparePrimary" => \E cf \in seen[c] : cf.hasPrimary
    /\ \/ pc[c] = "compareReadOnly"
       \/ pc[c] = "comparePrimary" /\ hasRdly[c]
       => \E cf \in seen[c] : cf.hasReadOnly
PasswordIsKnown ==
  \A c \in Clients :
    pc[c] \in Past /\ ~outgoing[c] /\ AuthRequired(c) => KnowsPrimary(c) \/ KnowsReadOnly(c)
ReadOnlyIsNoted ==
  \A c \in Clients :
    pc[c] \in Past /\ ~outgoing[c] /\ AuthRequired(c) /\ ~KnowsPrimary(c) =>
      IF pc[c] \in Querying \cup {"access", "clientInit"} THEN viewOnlyAuth[c] ELSE viewOnly[c]
UserIsAsked ==
  \A c \in Clients :
    /\ pc[c] \in Past \ ({"access"} \cup Querying) /\ ~outgoing[c]
    /\ \A cf \in seen[c] : cf.rule[peer[c]] = "query"
    => \/ accepted[c] = "user"
       \/ accepted[c] = "default" /\ \E cf \in seen[c] : cf.acceptByDefault
DefaultWasSet == \A c \in Clients : pc[c] = "queryAccepting" => \E cf \in seen[c] : cf.acceptByDefault

AccessInv ==
  /\ SettingsAreSeen /\ OfferWasMade /\ PasswordWasSet /\ PasswordIsKnown /\ ReadOnlyIsNoted /\ UserIsAsked /\ DefaultWasSet
  /\ NeverSharedIsAlone

\* What the invariant says of the clients that have been let in.
LEMMA AccessBounds ==
  AccessInv => PasswordWasAsked /\ ReadOnlyPasswordOnlyViews /\ UserWasAsked /\ NeverSharedIsAlone
  BY DEF AccessInv, PasswordIsKnown, ReadOnlyIsNoted, UserIsAsked, DefaultWasSet, PasswordWasAsked,
         ReadOnlyPasswordOnlyViews, UserWasAsked, Admitted, Past, Querying

\* At the start nobody is connected.
LEMMA InitAccess == Init => AccessInv
  BY DEF Init, AccessInv, SettingsAreSeen, OfferWasMade, PasswordWasSet, PasswordIsKnown,
     ReadOnlyIsNoted,
         UserIsAsked, DefaultWasSet, NeverSharedIsAlone, Past, Querying

\* Connecting and leaving.
LEMMA ConnectAccess ==
  ASSUME TypeOK, AccessInv, NEW c \in Clients, NEW a \in Addresses, NEW vo \in BOOLEAN,
         Accept(c, a) \/ CallViewer(c, a, vo) \/ Leave(c) \/ Drop(c)
  PROVE  AccessInv'
  <1>1. /\ UNCHANGED settings
        /\ clientList' \subseteq clientList
        /\ \E place \in {"version", "leaving", "none"} :
             /\ Go(c, place)
             /\ place = "version" => settings \in seen'[c] /\ c \notin clientList
             /\ place = "leaving" => UNCHANGED seen
             /\ place = "none" => c \notin clientList'
    BY DEF Accept, CallViewer, Connect, Leave, Drop, Fresh, TypeOK, AccessInv, SettingsAreSeen,
           Waiting, environment, manager, identity
  <1>2. \A d \in Clients : d # c =>
          /\ outgoing'[d] = outgoing[d] /\ seen'[d] = seen[d] /\ peer'[d] = peer[d]
          /\ viewOnly'[d] = viewOnly[d] /\ viewOnlyAuth'[d] = viewOnlyAuth[d]
          /\ open'[d] = open[d] /\ offered'[d] = offered[d] /\ response'[d] = response[d]
          /\ hasRdly'[d] = hasRdly[d] /\ accepted'[d] = accepted[d]
    BY DEF Accept, CallViewer, Connect, Leave, Drop, Fresh, TypeOK, identity, flags, handshake
  <1>3. ASSUME Go(c, "leaving")
        PROVE  open' = open
    BY <1>3
    DEF Accept, CallViewer, Connect, Leave, Drop, Go, TypeOK, flags
  <1>4. /\ pc'[c] \in {"version", "leaving", "none"}
        /\ pc[c] # "none" \/ pc'[c] # "leaving"
        /\ \A d \in Clients : d # c => pc'[d] = pc[d]
    BY <1>1 DEF Accept, CallViewer, Connect, Leave, Drop, Go, Waiting, TypeOK
  <1>5. SettingsAreSeen' /\ OfferWasMade' /\ PasswordWasSet'
    BY <1>1, <1>2, <1>4
    DEF AccessInv, SettingsAreSeen, OfferWasMade, PasswordWasSet, AuthRequired, Go, TypeOK
  <1>6. PasswordIsKnown' /\ ReadOnlyIsNoted' /\ UserIsAsked' /\ DefaultWasSet'
    <2>1. ASSUME NEW d \in Clients, pc'[d] \in Past
          PROVE  /\ d # c /\ pc[d] = pc'[d]
                 /\ AuthRequired(d)' <=> AuthRequired(d)
                 /\ KnowsPrimary(d)' <=> KnowsPrimary(d)
                 /\ KnowsReadOnly(d)' <=> KnowsReadOnly(d)
      BY <1>2, <1>4, <2>1 DEF AuthRequired, KnowsPrimary, KnowsReadOnly, Knows, Past, Querying
    <2>2. PasswordIsKnown' /\ ReadOnlyIsNoted'
      BY <1>2, <2>1 DEF AccessInv, PasswordIsKnown, ReadOnlyIsNoted
    <2>3. UserIsAsked' /\ DefaultWasSet'
      BY <1>2, <2>1 DEF AccessInv, UserIsAsked, DefaultWasSet, Past, Querying
    <2> QED
      BY <2>2, <2>3
  <1>7. NeverSharedIsAlone'
    <2>1. ASSUME NEW d \in clientList'
          PROVE  d \in clientList /\ open'[d] = open[d] /\ seen'[d] = seen[d]
      BY <1>1, <1>2, <1>3 DEF TypeOK
    <2> QED
      BY <2>1 DEF AccessInv, NeverSharedIsAlone
  <1> QED
    BY <1>5, <1>6, <1>7 DEF AccessInv

\* Agreeing on a security type: none is agreed on only if none was required.
LEMMA SecurityAccess ==
  ASSUME TypeOK, AccessInv, NEW c \in Clients, NEW type \in SecTypes \cup {"tight"},
         \/ OfferSecurity(c) \/ ImposeSecurity(c) \/ OfferTight(c)
         \/ SelectSecurity(c, type) \/ SelectTight(c, type)
  PROVE  AccessInv'
  <1>1. /\ settings \in seen[c]
        /\ Required(c) = "none" /\ ~outgoing[c] => ~AuthRequired(c)
    BY DEF OfferSecurity, ImposeSecurity, OfferTight, SelectSecurity, SelectTight, AccessInv,
           SettingsAreSeen, Required, AuthRequired
  <1>2. /\ UNCHANGED <<clientList, outgoing, seen, viewOnly, viewOnlyAuth, open, response, accepted,
                       settings, peer, hasRdly>>
        /\ pc[c] \in {"offer", "impose", "offerTight", "select", "selectTight"}
    BY DEF OfferSecurity, ImposeSecurity, OfferTight, SelectSecurity, SelectTight, NothingElse,
           environment, manager, identity, flags
  <1>3. \E place \in {"select", "offerTight", "selectTight", "challenge", "access", "leaving"} :
          /\ Go(c, place)
          /\ place = "access" /\ ~outgoing[c] => ~AuthRequired(c)
          /\ offered' = IF place = "select" THEN [offered EXCEPT ![c] = Required(c)] ELSE offered
    BY <1>1
    DEF OfferSecurity, ImposeSecurity, OfferTight, SelectSecurity, SelectTight, DoAuth, AccessInv,
        OfferWasMade, TypeOK, SecTypes, Required
  <1>4. SettingsAreSeen' /\ NeverSharedIsAlone'
    BY <1>2, <1>3 DEF AccessInv, SettingsAreSeen, NeverSharedIsAlone, Go, TypeOK
  <1>7. PasswordWasSet'
    BY <1>2, <1>3 DEF AccessInv, PasswordWasSet, Go, TypeOK
  <1>5. OfferWasMade'
    BY <1>1, <1>2, <1>3 DEF AccessInv, OfferWasMade, AuthRequired, Go, TypeOK, SecTypes, Required
  <1>6. PasswordIsKnown' /\ ReadOnlyIsNoted' /\ UserIsAsked' /\ DefaultWasSet'
    BY <1>2, <1>3
    DEF AccessInv, PasswordIsKnown, ReadOnlyIsNoted, UserIsAsked, DefaultWasSet, AuthRequired,
       KnowsPrimary, KnowsReadOnly, Knows, Go, TypeOK, Past, Querying
  <1> QED
    BY <1>4, <1>5, <1>6, <1>7 DEF AccessInv

\* The response is compared with settings that have been seen.
LEMMA CompareAccess ==
  ASSUME TypeOK, AccessInv, NEW c \in Clients,
         ReadPasswordFlags(c) \/ ComparePrimary(c) \/ CompareReadOnly(c)
  PROVE  AccessInv'
  <1>1. settings \in seen[c] /\ pc[c] \in Comparing
    BY DEF ReadPasswordFlags, ComparePrimary, CompareReadOnly, AccessInv, SettingsAreSeen, Comparing
  <1>2. UNCHANGED <<clientList, outgoing, seen, viewOnly, open, response, accepted, settings, peer,
                    offered>>
    BY DEF ReadPasswordFlags, ComparePrimary, CompareReadOnly, environment, manager, identity,
           flags, handshake
  <1>3. \E place \in {"comparePrimary", "compareReadOnly", "access", "wrong", "leaving"} :
          /\ Go(c, place)
          /\ place = "access" =>
               KnowsPrimary(c) \/ (KnowsReadOnly(c) /\ viewOnlyAuth'[c])
    BY <1>1
    DEF ReadPasswordFlags, ComparePrimary, CompareReadOnly, AccessInv, PasswordWasSet,
        KnowsPrimary, KnowsReadOnly, Knows, TypeOK
  <1>4. \A d \in Clients : d # c => viewOnlyAuth'[d] = viewOnlyAuth[d]
    BY DEF ReadPasswordFlags, ComparePrimary, CompareReadOnly, flags, TypeOK
  <1>5. SettingsAreSeen' /\ OfferWasMade' /\ NeverSharedIsAlone'
    BY <1>1, <1>2, <1>3
    DEF AccessInv, SettingsAreSeen, OfferWasMade, NeverSharedIsAlone, AuthRequired, Go, TypeOK,
        Comparing
  <1>7. PasswordWasSet'
    BY <1>1, <1>2
    DEF ReadPasswordFlags, ComparePrimary, CompareReadOnly, AccessInv, PasswordWasSet, Go, TypeOK,
        handshake
  <1>6. PasswordIsKnown' /\ ReadOnlyIsNoted' /\ UserIsAsked' /\ DefaultWasSet'
    BY <1>1, <1>2, <1>3, <1>4
    DEF AccessInv, PasswordIsKnown, ReadOnlyIsNoted, UserIsAsked, DefaultWasSet, AuthRequired,
       KnowsPrimary, KnowsReadOnly, Knows, Go, TypeOK,
        Past, Querying, Comparing
  <1> QED
    BY <1>5, <1>6, <1>7 DEF AccessInv

\* The steps that ask the ban list let nobody past the authentication.
LEMMA BanListAccess ==
  ASSUME TypeOK, AccessInv, NEW c \in Clients,
         \/ ReadVersion(c) \/ AuthFailed(c) \/ PardonAddress(c)
         \/ \E p \in Passwords : Respond(c, p)
  PROVE  AccessInv'
  <1>1. UNCHANGED <<clientList, outgoing, seen, viewOnly, viewOnlyAuth, open, accepted, settings,
                    peer, offered, hasRdly>>
    BY DEF ReadVersion, Respond, AuthFailed, PardonAddress, environment, manager, identity, flags,
           handshake
  <1>2. /\ pc[c] \in {"version", "challenge", "wrong", "auth"}
        /\ \E place \in {"offer", "impose", "passwords", "list", "leaving"} :
             Go(c, place) /\ (place = "list" => pc[c] = "auth")
        /\ \A d \in Clients : d # c \/ pc[c] = "auth" => response'[d] = response[d]
    BY DEF ReadVersion, Respond, AuthFailed, PardonAddress, handshake, TypeOK
  <1>3. SettingsAreSeen' /\ OfferWasMade' /\ NeverSharedIsAlone'
    BY <1>1, <1>2
    DEF AccessInv, SettingsAreSeen, OfferWasMade, NeverSharedIsAlone, AuthRequired, Go, TypeOK
  <1>4. PasswordIsKnown' /\ ReadOnlyIsNoted' /\ UserIsAsked' /\ DefaultWasSet'
    BY <1>1, <1>2
    DEF AccessInv, PasswordIsKnown, ReadOnlyIsNoted, UserIsAsked, DefaultWasSet, AuthRequired,
       KnowsPrimary, KnowsReadOnly, Knows, Go, TypeOK,
        Past, Querying
  <1>5. PasswordWasSet'
    BY <1>1, <1>2 DEF AccessInv, PasswordWasSet, Go, TypeOK
  <1> QED
    BY <1>3, <1>4, <1>5 DEF AccessInv

\* From the access control to the lists.
LEMMA ControlAccess ==
  ASSUME TypeOK, AccessInv, NEW c \in Clients, NEW b \in BOOLEAN,
         CheckAccess(c) \/ AnswerQuery(c, b) \/ StayUnanswered(c) \/ ReadClientInit(c, b)
  PROVE  AccessInv'
  <1>1. UNCHANGED <<clientList, outgoing, seen, viewOnlyAuth, open, settings, peer, offered,
  response,
                    hasRdly>>
    BY DEF CheckAccess, AnswerQuery, StayUnanswered, Query, Querying, ReadClientInit, environment,
       manager, identity, flags, handshake
  <1>2. SettingsAreSeen' /\ OfferWasMade' /\ NeverSharedIsAlone'
    BY <1>1
    DEF CheckAccess, AnswerQuery, StayUnanswered, Query, Querying, ReadClientInit, AccessInv,
       SettingsAreSeen, OfferWasMade,
        NeverSharedIsAlone, AuthRequired, Go, TypeOK
  <1>3. PasswordIsKnown'
    BY <1>1
    DEF CheckAccess, AnswerQuery, StayUnanswered, Query, Querying, ReadClientInit, AccessInv,
       PasswordIsKnown, AuthRequired, KnowsPrimary, KnowsReadOnly, Knows,
        Go, TypeOK, Past, Querying
  <1>4. ReadOnlyIsNoted'
    <2>1. CASE CheckAccess(c) \/ AnswerQuery(c, b) \/ StayUnanswered(c)
      BY <1>1, <2>1
      DEF CheckAccess, AnswerQuery, StayUnanswered, Query, Querying, AccessInv, ReadOnlyIsNoted,
         AuthRequired, KnowsPrimary, KnowsReadOnly, Knows, Go, TypeOK,
          Past, Querying, flags
    <2>2. CASE ReadClientInit(c, b)
      <3>1. /\ viewOnlyAuth[c] => viewOnly'[c]
            /\ \A d \in Clients : d # c => viewOnly'[d] = viewOnly[d]
        BY <2>2 DEF ReadClientInit, TypeOK
      <3>2. pc[c] = "clientInit" /\ Go(c, "auth")
        BY <2>2 DEF ReadClientInit
      <3> QED
        BY <1>1, <3>1, <3>2 DEF AccessInv, ReadOnlyIsNoted, AuthRequired, KnowsPrimary,
           KnowsReadOnly, Knows, Go, TypeOK, Past, Querying
    <2> QED
      BY <2>1, <2>2
  <1>5. UserIsAsked' /\ DefaultWasSet'
    BY <1>1
    DEF CheckAccess, AnswerQuery, StayUnanswered, Query, Querying, ReadClientInit, AccessInv,
       SettingsAreSeen, UserIsAsked, DefaultWasSet, Go,
        TypeOK, Past, Querying, handshake
  <1>6. PasswordWasSet'
    BY <1>1 DEF CheckAccess, AnswerQuery, StayUnanswered, Query, Querying, ReadClientInit,
       AccessInv, PasswordWasSet, Go, TypeOK
  <1> QED
    BY <1>2, <1>3, <1>4, <1>5, <1>6 DEF AccessInv

\* Who is let in has the others closed, or shares the desktop with them.
LEMMA AdmitAccess ==
  ASSUME TypeOK, AccessInv, NEW c \in Clients, Admit(c)
  PROVE  AccessInv'
  <1>1. /\ UNCHANGED <<settings, outgoing, seen, viewOnly, viewOnlyAuth, peer, offered, response, accepted,
                       hasRdly>>
        /\ pc[c] = "list" /\ (Go(c, "normal") \/ Go(c, "leaving"))
    BY DEF Admit, environment, identity, handshake
  <1>2. SettingsAreSeen' /\ OfferWasMade' /\ PasswordWasSet' /\ PasswordIsKnown' /\ ReadOnlyIsNoted'
    BY <1>1
    DEF AccessInv, SettingsAreSeen, OfferWasMade, PasswordWasSet, PasswordIsKnown, ReadOnlyIsNoted,
        AuthRequired, KnowsPrimary, KnowsReadOnly, Knows, Go, TypeOK, Past, Querying
  <1>4. UserIsAsked' /\ DefaultWasSet'
    BY <1>1 DEF AccessInv, UserIsAsked, DefaultWasSet, Go, TypeOK, Past, Querying
  <1>3. NeverSharedIsAlone'
    <2>1. CASE UNCHANGED <<clientList, open>>
      BY <1>1, <2>1 DEF AccessInv, NeverSharedIsAlone
    <2>2. CASE /\ clientList' = clientList \cup {c}
               /\ open' = [d \in Clients |-> open[d] /\ ~(d \in clientList /\ ~ResultShared(c))]
      <3>1. \A d \in clientList : d # c /\ d \in Clients /\ settings \in seen[d]
        BY <1>1 DEF TypeOK, AccessInv, SettingsAreSeen
      <3>2. settings \in seen[c]
        BY <1>1 DEF AccessInv, SettingsAreSeen
      <3>3. \A d \in Clients : open'[d] => open[d] /\ (d \in clientList => ResultShared(c))
        BY <2>2
      <3>4. ResultShared(c) => settings.alwaysShared \/ ~settings.neverShared
        BY DEF ResultShared
      <3> QED
        BY <1>1, <2>2, <3>1, <3>2, <3>3, <3>4 DEF AccessInv, NeverSharedIsAlone
    <2> QED
      BY <2>1, <2>2 DEF Admit
  <1> QED
    BY <1>2, <1>3, <1>4 DEF AccessInv

\* The administrator: what has been seen only grows.
LEMMA SettingsAccess ==
  ASSUME TypeOK, AccessInv, ChangeSettings
  PROVE  AccessInv'
  <1>1. UNCHANGED <<clientList, pc, outgoing, viewOnly, viewOnlyAuth, open, peer, offered,
  response, accepted,
                    hasRdly>>
    BY DEF ChangeSettings, manager, flags, handshake
  <1>2. \A c \in Clients : pc[c] # "none" => seen'[c] = seen[c] \cup {settings'}
    BY DEF ChangeSettings
  <1>3. \A c \in Clients : pc[c] # "none" =>
          /\ AuthRequired(c)' => AuthRequired(c)
          /\ KnowsPrimary(c) => KnowsPrimary(c)'
          /\ KnowsReadOnly(c) => KnowsReadOnly(c)'
    BY <1>1, <1>2 DEF AuthRequired, KnowsPrimary, KnowsReadOnly, Knows
  <1>4. SettingsAreSeen' /\ OfferWasMade' /\ PasswordWasSet' /\ PasswordIsKnown' /\ ReadOnlyIsNoted'
    BY <1>1, <1>2, <1>3
    DEF AccessInv, SettingsAreSeen, OfferWasMade, PasswordWasSet, PasswordIsKnown,
       ReadOnlyIsNoted, Past, Querying
  <1>5. UserIsAsked' /\ DefaultWasSet'
    BY <1>1, <1>2 DEF AccessInv, UserIsAsked, DefaultWasSet, Past, Querying
  <1>6. NeverSharedIsAlone'
    <2>1. \A c \in clientList : c \in Clients /\ pc[c] # "none"
      BY DEF TypeOK
    <2>2. \A c, d \in clientList : seen[c] \cap seen[d] \subseteq seen'[c] \cap seen'[d]
      BY <1>2, <2>1
    <2> QED
      BY <1>1, <2>2 DEF AccessInv, NeverSharedIsAlone
  <1> QED
    BY <1>4, <1>5, <1>6 DEF AccessInv

\* Every step keeps the invariant of the access control.
LEMMA AccessStep == TypeOK /\ AccessInv /\ [Next]_vars => AccessInv'
  <1> SUFFICES ASSUME TypeOK, AccessInv, [Next]_vars PROVE AccessInv'
    OBVIOUS
  <1>1. CASE UNCHANGED vars \/ SetClock
    BY <1>1
    DEF SetClock, vars, environment, manager, identity, flags, handshake, AccessInv,
       SettingsAreSeen,
        OfferWasMade, PasswordWasSet, PasswordIsKnown, ReadOnlyIsNoted, UserIsAsked,
        DefaultWasSet, NeverSharedIsAlone,
        AuthRequired, KnowsPrimary, KnowsReadOnly, Knows
  <1>2. ASSUME NEW c \in Clients, Thread(c)
        PROVE  AccessInv'
    <2>1. CASE \E a \in Addresses : Accept(c, a) \/ \E vo \in BOOLEAN : CallViewer(c, a, vo)
      BY <2>1, ConnectAccess
    <2>2. CASE \/ OfferSecurity(c) \/ ImposeSecurity(c) \/ OfferTight(c)
               \/ \E type \in SecTypes \cup {"tight"} : SelectSecurity(c, type) \/ SelectTight(c, type)
      BY <2>2, SecurityAccess
    <2>3. CASE \/ ReadVersion(c) \/ AuthFailed(c) \/ PardonAddress(c)
               \/ \E p \in Passwords : Respond(c, p)
      BY <2>3, BanListAccess
    <2>4. CASE ReadPasswordFlags(c) \/ ComparePrimary(c) \/ CompareReadOnly(c)
      BY <2>4, CompareAccess
    <2>5. CASE \/ CheckAccess(c) \/ StayUnanswered(c) \/ \E b \in BOOLEAN : AnswerQuery(c, b)
               \/ \E b \in BOOLEAN : ReadClientInit(c, b)
      BY <2>5, ControlAccess
    <2>6. CASE Drop(c) \/ Leave(c)
      <3>1. peer[c] \in Addresses
        BY DEF TypeOK
      <3> QED
        BY <2>6, <3>1, ConnectAccess
    <2> QED
      BY <1>2, <2>1, <2>2, <2>3, <2>4, <2>5, <2>6, AdmitAccess DEF Thread
  <1> QED
    BY <1>1, <1>2, SettingsAccess DEF Next

\* What the settings let through is kept in every state.
LEMMA AccessInvariance == Spec => []AccessInv
  BY InitAccess, AccessStep, AuthenticationTypes, PTL DEF Spec

\* Nobody is let in without a password while one is required, however the
\* settings change during the handshake.
THEOREM PasswordsAreAsked == Spec => []PasswordWasAsked
  BY AccessInvariance, AccessBounds, PTL

\* Who knew the read-only password only may view only.
THEOREM ReadOnlyViews == Spec => []ReadOnlyPasswordOnlyViews
  BY AccessInvariance, AccessBounds, PTL

\* Nobody is let in unasked while the rule is to ask.
THEOREM UsersAreAsked == Spec => []UserWasAsked
  BY AccessInvariance, AccessBounds, PTL

\* While sharing is off at most one client is connected.
THEOREM NeverSharedAlone == Spec => []NeverSharedIsAlone
  BY AccessInvariance, AccessBounds, PTL

-----------------------------------------------------------------------------

\* The guesses of GuessLimit's behaviour.
AllGuesses == [a \in Addresses |-> Guesses(a)]

\* Bounded guesses stay bounded in the next state.
LEMMA BoundsNext == BanInv' => GuessesAreBounded'
  BY BanInvBounds, PTL

\* A client whose comparison fails has guessed.
LEMMA CompareGuesses ==
  ASSUME BanInv, BanInv', NEW c \in Clients, ComparePrimary(c) \/ CompareReadOnly(c)
  PROVE  BanList!Next \/ UNCHANGED AllGuesses
  <1>1. /\ pc[c] \in Comparing /\ UNCHANGED <<failures, peer>>
        /\ \E place \in {"access", "compareReadOnly", "wrong"} : Go(c, place)
    BY DEF ComparePrimary, CompareReadOnly, BanInv, BanTypes, Comparing, manager, identity
  <1>2. \A b \in Addresses : failures[b] \in Nat /\ Cardinality(Wrong(b)) \in Nat
    BY Counts DEF BanInv, BanTypes
  <1>3. CASE ~Go(c, "wrong")
    <2>1. \A b \in Addresses : Wrong(b)' = Wrong(b)
      BY <1>1, <1>3 DEF Go, Wrong, BanInv, BanTypes, Comparing
    <2> QED
      BY <1>1, <2>1 DEF Guesses, AllGuesses
  <1>4. CASE Go(c, "wrong")
    <2>1. PICK a \in Addresses : a = peer[c]
      BY DEF BanInv, BanTypes
    <2>2. /\ Wrong(a)' = Wrong(a) \cup {c} /\ c \notin Wrong(a)
          /\ \A b \in Addresses : b # a => Wrong(b)' = Wrong(b)
      BY <1>1, <1>4, <2>1 DEF Go, Wrong, BanInv, BanTypes, Comparing
    <2>3. Cardinality(Wrong(a)') = Cardinality(Wrong(a)) + 1
      BY <2>2, Counts, FS_AddElement
    <2>4. \A b \in Addresses : Guesses(b)' = IF b = a THEN Guesses(b) + 1 ELSE Guesses(b)
      <3>1. Guesses(a)' = Guesses(a) + 1
        BY <1>1, <1>2, <2>3 DEF Guesses
      <3>2. ASSUME NEW b \in Addresses, b # a
            PROVE  Guesses(b)' = Guesses(b)
        <4>1. Wrong(b)' = Wrong(b)
          BY <2>2, <3>2
        <4> QED
          BY <1>1, <4>1 DEF Guesses
      <3> QED
        BY <3>1, <3>2
    <2>5. Guesses(a)' <= Limit /\ Guesses(a) \in Nat /\ Limit \in Int
      BY <1>2, BoundsNext, Counts, AuthenticationAssumption DEF GuessesAreBounded, Guesses, Limit, N
    <2>6. AllGuesses[a] < Limit
      BY <2>4, <2>5 DEF AllGuesses
    <2>7. AllGuesses' = [AllGuesses EXCEPT ![a] = @ + 1]
      BY <2>4 DEF AllGuesses
    <2> QED
      BY <2>6, <2>7 DEF BanList!Next, BanList!Guess, AllGuesses
  <1> QED
    BY <1>3, <1>4

\* At any other step the past of an address is forgotten or stays.
LEMMA OtherGuesses ==
  ASSUME BanInv, BanInv',
         \A a \in Addresses : Guesses(a)' <= Guesses(a)
  PROVE  BanList!Next
  <1>1. \A a \in Addresses : Guesses(a)' \in Nat
    BY CountsNext DEF Guesses, BanInv, BanTypes
  <1> QED
    BY <1>1 DEF BanList!Next, BanList!Forget

\* The steps that ask the ban list; a failure that is counted was guessed before.
LEMMA CountedGuesses ==
  ASSUME BanInv, BanInv', NEW c \in Clients, AuthFailed(c)
  PROVE  \A b \in Addresses : Guesses(b)' <= Guesses(b)
  <1>1. PICK a \in Addresses : a = peer[c]
    BY DEF BanInv, BanTypes
  <1>2. /\ Wrong(a) = Wrong(a)' \cup {c} /\ c \notin Wrong(a)'
        /\ \A b \in Addresses : b # a => Wrong(b)' = Wrong(b)
    BY <1>1 DEF AuthFailed, Go, Wrong, BanInv, BanTypes, identity
  <1>3. Cardinality(Wrong(a)) = Cardinality(Wrong(a)') + 1
    BY <1>2, CountsNext, FS_AddElement
  <1>4. failures' = [FailuresOf(Refreshed) EXCEPT ![a] = @ + 1]
    BY <1>1 DEF AuthFailed
  <1>5. ASSUME NEW b \in Addresses
        PROVE  Guesses(b)' <= Guesses(b)
    <2>1. /\ FailuresOf(Refreshed)[b] \in Nat /\ failures[b] \in Nat
          /\ FailuresOf(Refreshed)[b] <= failures[b]
          /\ FailuresOf(Refreshed) \in [Addresses -> Nat]
      BY RefreshedTypes DEF BanInv, BanTypes
    <2>2. failures'[b] = IF b = a THEN FailuresOf(Refreshed)[b] + 1 ELSE FailuresOf(Refreshed)[b]
      BY <1>4, <2>1
    <2>3. Cardinality(Wrong(b)) \in Nat /\ Cardinality(Wrong(b)') \in Nat
      BY Counts, CountsNext
    <2>4. CASE b = a
      <3>1. Cardinality(Wrong(b)) = Cardinality(Wrong(b)') + 1
        BY <1>3, <2>4
      <3> QED
        BY <2>1, <2>2, <2>3, <2>4, <3>1 DEF Guesses
    <2>5. CASE b # a
      <3>1. Wrong(b)' = Wrong(b)
        BY <1>2, <2>5
      <3> QED
        BY <2>1, <2>2, <2>3, <2>5, <3>1 DEF Guesses
    <2> QED
      BY <2>4, <2>5
  <1> QED
    BY <1>5

\* A step in which no client answers wrongly and no failure is counted.
LEMMA QuietGuesses ==
  ASSUME BanInv, BanInv',
         \A a \in Addresses : failures'[a] <= failures[a] /\ Wrong(a)' \subseteq Wrong(a)
  PROVE  BanList!Next
  <1>1. ASSUME NEW a \in Addresses
        PROVE  Guesses(a)' <= Guesses(a)
    <2>1. Cardinality(Wrong(a)') <= Cardinality(Wrong(a))
      BY Counts, FS_Subset
    <2> QED
      BY <2>1, Counts, CountsNext DEF Guesses, BanInv, BanTypes
  <1> QED
    BY <1>1, OtherGuesses

\* No other step makes an answer wrong, and none but AuthFailed counts one.
LEMMA ForgettingSteps ==
  ASSUME BanInv, BanInv', NEW c \in Clients,
         \/ \E a \in Addresses : Accept(c, a) \/ \E vo \in BOOLEAN : CallViewer(c, a, vo)
         \/ ReadVersion(c) \/ OfferSecurity(c) \/ ImposeSecurity(c) \/ OfferTight(c)
         \/ \E type \in SecTypes \cup {"tight"} : SelectSecurity(c, type) \/ SelectTight(c, type)
         \/ \E p \in Passwords : Respond(c, p)
         \/ ReadPasswordFlags(c) \/ CheckAccess(c) \/ StayUnanswered(c) \/ \E b \in BOOLEAN : AnswerQuery(c, b)
         \/ \E b \in BOOLEAN : ReadClientInit(c, b)
         \/ PardonAddress(c) \/ Admit(c) \/ Drop(c) \/ Leave(c)
  PROVE  \A a \in Addresses : failures'[a] <= failures[a] /\ Wrong(a)' \subseteq Wrong(a)
  <1>1. \A a \in Addresses : failures[a] \in Nat /\ FailuresOf(Refreshed)[a] <= failures[a]
    BY RefreshedTypes DEF BanInv, BanTypes
  <1>2. \A a \in Addresses : failures'[a] <= failures[a]
    <2>1. CASE failures' = failures
      BY <1>1, <2>1
    <2>2. CASE ReadVersion(c) \/ \E p \in Passwords : Respond(c, p)
      BY <1>1, <2>2 DEF ReadVersion, Respond, manager
    <2>3. CASE PardonAddress(c)
      BY <1>1, <2>3 DEF PardonAddress, FailuresOf, Pardoned
    <2> QED
      BY <2>1, <2>2, <2>3
      DEF Accept, CallViewer, Connect, OfferSecurity, ImposeSecurity, OfferTight, SelectSecurity,
          SelectTight, NothingElse, ReadPasswordFlags, CheckAccess, AnswerQuery, StayUnanswered,
          Query, Querying, ReadClientInit,
          Admit, Drop, Leave, manager
  <1>3. \/ pc[c] # "wrong" /\ UNCHANGED peer
        \/ pc[c] = "none" /\ Go(c, "version") /\ \E a \in Addresses : peer' = [peer EXCEPT ![c] = a]
    BY DEF Accept, CallViewer, Connect, ReadVersion, OfferSecurity, ImposeSecurity, OfferTight,
           SelectSecurity, SelectTight, NothingElse, Respond, ReadPasswordFlags, CheckAccess,
           AnswerQuery, StayUnanswered, Query, Querying, ReadClientInit, PardonAddress, Admit,
           Drop, Leave, Waiting, identity
  <1>4. \E place \in Places \ {"wrong"} : Go(c, place)
    BY DEF Accept, CallViewer, Connect, ReadVersion, OfferSecurity, ImposeSecurity, OfferTight,
           SelectSecurity, SelectTight, DoAuth, Respond, ReadPasswordFlags, CheckAccess,
           AnswerQuery, StayUnanswered, Query, Querying, ReadClientInit, PardonAddress, Admit,
           Drop, Leave, Places, Querying, Waiting, Comparing
  <1>5. \A a \in Addresses : Wrong(a)' \subseteq Wrong(a)
    BY <1>3, <1>4 DEF Go, Wrong, BanInv, BanTypes
  <1> QED
    BY <1>2, <1>5

\* Every step is a step of GuessLimit or leaves the guesses as they are.
LEMMA GuessStep == BanInv /\ BanInv' /\ [Next]_vars => [BanList!Next]_AllGuesses
  <1> SUFFICES ASSUME BanInv, BanInv', [Next]_vars PROVE BanList!Next \/ UNCHANGED AllGuesses
    OBVIOUS
  <1>1. CASE UNCHANGED vars \/ ChangeSettings \/ SetClock
    BY <1>1 DEF ChangeSettings, SetClock, vars, manager, identity, AllGuesses, Guesses, Wrong
  <1>2. ASSUME NEW c \in Clients, Thread(c)
        PROVE  BanList!Next \/ UNCHANGED AllGuesses
    <2>1. CASE ComparePrimary(c) \/ CompareReadOnly(c)
      BY <2>1, CompareGuesses
    <2>2. CASE AuthFailed(c)
      BY <2>2, CountedGuesses, OtherGuesses
    <2>3. CASE ~ComparePrimary(c) /\ ~CompareReadOnly(c) /\ ~AuthFailed(c)
      BY <1>2, <2>3, ForgettingSteps, QuietGuesses DEF Thread
    <2> QED
      BY <2>1, <2>2, <2>3
  <1> QED
    BY <1>1, <1>2 DEF Next

\* The ban list and the handshake implement the promise of GuessLimit.
THEOREM PromiseIsKept == Spec => KeepsGuessLimit
  <1>1. Init => BanList!Init
    <2>1. ASSUME Init, NEW a \in Addresses
          PROVE  Guesses(a) = 0
      <3>1. Wrong(a) = {}
        BY <2>1 DEF Init, Wrong
      <3>2. Cardinality(Wrong(a)) = 0
        BY <3>1, FS_EmptySet
      <3> QED
        BY <2>1, <3>2 DEF Init, Guesses
    <2> QED
      BY <2>1 DEF BanList!Init
  <1>2. BanInv /\ BanInv' /\ [Next]_vars => [BanList!Next]_([a \in Addresses |-> Guesses(a)])
    BY GuessStep DEF AllGuesses
  <1> QED
    BY <1>1, <1>2, BanInvariance, PTL DEF Spec, KeepsGuessLimit, BanList!Spec
=============================================================================
