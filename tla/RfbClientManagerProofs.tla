----------------------- MODULE RfbClientManagerProofs -----------------------
(***************************************************************************)
(* For any number of connections: the types, the barrier that lets a       *)
(* client free its modules without the list's mutex, the life of the       *)
(* desktop a client holds, the contents of the client lists, and what is   *)
(* left when the server has been destroyed.                                *)
(***************************************************************************)
EXTENDS RfbClientManager, TLAPS

\* What the proofs use of the constants.
LEMMA ConstantFacts == NoClient \notin Clients /\ MaxWakes \in Nat
BY ConstantsAssumption

\* The owners of the mutex that the code can name are different threads.
LEMMA OwnersDiffer ==
  /\ \A c \in Clients : ThreadOf(c) # Nobody /\ ThreadOf(c) \notin DesktopThreads
  /\ \A c, k \in Clients : ThreadOf(c) = ThreadOf(k) => c = k
  /\ Nobody \notin DesktopThreads
  /\ \A t \in DesktopThreads : t[2] \in Clients
BY DEF ThreadOf, Nobody, DesktopThreads

\* The initial state satisfies the invariant.
LEMMA InitEstablishes == Init => IInv
<1> SUFFICES ASSUME Init PROVE IInv
  OBVIOUS
<1> USE DEF Init
<1>1. TypeOK
  <2>1. wakes \in 0..MaxWakes
    BY ConstantFacts
  <2> QED
    BY <2>1 DEF TypeOK, ClientLocations, ClientStates, DesktopLocations,
       MainLocations, Nobody
<1>2. StateMatchesLocation
  BY DEF StateMatchesLocation, Validating
<1>3. LockMatchesLocation
  BY OwnersDiffer DEF LockMatchesLocation
<1>4. UsedClientIsHeldBack
  BY DEF UsedClientIsHeldBack
<1>5. RemovedClientsAreUnlisted
  BY DEF RemovedClientsAreUnlisted, Validating
<1>6. DesktopLife
  BY ConstantFacts DEF DesktopLife
<1> QED
  BY <1>1, <1>2, <1>3, <1>4, <1>5, <1>6 DEF IInv

\* A step keeps every variable in its domain.
LEMMA TypePreserved == TypeOK /\ [Next]_vars => TypeOK'
<1> SUFFICES ASSUME TypeOK, [Next]_vars PROVE TypeOK'
  OBVIOUS
<1> USE DEF TypeOK, ClientLocations, ClientStates, DesktopLocations,
            MainLocations, Goto, DGoto, MainGoto, clientVars, listVars,
            walkVars, desktopVars, killVars
<1>1. ASSUME NEW c \in Clients, Connect(c) \/ ClientThread(c) PROVE TypeOK'
  <2>1. CASE Connect(c)
    BY <2>1 DEF Connect
  <2>2. CASE AuthPhase(c)
    BY <2>2 DEF AuthPhase
  <2>3. CASE Leave(c)
    BY <2>3 DEF Leave
  <2>4. CASE RejectExclusive(c)
    BY <2>4 DEF RejectExclusive
  <2>5. CASE AdmitClient(c)
    BY <2>5 DEF AdmitClient, MoveToAuthClients
  <2>6. CASE AdmitWithoutDesktop(c)
    BY <2>6 DEF AdmitWithoutDesktop, MoveToAuthClients
  <2>7. CASE EnterNormalPhase(c)
    BY <2>7 DEF EnterNormalPhase
  <2>8. CASE SetPendingToRemove(c)
    BY <2>8 DEF SetPendingToRemove
  <2>9. CASE FreeModules(c)
    BY <2>9 DEF FreeModules
  <2>10. CASE BeginScan(c)
    BY <2>10 DEF BeginScan, ThreadOf
  <2>11. ASSUME NEW z \in Clients, ScanClient(c, z) PROVE TypeOK'
    BY <2>11 DEF ScanClient, listVars
  <2>12. CASE EndScan(c)
    BY <2>12 DEF EndScan, EndScanIf, Nobody
  <2>13. CASE TerminateDesktop(c)
    BY <2>13 DEF TerminateDesktop
  <2>14. CASE JoinDesktop(c)
    BY <2>14 DEF JoinDesktop
  <2>15. CASE AfterLastClientDisconnect(c)
    BY <2>15 DEF AfterLastClientDisconnect
  <2>16. CASE NotifyUnderflow(c)
    BY <2>16 DEF NotifyUnderflow
  <2> QED
    BY <1>1, <2>1, <2>2, <2>3, <2>4, <2>5, <2>6, <2>7, <2>8, <2>9, <2>10,
       <2>11, <2>12, <2>13, <2>14, <2>15, <2>16 DEF ClientThread
<1>2. ASSUME NEW t \in DesktopThreads, DesktopThread(t) PROVE TypeOK'
  <2>1. CASE Wake(t)
    BY <2>1, ConstantFacts DEF Wake
  <2>2. CASE ThreadEnds(t)
    BY <2>2 DEF ThreadEnds
  <2>3. CASE BeginWalk(t)
    BY <2>3 DEF BeginWalk
  <2>4. ASSUME NEW z \in Clients, CheckClientState(t, z) PROVE TypeOK'
    BY <2>4 DEF CheckClientState
  <2>5. CASE UseClient(t)
    BY <2>5 DEF UseClient
  <2>6. CASE EndWalk(t)
    BY <2>6 DEF EndWalk, Nobody
  <2>7. CASE AbnormalTerminate(t)
    BY <2>7 DEF AbnormalTerminate, DisconnectAllClients
  <2> QED
    BY <1>2, <2>1, <2>2, <2>3, <2>4, <2>5, <2>6, <2>7 DEF DesktopThread
<1>3. CASE KillerThread
  BY <1>3 DEF KillerThread, DeleteDeadZombie
<1>4. CASE ControlDisconnect \/ Shutdown \/ MainThread
  BY <1>4 DEF ControlDisconnect, Shutdown, MainThread, KillAllZombies,
     ZombiesKilled, DestroyManager, CheckLists, WakeByUnderflow,
     DisconnectAllClients
<1>5. CASE Done \/ UNCHANGED vars
  BY <1>5 DEF Done, vars
<1> QED
  BY <1>1, <1>2, <1>3, <1>4, <1>5 DEF Next
\* m_clientState keeps telling where the thread is.
LEMMA StatePreserved == IInv /\ [Next]_vars => StateMatchesLocation'
<1> SUFFICES ASSUME IInv, [Next]_vars PROVE StateMatchesLocation'
  OBVIOUS
<1> USE ConstantFacts DEF IInv, TypeOK, StateMatchesLocation, Validating,
            Goto, DGoto, MainGoto, clientVars, listVars, walkVars,
            desktopVars, killVars
<1>1. ASSUME NEW c \in Clients, Connect(c) \/ ClientThread(c) PROVE StateMatchesLocation'
  <2>1. CASE Connect(c)
    BY <2>1 DEF Connect
  <2>2. CASE AuthPhase(c)
    BY <2>2 DEF AuthPhase
  <2>3. CASE Leave(c)
    BY <2>3 DEF Leave
  <2>4. CASE RejectExclusive(c)
    BY <2>4 DEF RejectExclusive
  <2>5. CASE AdmitClient(c)
    BY <2>5 DEF AdmitClient, MoveToAuthClients
  <2>6. CASE AdmitWithoutDesktop(c)
    BY <2>6 DEF AdmitWithoutDesktop, MoveToAuthClients
  <2>7. CASE EnterNormalPhase(c)
    BY <2>7 DEF EnterNormalPhase
  <2>8. CASE SetPendingToRemove(c)
    BY <2>8 DEF SetPendingToRemove
  <2>9. CASE FreeModules(c)
    BY <2>9 DEF FreeModules
  <2>10. CASE BeginScan(c)
    BY <2>10 DEF BeginScan
  <2>11. ASSUME NEW z \in Clients, ScanClient(c, z) PROVE StateMatchesLocation'
    BY <2>11 DEF ScanClient
  <2>12. CASE EndScan(c)
    BY <2>12 DEF EndScan, EndScanIf
  <2>13. CASE TerminateDesktop(c)
    BY <2>13 DEF TerminateDesktop
  <2>14. CASE JoinDesktop(c)
    BY <2>14 DEF JoinDesktop
  <2>15. CASE AfterLastClientDisconnect(c)
    BY <2>15 DEF AfterLastClientDisconnect
  <2>16. CASE NotifyUnderflow(c)
    BY <2>16 DEF NotifyUnderflow
  <2> QED
    BY <1>1, <2>1, <2>2, <2>3, <2>4, <2>5, <2>6, <2>7, <2>8,
       <2>9, <2>10, <2>11, <2>12, <2>13, <2>14, <2>15, <2>16
    DEF ClientThread
<1>2. ASSUME NEW t \in DesktopThreads, DesktopThread(t) PROVE StateMatchesLocation'
  <2>1. CASE Wake(t)
    BY <2>1 DEF Wake
  <2>2. CASE ThreadEnds(t)
    BY <2>2 DEF ThreadEnds
  <2>3. CASE BeginWalk(t)
    BY <2>3 DEF BeginWalk
  <2>4. ASSUME NEW z \in Clients, CheckClientState(t, z) PROVE StateMatchesLocation'
    BY <2>4 DEF CheckClientState
  <2>5. CASE UseClient(t)
    BY <2>5 DEF UseClient
  <2>6. CASE EndWalk(t)
    BY <2>6 DEF EndWalk
  <2>7. CASE AbnormalTerminate(t)
    BY <2>7 DEF AbnormalTerminate, DisconnectAllClients
  <2> QED
    BY <1>2, <2>1, <2>2, <2>3, <2>4, <2>5, <2>6, <2>7 DEF DesktopThread
<1>3. CASE KillerThread
  BY <1>3 DEF KillerThread, DeleteDeadZombie
<1>4. CASE ControlDisconnect \/ Shutdown \/ MainThread
  BY <1>4 DEF ControlDisconnect, Shutdown, MainThread, KillAllZombies,
     ZombiesKilled, DestroyManager, CheckLists, WakeByUnderflow,
     DisconnectAllClients
<1>5. CASE Done \/ UNCHANGED vars
  BY <1>5 DEF Done, vars
<1> QED
  BY <1>1, <1>2, <1>3, <1>4, <1>5 DEF Next

\* The mutex keeps being owned by the thread inside it.
LEMMA LockPreserved == IInv /\ [Next]_vars => LockMatchesLocation'
<1> SUFFICES ASSUME IInv, [Next]_vars PROVE LockMatchesLocation'
  OBVIOUS
<1> USE OwnersDiffer DEF IInv, TypeOK, LockMatchesLocation, LockFree,
            Goto, DGoto, MainGoto, clientVars, listVars, walkVars,
            desktopVars, killVars
<1>1. ASSUME NEW c \in Clients, Connect(c) \/ ClientThread(c) PROVE LockMatchesLocation'
  <2>1. CASE Connect(c)
    BY <2>1 DEF Connect
  <2>2. CASE AuthPhase(c)
    BY <2>2 DEF AuthPhase
  <2>3. CASE Leave(c)
    BY <2>3 DEF Leave
  <2>4. CASE RejectExclusive(c)
    BY <2>4 DEF RejectExclusive
  <2>5. CASE AdmitClient(c)
    BY <2>5 DEF AdmitClient, MoveToAuthClients
  <2>6. CASE AdmitWithoutDesktop(c)
    BY <2>6 DEF AdmitWithoutDesktop, MoveToAuthClients
  <2>7. CASE EnterNormalPhase(c)
    BY <2>7 DEF EnterNormalPhase
  <2>8. CASE SetPendingToRemove(c)
    BY <2>8 DEF SetPendingToRemove
  <2>9. CASE FreeModules(c)
    BY <2>9 DEF FreeModules
  <2>10. CASE BeginScan(c)
    BY <2>10 DEF BeginScan
  <2>11. ASSUME NEW z \in Clients, ScanClient(c, z) PROVE LockMatchesLocation'
    BY <2>11 DEF ScanClient
  <2>12. CASE EndScan(c)
    BY <2>12 DEF EndScan, EndScanIf
  <2>13. CASE TerminateDesktop(c)
    BY <2>13 DEF TerminateDesktop
  <2>14. CASE JoinDesktop(c)
    BY <2>14 DEF JoinDesktop
  <2>15. CASE AfterLastClientDisconnect(c)
    BY <2>15 DEF AfterLastClientDisconnect
  <2>16. CASE NotifyUnderflow(c)
    BY <2>16 DEF NotifyUnderflow
  <2> QED
    BY <1>1, <2>1, <2>2, <2>3, <2>4, <2>5, <2>6, <2>7, <2>8,
       <2>9, <2>10, <2>11, <2>12, <2>13, <2>14, <2>15, <2>16
    DEF ClientThread
<1>2. ASSUME NEW t \in DesktopThreads, DesktopThread(t) PROVE LockMatchesLocation'
  <2>1. CASE Wake(t)
    BY <2>1 DEF Wake
  <2>2. CASE ThreadEnds(t)
    BY <2>2 DEF ThreadEnds
  <2>3. CASE BeginWalk(t)
    BY <2>3 DEF BeginWalk
  <2>4. ASSUME NEW z \in Clients, CheckClientState(t, z) PROVE LockMatchesLocation'
    BY <2>4 DEF CheckClientState
  <2>5. CASE UseClient(t)
    BY <2>5 DEF UseClient
  <2>6. CASE EndWalk(t)
    BY <2>6 DEF EndWalk
  <2>7. CASE AbnormalTerminate(t)
    BY <2>7 DEF AbnormalTerminate, DisconnectAllClients
  <2> QED
    BY <1>2, <2>1, <2>2, <2>3, <2>4, <2>5, <2>6, <2>7 DEF DesktopThread
<1>3. CASE KillerThread
  BY <1>3 DEF KillerThread, DeleteDeadZombie
<1>4. CASE ControlDisconnect \/ Shutdown \/ MainThread
  BY <1>4 DEF ControlDisconnect, Shutdown, MainThread, KillAllZombies,
     ZombiesKilled, DestroyManager, CheckLists, WakeByUnderflow,
     DisconnectAllClients
<1>5. CASE Done \/ UNCHANGED vars
  BY <1>5 DEF Done, vars
<1> QED
  BY <1>1, <1>2, <1>3, <1>4, <1>5 DEF Next

\* A client that is in use stays on this side of the barrier.
LEMMA BarrierPreserved == IInv /\ [Next]_vars => UsedClientIsHeldBack'
<1> SUFFICES ASSUME IInv, [Next]_vars PROVE UsedClientIsHeldBack'
  OBVIOUS
<1> USE OwnersDiffer, ConstantFacts DEF IInv, TypeOK, UsedClientIsHeldBack, StateMatchesLocation, LockMatchesLocation,
            LockFree, Validating,
            Goto, DGoto, MainGoto, clientVars, listVars, walkVars,
            desktopVars, killVars
<1>1. ASSUME NEW c \in Clients, Connect(c) \/ ClientThread(c) PROVE UsedClientIsHeldBack'
  <2>1. CASE Connect(c)
    BY <2>1 DEF Connect
  <2>2. CASE AuthPhase(c)
    BY <2>2 DEF AuthPhase
  <2>3. CASE Leave(c)
    BY <2>3 DEF Leave
  <2>4. CASE RejectExclusive(c)
    BY <2>4 DEF RejectExclusive
  <2>5. CASE AdmitClient(c)
    BY <2>5 DEF AdmitClient, MoveToAuthClients
  <2>6. CASE AdmitWithoutDesktop(c)
    BY <2>6 DEF AdmitWithoutDesktop, MoveToAuthClients
  <2>7. CASE EnterNormalPhase(c)
    BY <2>7 DEF EnterNormalPhase
  <2>8. CASE SetPendingToRemove(c)
    BY <2>8 DEF SetPendingToRemove
  <2>9. CASE FreeModules(c)
    BY <2>9 DEF FreeModules
  <2>10. CASE BeginScan(c)
    BY <2>10 DEF BeginScan
  <2>11. ASSUME NEW z \in Clients, ScanClient(c, z) PROVE UsedClientIsHeldBack'
    BY <2>11 DEF ScanClient
  <2>12. CASE EndScan(c)
    BY <2>12 DEF EndScan, EndScanIf
  <2>13. CASE TerminateDesktop(c)
    BY <2>13 DEF TerminateDesktop
  <2>14. CASE JoinDesktop(c)
    BY <2>14 DEF JoinDesktop
  <2>15. CASE AfterLastClientDisconnect(c)
    BY <2>15 DEF AfterLastClientDisconnect
  <2>16. CASE NotifyUnderflow(c)
    BY <2>16 DEF NotifyUnderflow
  <2> QED
    BY <1>1, <2>1, <2>2, <2>3, <2>4, <2>5, <2>6, <2>7, <2>8,
       <2>9, <2>10, <2>11, <2>12, <2>13, <2>14, <2>15, <2>16
    DEF ClientThread
<1>2. ASSUME NEW t \in DesktopThreads, DesktopThread(t) PROVE UsedClientIsHeldBack'
  <2>1. CASE Wake(t)
    BY <2>1 DEF Wake
  <2>2. CASE ThreadEnds(t)
    BY <2>2 DEF ThreadEnds
  <2>3. CASE BeginWalk(t)
    BY <2>3 DEF BeginWalk
  <2>4. ASSUME NEW z \in Clients, CheckClientState(t, z) PROVE UsedClientIsHeldBack'
    <3>1. clientState[z] = "NORMAL_PHASE" => pc[z] \in {"normal", "closing"}
      BY DEF ClientLocations
    <3>2. UNCHANGED <<pc, clientState, modules>> /\ lock' = t
      BY <2>4 DEF CheckClientState
    <3>3. using' # NoClient => using' = z /\ clientState[z] = "NORMAL_PHASE"
      BY <2>4 DEF CheckClientState
    <3> QED
      BY <3>1, <3>2, <3>3
  <2>5. CASE UseClient(t)
    BY <2>5 DEF UseClient
  <2>6. CASE EndWalk(t)
    BY <2>6 DEF EndWalk
  <2>7. CASE AbnormalTerminate(t)
    BY <2>7 DEF AbnormalTerminate, DisconnectAllClients
  <2> QED
    BY <1>2, <2>1, <2>2, <2>3, <2>4, <2>5, <2>6, <2>7 DEF DesktopThread
<1>3. CASE KillerThread
  BY <1>3 DEF KillerThread, DeleteDeadZombie
<1>4. CASE ControlDisconnect \/ Shutdown \/ MainThread
  BY <1>4 DEF ControlDisconnect, Shutdown, MainThread, KillAllZombies,
     ZombiesKilled, DestroyManager, CheckLists, WakeByUnderflow,
     DisconnectAllClients
<1>5. CASE Done \/ UNCHANGED vars
  BY <1>5 DEF Done, vars
<1> QED
  BY <1>1, <1>2, <1>3, <1>4, <1>5 DEF Next

\* A removed client stays off the lists.
LEMMA ListsPreserved == IInv /\ [Next]_vars => RemovedClientsAreUnlisted'
<1> SUFFICES ASSUME IInv, [Next]_vars PROVE RemovedClientsAreUnlisted'
  OBVIOUS
<1> USE OwnersDiffer, ConstantFacts DEF IInv, TypeOK, RemovedClientsAreUnlisted, StateMatchesLocation,
            LockMatchesLocation, LockFree, Validating,
            Goto, DGoto, MainGoto, clientVars, listVars, walkVars,
            desktopVars, killVars
<1>1. ASSUME NEW c \in Clients, Connect(c) \/ ClientThread(c) PROVE RemovedClientsAreUnlisted'
  <2>1. CASE Connect(c)
    BY <2>1 DEF Connect
  <2>2. CASE AuthPhase(c)
    BY <2>2 DEF AuthPhase
  <2>3. CASE Leave(c)
    BY <2>3 DEF Leave
  <2>4. CASE RejectExclusive(c)
    BY <2>4 DEF RejectExclusive
  <2>5. CASE AdmitClient(c)
    BY <2>5 DEF AdmitClient, MoveToAuthClients
  <2>6. CASE AdmitWithoutDesktop(c)
    BY <2>6 DEF AdmitWithoutDesktop, MoveToAuthClients
  <2>7. CASE EnterNormalPhase(c)
    BY <2>7 DEF EnterNormalPhase
  <2>8. CASE SetPendingToRemove(c)
    BY <2>8 DEF SetPendingToRemove
  <2>9. CASE FreeModules(c)
    BY <2>9 DEF FreeModules
  <2>10. CASE BeginScan(c)
    BY <2>10 DEF BeginScan
  <2>11. ASSUME NEW z \in Clients, ScanClient(c, z) PROVE RemovedClientsAreUnlisted'
    BY <2>11 DEF ScanClient
  <2>12. CASE EndScan(c)
    BY <2>12 DEF EndScan, EndScanIf
  <2>13. CASE TerminateDesktop(c)
    BY <2>13 DEF TerminateDesktop
  <2>14. CASE JoinDesktop(c)
    BY <2>14 DEF JoinDesktop
  <2>15. CASE AfterLastClientDisconnect(c)
    BY <2>15 DEF AfterLastClientDisconnect
  <2>16. CASE NotifyUnderflow(c)
    BY <2>16 DEF NotifyUnderflow
  <2> QED
    BY <1>1, <2>1, <2>2, <2>3, <2>4, <2>5, <2>6, <2>7, <2>8,
       <2>9, <2>10, <2>11, <2>12, <2>13, <2>14, <2>15, <2>16
    DEF ClientThread
<1>2. ASSUME NEW t \in DesktopThreads, DesktopThread(t) PROVE RemovedClientsAreUnlisted'
  <2>1. CASE Wake(t)
    BY <2>1 DEF Wake
  <2>2. CASE ThreadEnds(t)
    BY <2>2 DEF ThreadEnds
  <2>3. CASE BeginWalk(t)
    BY <2>3 DEF BeginWalk
  <2>4. ASSUME NEW z \in Clients, CheckClientState(t, z) PROVE RemovedClientsAreUnlisted'
    BY <2>4 DEF CheckClientState
  <2>5. CASE UseClient(t)
    BY <2>5 DEF UseClient
  <2>6. CASE EndWalk(t)
    BY <2>6 DEF EndWalk
  <2>7. CASE AbnormalTerminate(t)
    BY <2>7 DEF AbnormalTerminate, DisconnectAllClients
  <2> QED
    BY <1>2, <2>1, <2>2, <2>3, <2>4, <2>5, <2>6, <2>7 DEF DesktopThread
<1>3. CASE KillerThread
  BY <1>3 DEF KillerThread, DeleteDeadZombie
<1>4. CASE ControlDisconnect \/ Shutdown \/ MainThread
  BY <1>4 DEF ControlDisconnect, Shutdown, MainThread, KillAllZombies,
     ZombiesKilled, DestroyManager, CheckLists, WakeByUnderflow,
     DisconnectAllClients
<1>5. CASE Done \/ UNCHANGED vars
  BY <1>5 DEF Done, vars
<1> QED
  BY <1>1, <1>2, <1>3, <1>4, <1>5 DEF Next

\* The desktop the manager hands out stays alive and undoomed.
LEMMA DesktopPreserved == IInv /\ [Next]_vars => DesktopLife'
<1> SUFFICES ASSUME IInv, [Next]_vars PROVE DesktopLife'
  OBVIOUS
<1> USE ConstantFacts DEF IInv, TypeOK, DesktopLife, StateMatchesLocation, RemovedClientsAreUnlisted,
            Validating,
            Goto, DGoto, MainGoto, clientVars, listVars, walkVars,
            desktopVars, killVars
<1>1. ASSUME NEW c \in Clients, Connect(c) \/ ClientThread(c) PROVE DesktopLife'
  <2>1. CASE Connect(c)
    BY <2>1 DEF Connect
  <2>2. CASE AuthPhase(c)
    BY <2>2 DEF AuthPhase
  <2>3. CASE Leave(c)
    BY <2>3 DEF Leave
  <2>4. CASE RejectExclusive(c)
    BY <2>4 DEF RejectExclusive
  <2>5. CASE AdmitClient(c)
    BY <2>5 DEF AdmitClient, MoveToAuthClients
  <2>6. CASE AdmitWithoutDesktop(c)
    BY <2>6 DEF AdmitWithoutDesktop, MoveToAuthClients
  <2>7. CASE EnterNormalPhase(c)
    BY <2>7 DEF EnterNormalPhase
  <2>8. CASE SetPendingToRemove(c)
    BY <2>8 DEF SetPendingToRemove
  <2>9. CASE FreeModules(c)
    BY <2>9 DEF FreeModules
  <2>10. CASE BeginScan(c)
    BY <2>10 DEF BeginScan
  <2>11. ASSUME NEW z \in Clients, ScanClient(c, z) PROVE DesktopLife'
    BY <2>11 DEF ScanClient
  <2>12. CASE EndScan(c)
    BY <2>12 DEF EndScan, EndScanIf
  <2>13. CASE TerminateDesktop(c)
    BY <2>13 DEF TerminateDesktop
  <2>14. CASE JoinDesktop(c)
    BY <2>14 DEF JoinDesktop
  <2>15. CASE AfterLastClientDisconnect(c)
    BY <2>15 DEF AfterLastClientDisconnect
  <2>16. CASE NotifyUnderflow(c)
    BY <2>16 DEF NotifyUnderflow
  <2> QED
    BY <1>1, <2>1, <2>2, <2>3, <2>4, <2>5, <2>6, <2>7, <2>8,
       <2>9, <2>10, <2>11, <2>12, <2>13, <2>14, <2>15, <2>16
    DEF ClientThread
<1>2. ASSUME NEW t \in DesktopThreads, DesktopThread(t) PROVE DesktopLife'
  <2>1. CASE Wake(t)
    BY <2>1 DEF Wake
  <2>2. CASE ThreadEnds(t)
    BY <2>2 DEF ThreadEnds
  <2>3. CASE BeginWalk(t)
    BY <2>3 DEF BeginWalk
  <2>4. ASSUME NEW z \in Clients, CheckClientState(t, z) PROVE DesktopLife'
    BY <2>4 DEF CheckClientState
  <2>5. CASE UseClient(t)
    BY <2>5 DEF UseClient
  <2>6. CASE EndWalk(t)
    BY <2>6 DEF EndWalk
  <2>7. CASE AbnormalTerminate(t)
    BY <2>7 DEF AbnormalTerminate, DisconnectAllClients
  <2> QED
    BY <1>2, <2>1, <2>2, <2>3, <2>4, <2>5, <2>6, <2>7 DEF DesktopThread
<1>3. CASE KillerThread
  BY <1>3 DEF KillerThread, DeleteDeadZombie
<1>4. CASE ControlDisconnect \/ Shutdown \/ MainThread
  BY <1>4 DEF ControlDisconnect, Shutdown, MainThread, KillAllZombies,
     ZombiesKilled, DestroyManager, CheckLists, WakeByUnderflow,
     DisconnectAllClients
<1>5. CASE Done \/ UNCHANGED vars
  BY <1>5 DEF Done, vars
<1> QED
  BY <1>1, <1>2, <1>3, <1>4, <1>5 DEF Next

\* The invariant is inductive.
LEMMA StepPreserves == IInv /\ [Next]_vars => IInv'
BY TypePreserved, StatePreserved, LockPreserved, BarrierPreserved,
   ListsPreserved, DesktopPreserved DEF IInv

\* Every state of every behaviour satisfies the inductive invariant: the
\* locking discipline of validateClientList, of the desktop's walks and of the
\* client threads keeps all its parts together.
THEOREM Invariance == Spec => []IInv
BY InitEstablishes, StepPreserves, PTL DEF Spec

\* Type correctness for any number of connections.
THEOREM TypeCorrect == Spec => []TypeOK
<1>1. IInv => TypeOK
  BY DEF IInv
<1> QED
  BY <1>1, Invariance, PTL

\* "After this call, we are guaranteed not to be used by other threads"
\* (RfbClient.cpp:282): the barrier made of the client's state and the list's
\* mutex keeps every thread of a desktop off modules that have been deleted.
THEOREM BarrierHolds == Spec => []UsedModulesExist
<1>1. IInv => UsedModulesExist
  BY DEF IInv, UsedClientIsHeldBack, UsedModulesExist
<1> QED
  BY <1>1, Invariance, PTL

\* The desktop a client was given by onClientAuth is the manager's, exists, and
\* is not being deleted until the client is ready to be removed.
THEOREM DesktopOutlivesItsClients == Spec => []HeldDesktopExists
<1>1. IInv => HeldDesktopExists
  BY DEF IInv, DesktopLife, HeldDesktopExists, TypeOK
<1> QED
  BY <1>1, Invariance, PTL

\* Neither list leads to a client whose thread has ended or that has been given
\* to the ZombieKiller.
THEOREM ListsAreClean == Spec => []ListedClientsExist
<1>1. IInv => ListedClientsExist
  <2> SUFFICES ASSUME RemovedClientsAreUnlisted, StateMatchesLocation,
                      NEW c \in Clients, c \in nonAuthClients \union authClients
               PROVE  pc[c] \notin {"none", "ended", "deleted"} /\ c \notin zombies
    BY DEF IInv, TypeOK, ListedClientsExist
  <2> QED
    BY DEF RemovedClientsAreUnlisted, StateMatchesLocation
<1> QED
  BY <1>1, Invariance, PTL

\* A step leaves no desktop without clients: whoever takes the last one off the
\* authorized list is scanning, and the end of the scan takes the desktop.
LEMMA DesktopServedPreserved ==
  IInv /\ DesktopHasClients /\ [Next]_vars => DesktopHasClients'
<1> SUFFICES ASSUME IInv, DesktopHasClients, [Next]_vars PROVE DesktopHasClients'
  OBVIOUS
<1> USE OwnersDiffer, ConstantFacts DEF IInv, TypeOK, DesktopHasClients,
        LockMatchesLocation, LockFree, Goto, DGoto, MainGoto, clientVars,
        listVars, walkVars, desktopVars, killVars
<1>1. ASSUME NEW c \in Clients, Connect(c) \/ ClientThread(c) PROVE DesktopHasClients'
  <2>1. CASE Connect(c)
    BY <2>1 DEF Connect
  <2>2. CASE AuthPhase(c)
    BY <2>2 DEF AuthPhase
  <2>3. CASE Leave(c)
    BY <2>3 DEF Leave
  <2>4. CASE RejectExclusive(c)
    BY <2>4 DEF RejectExclusive
  <2>5. CASE AdmitClient(c)
    BY <2>5 DEF AdmitClient, MoveToAuthClients
  <2>6. CASE AdmitWithoutDesktop(c)
    BY <2>6 DEF AdmitWithoutDesktop, MoveToAuthClients
  <2>7. CASE EnterNormalPhase(c)
    BY <2>7 DEF EnterNormalPhase
  <2>8. CASE SetPendingToRemove(c)
    BY <2>8 DEF SetPendingToRemove
  <2>9. CASE FreeModules(c)
    BY <2>9 DEF FreeModules
  <2>10. CASE BeginScan(c)
    BY <2>10 DEF BeginScan
  <2>11. ASSUME NEW z \in Clients, ScanClient(c, z) PROVE DesktopHasClients'
    BY <2>11 DEF ScanClient
  <2>12. CASE EndScan(c)
    BY <2>12 DEF EndScan, EndScanIf
  <2>13. CASE TerminateDesktop(c)
    BY <2>13 DEF TerminateDesktop
  <2>14. CASE JoinDesktop(c)
    BY <2>14 DEF JoinDesktop
  <2>15. CASE AfterLastClientDisconnect(c)
    BY <2>15 DEF AfterLastClientDisconnect
  <2>16. CASE NotifyUnderflow(c)
    BY <2>16 DEF NotifyUnderflow
  <2> QED
    BY <1>1, <2>1, <2>2, <2>3, <2>4, <2>5, <2>6, <2>7, <2>8, <2>9, <2>10, <2>11, <2>12, <2>13,
       <2>14, <2>15, <2>16
    DEF ClientThread
<1>2. ASSUME NEW t \in DesktopThreads, DesktopThread(t) PROVE DesktopHasClients'
  <2>1. CASE Wake(t)
    BY <2>1 DEF Wake
  <2>2. CASE ThreadEnds(t)
    BY <2>2 DEF ThreadEnds
  <2>3. CASE BeginWalk(t)
    BY <2>3 DEF BeginWalk
  <2>4. ASSUME NEW z \in Clients, CheckClientState(t, z) PROVE DesktopHasClients'
    BY <2>4 DEF CheckClientState
  <2>5. CASE UseClient(t)
    BY <2>5 DEF UseClient
  <2>6. CASE EndWalk(t)
    BY <2>6 DEF EndWalk
  <2>7. CASE AbnormalTerminate(t)
    BY <2>7 DEF AbnormalTerminate, DisconnectAllClients
  <2> QED
    BY <1>2, <2>1, <2>2, <2>3, <2>4, <2>5, <2>6, <2>7 DEF DesktopThread
<1>3. CASE KillerThread
  BY <1>3 DEF KillerThread, DeleteDeadZombie
<1>4. CASE ControlDisconnect \/ Shutdown \/ MainThread
  <2>1. CASE ZombiesKilled
    BY <2>1 DEF ZombiesKilled
  <2>2. CASE ControlDisconnect \/ Shutdown \/ (MainThread /\ ~ZombiesKilled)
    BY <2>2 DEF ControlDisconnect, Shutdown, MainThread, KillAllZombies,
       DestroyManager, CheckLists, WakeByUnderflow, DisconnectAllClients
  <2> QED
    BY <1>4, <2>1, <2>2
<1>5. CASE Done \/ UNCHANGED vars
  BY <1>5 DEF Done, vars
<1> QED
  BY <1>1, <1>2, <1>3, <1>4, <1>5 DEF Next

\* No desktop is left running without an authenticated client, except during the
\* validateClientList that is about to take it.
THEOREM DesktopIsServed == Spec => []DesktopHasClients
<1>1. Init => DesktopHasClients
  BY DEF Init, DesktopHasClients
<1> QED
  BY <1>1, Invariance, DesktopServedPreserved, PTL DEF Spec

-----------------------------------------------------------------------------
(* The end of the server                                                   *)

\* Every client whose object exists is on a list or waits to be freed.
ClientsAreAccountedFor ==
  \A c \in Clients : pc[c] \notin {"none", "deleted"} =>
    c \in nonAuthClients \union authClients \union zombies

\* A desktop is the manager's, or one that a client's thread is deleting.
DesktopsAreAccountedFor ==
  \A d \in alive : d = desktop \/
    \E k \in Clients : doomed[k] = d /\ pc[k] \in {"terminate", "join"}

\* Modules belong to clients that have been in the normal phase and have not
\* announced that they may be removed.
ModulesAreAccountedFor ==
  \A c \in modules : clientState[c] \in {"NORMAL_PHASE", "PENDING_TO_REMOVE"}

\* Once the destructor has seen both lists empty they stay empty, and when it is
\* over every client has been freed.
ListsStayEmpty ==
  /\ main \in {"kill2", "kill2Wait", "done"} =>
       nonAuthClients = {} /\ authClients = {}
  /\ main = "done" => \A c \in Clients : pc[c] \in {"none", "deleted"}

ShutdownInv ==
  /\ ClientsAreAccountedFor
  /\ DesktopsAreAccountedFor
  /\ ModulesAreAccountedFor
  /\ ListsStayEmpty

\* A client leaves the lists for the zombies, and the zombies when it is freed.
LEMMA ClientsStayAccountedFor ==
  TypeOK /\ ClientsAreAccountedFor /\ [Next]_vars => ClientsAreAccountedFor'
<1> SUFFICES ASSUME TypeOK, ClientsAreAccountedFor, [Next]_vars PROVE ClientsAreAccountedFor'
  OBVIOUS
<1> USE DEF TypeOK, ClientsAreAccountedFor, Goto, DGoto, MainGoto,
        clientVars, listVars, walkVars, desktopVars, killVars
<1>1. ASSUME NEW c \in Clients, Connect(c) \/ ClientThread(c) PROVE ClientsAreAccountedFor'
  <2>1. CASE Connect(c)
    BY <2>1 DEF Connect
  <2>2. CASE AuthPhase(c)
    BY <2>2 DEF AuthPhase
  <2>3. CASE Leave(c)
    BY <2>3 DEF Leave
  <2>4. CASE RejectExclusive(c)
    BY <2>4 DEF RejectExclusive
  <2>5. CASE AdmitClient(c)
    BY <2>5 DEF AdmitClient, MoveToAuthClients
  <2>6. CASE AdmitWithoutDesktop(c)
    BY <2>6 DEF AdmitWithoutDesktop, MoveToAuthClients
  <2>7. CASE EnterNormalPhase(c)
    BY <2>7 DEF EnterNormalPhase
  <2>8. CASE SetPendingToRemove(c)
    BY <2>8 DEF SetPendingToRemove
  <2>9. CASE FreeModules(c)
    BY <2>9 DEF FreeModules
  <2>10. CASE BeginScan(c)
    BY <2>10 DEF BeginScan
  <2>11. ASSUME NEW z \in Clients, ScanClient(c, z) PROVE ClientsAreAccountedFor'
    BY <2>11 DEF ScanClient
  <2>12. CASE EndScan(c)
    BY <2>12 DEF EndScan, EndScanIf
  <2>13. CASE TerminateDesktop(c)
    BY <2>13 DEF TerminateDesktop
  <2>14. CASE JoinDesktop(c)
    BY <2>14 DEF JoinDesktop
  <2>15. CASE AfterLastClientDisconnect(c)
    BY <2>15 DEF AfterLastClientDisconnect
  <2>16. CASE NotifyUnderflow(c)
    BY <2>16 DEF NotifyUnderflow
  <2> QED
    BY <1>1, <2>1, <2>2, <2>3, <2>4, <2>5, <2>6, <2>7, <2>8,
       <2>9, <2>10, <2>11, <2>12, <2>13, <2>14, <2>15, <2>16 DEF ClientThread
<1>2. ASSUME NEW t \in DesktopThreads, DesktopThread(t) PROVE ClientsAreAccountedFor'
  BY <1>2 DEF DesktopThread, Wake, ThreadEnds, BeginWalk, CheckClientState,
     UseClient, EndWalk, AbnormalTerminate, DisconnectAllClients
<1>3. CASE KillerThread
  BY <1>3 DEF KillerThread, DeleteDeadZombie
<1>4. CASE ControlDisconnect \/ Shutdown \/ MainThread
  BY <1>4 DEF ControlDisconnect, Shutdown, MainThread, KillAllZombies,
     ZombiesKilled, DestroyManager, CheckLists, WakeByUnderflow,
     DisconnectAllClients
<1>5. CASE Done \/ UNCHANGED vars
  BY <1>5 DEF Done, vars
<1> QED
  BY <1>1, <1>2, <1>3, <1>4, <1>5 DEF Next

\* A desktop passes from the manager to the thread that deletes it.
LEMMA DesktopsStayAccountedFor ==
  TypeOK /\ DesktopsAreAccountedFor /\ [Next]_vars => DesktopsAreAccountedFor'
<1> SUFFICES ASSUME TypeOK, DesktopsAreAccountedFor, [Next]_vars PROVE DesktopsAreAccountedFor'
  OBVIOUS
<1> USE ConstantFacts DEF TypeOK, DesktopsAreAccountedFor, Goto, DGoto, MainGoto,
        clientVars, listVars, walkVars, desktopVars, killVars
<1>1. ASSUME NEW c \in Clients, Connect(c) \/ ClientThread(c) PROVE DesktopsAreAccountedFor'
  <2>1. CASE Connect(c)
    BY <2>1 DEF Connect
  <2>2. CASE AuthPhase(c)
    BY <2>2 DEF AuthPhase
  <2>3. CASE Leave(c)
    BY <2>3 DEF Leave
  <2>4. CASE RejectExclusive(c)
    BY <2>4 DEF RejectExclusive
  <2>5. CASE AdmitClient(c)
    BY <2>5 DEF AdmitClient, MoveToAuthClients
  <2>6. CASE AdmitWithoutDesktop(c)
    BY <2>6 DEF AdmitWithoutDesktop, MoveToAuthClients
  <2>7. CASE EnterNormalPhase(c)
    BY <2>7 DEF EnterNormalPhase
  <2>8. CASE SetPendingToRemove(c)
    BY <2>8 DEF SetPendingToRemove
  <2>9. CASE FreeModules(c)
    BY <2>9 DEF FreeModules
  <2>10. CASE BeginScan(c)
    BY <2>10 DEF BeginScan
  <2>11. ASSUME NEW z \in Clients, ScanClient(c, z) PROVE DesktopsAreAccountedFor'
    BY <2>11 DEF ScanClient
  <2>12. CASE EndScan(c)
    BY <2>12 DEF EndScan, EndScanIf
  <2>13. CASE TerminateDesktop(c)
    BY <2>13 DEF TerminateDesktop
  <2>14. CASE JoinDesktop(c)
    BY <2>14 DEF JoinDesktop
  <2>15. CASE AfterLastClientDisconnect(c)
    BY <2>15 DEF AfterLastClientDisconnect
  <2>16. CASE NotifyUnderflow(c)
    BY <2>16 DEF NotifyUnderflow
  <2> QED
    BY <1>1, <2>1, <2>2, <2>3, <2>4, <2>5, <2>6, <2>7, <2>8,
       <2>9, <2>10, <2>11, <2>12, <2>13, <2>14, <2>15, <2>16 DEF ClientThread
<1>2. ASSUME NEW t \in DesktopThreads, DesktopThread(t) PROVE DesktopsAreAccountedFor'
  BY <1>2 DEF DesktopThread, Wake, ThreadEnds, BeginWalk, CheckClientState,
     UseClient, EndWalk, AbnormalTerminate, DisconnectAllClients
<1>3. CASE KillerThread
  BY <1>3 DEF KillerThread, DeleteDeadZombie
<1>4. CASE ControlDisconnect \/ Shutdown \/ MainThread
  BY <1>4 DEF ControlDisconnect, Shutdown, MainThread, KillAllZombies,
     ZombiesKilled, DestroyManager, CheckLists, WakeByUnderflow,
     DisconnectAllClients
<1>5. CASE Done \/ UNCHANGED vars
  BY <1>5 DEF Done, vars
<1> QED
  BY <1>1, <1>2, <1>3, <1>4, <1>5 DEF Next

\* Modules are made for the normal phase and deleted before IN_READY_TO_REMOVE.
LEMMA ModulesStayAccountedFor ==
  IInv /\ ModulesAreAccountedFor /\ [Next]_vars => ModulesAreAccountedFor'
<1> SUFFICES ASSUME IInv, ModulesAreAccountedFor, [Next]_vars PROVE ModulesAreAccountedFor'
  OBVIOUS
<1> USE DEF IInv, TypeOK, StateMatchesLocation, Validating, ModulesAreAccountedFor,
        Goto, DGoto, MainGoto,
        clientVars, listVars, walkVars, desktopVars, killVars
<1>1. ASSUME NEW c \in Clients, Connect(c) \/ ClientThread(c) PROVE ModulesAreAccountedFor'
  <2>1. CASE Connect(c)
    BY <2>1 DEF Connect
  <2>2. CASE AuthPhase(c)
    BY <2>2 DEF AuthPhase
  <2>3. CASE Leave(c)
    BY <2>3 DEF Leave
  <2>4. CASE RejectExclusive(c)
    BY <2>4 DEF RejectExclusive
  <2>5. CASE AdmitClient(c)
    BY <2>5 DEF AdmitClient, MoveToAuthClients
  <2>6. CASE AdmitWithoutDesktop(c)
    BY <2>6 DEF AdmitWithoutDesktop, MoveToAuthClients
  <2>7. CASE EnterNormalPhase(c)
    BY <2>7 DEF EnterNormalPhase
  <2>8. CASE SetPendingToRemove(c)
    BY <2>8 DEF SetPendingToRemove
  <2>9. CASE FreeModules(c)
    BY <2>9 DEF FreeModules
  <2>10. CASE BeginScan(c)
    BY <2>10 DEF BeginScan
  <2>11. ASSUME NEW z \in Clients, ScanClient(c, z) PROVE ModulesAreAccountedFor'
    BY <2>11 DEF ScanClient
  <2>12. CASE EndScan(c)
    BY <2>12 DEF EndScan, EndScanIf
  <2>13. CASE TerminateDesktop(c)
    BY <2>13 DEF TerminateDesktop
  <2>14. CASE JoinDesktop(c)
    BY <2>14 DEF JoinDesktop
  <2>15. CASE AfterLastClientDisconnect(c)
    BY <2>15 DEF AfterLastClientDisconnect
  <2>16. CASE NotifyUnderflow(c)
    BY <2>16 DEF NotifyUnderflow
  <2> QED
    BY <1>1, <2>1, <2>2, <2>3, <2>4, <2>5, <2>6, <2>7, <2>8,
       <2>9, <2>10, <2>11, <2>12, <2>13, <2>14, <2>15, <2>16 DEF ClientThread
<1>2. ASSUME NEW t \in DesktopThreads, DesktopThread(t) PROVE ModulesAreAccountedFor'
  BY <1>2 DEF DesktopThread, Wake, ThreadEnds, BeginWalk, CheckClientState,
     UseClient, EndWalk, AbnormalTerminate, DisconnectAllClients
<1>3. CASE KillerThread
  BY <1>3 DEF KillerThread, DeleteDeadZombie
<1>4. CASE ControlDisconnect \/ Shutdown \/ MainThread
  BY <1>4 DEF ControlDisconnect, Shutdown, MainThread, KillAllZombies,
     ZombiesKilled, DestroyManager, CheckLists, WakeByUnderflow,
     DisconnectAllClients
<1>5. CASE Done \/ UNCHANGED vars
  BY <1>5 DEF Done, vars
<1> QED
  BY <1>1, <1>2, <1>3, <1>4, <1>5 DEF Next

\* Only a client on a list can be authenticated, and no new one connects.
LEMMA EmptyListsStayEmpty ==
  IInv /\ ClientsAreAccountedFor /\ ListsStayEmpty /\ [Next]_vars => ListsStayEmpty'
<1> SUFFICES ASSUME IInv, ClientsAreAccountedFor, ListsStayEmpty, [Next]_vars PROVE ListsStayEmpty'
  OBVIOUS
<1> USE DEF IInv, TypeOK, StateMatchesLocation, RemovedClientsAreUnlisted,
        ClientsAreAccountedFor, ListsStayEmpty, Goto, DGoto, MainGoto,
        clientVars, listVars, walkVars, desktopVars, killVars
<1>1. ASSUME NEW c \in Clients, Connect(c) \/ ClientThread(c) PROVE ListsStayEmpty'
  <2>1. CASE Connect(c)
    BY <2>1 DEF Connect
  <2>2. CASE AuthPhase(c)
    BY <2>2 DEF AuthPhase
  <2>3. CASE Leave(c)
    BY <2>3 DEF Leave
  <2>4. CASE RejectExclusive(c)
    BY <2>4 DEF RejectExclusive
  <2>5. CASE AdmitClient(c)
    BY <2>5 DEF AdmitClient, MoveToAuthClients
  <2>6. CASE AdmitWithoutDesktop(c)
    BY <2>6 DEF AdmitWithoutDesktop, MoveToAuthClients
  <2>7. CASE EnterNormalPhase(c)
    BY <2>7 DEF EnterNormalPhase
  <2>8. CASE SetPendingToRemove(c)
    BY <2>8 DEF SetPendingToRemove
  <2>9. CASE FreeModules(c)
    BY <2>9 DEF FreeModules
  <2>10. CASE BeginScan(c)
    BY <2>10 DEF BeginScan
  <2>11. ASSUME NEW z \in Clients, ScanClient(c, z) PROVE ListsStayEmpty'
    BY <2>11 DEF ScanClient
  <2>12. CASE EndScan(c)
    BY <2>12 DEF EndScan, EndScanIf
  <2>13. CASE TerminateDesktop(c)
    BY <2>13 DEF TerminateDesktop
  <2>14. CASE JoinDesktop(c)
    BY <2>14 DEF JoinDesktop
  <2>15. CASE AfterLastClientDisconnect(c)
    BY <2>15 DEF AfterLastClientDisconnect
  <2>16. CASE NotifyUnderflow(c)
    BY <2>16 DEF NotifyUnderflow
  <2> QED
    BY <1>1, <2>1, <2>2, <2>3, <2>4, <2>5, <2>6, <2>7, <2>8,
       <2>9, <2>10, <2>11, <2>12, <2>13, <2>14, <2>15, <2>16 DEF ClientThread
<1>2. ASSUME NEW t \in DesktopThreads, DesktopThread(t) PROVE ListsStayEmpty'
  BY <1>2 DEF DesktopThread, Wake, ThreadEnds, BeginWalk, CheckClientState,
     UseClient, EndWalk, AbnormalTerminate, DisconnectAllClients
<1>3. CASE KillerThread
  BY <1>3 DEF KillerThread, DeleteDeadZombie
<1>4. CASE ControlDisconnect \/ Shutdown \/ MainThread
  BY <1>4 DEF ControlDisconnect, Shutdown, MainThread, KillAllZombies,
     ZombiesKilled, DestroyManager, CheckLists, WakeByUnderflow,
     DisconnectAllClients
<1>5. CASE Done \/ UNCHANGED vars
  BY <1>5 DEF Done, vars
<1> QED
  BY <1>1, <1>2, <1>3, <1>4, <1>5 DEF Next

\* The server is destroyed completely: when ~RfbClientManager has returned no
\* client, no desktop and no module of a client exists.
THEOREM ShutdownIsComplete == Spec => []NothingOutlivesShutdown
<1>1. Init => ShutdownInv
  BY DEF Init, ShutdownInv, ClientsAreAccountedFor, DesktopsAreAccountedFor,
     ModulesAreAccountedFor, ListsStayEmpty
<1>2. IInv /\ ShutdownInv /\ [Next]_vars => ShutdownInv'
  BY ClientsStayAccountedFor, DesktopsStayAccountedFor, ModulesStayAccountedFor,
     EmptyListsStayEmpty DEF ShutdownInv, IInv
<1>3. IInv /\ DesktopHasClients /\ ShutdownInv => NothingOutlivesShutdown
  <2> SUFFICES ASSUME IInv, DesktopHasClients, ShutdownInv, main = "done"
               PROVE  /\ \A c \in Clients : pc[c] \in {"none", "deleted"}
                      /\ alive = {} /\ modules = {}
    BY DEF NothingOutlivesShutdown
  <2>1. /\ \A c \in Clients : pc[c] \in {"none", "deleted"}
        /\ authClients = {}
    BY DEF ShutdownInv, ListsStayEmpty
  <2>2. desktop = NoClient
    BY <2>1 DEF DesktopHasClients
  <2>3. alive = {}
    BY <2>1, <2>2, ConstantFacts DEF ShutdownInv, DesktopsAreAccountedFor, IInv, TypeOK
  <2>4. modules = {}
    BY <2>1 DEF ShutdownInv, ModulesAreAccountedFor, IInv, TypeOK, StateMatchesLocation
  <2> QED
    BY <2>1, <2>3, <2>4
<1> QED
  BY <1>1, <1>2, <1>3, Invariance, DesktopIsServed, PTL DEF Spec

=============================================================================
