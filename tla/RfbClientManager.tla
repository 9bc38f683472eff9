-------------------------- MODULE RfbClientManager --------------------------
(***************************************************************************)
(* The life of RFB connections inside the server: the thread of every      *)
(* RfbClient, the two client lists of RfbClientManager and the mutex over  *)
(* them, the Desktop object the authenticated clients share with the       *)
(* threads that live in it, the ZombieKiller that frees finished client    *)
(* threads, and the thread that destroys the server.                       *)
(*                                                                         *)
(* A section of code under m_clientListLocker is one action when nothing   *)
(* inside it can be seen or delayed by another thread, and is split into   *)
(* acquire / steps / release when it can: validateClientList (it takes the *)
(* ZombieKiller's mutex inside) and the walks of the desktop's threads     *)
(* over the clients (they call into client objects).                       *)
(*                                                                         *)
(* A desktop is named after the client whose onClientAuth created it.      *)
(***************************************************************************)
EXTENDS Naturals, FiniteSets

CONSTANTS
  Clients,            \* the connections that may ever be made
  NoClient,           \* a null pointer
  MaxWakes            \* how often a desktop thread is woken in a behaviour

ASSUME ConstantsAssumption ==
  /\ NoClient \notin Clients
  /\ MaxWakes \in Nat

\* DesktopWinImpl's own thread and the thread of its WindowsClipboard.
DesktopThreads == {"update", "clipboard"} \X Clients

VARIABLES
  pc,              \* where the thread of each RfbClient is
  clientState,     \* RfbClient::m_clientState
  open,            \* the clients whose socket is still open
  modules,         \* the clients whose UpdateSender, ClipboardExchange... exist
  held,            \* RfbClient::m_desktop
  nonAuthClients,  \* m_nonAuthClientList
  authClients,     \* m_clientList
  lock,            \* who owns m_clientListLocker
  toVisit,         \* what is left of the list the lock's owner iterates over
  using,           \* the client whose modules a desktop thread is calling
  found,           \* isReadyToSend's result so far
  desktop,         \* RfbClientManager::m_desktop
  doomed,          \* validateClientList's objectToDestroy, per client thread
  alive,           \* the Desktop objects that exist
  dpc,             \* where each thread of each desktop is
  wakes,           \* how often desktop threads have been woken
  zombies,         \* ZombieKiller::m_zombies
  zombieLock,      \* killAllZombies holds ZombieKiller::m_lockObj
  underflow,       \* m_listUnderflowingEvent is signalled
  main             \* where the thread that destroys the server is

clientVars  == <<pc, clientState, open, modules, held>>
listVars    == <<nonAuthClients, authClients>>
walkVars    == <<lock, toVisit, using, found>>
desktopVars == <<desktop, doomed, alive, dpc, wakes>>
killVars    == <<zombies, zombieLock, underflow, main>>
vars == <<clientVars, listVars, walkVars, desktopVars, killVars>>

ClientStates ==
  {"NONAUTH", "AUTH", "NORMAL_PHASE", "PENDING_TO_REMOVE", "READY_TO_REMOVE"}

ClientLocations ==
  {"none", "authPhase", "onClientAuth", "setup", "normal", "closing",
   "validate", "scan", "terminate", "join", "afterLast", "notify",
   "free", "ended", "deleted"}

DesktopLocations ==
  {"none", "wait", "askLock", "ask", "sendLock", "send", "failLock", "ended"}

MainLocations ==
  {"run", "kill", "killWait", "destroy", "check", "sleep",
   "kill2", "kill2Wait", "done"}

Nobody == <<"nobody", NoClient>>
ThreadOf(c) == <<"client", c>>
LockFree == lock = Nobody

Init ==
  /\ pc = [c \in Clients |-> "none"]
  /\ clientState = [c \in Clients |-> "NONAUTH"]
  /\ open = {} /\ modules = {}
  /\ held = [c \in Clients |-> NoClient]
  /\ nonAuthClients = {} /\ authClients = {}
  /\ lock = Nobody /\ toVisit = {} /\ using = NoClient /\ found = FALSE
  /\ desktop = NoClient
  /\ doomed = [c \in Clients |-> NoClient]
  /\ alive = {}
  /\ dpc = [t \in DesktopThreads |-> "none"]
  /\ wakes = 0
  /\ zombies = {} /\ zombieLock = FALSE /\ underflow = FALSE
  /\ main = "run"

-----------------------------------------------------------------------------
(* The thread of an RfbClient *)

Goto(c, from, to) == pc[c] = from /\ pc' = [pc EXCEPT ![c] = to]

\* addNewConnection: the constructor starts the thread, and the object is
\* listed before the mutex is released.
Connect(c) ==
  /\ main = "run" /\ LockFree
  /\ Goto(c, "none", "authPhase")
  /\ open' = open \union {c}
  /\ nonAuthClients' = nonAuthClients \union {c}
  /\ UNCHANGED <<clientState, modules, held, authClients, walkVars,
                 desktopVars, killVars>>

\* authPhase() has returned: setClientState(IN_AUTH).
AuthPhase(c) ==
  /\ Goto(c, "authPhase", "onClientAuth")
  /\ clientState' = [clientState EXCEPT ![c] = "AUTH"]
  /\ UNCHANGED <<open, modules, held, listVars, walkVars, desktopVars, killVars>>

\* The peer goes away, a phase throws, or the dispatcher meets the socket that
\* another thread has closed; then execute() calls disconnect().
Leave(c) ==
  /\ pc[c] \in {"authPhase", "setup", "normal"}
  /\ pc' = [pc EXCEPT ![c] = "closing"]
  /\ open' = open \ {c}
  /\ UNCHANGED <<clientState, modules, held, listVars, walkVars, desktopVars,
                 killVars>>

\* onClientAuth throws: the client wants the server for itself and the
\* configuration gives priority to those already connected.
RejectExclusive(c) ==
  /\ LockFree /\ authClients # {}
  /\ Goto(c, "onClientAuth", "closing")
  /\ open' = open \ {c}
  /\ UNCHANGED <<clientState, modules, held, listVars, walkVars, desktopVars,
                 killVars>>

\* onClientAuth moves the client to m_clientList, disconnecting the others
\* first if they have to make room for it.
MoveToAuthClients(c) ==
  /\ LockFree
  /\ nonAuthClients' = nonAuthClients \ {c}
  /\ authClients' = authClients \union {c}

\* The client shares the desktop there is, or the first one creates it.
AdmitClient(c) ==
  /\ Goto(c, "onClientAuth", "setup")
  /\ MoveToAuthClients(c)
  /\ open' \in {open, open \ authClients}
  /\ IF desktop # NoClient
       THEN /\ held' = [held EXCEPT ![c] = desktop]
            /\ UNCHANGED <<desktop, alive, dpc>>
       ELSE /\ held' = [held EXCEPT ![c] = c]
            /\ desktop' = c
            /\ alive' = alive \union {c}
            /\ dpc' = [t \in DesktopThreads |->
                         IF t[2] = c THEN "wait" ELSE dpc[t]]
  /\ UNCHANGED <<clientState, modules, walkVars, doomed, wakes, killVars>>

\* createDesktop throws after the client has been listed.
AdmitWithoutDesktop(c) ==
  /\ desktop = NoClient
  /\ Goto(c, "onClientAuth", "closing")
  /\ MoveToAuthClients(c)
  /\ open' \in {open \ {c}, open \ (authClients \union {c})}
  /\ UNCHANGED <<clientState, modules, held, walkVars, desktopVars, killVars>>

\* The modules are constructed, afterAuthPhase() has returned, and
\* setClientState(IN_NORMAL_PHASE) lets other threads call them.
EnterNormalPhase(c) ==
  /\ Goto(c, "setup", "normal")
  /\ modules' = modules \union {c}
  /\ clientState' = [clientState EXCEPT ![c] = "NORMAL_PHASE"]
  /\ UNCHANGED <<open, held, listVars, walkVars, desktopVars, killVars>>

\* A mistake: the modules are freed without the notification that waits for
\* the list's mutex.
SetPendingWithoutBarrier(c) ==
  /\ Goto(c, "closing", "free")
  /\ clientState' = [clientState EXCEPT ![c] = "PENDING_TO_REMOVE"]
  /\ UNCHANGED <<open, modules, held, listVars, walkVars, desktopVars, killVars>>

\* notifyAbStateChanging(IN_PENDING_TO_REMOVE) starts.
SetPendingToRemove(c) ==
  /\ Goto(c, "closing", "validate")
  /\ clientState' = [clientState EXCEPT ![c] = "PENDING_TO_REMOVE"]
  /\ UNCHANGED <<open, modules, held, listVars, walkVars, desktopVars, killVars>>

\* The modules are deleted, then notifyAbStateChanging(IN_READY_TO_REMOVE).
FreeModules(c) ==
  /\ Goto(c, "free", "validate")
  /\ modules' = modules \ {c}
  /\ clientState' = [clientState EXCEPT ![c] = "READY_TO_REMOVE"]
  /\ UNCHANGED <<open, held, listVars, walkVars, desktopVars, killVars>>

-----------------------------------------------------------------------------
(* validateClientList, run by a client thread *)

\* A mistake: only the authorized list is searched.
BeginScanOfAuthorized(c) ==
  /\ LockFree
  /\ Goto(c, "validate", "scan")
  /\ lock' = ThreadOf(c)
  /\ toVisit' = authClients
  /\ UNCHANGED <<clientState, open, modules, held, listVars, using, found,
                 desktopVars, killVars>>

BeginScan(c) ==
  /\ LockFree
  /\ Goto(c, "validate", "scan")
  /\ lock' = ThreadOf(c)
  /\ toVisit' = nonAuthClients \union authClients
  /\ UNCHANGED <<clientState, open, modules, held, listVars, using, found,
                 desktopVars, killVars>>

\* One turn of the two loops, the non-authorized list first: a client that is
\* ready leaves its list and is handed to the ZombieKiller.
ScanClient(c, z) ==
  /\ lock = ThreadOf(c) /\ z \in toVisit
  /\ z \in authClients => toVisit \intersect nonAuthClients = {}
  /\ toVisit' = toVisit \ {z}
  /\ IF clientState[z] = "READY_TO_REMOVE"
       THEN /\ ~zombieLock
            /\ nonAuthClients' = nonAuthClients \ {z}
            /\ authClients' = authClients \ {z}
            /\ zombies' = zombies \union {z}
       ELSE UNCHANGED <<listVars, zombies>>
  /\ UNCHANGED <<clientVars, lock, using, found, desktopVars, zombieLock,
                 underflow, main>>

\* The end of the scan; last: nobody is left for the desktop.
EndScanIf(c, last) ==
  /\ lock = ThreadOf(c) /\ toVisit = {}
  /\ lock' = Nobody
  /\ IF desktop # NoClient /\ last
       THEN /\ doomed' = [doomed EXCEPT ![c] = desktop]
            /\ desktop' = NoClient
            /\ Goto(c, "scan", "terminate")
       ELSE /\ Goto(c, "scan", "notify")
            /\ UNCHANGED <<doomed, desktop>>
  /\ UNCHANGED <<clientState, open, modules, held, listVars, toVisit, using,
                 found, alive, dpc, wakes, killVars>>

\* Mistakes: clients that are about to go no longer count as the desktop's, or
\* those that may still be admitted count as well.
EndScanIgnoringPending(c) ==
  EndScanIf(c, \A z \in authClients : clientState[z] = "PENDING_TO_REMOVE")
EndScanCountingNonAuth(c) ==
  EndScanIf(c, authClients = {} /\ nonAuthClients = {})

\* With no authorized client left the desktop is taken from the manager; it
\* is destroyed after the mutex has been released.
EndScan(c) == EndScanIf(c, authClients = {})

\* ~DesktopWinImpl: terminate() ...
TerminateDesktop(c) ==
  /\ Goto(c, "terminate", "join")
  /\ UNCHANGED <<clientState, open, modules, held, listVars, walkVars,
                 desktopVars, killVars>>

\* ... and wait() for the desktop's threads; then the object is gone.
JoinDesktop(c) ==
  /\ Goto(c, "join", "afterLast")
  /\ \A t \in DesktopThreads : t[2] = doomed[c] => dpc[t] = "ended"
  /\ alive' = alive \ {doomed[c]}
  /\ UNCHANGED <<clientState, open, modules, held, listVars, walkVars, desktop,
                 doomed, dpc, wakes, killVars>>

\* The listeners' afterLastClientDisconnect(): TvnServer locks the workstation
\* or logs the user out, if it is configured to.
AfterLastClientDisconnect(c) ==
  /\ Goto(c, "afterLast", "notify")
  /\ doomed' = [doomed EXCEPT ![c] = NoClient]
  /\ UNCHANGED <<clientState, open, modules, held, listVars, walkVars, desktop,
                 alive, dpc, wakes, killVars>>

\* A mistake: nobody is told that the lists have become empty.
NotifyNobody(c) ==
  /\ LockFree
  /\ Goto(c, "notify",
          IF clientState[c] = "READY_TO_REMOVE" THEN "ended" ELSE "free")
  /\ UNCHANGED <<clientState, open, modules, held, listVars, walkVars,
                 desktopVars, killVars>>

\* The end of validateClientList; the thread goes on to free its modules, or
\* ends if it came here with IN_READY_TO_REMOVE.
NotifyUnderflow(c) ==
  /\ LockFree
  /\ Goto(c, "notify",
          IF clientState[c] = "READY_TO_REMOVE" THEN "ended" ELSE "free")
  /\ underflow' = (underflow \/ (authClients = {} /\ nonAuthClients = {}))
  /\ UNCHANGED <<clientState, open, modules, held, listVars, walkVars,
                 desktopVars, zombies, zombieLock, main>>

-----------------------------------------------------------------------------
(* The threads of a desktop *)

Terminating(d) == \E c \in Clients : pc[c] = "join" /\ doomed[c] = d

DGoto(t, from, to) == dpc[t] = from /\ dpc' = [dpc EXCEPT ![t] = to]

\* The desktop's destructor reaches a thread: the update thread first, and the
\* clipboard's when the update thread has ended.
Stopping(t) ==
  /\ Terminating(t[2])
  /\ t[1] = "clipboard" => dpc[<<"update", t[2]>>] = "ended"

\* An update is detected, or the clipboard changes. The update thread asks the
\* manager whether any client is ready before it sends.
Wake(t) ==
  /\ wakes < MaxWakes /\ ~Stopping(t)
  /\ DGoto(t, "wait", IF t[1] = "update" THEN "askLock" ELSE "sendLock")
  /\ wakes' = wakes + 1
  /\ UNCHANGED <<clientVars, listVars, walkVars, desktop, doomed, alive, killVars>>

ThreadEnds(t) ==
  /\ Stopping(t)
  /\ DGoto(t, "wait", "ended")
  /\ UNCHANGED <<clientVars, listVars, walkVars, desktop, doomed, alive, wakes,
                 killVars>>

\* isReadyToSend, onSendUpdate and onClipboardUpdate enter the mutex.
BeginWalk(t) ==
  /\ LockFree
  /\ \/ DGoto(t, "askLock", "ask")
     \/ DGoto(t, "sendLock", "send")
  /\ lock' = t
  /\ toVisit' = authClients
  /\ found' = FALSE
  /\ UNCHANGED <<clientVars, listVars, using, desktop, doomed, alive, wakes,
                 killVars>>

\* A mistake: clients are called whatever their state.
CheckNoState(t, z) ==
  /\ lock = t /\ using = NoClient /\ z \in toVisit
  /\ toVisit' = toVisit \ {z}
  /\ using' = z
  /\ UNCHANGED <<clientVars, listVars, lock, found, desktopVars, killVars>>

\* getClientState() is read under the client's own mutex and no longer.
CheckClientState(t, z) ==
  /\ lock = t /\ using = NoClient /\ z \in toVisit
  /\ toVisit' = toVisit \ {z}
  /\ using' = IF clientState[z] = "NORMAL_PHASE" THEN z ELSE NoClient
  /\ UNCHANGED <<clientVars, listVars, lock, found, desktopVars, killVars>>

\* clientIsReady(), sendUpdate() or sendClipboard() on the client's modules;
\* sendUpdate() also disconnects a client that has been idle for too long.
UseClient(t) ==
  /\ lock = t /\ using # NoClient
  /\ using' = NoClient
  /\ found' \in {found, dpc[t] = "ask"}
  /\ \/ UNCHANGED open
     \/ t[1] = "update" /\ dpc[t] = "send" /\ open' = open \ {using}
  /\ UNCHANGED <<pc, clientState, modules, held, listVars, lock, toVisit,
                 desktopVars, killVars>>

\* After isReadyToSend the update is extracted: there is something to send,
\* there is nothing, or the extraction throws.
EndWalk(t) ==
  /\ lock = t /\ toVisit = {} /\ using = NoClient
  /\ lock' = Nobody
  /\ \/ DGoto(t, "send", "wait")
     \/ DGoto(t, "ask", "wait")
     \/ found /\ DGoto(t, "ask", "sendLock")
     \/ found /\ DGoto(t, "ask", "failLock")
  /\ found' = FALSE
  /\ UNCHANGED <<clientVars, listVars, toVisit, using, desktop, doomed, alive,
                 wakes, killVars>>

DisconnectAllClients == LockFree /\ open' = open \ (nonAuthClients \union authClients)

\* The extraction threw: onAbnormalDesktopTerminate; what had been extracted
\* by then is still sent.
AbnormalTerminate(t) ==
  /\ \/ DGoto(t, "failLock", "wait")
     \/ DGoto(t, "failLock", "sendLock")
  /\ DisconnectAllClients
  /\ UNCHANGED <<pc, clientState, modules, held, listVars, walkVars, desktop,
                 doomed, alive, wakes, killVars>>

-----------------------------------------------------------------------------
(* The ZombieKiller's thread and the thread that stops the server *)

MainGoto(from, to) == main = from /\ main' = to

\* deleteDeadZombies frees a thread object that is no longer active.
DeleteDeadZombie(c) ==
  /\ ~zombieLock /\ c \in zombies
  /\ Goto(c, "ended", "deleted")
  /\ zombies' = zombies \ {c}
  /\ UNCHANGED <<clientState, open, modules, held, listVars, walkVars,
                 desktopVars, zombieLock, underflow, main>>

\* A control client asks to disconnect everybody.
ControlDisconnect ==
  /\ main = "run"
  /\ DisconnectAllClients
  /\ UNCHANGED <<pc, clientState, modules, held, listVars, walkVars,
                 desktopVars, killVars>>

\* ~TvnServer stops the listening servers, so no connection is made from here
\* on, calls killAllZombies and then deletes the RfbClientManager.
Shutdown ==
  /\ MainGoto("run", "kill")
  /\ UNCHANGED <<clientVars, listVars, walkVars, desktopVars, zombies,
                 zombieLock, underflow>>

\* killAllZombies holds its mutex while it waits for the threads it ends.
KillAllZombies ==
  /\ ~zombieLock /\ zombieLock' = TRUE
  /\ \/ MainGoto("kill", "killWait")
     \/ MainGoto("kill2", "kill2Wait")
  /\ open' = open \ zombies
  /\ UNCHANGED <<pc, clientState, modules, held, listVars, walkVars,
                 desktopVars, zombies, underflow>>

ZombiesKilled ==
  /\ \A z \in zombies : pc[z] = "ended"
  /\ \/ MainGoto("killWait", "destroy")
     \/ MainGoto("kill2Wait", "done")
  /\ pc' = [c \in Clients |-> IF c \in zombies THEN "deleted" ELSE pc[c]]
  /\ zombies' = {} /\ zombieLock' = FALSE
  /\ UNCHANGED <<clientState, open, modules, held, listVars, walkVars,
                 desktopVars, underflow>>

\* ~RfbClientManager
DestroyManager ==
  /\ MainGoto("destroy", "check")
  /\ DisconnectAllClients
  /\ UNCHANGED <<pc, clientState, modules, held, listVars, walkVars,
                 desktopVars, zombies, zombieLock, underflow>>

\* A mistake: the server waits for its authorized clients only.
CheckAuthListOnly ==
  /\ LockFree
  /\ MainGoto("check", IF authClients = {} THEN "kill2" ELSE "sleep")
  /\ UNCHANGED <<clientVars, listVars, walkVars, desktopVars, zombies,
                 zombieLock, underflow>>

CheckLists ==
  /\ LockFree
  /\ MainGoto("check", IF authClients = {} /\ nonAuthClients = {}
                         THEN "kill2" ELSE "sleep")
  /\ UNCHANGED <<clientVars, listVars, walkVars, desktopVars, zombies,
                 zombieLock, underflow>>

WakeByUnderflow ==
  /\ underflow /\ MainGoto("sleep", "check")
  /\ underflow' = FALSE
  /\ UNCHANGED <<clientVars, listVars, walkVars, desktopVars, zombies, zombieLock>>

\* The server is gone.
Done == main = "done" /\ UNCHANGED vars

-----------------------------------------------------------------------------
ClientThread(c) ==
  \/ AuthPhase(c) \/ Leave(c) \/ RejectExclusive(c)
  \/ AdmitClient(c) \/ AdmitWithoutDesktop(c) \/ EnterNormalPhase(c)
  \/ SetPendingToRemove(c) \/ FreeModules(c)
  \/ BeginScan(c) \/ (\E z \in Clients : ScanClient(c, z)) \/ EndScan(c)
  \/ TerminateDesktop(c) \/ JoinDesktop(c) \/ AfterLastClientDisconnect(c)
  \/ NotifyUnderflow(c)

DesktopThread(t) ==
  \/ Wake(t) \/ ThreadEnds(t) \/ BeginWalk(t)
  \/ (\E z \in Clients : CheckClientState(t, z))
  \/ UseClient(t) \/ EndWalk(t) \/ AbnormalTerminate(t)

KillerThread == \E c \in Clients : DeleteDeadZombie(c)

MainThread ==
  \/ KillAllZombies \/ ZombiesKilled \/ DestroyManager
  \/ CheckLists \/ WakeByUnderflow

Next ==
  \/ \E c \in Clients : Connect(c) \/ ClientThread(c)
  \/ \E t \in DesktopThreads : DesktopThread(t)
  \/ KillerThread
  \/ ControlDisconnect \/ Shutdown \/ MainThread \/ Done

Spec == Init /\ [][Next]_vars

-----------------------------------------------------------------------------
(* Fairness: every thread is scheduled, and a mutex that stays free is     *)
(* entered.  A client whose socket is open may stay in a phase for ever; a *)
(* client whose socket is closed meets the error.                          *)

LeaveClosed(c) == c \notin open /\ Leave(c)

ClientProgress(c) ==
  \/ LeaveClosed(c)
  \/ RejectExclusive(c) \/ AdmitClient(c) \/ AdmitWithoutDesktop(c)
  \/ SetPendingToRemove(c) \/ FreeModules(c)
  \/ BeginScan(c) \/ (\E z \in Clients : ScanClient(c, z)) \/ EndScan(c)
  \/ TerminateDesktop(c) \/ JoinDesktop(c) \/ AfterLastClientDisconnect(c)
  \/ NotifyUnderflow(c)

Fairness ==
  /\ \A c \in Clients : WF_vars(ClientProgress(c))
  /\ \A t \in DesktopThreads : WF_vars(DesktopThread(t))
  /\ WF_vars(KillerThread)
  /\ WF_vars(MainThread)

FairSpec == Spec /\ Fairness

-----------------------------------------------------------------------------
(* Correctness *)

\* Every variable stays in its domain.
TypeOK ==
  /\ pc \in [Clients -> ClientLocations]
  /\ clientState \in [Clients -> ClientStates]
  /\ open \subseteq Clients /\ modules \subseteq Clients
  /\ held \in [Clients -> Clients \union {NoClient}]
  /\ nonAuthClients \subseteq Clients /\ authClients \subseteq Clients
  /\ lock \in {Nobody} \union ({"client"} \X Clients) \union DesktopThreads
  /\ toVisit \subseteq Clients
  /\ using \in Clients \union {NoClient}
  /\ found \in BOOLEAN
  /\ desktop \in Clients \union {NoClient}
  /\ doomed \in [Clients -> Clients \union {NoClient}]
  /\ alive \subseteq Clients
  /\ dpc \in [DesktopThreads -> DesktopLocations]
  /\ wakes \in 0..MaxWakes
  /\ zombies \subseteq Clients
  /\ zombieLock \in BOOLEAN /\ underflow \in BOOLEAN
  /\ main \in MainLocations

\* "After this call, we are guaranteed not to be used by other threads"
\* (RfbClient.cpp:282): a desktop thread that has read IN_NORMAL_PHASE and is
\* calling into the client finds its modules, although they are deleted
\* without the list's mutex.
UsedModulesExist == using # NoClient => using \in modules

\* A client works with a desktop that exists and that nobody is deleting, for
\* as long as it may call it, although the manager's pointer is only cleared
\* by other threads' validateClientList.
HeldDesktopExists ==
  \A c \in Clients :
    (held[c] # NoClient /\ clientState[c] # "READY_TO_REMOVE") =>
      /\ held[c] = desktop
      /\ desktop \in alive
      /\ \A k \in Clients : doomed[k] # desktop

\* The lists never lead to a thread that has ended or been freed, and whoever
\* is being freed has left both of them.
ListedClientsExist ==
  \A c \in nonAuthClients \union authClients :
    pc[c] \notin {"none", "ended", "deleted"} /\ c \notin zombies

\* No desktop is left running without a client to show it to, except while the
\* last one's validateClientList is still on its way.
DesktopHasClients ==
  (desktop # NoClient /\ authClients = {}) =>
    \E c \in Clients : lock = ThreadOf(c) /\ pc[c] = "scan"

\* Once a connection is lost its thread ends and its object is freed: no
\* interleaving of validateClientList calls forgets it. That the server's first
\* killAllZombies may hang, with everybody who needs its mutex, is set aside
\* here and stated below.
LostClientIsFreed ==
  <>[](main = "killWait")
    \/ \A c \in Clients : (pc[c] = "closing") ~> (pc[c] = "deleted")

\* ~RfbClientManager returns: "Stops and destroys TightVNC server"
\* (TvnServer.h:91).
ShutdownCompletes == (main = "destroy") ~> (main = "done")

\* "Forces terminates all threads, waits until they dies and than delete them
\* from memory and thread list" (ZombieKiller.h:62): killAllZombies returns.
KillAllZombiesReturns == (main = "killWait") ~> (main # "killWait")

\* When the server has been destroyed nothing of it runs on.
NothingOutlivesShutdown ==
  main = "done" =>
    /\ \A c \in Clients : pc[c] \in {"none", "deleted"}
    /\ alive = {} /\ modules = {}

-----------------------------------------------------------------------------
(* The inductive invariant behind UsedModulesExist, HeldDesktopExists and  *)
(* ListedClientsExist                                                      *)

Validating == {"scan", "terminate", "join", "afterLast", "notify"}

\* What m_clientState says of the place the thread has reached.
StateMatchesLocation ==
  \A c \in Clients :
    /\ pc[c] \in {"none", "authPhase"} => clientState[c] = "NONAUTH"
    /\ pc[c] \in {"onClientAuth", "setup"} => clientState[c] = "AUTH"
    /\ pc[c] = "normal" => clientState[c] = "NORMAL_PHASE"
    /\ pc[c] = "closing" => clientState[c] \in {"NONAUTH", "AUTH", "NORMAL_PHASE"}
    /\ pc[c] \in Validating \union {"validate"} =>
         clientState[c] \in {"PENDING_TO_REMOVE", "READY_TO_REMOVE"}
    /\ pc[c] = "free" => clientState[c] = "PENDING_TO_REMOVE"
    /\ pc[c] \in {"ended", "deleted"} => clientState[c] = "READY_TO_REMOVE"

\* The mutex is owned by exactly the thread that is inside its section.
LockMatchesLocation ==
  /\ \A c \in Clients : lock = ThreadOf(c) <=> pc[c] = "scan"
  /\ \A t \in DesktopThreads : lock = t <=> dpc[t] \in {"ask", "send"}

\* The barrier: a client in use cannot get past the mutex of its
\* IN_PENDING_TO_REMOVE notification, so it cannot start to free its modules.
UsedClientIsHeldBack ==
  /\ \A c \in Clients : clientState[c] = "NORMAL_PHASE" => c \in modules
  /\ using # NoClient =>
       /\ lock \in DesktopThreads
       /\ using \in modules
       /\ pc[using] \in {"normal", "closing", "validate"}

\* A removed client is on no list, and one that is removing itself has not yet
\* been visited if it is still there.
RemovedClientsAreUnlisted ==
  \A c \in Clients :
    /\ pc[c] = "none" => c \notin nonAuthClients \union authClients
    /\ c \in zombies => /\ clientState[c] = "READY_TO_REMOVE"
                        /\ c \notin nonAuthClients \union authClients
    /\ clientState[c] = "READY_TO_REMOVE" =>
         /\ pc[c] \in Validating \union {"validate", "ended", "deleted"}
         /\ (pc[c] = "scan" /\ c \in nonAuthClients \union authClients) => c \in toVisit
         /\ pc[c] \notin {"scan", "validate"} => c \notin nonAuthClients \union authClients

\* The manager's desktop exists until a scan that finds no authorized client
\* dooms it, and a desktop is never named after a client yet to be admitted.
DesktopLife ==
  /\ desktop # NoClient => desktop \in alive
  /\ \A c \in Clients :
       /\ doomed[c] # NoClient => doomed[c] # desktop
       /\ pc[c] \in {"none", "authPhase", "onClientAuth"} =>
            /\ held[c] = NoClient
            /\ desktop # c
            /\ \A k \in Clients : doomed[k] # c
       /\ (held[c] # NoClient /\ clientState[c] # "READY_TO_REMOVE") =>
            c \in authClients /\ held[c] = desktop

IInv ==
  /\ TypeOK
  /\ StateMatchesLocation
  /\ LockMatchesLocation
  /\ UsedClientIsHeldBack
  /\ RemovedClientsAreUnlisted
  /\ DesktopLife

=============================================================================
