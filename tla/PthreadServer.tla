--------------------------- MODULE PthreadServer ---------------------------
(***************************************************************************)
(* linux_kernel/lab53/lab53_server_pthread.c with lab_server.h: a server   *)
(* that gives every connection a slot of the tables isopen and cd and a    *)
(* detached thread of its own.                                             *)
(*                                                                         *)
(* The main thread accepts; the connection threads answer and, when their  *)
(* client leaves, give the slot back.  nopen is changed under nopen_lock,  *)
(* isopen and cd are not protected.  The descriptor table of the process   *)
(* is in the model because descriptors are numbers that the kernel reuses, *)
(* the lowest free one first.                                              *)
(*                                                                         *)
(* Each client connects once.  The calls that end the server (DEATH) are   *)
(* left out: no resource is exhausted.                                     *)
(***************************************************************************)
EXTENDS Integers, FiniteSets, FiniteSetsExt

CONSTANTS Clients,   \* clients that connect
          ncons,     \* maximum number of connections
          NoClient   \* behind an unused descriptor

ASSUME NconsAssumption == ncons \in Nat \ {0}
ASSUME ClientsAssumption == IsFiniteSet(Clients) /\ NoClient \notin Clients

Slots == 1..ncons                     \* the table indices 0..ncons-1
Fds == 1..Cardinality(Clients)        \* descriptors above the listening one

VARIABLES
  nopen,    \* connections counted
  isopen,   \* slots in use
  cd,       \* descriptor of each slot
  fdtable,  \* the client behind each open descriptor
  lock,     \* nopen_lock is held
  mpc,      \* where the main thread is
  ci,       \* its slot
  newcomer, \* the client it accepted last
  client,   \* each client: "new", "queued", "connected" or "left"
  asked,    \* clients with a request the server has not received
  tpc,      \* where each client's thread is
  tci,      \* the slot each client's thread was given
  peer      \* the client whose socket a thread waits on in recv()

tableVars == <<nopen, isopen, cd, fdtable>>
mainVars == <<mpc, ci, newcomer>>
clientVars == <<client, asked>>
threadVars == <<tpc, tci, peer>>
vars == <<tableVars, lock, mainVars, clientVars, threadVars>>

Init ==
  /\ nopen = 0 /\ isopen = {} /\ lock = FALSE
  /\ cd = [s \in Slots |-> 0]
  /\ fdtable = [f \in Fds |-> NoClient]
  /\ mpc = "gate" /\ ci = 1 /\ newcomer = NoClient
  /\ client = [c \in Clients |-> "new"] /\ asked = {}
  /\ tpc = [c \in Clients |-> "none"]
  /\ tci = [c \in Clients |-> 1]
  /\ peer = [c \in Clients |-> NoClient]

MainGoto(label) == mpc' = label
ThreadGoto(c, label) == tpc' = [tpc EXCEPT ![c] = label]

(* What recv() and send() find behind a descriptor; 0 was never one.       *)
Behind(f) == IF f \in Fds THEN fdtable[f] ELSE NoClient

FreeFds == {f \in Fds : fdtable[f] = NoClient}

-----------------------------------------------------------------------------
(***************************************************************************)
(* The main thread.  It spins while nopen = ncons, scans for the first     *)
(* free slot one read of isopen at a time, and accepts into that slot.     *)
(***************************************************************************)
MainGate ==
  /\ mpc = "gate" /\ nopen # ncons
  /\ MainGoto("scan") /\ ci' = 1
  /\ UNCHANGED <<tableVars, lock, newcomer, clientVars, threadVars>>

MainScan ==
  /\ mpc = "scan"
  /\ IF ci \in isopen
       THEN ci' = ci + 1 /\ UNCHANGED mpc
       ELSE MainGoto("accept") /\ UNCHANGED ci
  /\ UNCHANGED <<tableVars, lock, newcomer, clientVars, threadVars>>

MainAccept ==
  /\ mpc = "accept"
  /\ \E c \in Clients :
       /\ client[c] = "queued"
       /\ client' = [client EXCEPT ![c] = "connected"]
       /\ cd' = [cd EXCEPT ![ci] = Min(FreeFds)]
       /\ fdtable' = [fdtable EXCEPT ![Min(FreeFds)] = c]
       /\ newcomer' = c
  /\ MainGoto("mark")
  /\ UNCHANGED <<nopen, isopen, lock, ci, asked, threadVars>>

(* Mutant: the slot is not marked.                                         *)
MainMarkNothing ==
  /\ mpc = "mark"
  /\ MainGoto("count")
  /\ UNCHANGED <<tableVars, lock, ci, newcomer, clientVars, threadVars>>

MainMark ==
  /\ mpc = "mark"
  /\ isopen' = isopen \cup {ci}
  /\ MainGoto("count")
  /\ UNCHANGED <<nopen, cd, fdtable, lock, ci, newcomer, clientVars, threadVars>>

MainCount ==
  /\ mpc = "count" /\ ~lock
  /\ nopen' = nopen + 1
  /\ MainGoto("spawn")
  /\ UNCHANGED <<isopen, cd, fdtable, lock, ci, newcomer, clientVars, threadVars>>

MainSpawn ==
  /\ mpc = "spawn"
  /\ ThreadGoto(newcomer, "call")
  /\ tci' = [tci EXCEPT ![newcomer] = ci]
  /\ MainGoto("gate")
  /\ UNCHANGED <<tableVars, lock, ci, newcomer, clientVars, peer>>

-----------------------------------------------------------------------------
(***************************************************************************)
(* handle_clientp, the thread started for client c: handle_client until    *)
(* recv() fails or the peer has left, then terminate_client.  A recv()     *)
(* that is under way keeps its socket even if the descriptor is closed.    *)
(***************************************************************************)
ThreadCall(c) ==
  /\ tpc[c] = "call"
  /\ LET p == Behind(cd[tci[c]]) IN
       /\ peer' = [peer EXCEPT ![c] = p]
       /\ ThreadGoto(c, IF p = NoClient THEN "terminate" ELSE "recv")
  /\ UNCHANGED <<tableVars, lock, mainVars, clientVars, tci>>

ThreadRecv(c) ==
  /\ tpc[c] = "recv"
  /\ \/ /\ peer[c] \in asked
        /\ asked' = asked \ {peer[c]}
        /\ ThreadGoto(c, "call")
     \/ /\ peer[c] \notin asked /\ client[peer[c]] = "left"
        /\ ThreadGoto(c, "terminate")
        /\ UNCHANGED asked
  /\ peer' = [peer EXCEPT ![c] = NoClient]
  /\ UNCHANGED <<tableVars, lock, mainVars, client, tci>>

(* Mutant: the slot is never given back.                                   *)
TerminateKeepsSlot(c) ==
  /\ tpc[c] = "terminate"
  /\ ThreadGoto(c, "uncount")
  /\ UNCHANGED <<tableVars, lock, mainVars, clientVars, tci, peer>>

(* terminate_client: the slot is given back first, then the lock is taken. *)
TerminateMark(c) ==
  /\ tpc[c] = "terminate"
  /\ isopen' = isopen \ {tci[c]}
  /\ ThreadGoto(c, "uncount")
  /\ UNCHANGED <<nopen, cd, fdtable, lock, mainVars, clientVars, tci, peer>>

TerminateCount(c) ==
  /\ tpc[c] = "uncount" /\ ~lock
  /\ lock' = TRUE
  /\ nopen' = nopen - 1
  /\ ThreadGoto(c, "close")
  /\ UNCHANGED <<isopen, cd, fdtable, mainVars, clientVars, tci, peer>>

(* Mutant: the lock is not released.                                       *)
TerminateKeepsLock(c) ==
  /\ tpc[c] = "close"
  /\ fdtable' = [f \in Fds |-> IF f = cd[tci[c]] THEN NoClient ELSE fdtable[f]]
  /\ ThreadGoto(c, "done")
  /\ UNCHANGED <<nopen, isopen, cd, lock, mainVars, clientVars, tci, peer>>

TerminateClose(c) ==
  /\ tpc[c] = "close"
  /\ fdtable' = [f \in Fds |-> IF f = cd[tci[c]] THEN NoClient ELSE fdtable[f]]
  /\ lock' = FALSE
  /\ ThreadGoto(c, "done")
  /\ UNCHANGED <<nopen, isopen, cd, mainVars, clientVars, tci, peer>>

-----------------------------------------------------------------------------
(* The clients: connect, ask, leave.  A request can only reach the server  *)
(* while the client's socket is open there.                                *)
ClientConnect(c) ==
  /\ client[c] = "new"
  /\ client' = [client EXCEPT ![c] = "queued"]
  /\ UNCHANGED <<tableVars, lock, mainVars, asked, threadVars>>

ClientAsk(c) ==
  /\ client[c] = "connected" /\ c \notin asked
  /\ (\E f \in Fds : fdtable[f] = c) \/ (\E t \in Clients : peer[t] = c)
  /\ asked' = asked \cup {c}
  /\ UNCHANGED <<tableVars, lock, mainVars, client, threadVars>>

ClientLeave(c) ==
  /\ client[c] = "connected"
  /\ client' = [client EXCEPT ![c] = "left"]
  /\ UNCHANGED <<tableVars, lock, mainVars, asked, threadVars>>

-----------------------------------------------------------------------------
MainStep ==
  \/ MainGate \/ MainScan \/ MainAccept \/ MainMark \/ MainCount \/ MainSpawn

ThreadStep(c) ==
  \/ ThreadCall(c) \/ ThreadRecv(c)
  \/ TerminateMark(c) \/ TerminateCount(c) \/ TerminateClose(c)

ClientStep(c) == ClientConnect(c) \/ ClientAsk(c) \/ ClientLeave(c)

Next == MainStep \/ \E c \in Clients : ThreadStep(c) \/ ClientStep(c)

Spec == Init /\ [][Next]_vars

(* Every thread that can run does.  Nothing is asked of the clients.       *)
Fairness ==
  /\ WF_vars(MainStep)
  /\ \A c \in Clients : WF_vars(ThreadStep(c))

FairSpec == Spec /\ Fairness

-----------------------------------------------------------------------------
(* The scan of accept_one always ends on a free slot of the table: it has  *)
(* no check of its own and writes cd[ci] (lab_server.h:124-128), and relies *)
(* on nopen, read earlier and changed in another order and under a lock,   *)
(* never counting fewer connections than there are slots in use.           *)
SlotInTable == mpc \in {"accept", "mark"} => ci \in Slots \ isopen

(* Two connections that are being served never share a slot, although a    *)
(* slot is given back before its thread has finished with it.              *)
SlotsNotShared ==
  \A c, d \in Clients :
    c # d /\ {tpc[c], tpc[d]} \subseteq {"call", "recv", "terminate"}
      => tci[c] # tci[d]

(* While the server keeps having room, a queued client gets in: no thread  *)
(* is ever stuck at nopen_lock and none keeps its slot.                    *)
QueuedAccepted ==
  []<>(nopen < ncons) =>
    \A c \in Clients : (client[c] = "queued") ~> (client[c] # "queued")

(* A thread closes its own client's descriptor and no other's (comment     *)
(* lab_server.h:57-59: be careful about the globals several threads use).  *)
ClosesOwnClient ==
  [][\A c \in Clients :
       tpc[c] = "close" /\ tpc'[c] = "done" => Behind(cd[tci[c]]) \in {c, NoClient}]_vars
=============================================================================
