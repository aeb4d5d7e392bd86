----------------------------- MODULE ForkServer ------------------------------
(***************************************************************************)
(* linux_kernel/lab53/lab53_server_fork.c: one child process per           *)
(* connection.  main() counts and marks slots; cleanupkids() gives the     *)
(* slots of children that ended back, as the handler of SIGCHLD and called *)
(* by main() when the table is full.  The handler may come between any two *)
(* steps of main(), its own call of cleanupkids() included, and main()     *)
(* waits for it; children end and clients act between any two slots it     *)
(* looks at, and a SIGCHLD they cause then stays pending until it returns. *)
(*                                                                         *)
(* The build decides whether nopen++ is one instruction, and malloc() what *)
(* pid[] holds before its first use: Init picks both.  (Junk of -1 acts as *)
(* the zero.)  The number of a process that is gone is never used again,   *)
(* so that in pid[] it is as good as junk, and is taken for it here.  The  *)
(* parent only closes the descriptor of a slot whose child it has forked:  *)
(* cd is that of main()'s slot until then.  Exits through DEATH are left   *)
(* out.                                                                    *)
(***************************************************************************)
EXTENDS Integers, Sequences, FiniteSets, FiniteSetsExt

CONSTANTS Clients,   \* connections made
          ncons,     \* maximum number of connections
          Pids,      \* processes there may be at once
          NoClient,  \* behind a closed descriptor
          Builds     \* pairs of oneStep and zeroed that are looked at

ASSUME NconsAssumption == ncons \in Nat \ {0}
ASSUME PidsAssumption == IsFiniteSet(Pids) /\ Pids # {} /\ Pids \subseteq Nat \ {0}
ASSUME ClientsAssumption == NoClient \notin Clients
ASSUME BuildsAssumption == Builds \subseteq BOOLEAN \X BOOLEAN

VARIABLES
  oneStep,  \* TRUE if nopen++ and nopen-- are one instruction each
  zeroed,   \* TRUE if malloc() returned zeroed memory for pid[]
  nopen,    \* connections counted
  isopen,   \* slots taken
  cd,       \* connection of main()'s slot that has no child yet
  pid,      \* child of each slot; 0 or junk before the first, junk after it
  pc,       \* where main() is
  ci,       \* main()'s slot, and cleanupkids' when main() calls it
  reg,      \* nopen as loaded, or what fork() returned
  proc,     \* "none", "runs" or "zombie" for each pid
  serves,   \* the client a child has a descriptor of
  sigchld,  \* SIGCHLD is pending
  hci,      \* cleanupkids' slot in the handler; ncons when that is not running
  robbed,   \* history: a child was taken for the child of another slot
  queue, present, asked   \* as in EventServer

buildVars  == <<oneStep, zeroed>>
tableVars  == <<nopen, isopen, cd, pid>>
mainVars   == <<pc, ci, reg>>
childVars  == <<proc, serves, sigchld>>
handlerVars == <<hci, robbed>>
clientVars == <<queue, present, asked>>
vars == <<buildVars, tableVars, mainVars, childVars, handlerVars, clientVars>>

Slots == 0..ncons   \* ncons is past the end of the tables
NoProcess == Max(Pids) + 1   \* junk in pid[] that names no process

Init ==
  /\ \E b \in Builds : oneStep = b[1] /\ zeroed = b[2]
  /\ nopen = 0 /\ isopen = {}
  /\ cd = NoClient
  /\ pid = [s \in Slots |-> IF zeroed THEN 0 ELSE NoProcess]
  /\ pc = "gate" /\ ci = 0 /\ reg = 0
  /\ proc = [p \in Pids |-> "none"]
  /\ serves = [p \in Pids |-> NoClient]
  /\ sigchld = FALSE /\ hci = ncons /\ robbed = FALSE
  /\ queue = <<>> /\ present = {} /\ asked = {}

Zombies == {p \in Pids : proc[p] = "zombie"}
Running == {p \in Pids : proc[p] = "runs"}
Queued  == {queue[i] : i \in DOMAIN queue}

(* Whom waitpid(pid[s]) with WNOHANG may return: pid 0 means any child.    *)
Waitable(s) == IF pid[s] = 0 THEN Zombies ELSE Zombies \cap {pid[s]}

(* isopen[ci] is set and pid[ci] is not yet the new child.                 *)
InWindow == pc \in {"count", "store", "fork", "publish"}

(* main()'s connection of which there is no child yet.                     *)
Unforked == IF pc \in {"count", "store", "fork"} THEN {cd} \ {NoClient} ELSE {}

-----------------------------------------------------------------------------
(* The mistake of letting one connection too many in.                      *)
GateLate ==
  /\ pc = "gate"
  /\ pc' = IF nopen > ncons THEN "reap" ELSE "scan"
  /\ UNCHANGED <<buildVars, tableVars, ci, reg, childVars, handlerVars, clientVars>>

(* The mistake of leaving the full table to the signal handler.            *)
GateWaits ==
  /\ pc = "gate"
  /\ pc' = IF nopen = ncons THEN "gate" ELSE "scan"
  /\ UNCHANGED <<buildVars, tableVars, ci, reg, childVars, handlerVars, clientVars>>

(* main(): the gate, the scan of accept_one and the new connection.        *)
Gate ==
  /\ pc = "gate"
  /\ pc' = IF nopen = ncons THEN "reap" ELSE "scan"
  /\ UNCHANGED <<buildVars, tableVars, ci, reg, childVars, handlerVars, clientVars>>

Scan ==
  /\ pc = "scan"
  /\ IF ci < ncons /\ ci \in isopen
       THEN ci' = ci + 1 /\ UNCHANGED pc
       ELSE pc' = "accept" /\ UNCHANGED ci
  /\ UNCHANGED <<buildVars, tableVars, reg, childVars, handlerVars, clientVars>>

Accept ==
  /\ pc = "accept" /\ queue # <<>>
  /\ cd' = Head(queue)
  /\ isopen' = isopen \cup {ci}
  /\ queue' = Tail(queue)
  /\ pc' = "count"
  /\ UNCHANGED <<buildVars, nopen, pid, ci, reg, childVars, handlerVars, present, asked>>

Count ==
  /\ pc = "count"
  /\ IF oneStep THEN nopen' = nopen + 1 /\ pc' = "fork" /\ UNCHANGED reg
                ELSE reg' = nopen /\ pc' = "store" /\ UNCHANGED nopen
  /\ UNCHANGED <<buildVars, isopen, cd, pid, ci, childVars, handlerVars, clientVars>>

Store ==
  /\ pc = "store"
  /\ nopen' = reg + 1 /\ pc' = "fork" /\ reg' = 0
  /\ UNCHANGED <<buildVars, isopen, cd, pid, ci, childVars, handlerVars, clientVars>>

(* The child inherits the descriptor if it is still open.                  *)
Fork ==
  /\ pc = "fork"
  /\ LET free == {p \in Pids : proc[p] = "none"}
         p == Min(free)
     IN /\ free # {}
        /\ proc' = [proc EXCEPT ![p] = "runs"]
        /\ serves' = [serves EXCEPT ![p] = cd]
        /\ reg' = p
  /\ pc' = "publish" /\ cd' = NoClient
  /\ UNCHANGED <<buildVars, nopen, isopen, pid, ci, sigchld, handlerVars, clientVars>>

Publish ==
  /\ pc = "publish"
  /\ pid' = [pid EXCEPT ![ci] = IF proc[reg] = "none" THEN NoProcess ELSE reg]
  /\ pc' = "gate" /\ ci' = 0 /\ reg' = 0
  /\ UNCHANGED <<buildVars, nopen, isopen, cd, childVars, handlerVars, clientVars>>

-----------------------------------------------------------------------------
(* cleanupkids(): waitpid(pid[s]) has returned z, and slot s is given back *)
(* with its descriptor.  The count is left to the callers.                 *)
TakeBack(s, z) ==
  /\ proc' = [proc EXCEPT ![z] = "none"]
  /\ isopen' = isopen \ {s}
  /\ cd' = IF s = ci THEN NoClient ELSE cd
  /\ pid' = [t \in Slots |-> IF pid[t] = z THEN NoProcess ELSE pid[t]]
  /\ robbed' = (robbed \/ \E t \in isopen \ {s} : pid[t] = z)

(* main() in cleanupkids(), where no slot is without its pid.  waitpid and *)
(* isopen[ci] = 0 are one step: the handler in between would be told there *)
(* is no such child.                                                       *)
Reap ==
  /\ pc = "reap"
  /\ IF ci = ncons
       THEN pc' = "gate" /\ ci' = 0 /\ UNCHANGED <<tableVars, reg, proc, robbed>>
     ELSE IF ci \notin isopen \/ Waitable(ci) = {}
       THEN ci' = ci + 1 /\ UNCHANGED <<tableVars, pc, reg, proc, robbed>>
     ELSE /\ \E z \in Waitable(ci) : TakeBack(ci, z)
          /\ IF oneStep THEN nopen' = nopen - 1 /\ ci' = ci + 1 /\ UNCHANGED <<pc, reg>>
                        ELSE reg' = nopen /\ pc' = "uncount" /\ UNCHANGED <<nopen, ci>>
  /\ UNCHANGED <<buildVars, serves, sigchld, hci, clientVars>>

Uncount ==
  /\ pc = "uncount"
  /\ nopen' = reg - 1 /\ ci' = ci + 1 /\ pc' = "reap" /\ reg' = 0
  /\ UNCHANGED <<buildVars, isopen, cd, pid, childVars, handlerVars, clientVars>>

(* cleanupkids() as a handler: SIGCHLD is taken, then the slots one by one *)
(* (main(), which is interrupted, does not see nopen-- in two halves).     *)
HandlerStart ==
  /\ sigchld /\ hci = ncons
  /\ sigchld' = FALSE /\ hci' = 0
  /\ UNCHANGED <<buildVars, tableVars, mainVars, proc, serves, robbed, clientVars>>

(* A connection that main() has not forked a child for yet is gone with    *)
(* its last descriptor, whatever the client has sent with it.              *)
HandlerTakesBack(s, z) ==
  /\ TakeBack(s, z)
  /\ nopen' = nopen - 1
  /\ LET gone == {c \in Unforked : s = ci}
     IN present' = present \ gone /\ asked' = asked \ gone

(* The mistake of taking a child that still runs for one that has ended.   *)
HandlerTakesRunning ==
  /\ hci < ncons /\ hci' = hci + 1
  /\ IF hci \in isopen /\ pid[hci] \in Pids
       THEN HandlerTakesBack(hci, pid[hci])
       ELSE UNCHANGED <<tableVars, proc, robbed, present, asked>>
  /\ UNCHANGED <<buildVars, mainVars, serves, sigchld, queue>>

HandlerSlot ==
  /\ hci < ncons /\ hci' = hci + 1
  /\ IF hci \in isopen /\ Waitable(hci) # {}
       THEN \E z \in Waitable(hci) : HandlerTakesBack(hci, z)
       ELSE UNCHANGED <<tableVars, proc, robbed, present, asked>>
  /\ UNCHANGED <<buildVars, mainVars, serves, sigchld, queue>>

-----------------------------------------------------------------------------
(* The mistake of while (handle_client(cd[ci])): one answer and goodbye.   *)
ChildAnswersOnce(p) ==
  /\ proc[p] = "runs" /\ serves[p] \in asked
  /\ asked' = asked \ {serves[p]}
  /\ proc' = [proc EXCEPT ![p] = "zombie"]
  /\ serves' = [serves EXCEPT ![p] = NoClient]
  /\ sigchld' = TRUE
  /\ UNCHANGED <<buildVars, tableVars, mainVars, handlerVars, queue, present>>

(* A child: while (!handle_client(cd[ci])), then terminate_client.  One    *)
(* that was forked with a closed descriptor ends at its first read.        *)
Child(p) ==
  /\ proc[p] = "runs"
  /\ IF serves[p] \in asked
       THEN asked' = asked \ {serves[p]} /\ UNCHANGED childVars
       ELSE /\ serves[p] \notin present
            /\ proc' = [proc EXCEPT ![p] = "zombie"]
            /\ serves' = [serves EXCEPT ![p] = NoClient]
            /\ sigchld' = TRUE
            /\ UNCHANGED asked
  /\ UNCHANGED <<buildVars, tableVars, mainVars, handlerVars, queue, present>>

(* The clients, in any order of connect, send and close.                   *)
Connect(c) ==
  /\ c \notin present \cup Queued \cup Unforked \cup {serves[p] : p \in Running}
  /\ present' = present \cup {c} /\ queue' = Append(queue, c)
  /\ UNCHANGED <<buildVars, tableVars, mainVars, childVars, handlerVars, asked>>

Send(c) ==
  /\ c \in present \ asked
  /\ asked' = asked \cup {c}
  /\ UNCHANGED <<buildVars, tableVars, mainVars, childVars, handlerVars, queue, present>>

Close(c) ==
  /\ c \in present
  /\ present' = present \ {c}
  /\ UNCHANGED <<buildVars, tableVars, mainVars, childVars, handlerVars, queue, asked>>

(* main() runs when no handler does.                                       *)
Main ==
  /\ hci = ncons
  /\ \/ Gate \/ Scan \/ Accept \/ Count \/ Store \/ Fork \/ Publish
     \/ Reap \/ Uncount

Handler == HandlerStart \/ HandlerSlot

Next ==
  \/ Main \/ Handler
  \/ \E p \in Pids : Child(p)
  \/ \E c \in Clients : Connect(c) \/ Send(c) \/ Close(c)

(* The scheduler runs the parent and signals are delivered; children may   *)
(* be slow for ever, and clients do what they like.                        *)
Spec ==
  /\ Init /\ [][Next]_vars
  /\ WF_vars(Main) /\ WF_vars(Handler)

-----------------------------------------------------------------------------
(* accept_one finds a slot below ncons although the handler gives slots    *)
(* and the count back between any two steps: the count is never short of   *)
(* the slots taken, except by the one just accepted, and with one          *)
(* instruction it is exact, whichever child was taken for which.  And no   *)
(* slot outside the window is taken without a child that is still to be    *)
(* reaped (lab53_server_fork.c:93-95), until one was mistaken.             *)
CountCoversSlots ==
  LET uncounted == IF pc \in {"count", "store"} THEN 1 ELSE 0
      taken == Cardinality(isopen) - uncounted
  IN /\ pc \notin {"gate", "scan", "reap"} => ci < ncons
     /\ nopen >= taken
     /\ oneStep => nopen = taken
     /\ robbed \/ \A s \in isopen : (InWindow /\ s = ci) \/ pid[s] \in Pids

(* cleanupkids() takes a slot back when the slot's own child has ended,    *)
(* with one exception (lab53_server_fork.c:36, 102): until main() has      *)
(* stored the pid of a slot used for the first time, the handler asks for  *)
(* any child there, and gets that of an earlier slot if it ended after the *)
(* handler had passed it.  From then on slots and children differ.         *)
SlotOutlivesItsChild ==
  [][\A s \in isopen \ isopen' :
       \/ pid[s] \in Zombies
       \/ pc = "publish" /\ s = ci /\ reg \in Zombies
       \/ /\ zeroed /\ InWindow /\ s = ci /\ pid[s] = 0
          /\ \E t \in isopen : t < s /\ pid[t] \in Zombies
       \/ robbed]_vars

(* A server that turns clients away serves ncons of them or makes room,    *)
(* whatever signals were merged or came too early: main() reaps by itself. *)
(* Not so where nopen++ is several instructions and a decrement is lost,   *)
(* nor once a child was taken for another's: the slot that it left behind  *)
(* waits for it for ever.                                                  *)
RoomIsMade ==
  oneStep /\ nopen = ncons /\ Cardinality(Running) < ncons
    ~> nopen < ncons \/ Cardinality(Running) = ncons \/ robbed

(* The handler takes back the slot of a connection main() has not forked a *)
(* child for.                                                              *)
ConnectionCut ==
  /\ pc \in {"count", "store", "fork"} /\ ci \in isopen \ isopen'
  /\ UNCHANGED pc

(* Never more than ncons clients are served, each request is answered once *)
(* and a client is kept until it leaves, on every build and whichever      *)
(* child is taken for which; except that the handler may cut off the       *)
(* connection main() has just accepted.                                    *)
Pool == INSTANCE ConnectionPool WITH
          Limit <- ncons,
          pool <- (Unforked \cup {serves[p] : p \in Running}) \ {NoClient}

ImplementsPool == Pool!Init /\ [][Pool!Next \/ ConnectionCut]_Pool!poolVars
=============================================================================
