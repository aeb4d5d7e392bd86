----------------------------- MODULE EventServer -----------------------------
(***************************************************************************)
(* The three servers of linux_kernel/lab53 that serve every connection     *)
(* from one loop: with select(), poll() and epoll().  Init picks which.    *)
(* They share accept_one and handle_client of lab_server.h and the tables  *)
(* isopen and cd; each keeps the set of watched descriptors its own way.   *)
(*                                                                         *)
(* Descriptors are numbers, the lowest free one is used next; 3 listens    *)
(* and, with epoll, 4 is the epoll instance.  The loop is the only thread: *)
(* blocked in recv(), it serves nobody.                                    *)
(***************************************************************************)
EXTENDS Integers, Sequences, FiniteSets, FiniteSetsExt

CONSTANTS Clients,   \* connections made
          ncons,     \* maximum number of connections
          NoClient   \* behind an unused descriptor

ASSUME NconsAssumption == ncons \in Nat \ {0}
ASSUME ClientsAssumption == IsFiniteSet(Clients) /\ NoClient \notin Clients

sd == 3

VARIABLES
  server,   \* "select", "poll" or "epoll"
  nopen,    \* connections counted
  isopen,   \* slots in use
  cd,       \* descriptor of each slot
  watched,  \* fdset; the descriptors in ufds; the epoll instance
  fdmax,    \* largest descriptor looked at (select, poll)
  result,   \* testset; slots with revents; the array ep_event
  pc,       \* "wait", "accept", "serve" or "recv", or "dead"
  at,       \* slot, or index of ep_event, being served
  fdtable,  \* the client behind each open descriptor
  queue,    \* clients waiting to be accepted, in order
  present,  \* clients that hold their end open
  asked     \* clients with a request the server has not received

tableVars  == <<nopen, isopen, cd, watched, fdmax, fdtable>>
loopVars   == <<result, pc, at>>
clientVars == <<queue, present, asked>>
vars == <<server, tableVars, loopVars, clientVars>>

FirstFd == IF server = "epoll" THEN 5 ELSE 4
Fds     == FirstFd .. FirstFd + Cardinality(Clients) - 1
Slots   == 0..ncons

(* What malloc() may leave in cd[]: more descriptors than a process has.   *)
Junk == FirstFd + Cardinality(Clients) + ncons

Init ==
  /\ server \in {"select", "poll", "epoll"}
  /\ nopen = 0 /\ isopen = {}
  /\ \E any \in {0} \cup (IF server = "poll" THEN {Junk} ELSE {}) :
       cd = [s \in Slots |-> any]   \* only poll reads an entry it has not set
  /\ watched = {sd} /\ fdmax = sd
  /\ result = IF server = "epoll" THEN <<>> ELSE {}
  /\ pc = "wait" /\ at = 0
  /\ fdtable = [f \in Fds |-> NoClient]
  /\ queue = <<>> /\ present = {} /\ asked = {}

FreeFds == {f \in Fds : fdtable[f] = NoClient}
Served  == {fdtable[f] : f \in Fds} \ {NoClient}
Queued  == {queue[i] : i \in DOMAIN queue}

(* recv() has something to return: a request, or the end of the stream.    *)
Readable(f) ==
  IF f = sd THEN queue # <<>>
  ELSE f \in Fds /\ (fdtable[f] \in asked \/ fdtable[f] \notin present)

-----------------------------------------------------------------------------
(* accept_one: the first slot of 0..ncons-1 that is not open, or ncons.    *)
FreeSlot(taken) == Min({s \in 0..ncons - 1 : s \notin taken} \cup {ncons})

(* The mistake of using the slot of the last connection again.             *)
AcceptOneLast ==
  LET fd == Min(FreeFds)
  IN /\ cd' = [cd EXCEPT ![0] = fd]
     /\ isopen' = isopen \cup {0}
     /\ nopen' = nopen + 1
     /\ watched' = watched \cup {fd}
     /\ fdmax' = IF fd > fdmax THEN fd ELSE fdmax
     /\ fdtable' = [fdtable EXCEPT ![fd] = Head(queue)]
     /\ queue' = Tail(queue)
     /\ UNCHANGED <<present, asked>>

(* poll() keeps slot 0 for the listening socket and takes it before it     *)
(* looks for another.                                                      *)
AcceptOne ==
  LET taken == isopen \cup IF server = "poll" THEN {0} ELSE {}
      ci == FreeSlot(taken)
      fd == Min(FreeFds)
  IN /\ cd' = [cd EXCEPT ![ci] = fd]
     /\ isopen' = taken \cup {ci}
     /\ nopen' = nopen + 1
     /\ watched' = watched \cup {fd}
     /\ fdmax' = IF fd > fdmax THEN fd ELSE fdmax
     /\ fdtable' = [fdtable EXCEPT ![fd] = Head(queue)]
     /\ queue' = Tail(queue)
     /\ UNCHANGED <<present, asked>>

(* get_max_fd starts from the old maximum, so fdmax never shrinks; slot 0  *)
(* of poll is taken for good and has no descriptor.                        *)
GetMaxFd(open) == Max({fdmax} \cup {cd[s] : s \in open \cap (0..ncons - 1)})

TerminateClient(ci) ==
  /\ isopen' = isopen \ {ci}
  /\ nopen' = nopen - 1
  /\ watched' = watched \ {cd[ci]}
  /\ fdtable' = [fdtable EXCEPT ![cd[ci]] = NoClient]
  /\ fdmax' = IF cd[ci] = fdmax THEN GetMaxFd(isopen \ {ci}) ELSE fdmax
  /\ UNCHANGED <<cd, clientVars>>

(* A request is received and answered; otherwise the client has left.      *)
HandleClient(fd, ci) ==
  /\ Readable(fd)
  /\ IF fdtable[fd] \in asked
       THEN /\ asked' = asked \ {fdtable[fd]}
            /\ UNCHANGED <<tableVars, queue, present>>
       ELSE TerminateClient(ci)

-----------------------------------------------------------------------------
(* select and poll.  poll looks at the first fdmax + 1 entries of ufds,    *)
(* entry s watching slot s, and zeroes what it does not report.            *)
Wait ==
  /\ pc = "wait" /\ server \in {"select", "poll"} /\ fdmax < Junk
  /\ \E f \in watched : f <= fdmax /\ Readable(f)
  /\ result' = IF server = "select"
                 THEN {f \in watched : f <= fdmax /\ Readable(f)}
                 ELSE {s \in 0..fdmax : IF s = 0 THEN Readable(sd)
                         ELSE s \in isopen /\ cd[s] \in watched /\ Readable(cd[s])}
  /\ pc' = "accept"
  /\ UNCHANGED <<server, tableVars, at, clientVars>>

(* poll() refuses to look at so many entries, and the server exits; what   *)
(* becomes of its connections is left out.                                 *)
PollFails ==
  /\ pc = "wait" /\ server = "poll" /\ fdmax >= Junk
  /\ pc' = "dead"
  /\ UNCHANGED <<server, tableVars, result, at, clientVars>>

(* The mistake of accepting whoever waits, without a limit.                *)
AcceptNoLimit ==
  /\ pc = "accept"
  /\ IF queue # <<>> THEN AcceptOne ELSE UNCHANGED <<tableVars, clientVars>>
  /\ pc' = "serve" /\ at' = IF server = "poll" THEN 1 ELSE 0
  /\ UNCHANGED <<server, result>>

Accept ==
  /\ pc = "accept"
  /\ IF (IF server = "select" THEN sd ELSE 0) \in result /\ nopen < ncons
       THEN AcceptOne
       ELSE UNCHANGED <<tableVars, clientVars>>
  /\ pc' = "serve" /\ at' = IF server = "poll" THEN 1 ELSE 0
  /\ UNCHANGED <<server, result>>

LastSlot == IF server = "poll" THEN ncons ELSE ncons - 1

(* The mistake of not asking the result: every open slot is served.        *)
ServeAll ==
  /\ pc = "serve" /\ server # "epoll"
  /\ IF at > LastSlot THEN pc' = "wait" /\ at' = 0
     ELSE IF at \in isopen
       THEN pc' = "recv" /\ UNCHANGED at
     ELSE at' = at + 1 /\ UNCHANGED pc
  /\ UNCHANGED <<server, tableVars, result, clientVars>>

Serve ==
  /\ pc = "serve" /\ server # "epoll"
  /\ IF at > LastSlot THEN pc' = "wait" /\ at' = 0
     ELSE IF at \in isopen /\ (IF server = "select" THEN cd[at] ELSE at) \in result
       THEN pc' = "recv" /\ UNCHANGED at
     ELSE at' = at + 1 /\ UNCHANGED pc
  /\ UNCHANGED <<server, tableVars, result, clientVars>>

(* The mistake of waiting again after the first ready slot.                *)
RecvFirst ==
  /\ pc = "recv" /\ server # "epoll"
  /\ HandleClient(cd[at], at)
  /\ pc' = "wait" /\ at' = 0
  /\ UNCHANGED <<server, result>>

Recv ==
  /\ pc = "recv" /\ server # "epoll"
  /\ HandleClient(cd[at], at)
  /\ pc' = "serve" /\ at' = at + 1
  /\ UNCHANGED <<server, result>>

-----------------------------------------------------------------------------
(* epoll: at most two results, in any order, in the array accept_it also   *)
(* writes its registrations to.                                            *)
EpollWait ==
  /\ pc = "wait" /\ server = "epoll"
  /\ LET ready == {f \in watched : Readable(f)}
     IN \E f \in ready :
          \/ ready = {f} /\ result' = <<f>>
          \/ \E g \in ready \ {f} : result' = <<f, g>>
  /\ pc' = "serve" /\ at' = 1
  /\ UNCHANGED <<server, tableVars, clientVars>>

(* accept_it: ep_event[ci] is overwritten, here the index is ci + 1.       *)
AcceptIt ==
  /\ AcceptOne
  /\ LET i == FreeSlot(isopen) + 1
     IN result' = IF i \in DOMAIN result
                    THEN [result EXCEPT ![i] = Min(FreeFds)] ELSE result

EpollServe ==
  /\ pc = "serve" /\ server = "epoll"
  /\ IF at > Len(result)
       THEN pc' = "wait" /\ at' = 0 /\ UNCHANGED <<tableVars, result, clientVars>>
     ELSE IF result[at] = sd
       THEN /\ IF nopen < ncons THEN AcceptIt
               ELSE UNCHANGED <<tableVars, result, clientVars>>
            /\ at' = at + 1 /\ UNCHANGED pc
     ELSE pc' = "recv" /\ UNCHANGED <<at, tableVars, result, clientVars>>
  /\ UNCHANGED server

(* terminate_client finds the slot by its descriptor, open or not.         *)
EpollRecv ==
  /\ pc = "recv" /\ server = "epoll"
  /\ HandleClient(result[at], Min({s \in 0..ncons - 1 : cd[s] = result[at]}))
  /\ pc' = "serve" /\ at' = at + 1
  /\ UNCHANGED <<server, result>>

-----------------------------------------------------------------------------
(* The clients, in any order of connect, send and close.                   *)
Connect(c) ==
  /\ c \notin present \cup Queued \cup Served
  /\ present' = present \cup {c} /\ queue' = Append(queue, c)
  /\ UNCHANGED <<server, tableVars, loopVars, asked>>

Send(c) ==
  /\ c \in present \ asked
  /\ asked' = asked \cup {c}
  /\ UNCHANGED <<server, tableVars, loopVars, queue, present>>

Close(c) ==
  /\ c \in present
  /\ present' = present \ {c}
  /\ UNCHANGED <<server, tableVars, loopVars, queue, asked>>

Loop ==
  \/ Wait \/ PollFails \/ Accept \/ Serve \/ Recv
  \/ EpollWait \/ EpollServe \/ EpollRecv

Next == Loop \/ \E c \in Clients : Connect(c) \/ Send(c) \/ Close(c)

(* The loop keeps running; clients do what they like.                      *)
Spec == Init /\ [][Next]_vars /\ WF_vars(Loop)

-----------------------------------------------------------------------------
InUse == isopen \ IF server = "poll" THEN {0} ELSE {}

(* The slots in use and the open descriptors stay in step, so that a       *)
(* descriptor found in a table, stale entries included, names the one slot *)
(* it belongs to; the count is the number of slots in use, the scan for a  *)
(* slot ends in the tables, and poll looks at the entry of every slot.     *)
SlotFollowsDescriptor ==
  /\ nopen = Cardinality(InUse)
  /\ InUse \subseteq IF server = "poll" THEN 1..ncons ELSE 0..ncons - 1
  /\ \A s \in InUse :
       /\ cd[s] = FirstFd + s - (IF server = "poll" THEN 1 ELSE 0)
       /\ fdtable[cd[s]] # NoClient
       /\ cd[s] <= fdmax /\ s <= fdmax
  /\ \A f \in Fds : fdtable[f] # NoClient => f \in watched /\ \E s \in InUse : cd[s] = f

(* The only thread enters recv() with something to receive: one silent     *)
(* client cannot stop the others.  Not so the epoll server once accept_it  *)
(* has written the second of two results.                                  *)
NeverBlocksInRecv ==
  pc = "recv" =>
    IF server = "epoll" THEN at = 2 \/ Readable(result[at]) ELSE Readable(cd[at])

(* A served client that asked is answered, under select and poll, whatever *)
(* the others do; unless fdmax was set from what malloc() left in cd[0],   *)
(* when the client with the largest descriptor left (lab53_server_poll.c:  *)
(* 25, 37), and poll() failed.                                             *)
RequestAnswered ==
  \A c \in Clients :
    server # "epoll" /\ c \in Served \cap asked
      ~> c \notin asked \/ (server = "poll" /\ cd[0] = Junk /\ pc = "dead")

(* All three are connection pools.                                         *)
Pool == INSTANCE ConnectionPool WITH
          Limit <- ncons, pool <- {fdtable[cd[s]] : s \in InUse}

ImplementsPool == Pool!Spec
=============================================================================
