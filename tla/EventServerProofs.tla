-------------------------- MODULE EventServerProofs --------------------------
(***************************************************************************)
(* EventServer, for any clients and any number of slots, with select(),    *)
(* poll() and epoll(): slots and descriptors stay in step, nobody but the  *)
(* epoll server can block in recv(), and each server is a ConnectionPool.  *)
(*                                                                         *)
(* The argument is a table that is redundant without saying so.  The       *)
(* lowest free slot and the lowest free descriptor are used together and   *)
(* given back together, so slot s has always had the same descriptor, and  *)
(* a stale entry of cd names the descriptor of its own slot (the entries   *)
(* poll() has never set can only raise the bound it polls up to, until it  *)
(* fails).  What a round of the loop was told is ready stays ready until   *)
(* that round serves it, because every descriptor has a client of its own. *)
(***************************************************************************)
EXTENDS EventServer, SetLemmas

(* poll() keeps slot 0 for the listening socket.                           *)
Base    == IF server = "poll" THEN 1 ELSE 0
FdOf(s) == FirstFd + s - Base
Used    == {f \in Fds : fdtable[f] # NoClient}

(* The slot accept_one takes next.                                         *)
Taken    == isopen \cup IF server = "poll" THEN {0} ELSE {}
NextSlot == FreeSlot(Taken)

(* The ranges of what the argument looks at, in the tables and the loop.   *)
Typed ==
  /\ server \in {"select", "poll", "epoll"}
  /\ isopen \subseteq Slots /\ cd \in [Slots -> Int]
  /\ fdtable \in [Fds -> Clients \cup {NoClient}]
  /\ nopen \in Int /\ fdmax \in Int /\ queue \in Seq(Clients)

LoopTyped ==
  /\ pc \in {"wait", "accept", "serve", "recv", "dead"} /\ at \in Nat
  /\ pc \in {"wait", "accept", "dead"} => at = 0
  /\ server = "epoll" => result \in Seq(Int) /\ pc # "accept"

(* Slots and descriptors go together, once and for all.                    *)
InStep ==
  /\ InUse \subseteq Base .. ncons - 1 + Base
  /\ \A s \in Slots : server = "poll" \/ cd[s] \in {0, FdOf(s)}
  /\ \A s \in InUse : cd[s] = FdOf(s) /\ FdOf(s) \in Used /\ FdOf(s) <= fdmax
  /\ \A f \in Used : f - FirstFd + Base \in InUse
  /\ watched = Used \cup {sd}
  /\ nopen = Cardinality(InUse)

(* Every descriptor has a client of its own, and nobody waits who is served. *)
OneEach ==
  /\ \A f, g \in Used : fdtable[f] = fdtable[g] => f = g
  /\ \A i, j \in DOMAIN queue : queue[i] = queue[j] => i = j
  /\ \A i \in DOMAIN queue : \A f \in Used : queue[i] # fdtable[f]

TableInv == Typed /\ InStep /\ OneEach

(* What select() and poll() reported is true of every slot not yet served, *)
(* and says nothing of a slot that was free.                               *)
ReportedIsReady ==
  server # "epoll" /\ pc \notin {"wait", "dead"} =>
    /\ \A s \in InUse : s >= at /\ (IF server = "select" THEN cd[s] ELSE s) \in result
                          => Readable(cd[s])
    /\ pc = "accept" =>
         /\ IF server = "select" THEN result \subseteq Used \cup {sd}
                                 ELSE result \subseteq InUse \cup {0}
         /\ (IF server = "select" THEN sd ELSE 0) \in result => queue # <<>>
    /\ pc = "recv" => at \in InUse /\ (IF server = "select" THEN cd[at] ELSE at) \in result
    /\ pc \in {"serve", "recv"} => at >= Base

(* epoll_wait() reports two different descriptors at most; accept_it can   *)
(* write over the second, with a descriptor in use.                        *)
ReportedIsOpen ==
  server = "epoll" /\ pc # "wait" =>
    /\ Len(result) <= 2 /\ at >= 1
    /\ \A i \in DOMAIN result : i >= at =>
         result[i] \in Used \cup {sd} /\ (result[i] = sd => queue # <<>>)
    /\ at = 1 => 1 \in DOMAIN result /\ Readable(result[1])
    /\ at = 1 /\ 2 \in DOMAIN result => result[1] # result[2]
    /\ pc = "recv" => at \in DOMAIN result /\ result[at] # sd

LoopInv == TableInv /\ LoopTyped /\ ReportedIsReady /\ ReportedIsOpen

LEMMA Ranges ==
  ASSUME Typed
  PROVE  /\ FirstFd \in Int /\ FirstFd > sd /\ Base \in 0..1 /\ (Base = 1 <=> server = "poll")
         /\ Cardinality(Clients) \in Nat /\ Fds = FirstFd .. FirstFd + Cardinality(Clients) - 1
         /\ IsFiniteSet(Fds) /\ Cardinality(Fds) = Cardinality(Clients) /\ Fds \subseteq Int
         /\ Slots = 0..ncons /\ ncons \in Nat /\ ncons >= 1
<1>1. FirstFd \in Int /\ FirstFd > sd /\ Base \in 0..1 /\ (Base = 1 <=> server = "poll")
  BY DEF FirstFd, sd, Base
<1>2. Cardinality(Clients) \in Nat
  BY ClientsAssumption, FS_CardinalityType
<1>3. Fds = FirstFd .. FirstFd + Cardinality(Clients) - 1
  BY DEF Fds
<1>4. IsFiniteSet(Fds) /\ Cardinality(Fds) = Cardinality(Clients)
  <2> DEFINE n == Cardinality(Clients)
             top == FirstFd + n - 1
  <2>1. top \in Int /\ (IF FirstFd > top THEN 0 ELSE top - FirstFd + 1) = n
    BY <1>1, <1>2
  <2>2. Fds = FirstFd .. top
    BY <1>3
  <2> HIDE DEF top, n
  <2>3. IsFiniteSet(Fds) /\ Cardinality(Fds) = IF FirstFd > top THEN 0 ELSE top - FirstFd + 1
    BY <1>1, <2>1, <2>2, FS_Interval
  <2>. QED BY <2>1, <2>3 DEF n
<1>5. Fds \subseteq Int
  BY <1>1, <1>2, <1>3
<1>. QED BY <1>1, <1>2, <1>3, <1>4, <1>5, NconsAssumption DEF Slots

(* A client that waits leaves a descriptor for itself.                     *)
LEMMA DescriptorLeft ==
  ASSUME TableInv, queue # <<>>
  PROVE  FreeFds # {}
<1>t. Typed /\ InStep /\ OneEach
  BY DEF TableInv
<1>1. queue[1] \in Clients /\ 1 \in DOMAIN queue
  BY <1>t DEF Typed
<1> DEFINE h == [f \in Fds |-> fdtable[f]]
           others == Clients \ {queue[1]}
<1>2. IsFiniteSet(others) /\ Cardinality(others) = Cardinality(Clients) - 1
  BY <1>1, ClientsAssumption, FS_RemoveElement
<1> SUFFICES ASSUME FreeFds = {} PROVE FALSE
  OBVIOUS
<1>3. Used = Fds
  BY DEF Used, FreeFds
<1>4. h \in Injection(Fds, others)
  <2>1. \A f \in Fds : fdtable[f] \in others
    BY <1>1, <1>3, <1>t DEF Typed, OneEach, Used
  <2>2. \A f, g \in Fds : fdtable[f] = fdtable[g] => f = g
    BY <1>3, <1>t DEF OneEach
  <2>3. h \in [Fds -> others] /\ \A f, g \in Fds : h[f] = h[g] => f = g
    BY <2>1, <2>2
  <2>. QED
    <3> HIDE DEF h, others
    <3>. QED BY <2>3 DEF Injection, IsInjective
<1>5. Cardinality(Fds) <= Cardinality(others)
  <2> HIDE DEF h, others
  <2>. QED BY <1>2, <1>4, FS_Injection
<1>. QED BY <1>2, <1>5, <1>t, Ranges

(* accept_one takes the lowest free slot, and accept() gives it the        *)
(* descriptor that slot always has.                                        *)
LEMMA LowestTogether ==
  ASSUME TableInv, nopen < ncons, queue # <<>>
  PROVE  /\ NextSlot \in Base .. ncons - 1 + Base /\ NextSlot \notin InUse
         /\ Min(FreeFds) = FdOf(NextSlot) /\ Min(FreeFds) \in Fds \ Used
<1>t. Typed /\ InStep /\ OneEach
  BY DEF TableInv
<1>r. /\ FirstFd \in Int /\ FirstFd > sd /\ Base \in 0..1 /\ (Base = 1 <=> server = "poll")
      /\ Cardinality(Clients) \in Nat /\ Fds = FirstFd .. FirstFd + Cardinality(Clients) - 1
      /\ IsFiniteSet(Fds) /\ Fds \subseteq Int
      /\ Slots = 0..ncons /\ ncons \in Nat /\ ncons >= 1
  BY <1>t, Ranges
<1> DEFINE taken == Taken
           ci == NextSlot
           free == {s \in 0..ncons - 1 : s \notin taken} \cup {ncons}
           fd == Min(FreeFds)
           slot == fd - FirstFd + Base
<1>1. ci \in free /\ (\A s \in free : ci <= s) /\ ci \in 0..ncons
  <2>1. ci = Min(free)
    BY DEF FreeSlot, NextSlot
  <2>2. free \subseteq 0..ncons /\ free # {} /\ 0 \in Int /\ ncons \in Int
    BY <1>r
  <2>3. ci \in free /\ \A s \in free : ci <= s
    <3> HIDE DEF free
    <3>. QED BY <2>1, <2>2, MinOfRange
  <2>4. ci \in 0..ncons
    <3> HIDE DEF free
    <3>. QED BY <2>2, <2>3
  <2>. QED
    <3> HIDE DEF free
    <3>. QED BY <2>3, <2>4
<1>2. fd \in FreeFds /\ (\A f \in FreeFds : fd <= f) /\ fd \in Fds /\ fd \notin Used /\ fd \in Int
  <2>1. FreeFds \subseteq Fds
    BY DEF FreeFds
  <2>2. IsFiniteSet(FreeFds) /\ FreeFds \subseteq Int
    BY <1>r, <2>1, FS_Subset
  <2>3. fd \in FreeFds /\ \A f \in FreeFds : fd <= f
    BY <2>2, DescriptorLeft, MinOfFinite
  <2>. QED BY <1>r, <2>1, <2>3 DEF FreeFds, Used
<1>3. slot \notin InUse /\ slot >= Base /\ slot \in Int
  <2>1. slot >= Base /\ slot \in Int
    BY <1>r, <1>2
  <2>2. FdOf(slot) = fd
    BY <1>r, <1>2 DEF FdOf
  <2>. QED BY <1>t, <1>2, <2>1, <2>2 DEF InStep
<1>4. \A s \in Base .. slot - 1 : s \in InUse
  <2> SUFFICES ASSUME NEW s \in Base .. slot - 1 PROVE s \in InUse
    OBVIOUS
  <2>1. s \in Int /\ FdOf(s) \in Fds /\ FdOf(s) < fd /\ FdOf(s) - FirstFd + Base = s
    BY <1>r, <1>2 DEF FdOf
  <2>2. FdOf(s) \in Used
    BY <1>r, <1>2, <2>1 DEF FreeFds, Used
  <2>. QED BY <1>t, <2>1, <2>2 DEF InStep
<1>5. InUse \subseteq taken /\ (\A s \in taken : s \in InUse \/ s < Base) /\ InUse \subseteq Int
  BY <1>r, <1>t DEF InUse, Base, Typed, Taken
<1>6. ncons - 1 + Base \in InUse => \E s \in Base .. ncons - 1 + Base : s \notin InUse
  <2> DEFINE top == ncons - 1 + Base
  <2>1. IsFiniteSet(Base .. top) /\ Cardinality(Base .. top) = ncons
    <3>1. top \in Int /\ Base \in Int /\ (IF Base > top THEN 0 ELSE top - Base + 1) = ncons
      BY <1>r
    <3> HIDE DEF top
    <3>2. IsFiniteSet(Base .. top)
          /\ Cardinality(Base .. top) = IF Base > top THEN 0 ELSE top - Base + 1
      BY <3>1, FS_Interval
    <3>. QED BY <3>1, <3>2
  <2>2. InUse # Base .. top
    BY <1>r, <1>t, <2>1 DEF InStep, Typed
  <2>. QED BY <1>t, <2>2 DEF InStep
<1>7. slot \in Base .. ncons - 1 + Base
  <2>1. \E s \in Base .. ncons - 1 + Base : s \notin InUse
    <3>1. ncons - 1 + Base \in Base .. ncons - 1 + Base
      BY <1>r
    <3>. QED BY <1>6, <3>1
  <2>. QED BY <1>3, <1>4, <1>r, <2>1
<1>8. slot \in free /\ \A s \in free : s = ncons \/ (s \in 0..ncons - 1 /\ s \notin taken)
  <2>1. slot \notin taken
    <3> HIDE DEF slot
    <3>. QED BY <1>3, <1>5, <1>r
  <2>. QED BY <1>7, <1>r, <2>1
<1> HIDE DEF slot, free, ci, taken
<1>9. ci >= slot
  <2>1. ASSUME ci < Base PROVE FALSE
    <3>1. server = "poll" /\ ci = 0 /\ 0 \in taken
      BY <1>1, <1>r, <2>1 DEF Taken, taken
    <3>. QED BY <1>1, <1>8, <1>r, <3>1
  <2>2. ASSUME ci \in Base .. slot - 1 PROVE FALSE
    <3>1. ci \in InUse /\ ci \in taken
      BY <1>4, <1>5, <2>2
    <3>2. ci = ncons /\ slot > ncons
      BY <1>1, <1>3, <1>8, <2>2, <3>1
    <3>. QED BY <1>7, <1>r, <3>2
  <2>. QED BY <1>1, <1>3, <1>r, <2>1, <2>2
<1>10. ci = slot
  <2>1. ci <= slot
    BY <1>1, <1>8
  <2>. QED BY <1>1, <1>3, <1>9, <2>1
<1>11. FdOf(slot) = fd
  BY <1>r, <1>2 DEF FdOf, slot
<1>. QED BY <1>2, <1>3, <1>7, <1>10, <1>11 DEF ci

(* What accept_one does to the tables.                                     *)
LEMMA AcceptTakes ==
  ASSUME TableInv, nopen < ncons, queue # <<>>, server' = server, AcceptOne
  PROVE  \E ci \in Base .. ncons - 1 + Base, fd \in Fds \ Used :
           /\ ci = NextSlot
           /\ fd = Min(FreeFds) /\ fd = FdOf(ci)
           /\ ci \notin InUse /\ InUse' = InUse \cup {ci} /\ Used' = Used \cup {fd}
           /\ cd' = [cd EXCEPT ![ci] = fd]
           /\ fdtable' = [fdtable EXCEPT ![fd] = queue[1]]
           /\ queue' = Tail(queue) /\ nopen' = nopen + 1 /\ watched' = watched \cup {fd}
           /\ isopen' \subseteq Slots /\ fdmax' = IF fd > fdmax THEN fd ELSE fdmax
           /\ UNCHANGED <<present, asked>>
<1> DEFINE ci == NextSlot
           fd == Min(FreeFds)
<1>t. Typed /\ InStep
  BY DEF TableInv
<1>r. /\ Base \in 0..1 /\ (Base = 1 <=> server = "poll") /\ Slots = 0..ncons
      /\ ncons \in Nat /\ Fds' = Fds
  <2>1. Fds' = Fds
    BY DEF Fds, FirstFd
  <2>. QED BY <1>t, <2>1, Ranges
<1>1. /\ ci \in Base .. ncons - 1 + Base /\ ci \notin InUse /\ fd = FdOf(ci)
      /\ fd \in Fds \ Used
  BY LowestTogether
<1>2. /\ cd' = [cd EXCEPT ![ci] = fd] /\ isopen' = Taken \cup {ci} /\ nopen' = nopen + 1
      /\ watched' = watched \cup {fd} /\ fdmax' = IF fd > fdmax THEN fd ELSE fdmax
      /\ fdtable' = [fdtable EXCEPT ![fd] = Head(queue)] /\ queue' = Tail(queue)
      /\ UNCHANGED <<present, asked>>
  BY DEF AcceptOne, NextSlot, Taken
<1>3. Head(queue) = queue[1] /\ queue[1] \in Clients
  BY <1>t DEF Typed
<1> HIDE DEF ci, fd
<1>4. Used' = Used \cup {fd}
  BY <1>1, <1>2, <1>3, <1>r, <1>t, ClientsAssumption DEF Used, Typed
<1>5. InUse' = InUse \cup {ci} /\ isopen' \subseteq Slots
  <2>1. CASE server = "poll"
    <3>1. ci \in 1..ncons
      BY <1>1, <1>r, <2>1
    <3>. QED BY <1>2, <1>r, <1>t, <2>1, <3>1 DEF InUse, Typed, Taken
  <2>2. CASE server # "poll"
    <3>1. ci \in 0..ncons - 1
      BY <1>1, <1>r, <2>2
    <3>. QED BY <1>2, <1>r, <1>t, <2>2, <3>1 DEF InUse, Typed, Taken
  <2>. QED BY <2>1, <2>2
<1>. QED BY <1>1, <1>2, <1>3, <1>4, <1>5 DEF ci, fd

LEMMA AcceptKeepsTable ==
  ASSUME TableInv, nopen < ncons, queue # <<>>, server' = server, AcceptOne
  PROVE  TableInv'
<1>t. Typed /\ InStep /\ OneEach
  BY DEF TableInv
<1>r. /\ FirstFd \in Int /\ Base \in 0..1 /\ Slots = 0..ncons /\ ncons \in Nat
      /\ Fds \subseteq Int
  BY <1>t, Ranges
<1>u. FirstFd' = FirstFd /\ Fds' = Fds /\ Base' = Base /\ \A s : FdOf(s)' = FdOf(s)
  BY DEF FirstFd, Fds, Base, FdOf
<1>1. PICK ci \in Base .. ncons - 1 + Base, fd \in Fds \ Used :
           /\ fd = FdOf(ci) /\ ci \notin InUse
           /\ InUse' = InUse \cup {ci} /\ Used' = Used \cup {fd}
           /\ cd' = [cd EXCEPT ![ci] = fd]
           /\ fdtable' = [fdtable EXCEPT ![fd] = queue[1]]
           /\ queue' = Tail(queue) /\ nopen' = nopen + 1 /\ watched' = watched \cup {fd}
           /\ isopen' \subseteq Slots /\ fdmax' = IF fd > fdmax THEN fd ELSE fdmax
  BY AcceptTakes
<1>2. ci \in Slots /\ ci \in Int /\ fd \in Int
  BY <1>r
<1>3. /\ queue \in Seq(Clients) /\ queue[1] \in Clients /\ 1 \in DOMAIN queue
      /\ \A i \in DOMAIN queue' :
           i \in Int /\ i >= 1 /\ i + 1 \in DOMAIN queue /\ queue'[i] = queue[i + 1]
  BY <1>1, <1>t DEF Typed
<1>4. Typed'
  <2>1. queue' \in Seq(Clients) /\ fdtable' \in [Fds -> Clients \cup {NoClient}]
    BY <1>1, <1>3, <1>t DEF Typed
  <2>. QED BY <1>1, <1>2, <1>t, <1>u, <2>1 DEF Typed, Slots
<1>5. InStep'
  <2>1. (InUse \subseteq Base .. ncons - 1 + Base)'
    BY <1>1, <1>t, <1>u DEF InStep
  <2>2. \A s \in Slots : cd'[s] = IF s = ci THEN fd ELSE cd[s]
    BY <1>1, <1>t DEF Typed
  <2>3. \A s \in Slots : server = "poll" \/ cd'[s] \in {0, FdOf(s)}
    BY <1>1, <1>t, <2>2 DEF InStep
  <2>4. ASSUME NEW s \in InUse'
        PROVE  cd'[s] = FdOf(s) /\ FdOf(s) \in Used' /\ FdOf(s) <= fdmax'
    <3>1. CASE s = ci
      BY <1>1, <1>2, <1>t, <2>2, <3>1 DEF Typed
    <3>2. CASE s \in InUse /\ s # ci
      <4>1. s \in Slots /\ FdOf(s) \in Int
        BY <1>r, <1>t, <3>2 DEF InStep, FdOf
      <4>2. cd[s] = FdOf(s) /\ FdOf(s) \in Used /\ FdOf(s) <= fdmax
        BY <1>t, <3>2 DEF InStep
      <4>. QED BY <1>1, <1>2, <1>t, <2>2, <3>2, <4>1, <4>2 DEF Typed
    <3>. QED BY <1>1, <3>1, <3>2
  <2>5. ASSUME NEW f \in Used' PROVE f - FirstFd + Base \in InUse'
    <3>1. fd - FirstFd + Base = ci
      BY <1>1, <1>2, <1>r DEF FdOf
    <3>. QED BY <1>1, <1>t, <3>1 DEF InStep
  <2>6. watched' = Used' \cup {sd}
    BY <1>1, <1>t DEF InStep
  <2>7. nopen' = Cardinality(InUse')
    <3>1. IsFiniteSet(InUse)
      <4>1. IsFiniteSet(0..ncons)
        BY <1>r, FS_Interval
      <4>2. InUse \subseteq 0..ncons
        BY <1>r, <1>t DEF InStep
      <4>. QED BY <4>1, <4>2, FS_Subset
    <3>. QED BY <1>1, <1>t, <3>1, FS_AddElement DEF InStep
  <2>8. Slots' = Slots
    BY DEF Slots
  <2>. QED BY <1>u, <2>1, <2>3, <2>4, <2>5, <2>6, <2>7, <2>8 DEF InStep
<1>6. OneEach'
  <2>1. \A f \in Used' : f \in Fds /\ fdtable'[f] = IF f = fd THEN queue[1] ELSE fdtable[f]
    BY <1>1, <1>t DEF Typed, Used
  <2>2. \A f \in Used : queue[1] # fdtable[f]
    BY <1>3, <1>t DEF OneEach
  <2>3. \A f, g \in Used' : fdtable'[f] = fdtable'[g] => f = g
    BY <1>1, <1>t, <2>1, <2>2 DEF OneEach
  <2>4. \A i, j \in DOMAIN queue' : queue'[i] = queue'[j] => i = j
    <3> SUFFICES ASSUME NEW i \in DOMAIN queue', NEW j \in DOMAIN queue', queue'[i] = queue'[j]
                 PROVE  i = j
      OBVIOUS
    <3>1. i + 1 = j + 1
      BY <1>3, <1>t DEF OneEach
    <3>. QED BY <1>3, <3>1
  <2>5. ASSUME NEW i \in DOMAIN queue', NEW f \in Used' PROVE queue'[i] # fdtable'[f]
    <3>1. i + 1 \in DOMAIN queue /\ i + 1 # 1 /\ queue'[i] = queue[i + 1]
      BY <1>3
    <3>2. queue[i + 1] # queue[1]
      BY <1>3, <1>t, <3>1 DEF OneEach
    <3>3. f \in Used => queue[i + 1] # fdtable[f]
      BY <1>t, <3>1 DEF OneEach
    <3>. QED BY <1>1, <2>1, <3>1, <3>2, <3>3
  <2>. QED BY <2>3, <2>4, <2>5 DEF OneEach
<1>. QED BY <1>4, <1>5, <1>6 DEF TableInv

(* handle_client answers, or closes the slot and its own descriptor.       *)
Answered(f) ==
  /\ fdtable[f] \in asked /\ asked' = asked \ {fdtable[f]}
  /\ UNCHANGED <<tableVars, queue, present>>

Closed(s) ==
  /\ fdtable[cd[s]] \notin asked \cup present
  /\ InUse' = InUse \ {s} /\ Used' = Used \ {cd[s]}
  /\ fdtable' = [fdtable EXCEPT ![cd[s]] = NoClient]
  /\ UNCHANGED <<cd, clientVars>>

(* The bound poll() and select() look up to never shrinks.                 *)
LEMMA BoundKept ==
  ASSUME Typed, NEW ci \in Slots, TerminateClient(ci)
  PROVE  fdmax' \in Int /\ fdmax <= fdmax'
<1> DEFINE open == (isopen \ {ci}) \cap (0..ncons - 1)
           looked == {cd[s] : s \in open}
           all == {fdmax} \cup looked
<1>1. CASE cd[ci] # fdmax
  BY <1>1 DEF TerminateClient, Typed
<1>2. CASE cd[ci] = fdmax
  <2>1. fdmax' = Max(all)
    BY <1>2 DEF TerminateClient, GetMaxFd
  <2>2. IsFiniteSet(open) /\ open \subseteq Slots
    <3>1. IsFiniteSet(0..ncons - 1) /\ open \subseteq 0..ncons - 1
      BY NconsAssumption, FS_Interval
    <3>. QED BY <3>1, NconsAssumption, FS_Subset DEF Slots
  <2>3. IsFiniteSet(looked) /\ looked \subseteq Int
    <3> HIDE DEF open
    <3>1. looked \subseteq Int
      BY <2>2 DEF Typed
    <3>. QED BY <2>2, <3>1, ImageBound
  <2>4. IsFiniteSet(all) /\ all \subseteq Int /\ all # {} /\ fdmax \in all
    <3> HIDE DEF looked
    <3>1. IsFiniteSet(all)
      BY <2>3, FS_AddElement
    <3>. QED BY <2>3, <3>1 DEF Typed
  <2>. QED
    <3> HIDE DEF all
    <3>1. Max(all) \in all /\ \A y \in all : Max(all) >= y
      BY <2>4, MaxOfFinite
    <3>. QED BY <2>1, <2>4, <3>1
<1>. QED BY <1>1, <1>2

LEMMA HandleEnds ==
  ASSUME TableInv, NEW s \in InUse, server' = server, HandleClient(cd[s], s)
  PROVE  TableInv' /\ (Answered(cd[s]) \/ Closed(s))
<1>t. Typed /\ InStep /\ OneEach
  BY DEF TableInv
<1>r. /\ FirstFd \in Int /\ FirstFd > sd /\ Base \in 0..1 /\ (Base = 1 <=> server = "poll")
      /\ Slots = 0..ncons /\ ncons \in Nat /\ Fds \subseteq Int
  BY <1>t, Ranges
<1>u. /\ FirstFd' = FirstFd /\ Fds' = Fds /\ Base' = Base /\ Slots' = Slots
      /\ \A x : FdOf(x)' = FdOf(x)
  BY DEF FirstFd, Fds, Base, FdOf, Slots
<1>1. s \in Slots /\ s \in Int /\ cd[s] = FdOf(s) /\ cd[s] \in Used /\ cd[s] \in Fds
  BY <1>r, <1>t DEF InStep, Used
<1>2. cd[s] # sd
  BY <1>1, <1>r, <1>t, Ranges DEF sd
<1>3. CASE fdtable[cd[s]] \in asked
  <2>1. Answered(cd[s])
    BY <1>3 DEF HandleClient, Answered
  <2>2. TableInv'
    <3>1. UNCHANGED <<server, isopen, cd, watched, fdmax, fdtable, nopen, queue>>
      BY <2>1 DEF Answered, tableVars
    <3>2. InUse' = InUse /\ Used' = Used
      BY <1>u, <3>1 DEF InUse, Used
    <3>. QED BY <1>t, <1>u, <3>1, <3>2 DEF TableInv, Typed, InStep, OneEach
  <2>. QED BY <2>1, <2>2
<1>4. CASE fdtable[cd[s]] \notin asked
  <2>1. /\ isopen' = isopen \ {s} /\ nopen' = nopen - 1 /\ watched' = watched \ {cd[s]}
        /\ fdtable' = [fdtable EXCEPT ![cd[s]] = NoClient]
        /\ UNCHANGED <<cd, clientVars>>
    BY <1>4 DEF HandleClient, TerminateClient
  <2>b. fdmax' \in Int /\ fdmax <= fdmax'
    <3>1. TerminateClient(s)
      BY <1>4 DEF HandleClient
    <3>. QED BY <1>1, <1>t, <3>1, BoundKept
  <2>2. fdtable[cd[s]] \notin present
    BY <1>1, <1>2, <1>4 DEF HandleClient, Readable
  <2>3. InUse' = InUse \ {s}
    BY <1>u, <2>1 DEF InUse
  <2>4. Used' = Used \ {cd[s]}
    BY <1>1, <1>t, <1>u, <2>1 DEF Used, Typed
  <2>5. Closed(s)
    BY <1>4, <2>1, <2>2, <2>3, <2>4 DEF Closed
  <2>6. queue' = queue /\ \A f \in Used' : f \in Used /\ fdtable'[f] = fdtable[f]
    BY <1>t, <2>1, <2>4 DEF Typed, Used, clientVars
  <2>7. Typed'
    <3>1. fdtable' \in [Fds -> Clients \cup {NoClient}]
      BY <1>t, <2>1 DEF Typed
    <3>. QED BY <1>t, <1>u, <2>1, <2>6, <2>b, <3>1 DEF Typed
  <2>8. OneEach'
    BY <1>t, <2>6 DEF OneEach
  <2>9. InStep'
    <3>1. \A x \in InUse : x \in Int /\ (FdOf(x) = FdOf(s) => x = s)
      BY <1>1, <1>r, <1>t DEF InStep, FdOf
    <3>2. \A x \in InUse' : FdOf(x) \in Used'
      BY <1>1, <1>t, <2>3, <2>4, <3>1 DEF InStep
    <3>3. ASSUME NEW f \in Used' PROVE f - FirstFd + Base \in InUse'
      <4>1. f \in Used /\ f # FdOf(s) /\ f \in Int
        BY <1>1, <1>r, <2>4 DEF Used
      <4>2. f - FirstFd + Base # s
        BY <1>1, <1>r, <4>1 DEF FdOf
      <4>. QED BY <1>t, <2>3, <4>1, <4>2 DEF InStep
    <3>4. nopen' = Cardinality(InUse')
      <4>1. IsFiniteSet(0..ncons)
        BY <1>r, FS_Interval
      <4>2. InUse \subseteq 0..ncons
        BY <1>r, <1>t DEF InStep
      <4>3. IsFiniteSet(InUse)
        BY <4>1, <4>2, FS_Subset
      <4>. QED BY <1>t, <2>1, <2>3, <4>3, FS_RemoveElement DEF InStep
    <3>5. watched' = Used' \cup {sd}
      BY <1>2, <1>t, <2>1, <2>4 DEF InStep
    <3>6. \A x \in InUse' : FdOf(x) <= fdmax'
      <4>1. fdmax \in Int /\ fdmax' \in Int /\ \A x \in InUse : FdOf(x) \in Int
        BY <1>r, <1>t, <2>b, <3>1 DEF Typed, FdOf
      <4>2. \A x \in InUse : FdOf(x) <= fdmax
        BY <1>t DEF InStep
      <4>. QED BY <2>3, <2>b, <4>1, <4>2
    <3>. QED BY <1>t, <1>u, <2>1, <2>3, <3>2, <3>3, <3>4, <3>5, <3>6 DEF InStep
  <2>. QED BY <2>5, <2>7, <2>8, <2>9 DEF TableInv
<1>. QED BY <1>3, <1>4

(* terminate_client of the epoll server finds the slot that is in use,     *)
(* although it looks at every slot.                                        *)
LEMMA FoundByDescriptor ==
  ASSUME TableInv, server = "epoll", NEW f \in Used
  PROVE  \E s \in InUse : cd[s] = f /\ s = Min({x \in 0..ncons - 1 : cd[x] = f})
<1>t. Typed /\ InStep
  BY DEF TableInv
<1>r. /\ FirstFd \in Int /\ FirstFd > sd /\ Base = 0 /\ Slots = 0..ncons /\ ncons \in Nat
      /\ Fds \subseteq Int /\ Fds = FirstFd .. FirstFd + Cardinality(Clients) - 1
      /\ Cardinality(Clients) \in Nat
  BY <1>t, Ranges DEF Base
<1> DEFINE s == f - FirstFd + Base
           found == {x \in 0..ncons - 1 : cd[x] = f}
<1>1. s \in InUse /\ s \in 0..ncons - 1 /\ f \in Int /\ f > sd
  <2>1. f \in Fds /\ s \in InUse
    BY <1>t DEF InStep, Used
  <2>2. f \in Int /\ f > sd
    BY <1>r, <2>1 DEF sd
  <2> HIDE DEF s
  <2>3. s \in 0..ncons - 1
    BY <1>r, <1>t, <2>1 DEF InStep
  <2>. QED BY <2>1, <2>2, <2>3
<1>2. FdOf(s) = f /\ cd[s] = f
  BY <1>1, <1>r, <1>t DEF InStep, FdOf
<1>3. \A x \in found : x = s
  <2> SUFFICES ASSUME NEW x \in 0..ncons - 1, cd[x] = f PROVE x = s
    OBVIOUS
  <2>1. cd[x] = FdOf(x)
    BY <1>1, <1>r, <1>t DEF InStep, sd
  <2>. QED BY <1>1, <1>r, <2>1 DEF FdOf
<1>4. s \in found
  BY <1>1, <1>2
<1>5. Min(found) \in found
  <2>1. found \subseteq 0..ncons - 1 /\ found # {} /\ 0 \in Int /\ ncons - 1 \in Int
    BY <1>4, <1>r
  <2> HIDE DEF found
  <2>. QED BY <2>1, MinOfRange
<1>6. Min(found) = s
  <2> HIDE DEF found, s
  <2>. QED BY <1>3, <1>5
<1>. QED BY <1>1, <1>2, <1>6

LEMMA LoopInit == Init => LoopInv
<1> SUFFICES ASSUME Init PROVE LoopInv
  OBVIOUS
<1>1. Used = {} /\ InUse = {}
  BY DEF Init, Used, InUse
<1>2. Cardinality({}) = 0
  BY FS_EmptySet
<1>. QED BY <1>1, <1>2 DEF Init, LoopInv, TableInv, LoopTyped, Typed, InStep, OneEach,
                          ReportedIsReady, ReportedIsOpen, Slots, sd

(* No table changes: what was ready is, and who had a descriptor has it.   *)
LEMMA TableFrame ==
  ASSUME TableInv, UNCHANGED <<server, tableVars, clientVars>>
  PROVE  /\ TableInv' /\ InUse' = InUse /\ Used' = Used /\ Base' = Base
         /\ \A f : Readable(f)' <=> Readable(f)
<1>1. UNCHANGED <<server, nopen, isopen, cd, watched, fdmax, fdtable, queue, present, asked>>
  BY DEF tableVars, clientVars
<1>2. /\ FirstFd' = FirstFd /\ Fds' = Fds /\ Base' = Base /\ Slots' = Slots
      /\ \A x : FdOf(x)' = FdOf(x)
  BY <1>1 DEF FirstFd, Fds, Base, FdOf, Slots
<1>3. InUse' = InUse /\ Used' = Used
  BY <1>1, <1>2 DEF InUse, Used
<1>4. \A f : Readable(f)' <=> Readable(f)
  BY <1>1, <1>2 DEF Readable
<1>. QED BY <1>1, <1>2, <1>3, <1>4 DEF TableInv, Typed, InStep, OneEach

(* A client does not take back what it has sent, nor that it left, as long *)
(* as the server has its descriptor.                                       *)
LEMMA ClientKeepsTable ==
  ASSUME TableInv, NEW c \in Clients, Connect(c) \/ Send(c) \/ Close(c)
  PROVE  /\ TableInv' /\ InUse' = InUse /\ Used' = Used /\ Base' = Base
         /\ \A f \in Used \cup {sd} : Readable(f) => Readable(f)'
         /\ queue # <<>> => queue' # <<>>
<1>t. Typed /\ InStep /\ OneEach
  BY DEF TableInv
<1>1. UNCHANGED <<server, nopen, isopen, cd, watched, fdmax, fdtable>>
  BY DEF Connect, Send, Close, tableVars
<1>2. /\ FirstFd' = FirstFd /\ Fds' = Fds /\ Base' = Base /\ Slots' = Slots
      /\ \A x : FdOf(x)' = FdOf(x)
  BY <1>1 DEF FirstFd, Fds, Base, FdOf, Slots
<1>3. InUse' = InUse /\ Used' = Used
  BY <1>1, <1>2 DEF InUse, Used
<1>4. queue' \in Seq(Clients) /\ (queue # <<>> => queue' # <<>>)
  BY <1>t DEF Typed, Connect, Send, Close
<1>5. OneEach'
  <2>1. CASE Connect(c)
    <3>1. c \notin Queued /\ c \notin Served /\ queue' = Append(queue, c)
      BY <2>1 DEF Connect
    <3>2. \A f \in Used : fdtable[f] # c
      BY <1>t, <3>1 DEF Served, Used
    <3>3. /\ \A i \in DOMAIN queue : queue[i] # c /\ i \in Int
          /\ \A i \in DOMAIN queue' :
               IF i \in DOMAIN queue THEN queue'[i] = queue[i]
                                     ELSE i = Len(queue) + 1 /\ queue'[i] = c
      BY <1>t, <3>1 DEF Queued, Typed
    <3>. QED BY <1>1, <1>3, <1>t, <3>2, <3>3 DEF OneEach
  <2>2. CASE Send(c) \/ Close(c)
    <3>1. queue' = queue
      BY <2>2 DEF Send, Close
    <3>. QED BY <1>1, <1>3, <1>t, <3>1 DEF OneEach
  <2>. QED BY <2>1, <2>2
<1>6. TableInv'
  BY <1>1, <1>2, <1>3, <1>4, <1>5, <1>t DEF TableInv, Typed, InStep
<1>7. ASSUME NEW f \in Used \cup {sd}, Readable(f) PROVE Readable(f)'
  <2>1. CASE f = sd
    BY <1>4, <1>7, <2>1 DEF Readable
  <2>2. CASE f # sd /\ f \in Used
    <3>1. f \in Fds /\ fdtable[f] \in Served /\ (fdtable[f] \in asked \/ fdtable[f] \notin present)
      BY <1>7, <2>2 DEF Readable, Used, Served
    <3>2. fdtable[f] \in asked' \/ fdtable[f] \notin present'
      BY <3>1 DEF Connect, Send, Close
    <3>. QED BY <1>1, <1>2, <2>2, <3>1, <3>2 DEF Readable
  <2>. QED BY <2>1, <2>2
<1>. QED BY <1>2, <1>3, <1>4, <1>6, <1>7

LEMMA LoopTypedNext == LoopInv /\ [Next]_vars => LoopTyped'
<1> SUFFICES ASSUME LoopInv, [Next]_vars PROVE LoopTyped'
  OBVIOUS
<1>t. LoopTyped /\ Typed /\ InStep
  BY DEF LoopInv, TableInv
<1>r. Fds \subseteq Int
  BY <1>t, Ranges
<1> USE DEF loopVars
<1>1. CASE Wait \/ PollFails \/ Accept \/ Serve \/ Recv
  BY <1>1, <1>t DEF LoopTyped, Wait, PollFails, Accept, Serve, Recv
<1>2. CASE EpollWait
  <2>1. watched \subseteq Int
    <3>1. Used \subseteq Fds /\ watched = Used \cup {sd}
      BY <1>t DEF Used, InStep
    <3>2. sd \in Int
      BY DEF sd
    <3>. QED BY <1>r, <3>1, <3>2
  <2>2. \E f, g \in watched : result' = <<f>> \/ result' = <<f, g>>
    BY <1>2 DEF EpollWait
  <2>3. result' \in Seq(Int)
    <3>1. PICK f, g \in watched : result' = <<f>> \/ result' = <<f, g>>
      BY <2>2
    <3>2. f \in Int /\ g \in Int
      BY <2>1
    <3>3. <<f>> \in Seq(Int) /\ <<f, g>> \in Seq(Int)
      BY <3>2
    <3>. QED BY <3>1, <3>3
  <2>. QED BY <1>2, <1>t, <2>3 DEF LoopTyped, EpollWait
<1>3. CASE EpollServe
  <2>1. server' = server /\ server = "epoll" /\ pc' \in {"wait", "serve", "recv"} /\ at' \in Nat
        /\ (pc' = "wait" => at' = 0)
    BY <1>3, <1>t DEF LoopTyped, EpollServe
  <2>2. result' \in Seq(Int)
    <3>1. CASE result' = result
      BY <1>t, <2>1, <3>1 DEF LoopTyped
    <3>2. CASE result' # result
      <4>1. AcceptIt /\ nopen < ncons /\ result[at] = sd /\ at \in DOMAIN result
        BY <1>3, <1>t, <3>2 DEF EpollServe, LoopTyped, LoopInv, ReportedIsOpen
      <4>2. queue # <<>>
        BY <1>3, <4>1 DEF EpollServe, LoopInv, ReportedIsOpen
      <4>3. Min(FreeFds) \in Int
        BY <1>r, <4>1, <4>2, LowestTogether DEF LoopInv
      <4>. QED BY <1>t, <2>1, <4>1, <4>3 DEF AcceptIt, LoopTyped
    <3>. QED BY <3>1, <3>2
  <2>. QED BY <2>1, <2>2 DEF LoopTyped
<1>4. CASE EpollRecv
  BY <1>4, <1>t DEF LoopTyped, EpollRecv
<1>5. CASE (\E c \in Clients : Connect(c) \/ Send(c) \/ Close(c)) \/ UNCHANGED vars
  BY <1>5, <1>t DEF LoopTyped, Connect, Send, Close, vars
<1>. QED BY <1>1, <1>2, <1>3, <1>4, <1>5 DEF Next, Loop

(* What a step does to the tables, whatever server it is: nothing, or one  *)
(* of accept_one and handle_client, called as they are meant to be.        *)
LEMMA LoopSteps ==
  ASSUME LoopInv, [Next]_vars
  PROVE  \/ UNCHANGED <<server, tableVars, clientVars>>
         \/ server' = server /\ nopen < ncons /\ queue # <<>> /\ AcceptOne
         \/ \E s \in InUse : server' = server /\ HandleClient(cd[s], s)
         \/ \E c \in Clients : Connect(c) \/ Send(c) \/ Close(c)
<1>t. TableInv
  BY DEF LoopInv
<1>1. CASE Wait \/ PollFails \/ Serve \/ EpollWait \/ UNCHANGED vars
  BY <1>1 DEF Wait, PollFails, Serve, EpollWait, vars
<1>2. CASE Accept
  <2>1. CASE (IF server = "select" THEN sd ELSE 0) \in result /\ nopen < ncons
    <3>1. queue # <<>>
      BY <1>2, <2>1 DEF Accept, LoopInv, ReportedIsReady, LoopTyped
    <3>. QED BY <1>2, <2>1, <3>1 DEF Accept
  <2>2. CASE ~((IF server = "select" THEN sd ELSE 0) \in result /\ nopen < ncons)
    BY <1>2, <2>2 DEF Accept
  <2>. QED BY <2>1, <2>2
<1>3. CASE Recv
  <2>1. at \in InUse
    BY <1>3 DEF Recv, LoopInv, ReportedIsReady
  <2>2. PICK s \in InUse : s = at
    BY <2>1
  <2>. QED BY <1>3, <2>2 DEF Recv
<1>4. CASE EpollServe
  <2>1. CASE nopen < ncons /\ AcceptIt /\ at <= Len(result) /\ result[at] = sd
    <3>1. at \in DOMAIN result
      BY <1>4, <2>1 DEF EpollServe, LoopInv, ReportedIsOpen, LoopTyped
    <3>2. queue # <<>>
      BY <1>4, <2>1, <3>1 DEF EpollServe, LoopInv, ReportedIsOpen
    <3>. QED BY <1>4, <2>1, <3>2 DEF EpollServe, AcceptIt
  <2>2. CASE UNCHANGED <<tableVars, clientVars>>
    BY <1>4, <2>2 DEF EpollServe
  <2>. QED BY <1>4, <2>1, <2>2 DEF EpollServe, LoopInv, LoopTyped
<1>5. CASE EpollRecv
  <2>1. server = "epoll" /\ server' = server /\ result[at] \in Used
    BY <1>5 DEF EpollRecv, LoopInv, ReportedIsOpen
  <2>2. PICK f \in Used : f = result[at]
    BY <2>1
  <2>3. PICK s \in InUse : cd[s] = f /\ s = Min({x \in 0..ncons - 1 : cd[x] = f})
    BY <1>t, <2>1, FoundByDescriptor
  <2>4. HandleClient(cd[s], s)
    BY <1>5, <2>2, <2>3 DEF EpollRecv
  <2>. QED BY <2>1, <2>4
<1>. QED BY <1>1, <1>2, <1>3, <1>4, <1>5 DEF Next, Loop

LEMMA TableNext == LoopInv /\ [Next]_vars => TableInv'
<1> SUFFICES ASSUME LoopInv, [Next]_vars PROVE TableInv'
  OBVIOUS
<1>1. TableInv
  BY DEF LoopInv
<1>. QED BY <1>1, LoopSteps, TableFrame, AcceptKeepsTable, HandleEnds, ClientKeepsTable

(* What stays ready when a slot is taken, and when one is served.          *)
LEMMA ReadyAfterAccept ==
  ASSUME TableInv, server' = server,
         NEW fd \in Fds \ Used, NEW c, fdtable' = [fdtable EXCEPT ![fd] = c],
         UNCHANGED <<present, asked>>, NEW f \in Used, Readable(f)
  PROVE  Readable(f)'
<1>1. f \in Fds /\ f # fd /\ f # sd /\ Fds' = Fds
  <2>1. Typed /\ f \in Fds /\ f # fd
    BY DEF TableInv, Used
  <2>2. f # sd
    BY <2>1, Ranges DEF sd
  <2>. QED BY <2>1, <2>2 DEF Fds, FirstFd
<1>2. fdtable'[f] = fdtable[f]
  BY <1>1 DEF TableInv, Typed
<1>. QED BY <1>1, <1>2 DEF Readable

LEMMA ReadyAfterHandling ==
  ASSUME TableInv, server' = server, NEW s \in InUse, Answered(cd[s]) \/ Closed(s),
         NEW f \in Used, f # cd[s], Readable(f)
  PROVE  Readable(f)' /\ f \in Used' /\ cd' = cd /\ queue' = queue
<1>t. Typed /\ InStep /\ OneEach
  BY DEF TableInv
<1>1. f \in Fds /\ Fds' = Fds /\ f # sd /\ cd[s] \in Used
  <2>1. Typed /\ f \in Fds
    BY DEF TableInv, Used
  <2>2. f # sd
    BY <2>1, Ranges DEF sd
  <2>. QED BY <1>t, <2>1, <2>2 DEF Fds, FirstFd, InStep
<1>2. fdtable[f] # fdtable[cd[s]]
  BY <1>1, <1>t DEF OneEach
<1>3. CASE Answered(cd[s])
  <2>1. UNCHANGED <<cd, fdtable, queue, present>> /\ asked' = asked \ {fdtable[cd[s]]}
    BY <1>3 DEF Answered, tableVars
  <2>. QED BY <1>1, <1>2, <2>1 DEF Readable, Used
<1>4. CASE Closed(s)
  <2>1. UNCHANGED <<cd, queue, present, asked>> /\ Used' = Used \ {cd[s]}
        /\ fdtable' = [fdtable EXCEPT ![cd[s]] = NoClient]
    BY <1>4 DEF Closed, clientVars
  <2>2. fdtable'[f] = fdtable[f]
    BY <1>1, <1>t, <2>1 DEF Typed
  <2>. QED BY <1>1, <2>1, <2>2 DEF Readable
<1>. QED BY <1>3, <1>4

(* The loop of select() and of poll().                                     *)
LEMMA ReadyNext == LoopInv /\ [Next]_vars => ReportedIsReady'
<1> SUFFICES ASSUME LoopInv, [Next]_vars, server' # "epoll", pc' \notin {"wait", "dead"}
             PROVE  ReportedIsReady'
  BY DEF ReportedIsReady
<1>t. TableInv /\ TableInv' /\ LoopTyped /\ LoopTyped' /\ Typed /\ InStep /\ Typed' /\ InStep'
  BY TableNext, LoopTypedNext DEF LoopInv, TableInv
<1>r. /\ FirstFd > sd /\ Base \in 0..1 /\ (Base = 1 <=> server = "poll") /\ Slots = 0..ncons
      /\ Fds \subseteq Int
  BY <1>t, Ranges
<1>q. LoopInv /\ pc \notin {"wait", "dead"} /\ server # "epoll" =>
    /\ \A s \in InUse : s >= at /\ (IF server = "select" THEN cd[s] ELSE s) \in result
                          => Readable(cd[s])
    /\ pc = "accept" =>
         /\ IF server = "select" THEN result \subseteq Used \cup {sd}
                                 ELSE result \subseteq InUse \cup {0}
         /\ (IF server = "select" THEN sd ELSE 0) \in result => queue # <<>>
    /\ pc = "recv" => at \in InUse /\ (IF server = "select" THEN cd[at] ELSE at) \in result
    /\ pc \in {"serve", "recv"} => at >= Base
  BY DEF LoopInv, ReportedIsReady
<1>s. \A s \in InUse : s \in Int /\ s >= Base /\ s \in Slots
  BY <1>r, <1>t, NconsAssumption DEF InStep
<1>1. CASE Wait
  <2>1. /\ UNCHANGED <<server, cd, isopen, at>> /\ pc = "wait" /\ pc' = "accept"
        /\ UNCHANGED <<tableVars, clientVars>>
        /\ result' = IF server = "select"
                 THEN {f \in watched : f <= fdmax /\ Readable(f)}
                 ELSE {s \in 0..fdmax : IF s = 0 THEN Readable(sd)
                         ELSE s \in isopen /\ cd[s] \in watched /\ Readable(cd[s])}
    BY <1>1 DEF Wait, tableVars
  <2>2. InUse' = InUse /\ Used' = Used /\ \A f : Readable(f)' <=> Readable(f)
    BY <1>t, <2>1, TableFrame
  <2>3. CASE server = "select"
    <3>1. watched = Used \cup {sd} /\ result' \subseteq watched /\ \A f \in result' : Readable(f)
      BY <1>t, <2>1, <2>3 DEF InStep
    <3>2. sd \in result' => queue' # <<>>
      BY <2>1, <2>2, <3>1 DEF Readable, clientVars
    <3>. QED BY <2>1, <2>2, <2>3, <3>1, <3>2 DEF ReportedIsReady
  <2>4. CASE server # "select"
    <3>0. server = "poll" /\ Base = 1
      BY <1>r, <1>t, <2>1, <2>4 DEF Typed
    <3>1. \A s \in result' : IF s = 0 THEN Readable(sd) ELSE s \in InUse /\ Readable(cd[s])
      BY <2>1, <2>4 DEF InUse
    <3>2. 0 \in result' => queue' # <<>>
      BY <2>1, <2>2, <3>1 DEF Readable, clientVars
    <3>3. \A s \in InUse : s # 0
      BY <1>s, <3>0
    <3>. QED BY <2>1, <2>2, <2>4, <3>1, <3>2, <3>3 DEF ReportedIsReady
  <2>. QED BY <2>3, <2>4
<1>2. CASE Accept
  <2>1. /\ server' = server /\ server # "epoll" /\ pc = "accept" /\ pc' = "serve" /\ at = 0
        /\ at' = Base /\ result' = result /\ Base' = Base
    BY <1>2, <1>t DEF Accept, LoopTyped, Base
  <2>2. CASE (IF server = "select" THEN sd ELSE 0) \in result /\ nopen < ncons
    <3>1. queue # <<>> /\ AcceptOne
      BY <1>2, <1>q, <2>1, <2>2 DEF Accept
    <3>2. PICK ci \in Base .. ncons - 1 + Base, fd \in Fds \ Used :
             /\ ci \notin InUse /\ InUse' = InUse \cup {ci}
             /\ cd' = [cd EXCEPT ![ci] = fd] /\ fdtable' = [fdtable EXCEPT ![fd] = queue[1]]
             /\ UNCHANGED <<present, asked>>
      BY <1>t, <2>1, <2>2, <3>1, AcceptTakes
    <3>3. ci \in Slots /\ ci \in Int /\ ci >= Base
      BY <1>r, NconsAssumption
    <3>4. fd # sd
      BY <1>t, <3>2, Ranges DEF sd
    <3>5. \A s \in Slots : cd'[s] = IF s = ci THEN fd ELSE cd[s]
      BY <1>t, <3>2 DEF Typed
    <3>6. (IF server = "select" THEN fd ELSE ci) \notin result
      <4>1. CASE server = "select"
        BY <1>q, <2>1, <3>2, <3>4, <4>1
      <4>2. CASE server # "select"
        <5>1. ci # 0
          BY <1>r, <1>t, <2>1, <3>3, <4>2 DEF Typed
        <5>. QED BY <1>q, <2>1, <3>2, <4>2, <5>1
      <4>. QED BY <4>1, <4>2
    <3>7. ASSUME NEW s \in InUse', s >= at',
                 (IF server = "select" THEN cd'[s] ELSE s) \in result
          PROVE  Readable(cd[s])' /\ s \in InUse
      <4>1. s \in InUse /\ s # ci /\ cd'[s] = cd[s] /\ s >= at /\ s \in Slots
        <5>1. s # ci
          BY <3>3, <3>5, <3>6, <3>7
        <5>2. s \in InUse /\ s \in Slots /\ s \in Int /\ s >= Base
          BY <1>s, <3>2, <3>7, <5>1
        <5>. QED BY <1>r, <2>1, <3>5, <5>1, <5>2
      <4>2. Readable(cd[s]) /\ cd[s] \in Used
        BY <1>q, <1>t, <2>1, <3>7, <4>1 DEF InStep
      <4>3. PICK f \in Used : f = cd[s]
        BY <4>2
      <4>4. PICK c : c = queue[1]
        OBVIOUS
      <4>5. Readable(f)'
        BY <1>t, <2>1, <3>2, <4>2, <4>3, <4>4, ReadyAfterAccept
      <4>. QED BY <4>1, <4>3, <4>5
    <3>. QED BY <1>r, <2>1, <3>7 DEF ReportedIsReady
  <2>3. CASE UNCHANGED <<tableVars, clientVars>>
    <3>1. InUse' = InUse /\ \A f : Readable(f)' <=> Readable(f)
      BY <1>t, <2>1, <2>3, TableFrame
    <3>2. \A s \in InUse : s >= at
      BY <1>r, <1>s, <2>1
    <3>. QED BY <1>q, <1>r, <2>1, <2>3, <3>1, <3>2 DEF ReportedIsReady, tableVars
  <2>. QED BY <1>2, <2>2, <2>3 DEF Accept
<1>3. CASE Serve
  <2>1. /\ UNCHANGED <<server, tableVars, clientVars, cd, result>> /\ server # "epoll"
        /\ pc = "serve" /\ pc' \in {"serve", "recv"} /\ (at' = at \/ at' = at + 1)
        /\ pc' = "recv" => /\ at \in isopen /\ at' = at
                           /\ (IF server = "select" THEN cd[at] ELSE at) \in result
    BY <1>3 DEF Serve, tableVars
  <2>2. InUse' = InUse /\ Base' = Base /\ \A f : Readable(f)' <=> Readable(f)
    BY <1>t, <2>1, TableFrame
  <2>3. at \in Int /\ at >= Base
    BY <1>q, <1>t, <2>1 DEF LoopTyped
  <2>4. at \in isopen => at \in InUse
    BY <1>r, <2>3 DEF InUse
  <2>. QED BY <1>q, <1>r, <1>s, <2>1, <2>2, <2>3, <2>4 DEF ReportedIsReady
<1>4. CASE Recv
  <2>1. /\ server' = server /\ server # "epoll" /\ pc = "recv" /\ pc' = "serve"
        /\ at' = at + 1 /\ result' = result /\ HandleClient(cd[at], at)
        /\ at \in Int /\ at >= Base /\ at \in InUse /\ Base' = Base
    BY <1>4, <1>q, <1>t DEF Recv, LoopTyped, Base
  <2>2. PICK r \in InUse : r = at
    BY <2>1
  <2>3. Answered(cd[r]) \/ Closed(r)
    BY <1>t, <2>1, <2>2, HandleEnds
  <2>4. cd' = cd /\ InUse' \subseteq InUse
    BY <2>1, <2>3 DEF Answered, Closed, tableVars, InUse
  <2>5. ASSUME NEW s \in InUse', s >= at', (IF server = "select" THEN cd[s] ELSE s) \in result
        PROVE  Readable(cd[s])'
    <3>1. s \in InUse /\ s # r /\ s >= at /\ s \in Int /\ r \in Int
      BY <1>s, <2>1, <2>2, <2>4, <2>5
    <3>2. Readable(cd[s]) /\ cd[s] \in Used
      BY <1>q, <1>t, <2>1, <2>5, <3>1 DEF InStep
    <3>3. cd[s] # cd[r]
      BY <1>r, <1>t, <3>1, Ranges DEF InStep, FdOf
    <3>4. PICK f \in Used : f = cd[s]
      BY <3>2
    <3>5. Readable(f)'
      BY <1>t, <2>1, <2>3, <3>2, <3>3, <3>4, ReadyAfterHandling
    <3>. QED BY <2>4, <3>4, <3>5
  <2>. QED BY <1>r, <2>1, <2>4, <2>5 DEF ReportedIsReady
<1>5. CASE PollFails \/ EpollWait \/ EpollServe \/ EpollRecv
  BY <1>5 DEF PollFails, EpollWait, EpollServe, EpollRecv
<1>6. ASSUME NEW c \in Clients, Connect(c) \/ Send(c) \/ Close(c)
      PROVE  ReportedIsReady'
  <2>1. UNCHANGED <<server, cd, pc, at, result>>
    BY <1>6 DEF Connect, Send, Close, loopVars, tableVars
  <2>2. /\ InUse' = InUse /\ Used' = Used /\ Base' = Base
        /\ \A f \in Used \cup {sd} : Readable(f) => Readable(f)'
        /\ queue # <<>> => queue' # <<>>
    BY <1>6, <1>t, ClientKeepsTable
  <2>3. ASSUME NEW s \in InUse, Readable(cd[s]) PROVE Readable(cd[s])'
    <3>1. PICK f \in Used : f = cd[s]
      BY <1>t DEF InStep
    <3>. QED BY <2>1, <2>2, <2>3, <3>1
  <2>. QED BY <1>q, <2>1, <2>2, <2>3 DEF ReportedIsReady
<1>7. CASE UNCHANGED vars
  <2>1. UNCHANGED <<server, cd, pc, at, result, queue>> /\ UNCHANGED <<tableVars, clientVars>>
    BY <1>7 DEF vars, tableVars, loopVars, clientVars
  <2>2. InUse' = InUse /\ Used' = Used /\ Base' = Base /\ \A f : Readable(f)' <=> Readable(f)
    BY <1>t, <2>1, TableFrame
  <2>. QED BY <1>q, <2>1, <2>2 DEF ReportedIsReady
<1>. QED BY <1>1, <1>2, <1>3, <1>4, <1>5, <1>6, <1>7 DEF Next, Loop

(* The loop of epoll.                                                      *)
LEMMA OpenNext == LoopInv /\ [Next]_vars => ReportedIsOpen'
<1> SUFFICES ASSUME LoopInv, [Next]_vars, server' = "epoll", pc' # "wait" PROVE ReportedIsOpen'
  BY DEF ReportedIsOpen
<1>t. TableInv /\ TableInv' /\ LoopTyped /\ LoopTyped' /\ Typed /\ InStep /\ Typed' /\ InStep'
  BY TableNext, LoopTypedNext DEF LoopInv, TableInv
<1>r. FirstFd > sd /\ sd \notin Used /\ Fds \subseteq Int
  BY <1>t, Ranges DEF sd, Used
<1>q. pc # "wait" /\ server = "epoll" =>
    /\ Len(result) <= 2 /\ at >= 1
    /\ \A i \in DOMAIN result : i >= at =>
         result[i] \in Used \cup {sd} /\ (result[i] = sd => queue # <<>>)
    /\ at = 1 => 1 \in DOMAIN result /\ Readable(result[1])
    /\ at = 1 /\ 2 \in DOMAIN result => result[1] # result[2]
    /\ pc = "recv" => at \in DOMAIN result /\ result[at] # sd
  BY DEF LoopInv, ReportedIsOpen
<1>1. CASE EpollWait
  <2>1. /\ UNCHANGED <<server, tableVars, clientVars>> /\ pc' = "serve" /\ at' = 1
        /\ \E f \in watched : Readable(f) /\
             \/ result' = <<f>>
             \/ \E g \in watched \ {f} : Readable(g) /\ result' = <<f, g>>
    BY <1>1 DEF EpollWait
  <2>2. Used' = Used /\ (\A f : Readable(f)' <=> Readable(f)) /\ queue' = queue
    BY <1>t, <2>1, TableFrame DEF clientVars
  <2>3. \A f \in watched : f \in Used \cup {sd} /\ (Readable(f) /\ f = sd => queue # <<>>)
    BY <1>t DEF InStep, Readable
  <2>4. PICK f \in watched, g \in watched :
          Readable(f) /\ (result' = <<f>> \/ (g # f /\ Readable(g) /\ result' = <<f, g>>))
    BY <2>1
  <2>5. CASE result' = <<f>>
    BY <2>1, <2>2, <2>3, <2>4, <2>5 DEF ReportedIsOpen
  <2>6. CASE g # f /\ Readable(g) /\ result' = <<f, g>>
    BY <2>1, <2>2, <2>3, <2>4, <2>6 DEF ReportedIsOpen
  <2>. QED BY <2>4, <2>5, <2>6
<1>2. CASE EpollServe
  <2>1. /\ server = "epoll" /\ server' = server /\ pc = "serve" /\ at <= Len(result)
        /\ at \in DOMAIN result /\ at \in Int /\ at >= 1 /\ result \in Seq(Int)
    BY <1>2, <1>q, <1>t DEF EpollServe, LoopTyped
  <2>2. CASE result[at] # sd
    <3>1. UNCHANGED <<tableVars, clientVars, result, at, queue>> /\ pc' = "recv"
      BY <1>2, <2>1, <2>2 DEF EpollServe, clientVars
    <3>2. Used' = Used /\ \A f : Readable(f)' <=> Readable(f)
      BY <1>t, <2>1, <3>1, TableFrame
    <3>. QED BY <1>q, <2>1, <2>2, <3>1, <3>2 DEF ReportedIsOpen
  <2>3. CASE result[at] = sd /\ ~(nopen < ncons)
    <3>1. UNCHANGED <<tableVars, clientVars, result, queue>> /\ at' = at + 1 /\ pc' = "serve"
      BY <1>2, <2>1, <2>3 DEF EpollServe, clientVars
    <3>2. Used' = Used
      BY <1>t, <2>1, <3>1, TableFrame
    <3>. QED BY <1>q, <2>1, <3>1, <3>2 DEF ReportedIsOpen
  <2>4. CASE result[at] = sd /\ nopen < ncons
    <3>1. AcceptIt /\ AcceptOne /\ at' = at + 1 /\ pc' = "serve" /\ queue # <<>>
      BY <1>2, <1>q, <2>1, <2>4 DEF EpollServe, AcceptIt
    <3>2. \E ci \in Base .. ncons - 1 + Base, fd \in Fds \ Used :
            fd = Min(FreeFds) /\ Used' = Used \cup {fd}
      BY <1>t, <2>1, <2>4, <3>1, AcceptTakes
    <3>3. PICK fd \in Fds \ Used : fd = Min(FreeFds) /\ Used' = Used \cup {fd}
      BY <3>2
    <3>4. fd # sd
      BY <1>t, Ranges DEF sd
    <3>5. PICK i : i = FreeSlot(isopen) + 1
      OBVIOUS
    <3>6. result' = IF i \in DOMAIN result THEN [result EXCEPT ![i] = fd] ELSE result
      BY <3>1, <3>3, <3>5 DEF AcceptIt
    <3>7. /\ Len(result') = Len(result) /\ DOMAIN result' = DOMAIN result
          /\ \A k \in DOMAIN result : result'[k] \in {result[k], fd}
      BY <2>1, <3>6
    <3>8. ASSUME NEW k \in DOMAIN result, k >= at + 1
          PROVE  result'[k] \in Used' /\ result'[k] # sd
      <4>1. at = 1 /\ k = 2
        BY <1>q, <2>1, <3>8
      <4>2. result[k] \in Used /\ result[k] # sd
        BY <1>q, <2>1, <2>4, <4>1
      <4>. QED BY <3>3, <3>4, <3>7, <4>2
    <3>. QED BY <1>q, <2>1, <3>1, <3>7, <3>8 DEF ReportedIsOpen
  <2>. QED BY <2>2, <2>3, <2>4
<1>3. CASE EpollRecv
  <2>1. /\ server = "epoll" /\ server' = server /\ pc = "recv" /\ pc' = "serve"
        /\ at' = at + 1 /\ result' = result /\ at \in DOMAIN result /\ result[at] \in Used
        /\ result \in Seq(Int) /\ at \in Int /\ at >= 1
    BY <1>3, <1>q, <1>t DEF EpollRecv, LoopTyped
  <2>2. PICK f \in Used : f = result[at]
    BY <2>1
  <2>3. PICK s \in InUse : cd[s] = f /\ s = Min({x \in 0..ncons - 1 : cd[x] = f})
    BY <1>t, <2>1, FoundByDescriptor
  <2>4. HandleClient(cd[s], s)
    BY <1>3, <2>2, <2>3 DEF EpollRecv
  <2>5. Answered(f) \/ Closed(s)
    BY <1>t, <2>1, <2>3, <2>4, HandleEnds
  <2>6. queue' = queue /\ \A g \in Used : g # f => g \in Used'
    BY <2>1, <2>3, <2>5 DEF Answered, Closed, tableVars, clientVars, Used, Fds, FirstFd
  <2>7. ASSUME NEW k \in DOMAIN result, k >= at + 1
        PROVE  result[k] \in Used' \cup {sd} /\ (result[k] = sd => queue' # <<>>)
    <3>1. at = 1 /\ k = 2
      BY <1>q, <2>1, <2>7
    <3>2. result[k] # f
      BY <1>q, <2>1, <2>2, <3>1
    <3>. QED BY <1>q, <2>1, <2>6, <3>1, <3>2
  <2>8. at' >= 1 /\ at' # 1 /\ Len(result) <= 2
    BY <1>q, <2>1
  <2>9. \A k \in DOMAIN result' : k >= at' =>
          result'[k] \in Used' \cup {sd} /\ (result'[k] = sd => queue' # <<>>)
    BY <2>1, <2>7
  <2>. QED BY <2>1, <2>8, <2>9 DEF ReportedIsOpen
<1>4. CASE Wait \/ PollFails \/ Accept \/ Serve \/ Recv
  BY <1>4, <1>t DEF Wait, PollFails, Accept, Serve, Recv, LoopTyped
<1>5. ASSUME NEW c \in Clients, Connect(c) \/ Send(c) \/ Close(c)
      PROVE  ReportedIsOpen'
  <2>1. UNCHANGED <<server, pc, at, result>>
    BY <1>5 DEF Connect, Send, Close, loopVars
  <2>2. /\ Used' = Used
        /\ \A f \in Used \cup {sd} : Readable(f) => Readable(f)'
        /\ queue # <<>> => queue' # <<>>
    BY <1>5, <1>t, ClientKeepsTable
  <2>3. pc # "wait" /\ server = "epoll"
    BY <2>1
  <2>4. at = 1 => Readable(result[1])'
    <3> SUFFICES ASSUME at = 1 PROVE Readable(result[1])'
      OBVIOUS
    <3>1. PICK f \in Used \cup {sd} : f = result[1]
      BY <1>q, <2>3
    <3>2. Readable(f)'
      BY <1>q, <2>2, <2>3, <3>1
    <3>. QED BY <2>1, <3>1, <3>2
  <2>5. \A i \in DOMAIN result : i >= at =>
          result[i] \in Used' \cup {sd} /\ (result[i] = sd => queue' # <<>>)
    BY <1>q, <2>2, <2>3
  <2>. QED BY <1>q, <2>1, <2>3, <2>4, <2>5 DEF ReportedIsOpen
<1>6. CASE UNCHANGED vars
  <2>1. UNCHANGED <<server, pc, at, result, queue>> /\ UNCHANGED <<tableVars, clientVars>>
    BY <1>6 DEF vars, loopVars, clientVars
  <2>2. Used' = Used /\ \A f : Readable(f)' <=> Readable(f)
    BY <1>t, <2>1, TableFrame
  <2>. QED BY <1>q, <2>1, <2>2 DEF ReportedIsOpen
<1>. QED BY <1>1, <1>2, <1>3, <1>4, <1>5, <1>6 DEF Next, Loop

LEMMA LoopNext == LoopInv /\ [Next]_vars => LoopInv'
BY TableNext, LoopTypedNext, ReadyNext, OpenNext DEF LoopInv

(* Slots in use and open descriptors stay in step, on all three servers,   *)
(* for any clients and any number of slots.                                *)
THEOREM SlotsFollow == Spec => []SlotFollowsDescriptor
<1>1. LoopInv => SlotFollowsDescriptor
  <2> SUFFICES ASSUME LoopInv PROVE SlotFollowsDescriptor
    OBVIOUS
  <2>1. TableInv /\ Typed /\ InStep
    BY DEF LoopInv, TableInv
  <2>r. /\ FirstFd \in Int /\ FirstFd > sd /\ Base \in 0..1 /\ ncons \in Nat
        /\ Fds \subseteq Int
    BY <2>1, Ranges
  <2>2. nopen = Cardinality(InUse)
        /\ InUse \subseteq IF server = "poll" THEN 1..ncons ELSE 0..ncons - 1
    BY <2>1, <2>r DEF InStep, Base
  <2>3. ASSUME NEW s \in InUse
        PROVE  /\ cd[s] = FirstFd + s - (IF server = "poll" THEN 1 ELSE 0)
               /\ fdtable[cd[s]] # NoClient /\ cd[s] <= fdmax /\ s <= fdmax
    <3>1. cd[s] = FdOf(s) /\ FdOf(s) \in Used /\ FdOf(s) <= fdmax
      BY <2>1 DEF InStep
    <3>2. s \in Int /\ fdmax \in Int
      BY <2>1, <2>r DEF InStep, Typed
    <3>3. s <= FdOf(s) /\ FdOf(s) \in Int
      BY <2>r, <3>2 DEF FdOf, sd
    <3>4. s <= fdmax
      BY <3>1, <3>2, <3>3
    <3>. QED BY <3>1, <3>4 DEF FdOf, Base, Used
  <2>4. ASSUME NEW f \in Fds, fdtable[f] # NoClient
        PROVE  f \in watched /\ \E s \in InUse : cd[s] = f
    <3>1. f \in Used /\ f \in Int
      BY <2>4, <2>r DEF Used
    <3>2. f - FirstFd + Base \in InUse /\ FdOf(f - FirstFd + Base) = f
      BY <2>1, <2>r, <3>1 DEF InStep, FdOf
    <3>. QED BY <2>1, <3>1, <3>2 DEF InStep
  <2>. QED BY <2>2, <2>3, <2>4 DEF SlotFollowsDescriptor
<1>. QED BY <1>1, LoopInit, LoopNext, PTL DEF Spec

(* One silent client cannot stop the servers of select() and poll(), nor   *)
(* the server of epoll() before the second of two results.                 *)
THEOREM NoBlockInRecv == Spec => []NeverBlocksInRecv
<1>1. LoopInv => NeverBlocksInRecv
  <2> SUFFICES ASSUME LoopInv, pc = "recv"
               PROVE  IF server = "epoll" THEN at = 2 \/ Readable(result[at]) ELSE Readable(cd[at])
    BY DEF NeverBlocksInRecv
  <2>1. CASE server = "epoll"
    <3>1. at \in Nat /\ at >= 1 /\ Len(result) <= 2 /\ at \in DOMAIN result
          /\ result \in Seq(Int) /\ (at = 1 => Readable(result[1]))
      BY <2>1 DEF LoopInv, LoopTyped, ReportedIsOpen
    <3>2. at = 1 \/ at = 2
      BY <3>1
    <3>. QED BY <2>1, <3>1, <3>2
  <2>2. CASE server # "epoll"
    <3>1. /\ at \in InUse /\ (IF server = "select" THEN cd[at] ELSE at) \in result /\ at \in Nat
          /\ \A s \in InUse : s >= at /\ (IF server = "select" THEN cd[s] ELSE s) \in result
                          => Readable(cd[s])
      BY <2>2 DEF LoopInv, LoopTyped, ReportedIsReady
    <3>2. at >= at
      BY <3>1
    <3>. QED BY <2>2, <3>1, <3>2
  <2>. QED BY <2>1, <2>2
<1>. QED BY <1>1, LoopInit, LoopNext, PTL DEF Spec

-----------------------------------------------------------------------------
(***************************************************************************)
(* Each server as a ConnectionPool.  The clients behind the slots in use   *)
(* are those behind the open descriptors, so that only accept() and        *)
(* handle_client change who is served.                                     *)
(***************************************************************************)
(* The pool counts as the server does.                                     *)
LEMMA PoolCounts == \A S : Pool!Cardinality(S) = Cardinality(S)
BY DEF Pool!Cardinality, Cardinality

(* The clients the server serves.                                          *)
ServedNow    == {fdtable[cd[s]] : s \in InUse}
ByDescriptor == {fdtable[f] : f \in Used}

LEMMA ServedByDescriptor ==
  TableInv => ServedNow = ByDescriptor /\ ServedNow = Served
<1> SUFFICES ASSUME TableInv
             PROVE  ServedNow = ByDescriptor /\ ServedNow = Served
  BY DEF ByDescriptor
<1>t. Typed /\ InStep
  BY DEF TableInv
<1>r. FirstFd \in Int /\ Base \in 0..1 /\ Fds \subseteq Int
  BY <1>t, Ranges
<1>1. \A s \in InUse : cd[s] \in Used
  BY <1>t DEF InStep
<1>2. ASSUME NEW f \in Used PROVE \E s \in InUse : cd[s] = f
  <2>1. f \in Int
    BY <1>r DEF Used
  <2>2. f - FirstFd + Base \in InUse /\ FdOf(f - FirstFd + Base) = f
    BY <1>r, <1>t, <2>1 DEF InStep, FdOf
  <2>. QED BY <1>t, <2>2 DEF InStep
<1>3. ServedNow = {fdtable[f] : f \in Used}
  BY <1>1, <1>2 DEF ServedNow
<1>4. Served = {fdtable[f] : f \in Used}
  BY DEF Served, Used
<1>. QED BY <1>3, <1>4 DEF ByDescriptor

LEMMA PoolHasRoom ==
  ASSUME TableInv, nopen < ncons
  PROVE  Cardinality(ServedNow) < ncons
<1>t. Typed /\ InStep
  BY DEF TableInv
<1>1. IsFiniteSet(InUse) /\ Cardinality(InUse) = nopen
  <2>1. Base \in 0..1 /\ ncons \in Nat
    BY <1>t, Ranges
  <2>2. IsFiniteSet(0..ncons)
    BY <2>1, FS_Interval
  <2>3. InUse \subseteq 0..ncons
    BY <1>t, <2>1 DEF InStep
  <2>. QED BY <1>t, <2>2, <2>3, FS_Subset DEF InStep
<1> DEFINE f == [s \in InUse |-> fdtable[cd[s]]]
<1>2. ServedNow \subseteq {f[s] : s \in InUse}
  BY DEF ServedNow
<1>3. IsFiniteSet(ServedNow) /\ Cardinality(ServedNow) <= Cardinality(InUse)
  <2> HIDE DEF f
  <2>. QED BY <1>1, <1>2, ImageBound
<1>4. Cardinality(ServedNow) \in Nat
  BY <1>3, FS_CardinalityType
<1>. QED BY <1>1, <1>3, <1>4, <1>t, NconsAssumption DEF Typed

LEMMA AcceptServes ==
  ASSUME TableInv, TableInv', nopen < ncons, queue # <<>>, server' = server, AcceptOne
  PROVE  Pool!Next
<1>t. Typed /\ OneEach
  BY DEF TableInv
<1>1. PICK fd \in Fds \ Used :
        /\ Used' = Used \cup {fd} /\ fdtable' = [fdtable EXCEPT ![fd] = queue[1]]
        /\ UNCHANGED <<present, asked>>
  BY AcceptTakes
<1>2. PICK c \in Clients : c = queue[1] /\ 1 \in DOMAIN queue
  BY <1>t DEF Typed
<1>3. ServedNow = {fdtable[f] : f \in Used} /\ ServedNow' = {fdtable'[f] : f \in Used'}
  <2>1. TableInv' => (ServedNow = ByDescriptor)'
    BY ServedByDescriptor, PTL
  <2>. QED BY <2>1, ServedByDescriptor DEF ByDescriptor
<1>4. \A f \in Used' : fdtable'[f] = IF f = fd THEN c ELSE fdtable[f]
  BY <1>1, <1>2, <1>t DEF Typed, Used
<1>5. ServedNow' = ServedNow \cup {c}
  BY <1>1, <1>3, <1>4
<1>6. c \notin ServedNow
  BY <1>2, <1>3, <1>t DEF OneEach
<1>7. Pool!Cardinality(ServedNow) < ncons
  BY PoolHasRoom, PoolCounts
<1>8. Pool!Serve(c)
  BY <1>1, <1>5, <1>6, <1>7 DEF Pool!Serve, ServedNow
<1>. QED BY <1>8 DEF Pool!Next

LEMMA HandlingAnswers ==
  ASSUME TableInv, TableInv', server' = server, NEW s \in InUse, Answered(cd[s]) \/ Closed(s)
  PROVE  Pool!Next
<1>t. Typed /\ InStep /\ OneEach
  BY DEF TableInv
<1>1. PICK f \in Used : f = cd[s]
  BY <1>t DEF InStep
<1>2. PICK c \in Clients : c = fdtable[f]
  BY <1>t DEF Typed, Used
<1>3. ServedNow = {fdtable[g] : g \in Used} /\ ServedNow' = {fdtable'[g] : g \in Used'}
  <2>1. TableInv' => (ServedNow = ByDescriptor)'
    BY ServedByDescriptor, PTL
  <2>. QED BY <2>1, ServedByDescriptor DEF ByDescriptor
<1>4. c \in ServedNow
  BY <1>2, <1>3
<1>5. CASE Answered(cd[s])
  <2>1. /\ c \in asked /\ asked' = asked \ {c} /\ UNCHANGED <<present, fdtable>>
        /\ Used' = Used
    BY <1>1, <1>2, <1>5 DEF Answered, tableVars, Used, Fds, FirstFd
  <2>2. ServedNow' = ServedNow
    BY <1>3, <2>1
  <2>3. Pool!Answer(c)
    BY <1>4, <2>1, <2>2 DEF Pool!Answer, ServedNow
  <2>. QED BY <2>3 DEF Pool!Next
<1>6. CASE Closed(s)
  <2>1. /\ c \notin asked \cup present /\ UNCHANGED <<present, asked>>
        /\ Used' = Used \ {f} /\ fdtable' = [fdtable EXCEPT ![f] = NoClient]
    BY <1>1, <1>2, <1>6 DEF Closed, clientVars
  <2>2. \A g \in Used' : g \in Used /\ fdtable'[g] = fdtable[g] /\ fdtable[g] # c
    BY <1>2, <1>t, <2>1 DEF Typed, Used, OneEach
  <2>3. ServedNow' = ServedNow \ {c}
    BY <1>2, <1>3, <2>1, <2>2
  <2>4. Pool!LetGo(c)
    BY <1>4, <2>1, <2>3 DEF Pool!LetGo, ServedNow
  <2>. QED BY <2>4 DEF Pool!Next
<1>. QED BY <1>5, <1>6

(* Every step of a server is a step of the pool, or none.                  *)
LEMMA PoolNext == LoopInv /\ [Next]_vars => [Pool!Next]_Pool!poolVars
<1> SUFFICES ASSUME LoopInv, [Next]_vars PROVE [Pool!Next]_Pool!poolVars
  OBVIOUS
<1>t. TableInv /\ TableInv'
  BY TableNext DEF LoopInv
<1>i. \/ UNCHANGED <<server, tableVars, clientVars>>
      \/ server' = server /\ nopen < ncons /\ queue # <<>> /\ AcceptOne
      \/ \E s \in InUse : server' = server /\ HandleClient(cd[s], s)
      \/ \E c \in Clients : Connect(c) \/ Send(c) \/ Close(c)
  BY LoopSteps
<1>1. CASE UNCHANGED <<server, tableVars, clientVars>>
  <2>1. UNCHANGED <<present, asked, fdtable, cd>> /\ InUse' = InUse
    BY <1>1, <1>t, TableFrame DEF tableVars, clientVars
  <2>2. UNCHANGED Pool!poolVars
    BY <2>1 DEF Pool!poolVars
  <2>. QED BY <2>2
<1>2. CASE server' = server /\ nopen < ncons /\ queue # <<>> /\ AcceptOne
  BY <1>2, <1>t, AcceptServes
<1>3. ASSUME NEW s \in InUse, server' = server, HandleClient(cd[s], s)
      PROVE  Pool!Next
  BY <1>3, <1>t, HandleEnds, HandlingAnswers
<1>4. ASSUME NEW c \in Clients, Connect(c) \/ Send(c) \/ Close(c)
      PROVE  Pool!Next
  <2>1. UNCHANGED <<fdtable, cd>> /\ InUse' = InUse
    BY <1>4, <1>t, ClientKeepsTable DEF Connect, Send, Close, tableVars
  <2>2. ServedNow' = ServedNow /\ ServedNow = Served
    BY <1>t, <2>1, ServedByDescriptor DEF ServedNow
  <2>3. CASE Connect(c)
    <3>1. Pool!Come(c)
      BY <2>2, <2>3 DEF Connect, Pool!Come, ServedNow
    <3>. QED BY <3>1 DEF Pool!Next
  <2>4. CASE Send(c)
    <3>1. Pool!Ask(c)
      BY <2>2, <2>4 DEF Send, Pool!Ask, ServedNow
    <3>. QED BY <3>1 DEF Pool!Next
  <2>5. CASE Close(c)
    <3>1. Pool!Leave(c)
      BY <2>2, <2>5 DEF Close, Pool!Leave, ServedNow
    <3>. QED BY <3>1 DEF Pool!Next
  <2>. QED BY <1>4, <2>3, <2>4, <2>5
<1>. QED BY <1>i, <1>1, <1>2, <1>3, <1>4

(* All three servers are connection pools, for any clients and slots.      *)
THEOREM EventServersArePools == Spec => ImplementsPool
<1>1. Init => Pool!Init
  <2>1. Init => InUse = {}
    BY DEF Init, InUse
  <2>. QED BY <2>1 DEF Init, Pool!Init
<1>2. Spec => [][Pool!Next]_Pool!poolVars
  BY LoopInit, LoopNext, PoolNext, PTL DEF Spec
<1>3. Spec => Pool!Init
  BY <1>1, PTL DEF Spec
<1>. QED BY <1>2, <1>3, PTL DEF ImplementsPool, Pool!Spec
=============================================================================
