--------------------------- MODULE TddDeviceProofs ---------------------------
(***************************************************************************)
(* The list of lab9 for any processes, any finite memory and any messages: *)
(* unless two processes clash in one of the four named windows, the list   *)
(* is sound and the device is a MessageFifo.                               *)
(*                                                                         *)
(* The invariant speaks of a sequence q of buffers, the list as qhead and  *)
(* the links give it.  It says how far a writer has come in linking its    *)
(* buffer (Writing), that one reader at a time is unlinking the first      *)
(* buffer, with a link that is still true (Reads), where each process's    *)
(* ptr points (Pointers), and that a buffer is in the list, in the hands   *)
(* of one process, or lost (Owners).                                       *)
(***************************************************************************)
EXTENDS TddDevice, SetLemmas, SequenceTheorems

PCs == {"idle", "write", "read", "from_user", "test", "head", "tail", "qtail", "size",
        "take", "advance", "store", "to_user"}

(* Where a process has no buffer.                                          *)
Without == {"idle", "write", "read", "take"}

Typed ==
  /\ qhead \in Bufs \cup {None}
  /\ qtail \in Bufs \cup {None}
  /\ link \in [Bufs -> Bufs \cup {None}]
  /\ msg \in [Bufs -> Msgs \cup {None}]
  /\ memory \subseteq Bufs
  /\ pc \in [Procs -> PCs]
  /\ ptr \in [Procs -> Bufs \cup {None}]
  /\ next \in [Procs -> Bufs \cup {None}]

(* The process alone has the buffer of its ptr.                            *)
Holds(p) == pc[p] \in {"from_user", "test", "head", "tail", "to_user"}

On(q) == {q[i] : i \in 1..Len(q)}

(* q is the list: it begins at qhead, follows the links and ends.          *)
Chain(q) ==
  /\ qhead = IF Len(q) = 0 THEN None ELSE q[1]
  /\ \A i \in 1..Len(q) : link[q[i]] = IF i = Len(q) THEN None ELSE q[i + 1]
  /\ \A i, j \in 1..Len(q) : q[i] = q[j] => i = j

Pointers(q) ==
  \A p \in Procs :
    /\ ptr[p] = None <=> pc[p] \in Without
    /\ Holds(p) => ptr[p] \notin On(q)
    /\ Unlinking(p) => ptr[p] = qhead
    /\ pc[p] \in {"test", "head", "tail", "qtail", "size"} => msg[ptr[p]] \in Msgs

Writing(q) ==
  /\ \A p, r \in Procs : Linking(p) /\ Linking(r) => p = r
  /\ \A p \in Procs :
       /\ pc[p] = "head" => Len(q) = 0
       /\ pc[p] = "tail" => Len(q) > 0
       /\ pc[p] \in {"head", "tail"} => link[ptr[p]] = None
       /\ pc[p] \in {"qtail", "size"} => Len(q) > 0 /\ q[Len(q)] = ptr[p]
  /\ Len(q) > 0 /\ (\A p \in Procs : pc[p] # "qtail") => q[Len(q)] = qtail
  /\ \A b \in On(q) : b \in sized \/ \E p \in Procs : Linking(p) /\ ptr[p] = b

Reads ==
  /\ \A p, r \in Procs : Unlinking(p) /\ Unlinking(r) => p = r
  /\ \A p \in Procs : pc[p] = "store" =>
       next[p] = link[qhead] /\ (next[p] = None => \A r \in Procs : ~Linking(r))

Owners(q) ==
  /\ \A b \in Bufs :
       b \in memory <=> \/ b \in On(q) \/ b \in lost
                        \/ \E p \in Procs : Holds(p) /\ ptr[p] = b
  /\ lost \subseteq Bufs
  /\ \A b \in On(q) : b \notin lost
  /\ \A p \in Procs : Holds(p) => ptr[p] \notin lost
  /\ \A p, r \in Procs : Holds(p) /\ Holds(r) /\ ptr[p] = ptr[r] => p = r

Sound(q) == Typed /\ Chain(q) /\ Pointers(q) /\ Writing(q) /\ Reads /\ Owners(q)

-----------------------------------------------------------------------------
(***************************************************************************)
(* Queue follows the links with a recursive function on 0..Cardinality(Bufs)*)
(* and counts the nodes.  For a list that Chain describes there is such a  *)
(* function, every such function is that one (the least place where they   *)
(* differ would follow a place where they agree), and so Queue is the list.*)
(***************************************************************************)
(* A list without repetition is no longer than there are buffers.          *)
LEMMA ChainFits ==
  ASSUME NEW q \in Seq(Bufs), Chain(q)
  PROVE  /\ Len(q) \in Nat /\ Cardinality(Bufs) \in Nat
         /\ Len(q) <= Cardinality(Bufs)
<1> DEFINE L == Len(q)
           f == [i \in 1..L |-> q[i]]
<1>1. L \in Nat
  OBVIOUS
<1>2. IsFiniteSet(1..L) /\ Cardinality(1..L) = L
  <2>1. 1 \in Int /\ L \in Int
    BY <1>1
  <2>2. IsFiniteSet(1..L) /\ Cardinality(1..L) = IF 1 > L THEN 0 ELSE L - 1 + 1
    <3> HIDE DEF L
    <3>. QED BY <2>1, FS_Interval
  <2>. QED BY <1>1, <2>2
<1>3. f \in Injection(1..L, Bufs)
  BY DEF Injection, IsInjective, Chain
<1>4. Cardinality(1..L) <= Cardinality(Bufs)
  <2> HIDE DEF f, L
  <2>. QED BY <1>3, BufsAssumption, FS_Injection
<1>5. Cardinality(Bufs) \in Nat
  BY BufsAssumption, FS_CardinalityType
<1>. QED BY <1>1, <1>2, <1>4, <1>5

LEMMA QueueIsChain ==
  ASSUME NEW q \in Seq(Bufs), Chain(q)
  PROVE  Queue = q
<1> DEFINE L == Len(q)
           N == Cardinality(Bufs)
           succ(node, n) == IF n = 0 THEN qhead
                            ELSE IF node[n - 1] = None THEN None ELSE link[node[n - 1]]
           f == [n \in 0..N |-> IF n < L THEN q[n + 1] ELSE None]
           node == CHOOSE g : g = [n \in 0..N |-> succ(g, n)]
           length == Cardinality({n \in DOMAIN node : node[n] # None})
<1>1. L \in Nat /\ N \in Nat /\ L <= N
  BY ChainFits
<1>2. \A n \in 0..N : f[n] = succ(f, n)
  <2> SUFFICES ASSUME NEW n \in 0..N PROVE f[n] = succ(f, n)
    OBVIOUS
  <2>1. CASE n = 0
    BY <1>1, <2>1 DEF Chain
  <2>2. CASE n # 0
    <3>1. n - 1 \in 0..N /\ n - 1 + 1 = n
      BY <1>1, <2>2
    <3>2. CASE n - 1 < L
      <4>1. f[n - 1] = q[n] /\ n \in 1..L /\ q[n] \in Bufs
        BY <1>1, <2>2, <3>1, <3>2
      <4>2. f[n - 1] # None
        BY <4>1, NoneAssumption
      <4>3. link[q[n]] = IF n = L THEN None ELSE q[n + 1]
        BY <4>1 DEF Chain
      <4>4. f[n] = IF n = L THEN None ELSE q[n + 1]
        BY <1>1, <2>2, <3>2
      <4>. QED BY <2>2, <4>1, <4>2, <4>3, <4>4
    <3>3. CASE ~(n - 1 < L)
      <4>1. f[n - 1] = None /\ f[n] = None
        BY <1>1, <2>2, <3>1, <3>3
      <4>. QED BY <2>2, <4>1
    <3>. QED BY <3>2, <3>3
  <2>. QED BY <2>1, <2>2
<1>3. f = [n \in 0..N |-> succ(f, n)]
  BY <1>2
<1>4. node = [n \in 0..N |-> succ(node, n)]
  <2> HIDE DEF succ, f
  <2>. QED BY <1>3
<1>5. \A n \in 0..N : node[n] = succ(node, n)
  <2> HIDE DEF node
  <2>. QED BY <1>4
<1>6. \A n \in 0..N : node[n] = f[n]
  <2> DEFINE Differ == {n \in 0..N : node[n] # f[n]}
  <2> SUFFICES ASSUME Differ # {} PROVE FALSE
    OBVIOUS
  <2>1. PICK m \in Differ : \A y \in Differ : m <= y
    <3>1. Differ \subseteq 0..N /\ 0 \in Int /\ N \in Int
      BY <1>1
    <3> HIDE DEF Differ
    <3>. QED BY <3>1, MinOfRange
  <2> HIDE DEF node
  <2>2. m \in 0..N /\ node[m] # f[m]
    OBVIOUS
  <2>3. CASE m = 0
    BY <1>1, <1>2, <1>5, <2>2, <2>3
  <2>4. CASE m # 0
    <3>1. m - 1 \in 0..N /\ ~(m <= m - 1)
      BY <1>1, <2>2, <2>4
    <3>2. node[m - 1] = f[m - 1]
      BY <2>1, <3>1
    <3>3. succ(node, m) = succ(f, m)
      <4> HIDE DEF f
      <4>. QED BY <3>2
    <3>. QED BY <1>2, <1>5, <2>2, <3>3
  <2>. QED BY <2>3, <2>4
<1>7. DOMAIN node = 0..N
  <2> HIDE DEF node
  <2>. QED BY <1>4
<1>8. {n \in DOMAIN node : node[n] # None} = 0..(L - 1)
  <2> HIDE DEF node
  <2>1. \A n \in 0..N : n < L => q[n + 1] \in Bufs
    BY <1>1
  <2>. QED BY <1>1, <1>6, <1>7, <2>1, NoneAssumption
<1>9. length = L
  <2>1. Cardinality(0..(L - 1)) = L
    <3>1. 0 \in Int /\ L - 1 \in Int
      BY <1>1
    <3>2. Cardinality(0..(L - 1)) = IF 0 > L - 1 THEN 0 ELSE L - 1 - 0 + 1
      <4> HIDE DEF L
      <4>. QED BY <3>1, FS_Interval
    <3>. QED BY <1>1, <3>2
  <2>. QED BY <1>8, <2>1
<1>10. Queue = [i \in 1..length |-> node[i - 1]]
  BY DEF Queue
<1>11. [i \in 1..L |-> node[i - 1]] = q
  <2> HIDE DEF node
  <2>1. \A i \in 1..L : node[i - 1] = q[i]
    <3> SUFFICES ASSUME NEW i \in 1..L PROVE node[i - 1] = q[i]
      OBVIOUS
    <3>1. i - 1 \in 0..N /\ i - 1 < L /\ i - 1 + 1 = i
      BY <1>1
    <3>. QED BY <1>6, <3>1
  <2>. QED BY <1>1, <2>1
<1>. QED
  <2> HIDE DEF node, length, L
  <2>. QED BY <1>9, <1>10, <1>11

-----------------------------------------------------------------------------
(***************************************************************************)
(* What each step does to the list.  First the steps that leave it alone.  *)
(***************************************************************************)
(* Where a process stands says which buffer it has; buffers are not None.  *)
LEMMA PtrTyped ==
  ASSUME NEW q, Sound(q), NEW p \in Procs, pc[p] \notin Without
  PROVE  ptr[p] \in Bufs
BY DEF Sound, Typed, Pointers

LEMMA OnBufs ==
  ASSUME NEW q \in Seq(Bufs)
  PROVE  On(q) \subseteq Bufs /\ \A i \in 1..Len(q) : q[i] \in Bufs
BY DEF On

(* A reader unlinks the first buffer of the list.                          *)
LEMMA UnlinkedIsFirst ==
  ASSUME NEW q \in Seq(Bufs), Sound(q), NEW p \in Procs, Unlinking(p)
  PROVE  Len(q) > 0 /\ qhead = q[1] /\ ptr[p] = qhead /\ qhead \in Bufs /\ qhead \in On(q)
<1>1. ptr[p] \in Bufs /\ ptr[p] = qhead
  BY PtrTyped DEF Sound, Pointers, Unlinking, Without
<1>2. Len(q) # 0 /\ Len(q) \in Nat
  BY <1>1, NoneAssumption DEF Sound, Chain
<1>3. 1 \in 1..Len(q)
  BY <1>2
<1>. QED BY <1>1, <1>2, <1>3 DEF Sound, Chain, On

(* open and release, and the test of tdd_read: nothing but pc moves.       *)
LEMMA IdleStepsSound ==
  ASSUME NEW q \in Seq(Bufs), Sound(q), NEW p \in Procs,
         \/ \E how \in {"write", "read"} : OpenTest(p, how)
         \/ OpenSet(p) \/ tdd_release(p) \/ tdd_read(p)
  PROVE  Sound(q)'
<1>1. UNCHANGED <<queueVars, bufVars, ptr, next>>
  BY DEF OpenTest, OpenSet, tdd_release, tdd_read, procVars
<1>2. /\ \A r \in Procs \ {p} : pc'[r] = pc[r]
      /\ pc' \in [Procs -> PCs]
      /\ pc[p] \in Without /\ pc'[p] \in Without
  BY DEF Sound, Typed, PCs, Without, At, OpenTest, OpenSet, tdd_release, tdd_read
<1>3. \A r \in Procs : /\ Linking(r) <=> Linking(r)'
                       /\ Unlinking(r) <=> Unlinking(r)'
                       /\ Holds(r) <=> Holds(r)'
                       /\ (pc[r] \in Without <=> pc'[r] \in Without)
                       /\ \A c \in PCs \ Without : pc'[r] = c <=> pc[r] = c
  BY <1>2 DEF Linking, Unlinking, Holds, Without
<1> USE DEF queueVars, bufVars
<1>4. Typed' /\ Chain(q)'
  BY <1>1, <1>2 DEF Sound, Typed, Chain
<1>5. Pointers(q)'
  BY <1>1, <1>3 DEF Sound, Pointers, On, PCs, Without
<1>6. Writing(q)'
  BY <1>1, <1>3 DEF Sound, Writing, On, PCs, Without
<1>7. Reads'
  BY <1>1, <1>3 DEF Sound, Reads, PCs, Without
<1>8. Owners(q)'
  BY <1>1, <1>3 DEF Sound, Owners, On
<1>. QED BY <1>4, <1>5, <1>6, <1>7, <1>8 DEF Sound

(* kmalloc gives a buffer that is not allocated.                           *)
LEMMA KmallocIsFresh ==
  ASSUME NEW p \in Procs, tdd_write(p)
  PROVE  Min(Bufs \ memory) \in Bufs \ memory
<1>1. IsFiniteSet(Bufs \ memory)
  BY BufsAssumption, FS_Difference
<1>2. Bufs \ memory # {}
  BY DEF tdd_write
<1>3. Bufs \ memory \subseteq Int
  <2>1. Bufs \subseteq Nat
    BY BufsAssumption
  <2>2. ASSUME NEW b \in Bufs \ memory PROVE b \in Int
    BY <2>1
  <2>. QED BY <2>2
<1>. QED BY <1>1, <1>2, <1>3, MinOfFinite

(* So a write gets a buffer that nobody has.                               *)
LEMMA TddWriteSound ==
  ASSUME NEW q \in Seq(Bufs), Sound(q), NEW p \in Procs, tdd_write(p)
  PROVE  Sound(q)'
<1>1. PICK b \in Bufs \ memory :
           /\ memory' = memory \cup {b} /\ ptr' = [ptr EXCEPT ![p] = b]
  <2>. QED BY KmallocIsFresh DEF tdd_write
<1>2. /\ pc[p] = "idle" /\ pc' = [pc EXCEPT ![p] = "from_user"]
      /\ UNCHANGED <<qhead, qtail, link, msg, sized, lost, next>>
  BY DEF tdd_write, At, queueVars
<1>3. /\ pc'[p] = "from_user" /\ ptr'[p] = b /\ b # None
      /\ \A r \in Procs \ {p} : pc'[r] = pc[r] /\ ptr'[r] = ptr[r]
  BY <1>1, <1>2, NoneAssumption DEF Sound, Typed
<1>4. /\ b \notin On(q) /\ b \notin lost
      /\ \A r \in Procs : Holds(r) => ptr[r] # b
      /\ \A r \in Procs : pc[r] \in {"qtail", "size"} => ptr[r] # b
  <2>1. \A r \in Procs : pc[r] \in {"qtail", "size"} => ptr[r] \in On(q)
    BY DEF Sound, Writing, On
  <2>2. b \notin On(q) /\ b \notin lost /\ \A r \in Procs : Holds(r) => ptr[r] # b
    BY <1>1 DEF Sound, Owners
  <2>. QED BY <2>1, <2>2
<1>5. Typed' /\ Chain(q)'
  BY <1>1, <1>2, <1>3 DEF Sound, Typed, Chain, PCs
<1>6. Pointers(q)'
  BY <1>2, <1>3, <1>4 DEF Sound, Pointers, Holds, Unlinking, Without, On
<1>7. Writing(q)'
  BY <1>1, <1>2, <1>3, <1>4 DEF Sound, Writing, Linking, On
<1>8. Owners(q)'
  BY <1>1, <1>2, <1>3, <1>4 DEF Sound, Owners, Holds, On
<1>9. Reads'
  BY <1>1, <1>2 DEF Sound, Reads, Linking, Unlinking
<1>. QED BY <1>5, <1>6, <1>7, <1>8, <1>9 DEF Sound

(* The contents of a buffer change only in the hands of its writer.        *)
LEMMA CopyFromUserSound ==
  ASSUME NEW q \in Seq(Bufs), Sound(q), NEW p \in Procs, NEW m \in Msgs, CopyFromUser(p, m)
  PROVE  Sound(q)'
<1>1. /\ pc[p] = "from_user" /\ pc' = [pc EXCEPT ![p] = "test"]
      /\ msg' = [msg EXCEPT ![ptr[p]] = m]
      /\ UNCHANGED <<qhead, qtail, link, sized, memory, lost, ptr, next>>
  BY DEF CopyFromUser, At, queueVars
<1>2. /\ pc'[p] = "test" /\ ptr[p] \in Bufs
      /\ \A r \in Procs \ {p} : pc'[r] = pc[r]
  BY <1>1, PtrTyped DEF Sound, Typed, Without
<1>3. msg'[ptr[p]] \in Msgs /\ \A b \in Bufs \ {ptr[p]} : msg'[b] = msg[b]
  BY <1>1, <1>2 DEF Sound, Typed
<1>4. Typed' /\ Chain(q)'
  BY <1>1, <1>2 DEF Sound, Typed, Chain, PCs
<1>5. Pointers(q)'
  <2>1. \A r \in Procs : pc[r] \in {"test", "head", "tail", "qtail", "size"} => ptr[r] \in Bufs
    BY PtrTyped DEF Without
  <2>. QED BY <1>1, <1>2, <1>3, <2>1 DEF Sound, Pointers, Holds, Unlinking, Without, On
<1>6. Writing(q)'
  BY <1>1, <1>2 DEF Sound, Writing, Linking, On
<1>7. Owners(q)'
  BY <1>1, <1>2 DEF Sound, Owners, Holds, On
<1>8. Reads'
  BY <1>1, <1>2 DEF Sound, Reads, Linking, Unlinking
<1>. QED BY <1>4, <1>5, <1>6, <1>7, <1>8 DEF Sound

LEMMA CopyFailsSound ==
  ASSUME NEW q \in Seq(Bufs), Sound(q), NEW p \in Procs, CopyFails(p)
  PROVE  Sound(q)'
<1>1. /\ pc[p] \in {"from_user", "to_user"} /\ pc' = [pc EXCEPT ![p] = "idle"]
      /\ ptr' = [ptr EXCEPT ![p] = None] /\ lost' = lost \cup {ptr[p]}
      /\ msg' = [msg EXCEPT ![ptr[p]] = None] /\ sized' = sized \ {ptr[p]}
      /\ UNCHANGED <<qhead, qtail, link, memory, next>>
  BY DEF CopyFails, queueVars
<1>2. /\ pc'[p] = "idle" /\ ptr'[p] = None /\ ptr[p] \in Bufs
      /\ \A r \in Procs \ {p} : pc'[r] = pc[r] /\ ptr'[r] = ptr[r]
  BY <1>1, PtrTyped DEF Sound, Typed, Without
<1>3. Holds(p) /\ ptr[p] \notin On(q)
  BY <1>1 DEF Sound, Pointers, Holds
<1>4. Typed' /\ Chain(q)'
  BY <1>1, <1>2 DEF Sound, Typed, Chain, PCs
<1>m. \A b \in Bufs \ {ptr[p]} : msg'[b] = msg[b] /\ (b \in sized => b \in sized')
  BY <1>1, <1>2 DEF Sound, Typed
<1>5. Pointers(q)'
  <2>1. ASSUME NEW r \in Procs, pc[r] \in {"test", "head", "tail", "qtail", "size"}
        PROVE  msg'[ptr[r]] = msg[ptr[r]]
    <3>1. ptr[r] \in Bufs
      BY <2>1, PtrTyped DEF Without
    <3>2. ptr[r] # ptr[p]
      <4>1. CASE pc[r] \in {"qtail", "size"}
        BY <1>3, <4>1 DEF Sound, Writing, On
      <4>2. CASE pc[r] \notin {"qtail", "size"}
        BY <1>1, <1>3, <2>1, <4>2 DEF Sound, Owners, Holds
      <4>. QED BY <4>1, <4>2
    <3>. QED BY <1>m, <3>1, <3>2
  <2>. QED BY <1>1, <1>2, <2>1 DEF Sound, Pointers, Holds, Unlinking, Without, On
<1>6. Writing(q)'
  <2>1. \A b \in On(q) : b \in sized => b \in sized'
    BY <1>3, <1>m, OnBufs
  <2>2. \A r \in Procs : /\ \A c \in {"head", "tail", "qtail", "size"} : pc'[r] = c <=> pc[r] = c
                         /\ Linking(r)' <=> Linking(r)
                         /\ Linking(r) => ptr'[r] = ptr[r]
    BY <1>1, <1>2 DEF Linking
  <2>3. On(q)' = On(q)
    BY DEF On
  <2>4. (\A b \in On(q) : b \in sized \/ \E r \in Procs : Linking(r) /\ ptr[r] = b)'
    BY <2>1, <2>2, <2>3 DEF Sound, Writing
  <2>5. (\A r, s \in Procs : Linking(r) /\ Linking(s) => r = s)'
    BY <2>2 DEF Sound, Writing
  <2>6. (\A r \in Procs : /\ pc[r] = "head" => Len(q) = 0
                          /\ pc[r] = "tail" => Len(q) > 0
                          /\ pc[r] \in {"head", "tail"} => link[ptr[r]] = None
                          /\ pc[r] \in {"qtail", "size"} =>
                               Len(q) > 0 /\ q[Len(q)] = ptr[r])'
    BY <1>1, <2>2 DEF Sound, Writing, Linking
  <2>. QED BY <1>1, <2>2, <2>4, <2>5, <2>6 DEF Sound, Writing
<1>7. Owners(q)'
  BY <1>1, <1>2, <1>3 DEF Sound, Owners, Holds, On
<1>8. Reads'
  BY <1>1, <1>2 DEF Sound, Reads, Linking, Unlinking
<1>. QED BY <1>4, <1>5, <1>6, <1>7, <1>8 DEF Sound

(* From here to WriteSize the process is the only one that links, or there *)
(* was a clash.                                                            *)
LEMMA WriteTestSound ==
  ASSUME NEW q \in Seq(Bufs), Sound(q), NEW p \in Procs, WriteTest(p), ~clash'
  PROVE  Sound(q)'
<1>1. /\ pc[p] = "test" /\ pc' = [pc EXCEPT ![p] = IF qhead = None THEN "head" ELSE "tail"]
      /\ link' = [link EXCEPT ![ptr[p]] = None]
      /\ \A r \in Procs \ {p} : ~Linking(r) /\ ~Emptying(r)
      /\ UNCHANGED <<qhead, qtail, msg, sized, memory, lost, ptr, next>>
  BY DEF WriteTest, At, bufVars
<1>2. /\ pc'[p] = (IF qhead = None THEN "head" ELSE "tail") /\ ptr[p] \in Bufs
      /\ \A r \in Procs \ {p} : pc'[r] = pc[r]
  BY <1>1, PtrTyped DEF Sound, Typed, Without
<1>3. ptr[p] \notin On(q) /\ Holds(p)
  BY <1>1 DEF Sound, Pointers, Holds
<1>4. link'[ptr[p]] = None /\ \A b \in On(q) : link'[b] = link[b]
  BY <1>1, <1>2, <1>3, OnBufs DEF Sound, Typed
<1>5. qhead = None <=> Len(q) = 0
  BY OnBufs, NoneAssumption DEF Sound, Chain
<1>6. Typed'
  BY <1>1, <1>2 DEF Sound, Typed, PCs
<1>7. Chain(q)'
  BY <1>1, <1>4 DEF Sound, Chain, On
<1>8. Pointers(q)'
  BY <1>1, <1>2 DEF Sound, Pointers, Holds, Unlinking, Without, On
<1>9. Writing(q)'
  BY <1>1, <1>2, <1>4, <1>5 DEF Sound, Writing, Linking, On
<1>10. Owners(q)'
  BY <1>1, <1>2 DEF Sound, Owners, Holds, On
<1>11. Reads'
  <2>1. \A r \in Procs : /\ Unlinking(r)' <=> Unlinking(r)
                         /\ pc'[r] = "store" => pc[r] = "store" /\ r # p
    BY <1>1, <1>2 DEF Unlinking
  <2>2. ASSUME NEW r \in Procs, pc'[r] = "store"
        PROVE  next'[r] = link'[qhead'] /\ next'[r] # None
    <3>1. pc[r] = "store" /\ r # p /\ qhead \in On(q)
      BY <2>1, <2>2, UnlinkedIsFirst DEF Unlinking
    <3>2. next[r] = link[qhead] /\ next[r] # None
      BY <1>1, <3>1 DEF Sound, Reads, Emptying
    <3>. QED BY <1>1, <1>4, <3>1, <3>2
  <2>. QED BY <2>1, <2>2 DEF Sound, Reads
<1>. QED BY <1>6, <1>7, <1>8, <1>9, <1>10, <1>11 DEF Sound

(* The first buffer of an empty list.                                      *)
LEMMA WriteHeadSound ==
  ASSUME NEW q \in Seq(Bufs), Sound(q), NEW p \in Procs, WriteHead(p)
  PROVE  Len(q) = 0 /\ \E s \in Seq(Bufs) : s = <<ptr[p]>> /\ Sound(s)'
<1>1. /\ pc[p] = "head" /\ pc' = [pc EXCEPT ![p] = "qtail"] /\ qhead' = ptr[p]
      /\ UNCHANGED <<qtail, link, msg, sized, memory, lost, ptr, next>>
  BY DEF WriteHead, At, bufVars
<1>2. /\ pc'[p] = "qtail" /\ ptr[p] \in Bufs
      /\ \A r \in Procs \ {p} : pc'[r] = pc[r]
  BY <1>1, PtrTyped DEF Sound, Typed, Without
<1>3. /\ Len(q) = 0 /\ link[ptr[p]] = None /\ Linking(p) /\ Holds(p)
      /\ \A r \in Procs \ {p} : ~Linking(r)
  BY <1>1 DEF Sound, Writing, Linking, Holds
<1>4. PICK s \in Seq(Bufs) : s = <<ptr[p]>>
  <2>1. PICK b \in Bufs : b = ptr[p]
    BY <1>2
  <2>2. <<b>> \in Seq(Bufs)
    OBVIOUS
  <2>. QED BY <2>1, <2>2
<1>5. Len(s) = 1 /\ s[1] = ptr[p] /\ On(s) = {ptr[p]} /\ On(q) = {}
  BY <1>3, <1>4 DEF On
<1>6. qhead = None
  BY <1>3 DEF Sound, Chain
<1>7. \A r \in Procs : ~Unlinking(r) /\ ~Unlinking(r)'
  <2>1. \A r \in Procs : ~Unlinking(r)
    BY <1>6, UnlinkedIsFirst, NoneAssumption
  <2>. QED BY <1>2, <2>1 DEF Unlinking
<1>8. \A r \in Procs \ {p} : Holds(r) => ptr[r] # ptr[p]
  BY <1>3 DEF Sound, Owners
<1>9. ptr[p] \in memory /\ ptr[p] \notin lost
  BY <1>2, <1>3 DEF Sound, Owners
<1>10. Typed'
  BY <1>1, <1>2 DEF Sound, Typed, PCs
<1>11. Chain(s)'
  BY <1>1, <1>3, <1>5 DEF Chain
<1>12. Pointers(s)'
  <2>1. On(s)' = On(s)
    BY DEF On
  <2>2. ~Holds(p)' /\ \A r \in Procs \ {p} : Holds(r)' <=> Holds(r)
    BY <1>2 DEF Holds
  <2>. QED BY <1>1, <1>2, <1>5, <1>7, <1>8, <2>1, <2>2, NoneAssumption
           DEF Sound, Pointers, Without
<1>13. Writing(s)'
  BY <1>1, <1>2, <1>3, <1>5 DEF Sound, Writing, Linking, On
<1>14. Owners(s)'
  BY <1>1, <1>2, <1>3, <1>5, <1>8, <1>9 DEF Sound, Owners, Holds, On
<1>15. Reads'
  BY <1>7 DEF Reads, Unlinking
<1>. QED BY <1>3, <1>4, <1>10, <1>11, <1>12, <1>13, <1>14, <1>15 DEF Sound

(* A buffer behind the last one, to which qtail points as long as no other *)
(* process is between the link and qtail.                                  *)
LEMMA WriteTailSound ==
  ASSUME NEW q \in Seq(Bufs), Sound(q), NEW p \in Procs, WriteTail(p)
  PROVE  \E s \in Seq(Bufs) : s = Append(q, ptr[p]) /\ Sound(s)'
<1>1. /\ pc[p] = "tail" /\ pc' = [pc EXCEPT ![p] = "qtail"]
      /\ link' = [link EXCEPT ![qtail] = ptr[p]]
      /\ UNCHANGED <<qhead, qtail, msg, sized, memory, lost, ptr, next>>
  BY DEF WriteTail, At, bufVars
<1>2. /\ pc'[p] = "qtail" /\ ptr[p] \in Bufs
      /\ \A r \in Procs \ {p} : pc'[r] = pc[r]
  BY <1>1, PtrTyped DEF Sound, Typed, Without
<1>3. /\ Len(q) > 0 /\ link[ptr[p]] = None /\ Linking(p) /\ Holds(p)
      /\ \A r \in Procs \ {p} : ~Linking(r)
  BY <1>1 DEF Sound, Writing, Linking, Holds
<1>4. PICK s \in Seq(Bufs) : s = Append(q, ptr[p])
  <2>1. PICK b \in Bufs : b = ptr[p]
    BY <1>2
  <2>2. Append(q, b) \in Seq(Bufs)
    OBVIOUS
  <2>. QED BY <2>1, <2>2
<1>5. PICK L \in Nat : L = Len(q)
  OBVIOUS
<1>6. /\ L > 0 /\ Len(s) = L + 1 /\ s[L + 1] = ptr[p]
      /\ \A i \in 1..L : s[i] = q[i]
  BY <1>2, <1>3, <1>4, <1>5
<1>7. On(s) = On(q) \cup {ptr[p]} /\ ptr[p] \notin On(q)
  <2>1. ptr[p] \notin On(q)
    BY <1>3 DEF Sound, Pointers
  <2>2. \A i \in 1..(L + 1) : i \in 1..L \/ i = L + 1
    OBVIOUS
  <2>3. \A i \in 1..L : i \in 1..(L + 1)
    OBVIOUS
  <2>4. L + 1 \in 1..(L + 1)
    OBVIOUS
  <2>. QED BY <1>5, <1>6, <2>1, <2>2, <2>3, <2>4 DEF On
<1>8. q[L] = qtail /\ L \in 1..L /\ qtail \in Bufs /\ qtail \in On(q)
  <2>1. L \in 1..L /\ q[L] \in Bufs
    BY <1>5, <1>6, OnBufs
  <2>2. \A r \in Procs : pc[r] # "qtail"
    BY <1>1, <1>3 DEF Linking
  <2>3. q[L] = qtail
    BY <1>5, <1>6, <2>2 DEF Sound, Writing
  <2>. QED BY <1>5, <2>1, <2>3 DEF On
<1>9. \A r \in Procs \ {p} : Holds(r) => ptr[r] # ptr[p]
  BY <1>3 DEF Sound, Owners
<1>10. ptr[p] \in memory /\ ptr[p] \notin lost
  BY <1>2, <1>3 DEF Sound, Owners
<1>11. link'[qtail] = ptr[p] /\ \A b \in Bufs \ {qtail} : link'[b] = link[b]
  BY <1>1, <1>8 DEF Sound, Typed
<1>12. Typed'
  BY <1>1, <1>2 DEF Sound, Typed, PCs
<1>13. Chain(s)'
  <2>1. qhead' = s[1]
    BY <1>1, <1>5, <1>6 DEF Sound, Chain
  <2>2. ASSUME NEW i \in 1..(L + 1)
        PROVE  link'[s[i]] = IF i = L + 1 THEN None ELSE s[i + 1]
    <3>1. CASE i = L + 1
      BY <1>2, <1>3, <1>6, <1>7, <1>8, <1>11, <3>1
    <3>2. CASE i = L
      BY <1>6, <1>8, <1>11, <3>2
    <3>3. CASE i # L /\ i # L + 1
      <4>1. i \in 1..L /\ i + 1 \in 1..L /\ i # L
        BY <3>3
      <4>2. q[i] # qtail
        BY <1>5, <1>8, <4>1 DEF Sound, Chain
      <4>3. q[i] \in Bufs /\ link[q[i]] = q[i + 1]
        BY <1>5, <4>1, OnBufs DEF Sound, Chain
      <4>. QED BY <1>6, <1>11, <3>3, <4>1, <4>2, <4>3
    <3>. QED BY <3>1, <3>2, <3>3
  <2>3. ASSUME NEW i \in 1..(L + 1), NEW j \in 1..(L + 1), s[i] = s[j]
        PROVE  i = j
    <3>1. \A k \in 1..L : q[k] # ptr[p]
      BY <1>5, <1>7 DEF On
    <3>2. \A k \in 1..(L + 1) : k \in 1..L \/ k = L + 1
      OBVIOUS
    <3>3. \A k, m \in 1..L : q[k] = q[m] => k = m
      BY <1>5 DEF Sound, Chain
    <3>. QED BY <1>6, <2>3, <3>1, <3>2, <3>3
  <2>4. Len(s) = L + 1 /\ Len(s) # 0
    BY <1>6
  <2>5. (qhead = IF Len(s) = 0 THEN None ELSE s[1])'
    BY <2>1, <2>4
  <2>6. (\A i \in 1..Len(s) : link[s[i]] = IF i = Len(s) THEN None ELSE s[i + 1])'
    BY <2>2, <2>4
  <2>7. (\A i, j \in 1..Len(s) : s[i] = s[j] => i = j)'
    BY <2>3, <2>4
  <2>. QED BY <2>5, <2>6, <2>7 DEF Chain
<1>14. Pointers(s)'
  BY <1>1, <1>2, <1>7, <1>9 DEF Sound, Pointers, Holds, Unlinking, Without, On
<1>15. Writing(s)'
  <2>1. \A r \in Procs : pc'[r] \notin {"head", "tail", "size"}
    BY <1>2, <1>3 DEF Linking
  <2>2. Linking(p)' /\ \A r \in Procs \ {p} : ~Linking(r)'
    BY <1>2, <1>3 DEF Linking
  <2>3. Len(s) > 0 /\ s[Len(s)] = ptr'[p]
    BY <1>1, <1>6
  <2>4. \A b \in On(s) : b \in sized' \/ b = ptr'[p]
    BY <1>1, <1>3, <1>7 DEF Sound, Writing
  <2>5. On(s)' = On(s)
    BY DEF On
  <2>6. (\A r, t \in Procs : Linking(r) /\ Linking(t) => r = t)'
    BY <2>2
  <2>7. (\A r \in Procs : /\ pc[r] = "head" => Len(s) = 0
                          /\ pc[r] = "tail" => Len(s) > 0
                          /\ pc[r] \in {"head", "tail"} => link[ptr[r]] = None
                          /\ pc[r] \in {"qtail", "size"} =>
                               Len(s) > 0 /\ s[Len(s)] = ptr[r])'
    BY <2>1, <2>2, <2>3 DEF Linking
  <2>8. (\A b \in On(s) : b \in sized \/ \E r \in Procs : Linking(r) /\ ptr[r] = b)'
    BY <2>2, <2>4, <2>5
  <2>. QED BY <1>2, <2>6, <2>7, <2>8 DEF Writing
<1>16. Owners(s)'
  <2>1. ~Holds(p)' /\ \A r \in Procs \ {p} : Holds(r) <=> Holds(r)'
    BY <1>2 DEF Holds
  <2>2. On(s)' = On(s)
    BY DEF On
  <2>3. ASSUME NEW b \in Bufs
        PROVE  b \in memory' <=> \/ b \in On(s) \/ b \in lost'
                                \/ \E r \in Procs : Holds(r)' /\ ptr'[r] = b
    BY <1>1, <1>3, <1>7, <1>10, <2>1 DEF Sound, Owners
  <2>4. lost' \subseteq Bufs /\ \A b \in On(s) : b \notin lost'
    BY <1>1, <1>7, <1>10 DEF Sound, Owners
  <2>5. \A r \in Procs : Holds(r)' => Holds(r) /\ ptr'[r] = ptr[r]
    BY <1>1, <2>1
  <2>6. \A r \in Procs : Holds(r)' => ptr'[r] \notin lost'
    BY <1>1, <2>5 DEF Sound, Owners
  <2>7. \A r, t \in Procs : Holds(r)' /\ Holds(t)' /\ ptr'[r] = ptr'[t] => r = t
    BY <2>5 DEF Sound, Owners
  <2>. QED BY <2>2, <2>3, <2>4, <2>6, <2>7 DEF Owners
<1>17. Reads'
  <2>1. \A r \in Procs : /\ Unlinking(r)' <=> Unlinking(r)
                         /\ pc'[r] = "store" => pc[r] = "store"
    BY <1>1, <1>2 DEF Unlinking
  <2>2. ASSUME NEW r \in Procs, pc'[r] = "store"
        PROVE  next'[r] = link'[qhead'] /\ next'[r] # None
    <3>1. pc[r] = "store" /\ qhead \in Bufs
      BY <2>1, <2>2, UnlinkedIsFirst DEF Unlinking
    <3>2. next[r] = link[qhead] /\ next[r] # None
      BY <1>3, <3>1 DEF Sound, Reads
    <3>3. link[qtail] = None
      BY <1>5, <1>8 DEF Sound, Chain
    <3>. QED BY <1>1, <1>11, <3>1, <3>2, <3>3
  <2>. QED BY <2>1, <2>2 DEF Sound, Reads
<1>. QED BY <1>4, <1>12, <1>13, <1>14, <1>15, <1>16, <1>17 DEF Sound

LEMMA WriteQtailSound ==
  ASSUME NEW q \in Seq(Bufs), Sound(q), NEW p \in Procs, WriteQtail(p)
  PROVE  Sound(q)'
<1>1. /\ pc[p] = "qtail" /\ pc' = [pc EXCEPT ![p] = "size"] /\ qtail' = ptr[p]
      /\ UNCHANGED <<qhead, link, msg, sized, memory, lost, ptr, next>>
  BY DEF WriteQtail, At, bufVars
<1>2. /\ pc'[p] = "size" /\ ptr[p] \in Bufs
      /\ \A r \in Procs \ {p} : pc'[r] = pc[r]
  BY <1>1, PtrTyped DEF Sound, Typed, Without
<1>3. Len(q) > 0 /\ q[Len(q)] = ptr[p] /\ \A r \in Procs \ {p} : ~Linking(r)
  BY <1>1 DEF Sound, Writing, Linking
<1>4. Typed' /\ Chain(q)'
  BY <1>1, <1>2 DEF Sound, Typed, Chain, PCs
<1>5. Pointers(q)'
  BY <1>1, <1>2 DEF Sound, Pointers, Holds, Unlinking, Without, On
<1>6. Writing(q)'
  BY <1>1, <1>2, <1>3 DEF Sound, Writing, Linking, On
<1>7. Owners(q)'
  BY <1>1, <1>2 DEF Sound, Owners, Holds, On
<1>8. Reads'
  BY <1>1, <1>2 DEF Sound, Reads, Linking, Unlinking
<1>. QED BY <1>4, <1>5, <1>6, <1>7, <1>8 DEF Sound

(* The write is complete: qtail is the last buffer, and its size is set.   *)
LEMMA WriteSizeSound ==
  ASSUME NEW q \in Seq(Bufs), Sound(q), NEW p \in Procs, WriteSize(p)
  PROVE  Sound(q)'
<1>1. /\ pc[p] = "size" /\ pc' = [pc EXCEPT ![p] = "idle"]
      /\ sized' = sized \cup {ptr[p]} /\ ptr' = [ptr EXCEPT ![p] = None]
      /\ UNCHANGED <<qhead, qtail, link, msg, memory, lost, next>>
  BY DEF WriteSize, At, queueVars
<1>2. /\ pc'[p] = "idle" /\ ptr'[p] = None /\ ptr[p] \in Bufs
      /\ \A r \in Procs \ {p} : pc'[r] = pc[r] /\ ptr'[r] = ptr[r]
  BY <1>1, PtrTyped DEF Sound, Typed, Without
<1>3. \A r \in Procs \ {p} : ~Linking(r)
  BY <1>1 DEF Sound, Writing, Linking
<1>4. q[Len(q)] = qtail
  BY <1>1, <1>3 DEF Sound, Writing, Linking
<1>5. Typed' /\ Chain(q)'
  BY <1>1, <1>2 DEF Sound, Typed, Chain, PCs
<1>6. Pointers(q)'
  BY <1>1, <1>2 DEF Sound, Pointers, Holds, Unlinking, Without, On
<1>7. Writing(q)'
  BY <1>1, <1>2, <1>3, <1>4 DEF Sound, Writing, Linking, On
<1>8. Owners(q)'
  BY <1>1, <1>2 DEF Sound, Owners, Holds, On
<1>9. Reads'
  BY <1>1, <1>2 DEF Sound, Reads, Linking, Unlinking
<1>. QED BY <1>5, <1>6, <1>7, <1>8, <1>9 DEF Sound

(* A reader loads qhead, the only one to do so until it has stored it.     *)
LEMMA ReadTakeSound ==
  ASSUME NEW q \in Seq(Bufs), Sound(q), NEW p \in Procs, ReadTake(p), ~clash'
  PROVE  Sound(q)'
<1>1. /\ pc[p] = "take" /\ pc' = [pc EXCEPT ![p] = "advance"] /\ qhead # None
      /\ ptr' = [ptr EXCEPT ![p] = qhead]
      /\ \A r \in Procs : ~Unlinking(r)
      /\ UNCHANGED <<qhead, qtail, link, msg, sized, memory, lost, next>>
  BY DEF ReadTake, At, queueVars, bufVars
<1>2. /\ pc'[p] = "advance" /\ ptr'[p] = qhead
      /\ \A r \in Procs \ {p} : pc'[r] = pc[r] /\ ptr'[r] = ptr[r]
  BY <1>1 DEF Sound, Typed
<1>3. Typed' /\ Chain(q)'
  BY <1>1, <1>2 DEF Sound, Typed, Chain, PCs
<1>4. Pointers(q)'
  BY <1>1, <1>2 DEF Sound, Pointers, Holds, Unlinking, Without, On
<1>5. Writing(q)'
  BY <1>1, <1>2 DEF Sound, Writing, Linking, On
<1>6. Reads'
  BY <1>1, <1>2 DEF Sound, Reads, Unlinking
<1>7. Owners(q)'
  BY <1>1, <1>2 DEF Sound, Owners, Holds, On
<1>. QED BY <1>3, <1>4, <1>5, <1>6, <1>7 DEF Sound

(* It loads the link: if that is the end of the list, nobody is writing,   *)
(* or there is a clash.                                                    *)
LEMMA ReadLinkSound ==
  ASSUME NEW q \in Seq(Bufs), Sound(q), NEW p \in Procs, ReadLink(p), ~clash'
  PROVE  Sound(q)'
<1>1. /\ pc[p] = "advance" /\ pc' = [pc EXCEPT ![p] = "store"]
      /\ next' = [next EXCEPT ![p] = link[qhead]]
      /\ link[qhead] = None => \A r \in Procs : ~Linking(r)
      /\ UNCHANGED <<qhead, qtail, link, msg, sized, memory, lost, ptr>>
  BY DEF ReadLink, At, queueVars, bufVars
<1>2. /\ pc'[p] = "store" /\ next'[p] = link[qhead] /\ Unlinking(p)
      /\ \A r \in Procs \ {p} : pc'[r] = pc[r] /\ next'[r] = next[r]
  BY <1>1 DEF Sound, Typed, Unlinking
<1>3. Typed' /\ Chain(q)'
  <2>1. link[qhead] \in Bufs \cup {None}
    BY <1>2, UnlinkedIsFirst DEF Sound, Typed
  <2>. QED BY <1>1, <1>2, <2>1 DEF Sound, Typed, Chain, PCs
<1>4. Pointers(q)'
  BY <1>1, <1>2 DEF Sound, Pointers, Holds, Unlinking, Without, On
<1>5. Writing(q)'
  BY <1>1, <1>2 DEF Sound, Writing, Linking, On
<1>6. Reads'
  BY <1>1, <1>2 DEF Sound, Reads, Unlinking, Linking
<1>7. Owners(q)'
  BY <1>1, <1>2 DEF Sound, Owners, Holds, On
<1>. QED BY <1>3, <1>4, <1>5, <1>6, <1>7 DEF Sound

(* It takes the first buffer out of the list and into its hands.           *)
LEMMA ReadAdvanceSound ==
  ASSUME NEW q \in Seq(Bufs), Sound(q), NEW p \in Procs, ReadAdvance(p)
  PROVE  /\ Len(q) > 0 /\ ptr[p] = q[1]
         /\ \E s \in Seq(Bufs) : s = Tail(q) /\ Sound(s)'
<1>0. /\ pc[p] = "store" /\ pc' = [pc EXCEPT ![p] = "to_user"] /\ qhead' = next[p]
      /\ next' = [next EXCEPT ![p] = None]
      /\ UNCHANGED <<qtail, link, msg, sized, memory, lost, ptr>>
  BY DEF ReadAdvance, At, bufVars
<1>u. Unlinking(p)
  BY <1>0 DEF Unlinking
<1>1. /\ pc[p] = "store" /\ pc' = [pc EXCEPT ![p] = "to_user"] /\ qhead' = link[qhead]
      /\ \A r \in Procs \ {p} : ~Unlinking(r)
      /\ link[qhead] = None => \A r \in Procs : ~Linking(r)
      /\ UNCHANGED <<qtail, link, msg, sized, memory, lost, ptr>>
  BY <1>0, <1>u DEF Sound, Reads
<1>2. /\ pc'[p] = "to_user" /\ ptr[p] \in Bufs
      /\ \A r \in Procs \ {p} : pc'[r] = pc[r]
  BY <1>1, PtrTyped DEF Sound, Typed, Without
<1>3. PICK L \in Nat : L = Len(q)
  OBVIOUS
<1>4. ptr[p] = qhead /\ qhead # None
  BY <1>u, <1>2, NoneAssumption DEF Sound, Pointers
<1>5. L > 0 /\ qhead = q[1] /\ ptr[p] = q[1]
  BY <1>3, <1>4 DEF Sound, Chain
<1>6. PICK s \in Seq(Bufs) : s = Tail(q)
  <2>1. q # <<>>
    BY <1>3, <1>5
  <2>2. Tail(q) \in Seq(Bufs)
    BY <2>1
  <2>. QED BY <2>2
<1>7. Len(s) = L - 1 /\ \A i \in 1..(L - 1) : s[i] = q[i + 1]
  BY <1>3, <1>5, <1>6
<1>8. On(q) = On(s) \cup {ptr[p]}
  <2>1. \A i \in 1..L : i = 1 \/ (i - 1 \in 1..(L - 1) /\ i - 1 + 1 = i)
    OBVIOUS
  <2>2. \A i \in 1..(L - 1) : i + 1 \in 1..L
    OBVIOUS
  <2>3. 1 \in 1..L
    BY <1>5
  <2>4. ASSUME NEW b \in On(q) PROVE b \in On(s) \cup {ptr[p]}
    <3>1. PICK i \in 1..L : b = q[i]
      BY <1>3 DEF On
    <3>2. CASE i = 1
      BY <1>5, <3>1, <3>2
    <3>3. CASE i # 1
      <4>1. i - 1 \in 1..Len(s) /\ b = s[i - 1]
        BY <1>7, <2>1, <3>1, <3>3
      <4>. QED BY <4>1 DEF On
    <3>. QED BY <3>2, <3>3
  <2>5. ASSUME NEW b \in On(s) PROVE b \in On(q)
    <3>1. PICK i \in 1..(L - 1) : b = s[i]
      BY <1>7 DEF On
    <3>. QED BY <1>3, <1>7, <2>2, <3>1 DEF On
  <2>6. ptr[p] \in On(q)
    BY <1>3, <1>5, <2>3 DEF On
  <2>. QED BY <2>4, <2>5, <2>6
<1>9. ptr[p] \notin On(s)
  <2>1. \A i \in 1..(L - 1) : i + 1 \in 1..L /\ i + 1 # 1 /\ 1 \in 1..L
    BY <1>5
  <2>. QED BY <1>3, <1>5, <1>7, <2>1 DEF On, Sound, Chain
<1>10. L = 1 => \A r \in Procs : ~Linking(r)
  BY <1>1, <1>3, <1>5 DEF Sound, Chain
<1>11. /\ \A r \in Procs : Holds(r) => ptr[r] # ptr[p]
       /\ ptr[p] \notin lost /\ ptr[p] \in memory
       /\ \A r \in Procs : Holds(r) => ptr[r] \notin On(s)
  BY <1>2, <1>8 DEF Sound, Owners, Pointers
<1>12. L > 1 => s[Len(s)] = q[L] /\ Len(s) > 0
  BY <1>7
<1>13. Typed'
  <2>1. next' \in [Procs -> Bufs \cup {None}] /\ next[p] \in Bufs \cup {None}
    BY <1>0 DEF Sound, Typed
  <2>. QED BY <1>0, <1>1, <1>2, <2>1 DEF Sound, Typed, PCs
<1>n. Reads'
  BY <1>1, <1>2 DEF Reads, Unlinking
<1>14. Chain(s)'
  <2>1. qhead' = IF Len(s) = 0 THEN None ELSE s[1]
    <3>1. link[q[1]] = IF L = 1 THEN None ELSE q[2]
      BY <1>3, <1>5 DEF Sound, Chain
    <3>2. L # 1 => s[1] = q[2]
      BY <1>5, <1>7
    <3>. QED BY <1>1, <1>5, <1>7, <3>1, <3>2
  <2>2. ASSUME NEW i \in 1..(L - 1)
        PROVE  link[s[i]] = IF i = L - 1 THEN None ELSE s[i + 1]
    <3>1. i + 1 \in 1..L
      OBVIOUS
    <3>2. link[q[i + 1]] = IF i + 1 = L THEN None ELSE q[i + 1 + 1]
      BY <1>3, <3>1 DEF Sound, Chain
    <3>3. i # L - 1 => i + 1 \in 1..(L - 1)
      OBVIOUS
    <3>. QED BY <1>7, <3>2, <3>3
  <2>3. ASSUME NEW i \in 1..(L - 1), NEW j \in 1..(L - 1), s[i] = s[j]
        PROVE  i = j
    <3>1. i + 1 \in 1..L /\ j + 1 \in 1..L /\ q[i + 1] = q[j + 1]
      BY <1>7, <2>3
    <3>2. i + 1 = j + 1
      BY <1>3, <3>1 DEF Sound, Chain
    <3>. QED BY <3>2
  <2>4. (\A i \in 1..Len(s) : link[s[i]] = IF i = Len(s) THEN None ELSE s[i + 1])'
    BY <1>1, <1>7, <2>2
  <2>5. (\A i, j \in 1..Len(s) : s[i] = s[j] => i = j)'
    BY <1>7, <2>3
  <2>. QED BY <2>1, <2>4, <2>5 DEF Chain
<1>15. Pointers(s)'
  BY <1>1, <1>2, <1>9, <1>11 DEF Sound, Pointers, Holds, Unlinking, Without, On
<1>16. Writing(s)'
  <2>1. \A r \in Procs : Linking(r)' => Linking(r) /\ pc'[r] = pc[r] /\ L > 1
    <3>1. ~Linking(p)'
      BY <1>2 DEF Linking
    <3>. QED BY <1>2, <1>5, <1>10, <3>1 DEF Linking
  <2>2. (\A r, t \in Procs : Linking(r) /\ Linking(t) => r = t)'
    BY <2>1 DEF Sound, Writing
  <2>3. (\A r \in Procs : /\ pc[r] = "head" => Len(s) = 0
                          /\ pc[r] = "tail" => Len(s) > 0
                          /\ pc[r] \in {"head", "tail"} => link[ptr[r]] = None
                          /\ pc[r] \in {"qtail", "size"} =>
                               Len(s) > 0 /\ s[Len(s)] = ptr[r])'
    <3> SUFFICES ASSUME NEW r \in Procs, Linking(r)'
                 PROVE (/\ pc[r] = "head" => Len(s) = 0
                        /\ pc[r] = "tail" => Len(s) > 0
                        /\ pc[r] \in {"head", "tail"} => link[ptr[r]] = None
                        /\ pc[r] \in {"qtail", "size"} =>
                               Len(s) > 0 /\ s[Len(s)] = ptr[r])'
      BY DEF Linking
    <3>1. Linking(r) /\ pc'[r] = pc[r] /\ L > 1
      BY <2>1
    <3>. QED BY <1>1, <1>3, <1>12, <3>1 DEF Sound, Writing
  <2>4. Len(s) > 0 /\ (\A r \in Procs : pc'[r] # "qtail") => s[Len(s)] = qtail'
    <3>1. (\A r \in Procs : pc'[r] # "qtail") => \A r \in Procs : pc[r] # "qtail"
      BY <1>1, <1>2
    <3>. QED BY <1>1, <1>3, <1>5, <1>7, <1>12, <3>1 DEF Sound, Writing
  <2>5. (\A b \in On(s) : b \in sized \/ \E r \in Procs : Linking(r) /\ ptr[r] = b)'
    <3>1. \A r \in Procs : Linking(r) => Linking(r)'
      BY <1>1, <1>2 DEF Linking
    <3>. QED BY <1>1, <1>8, <3>1 DEF Sound, Writing, On
  <2>. QED BY <2>2, <2>3, <2>4, <2>5 DEF Writing
<1>17. Owners(s)'
  <2>1. Holds(p)' /\ ~Holds(p) /\ \A r \in Procs \ {p} : Holds(r) <=> Holds(r)'
    BY <1>1, <1>2 DEF Holds
  <2>2. On(s)' = On(s)
    BY DEF On
  <2>3. ASSUME NEW b \in Bufs
        PROVE  b \in memory' <=> \/ b \in On(s) \/ b \in lost'
                                \/ \E r \in Procs : Holds(r)' /\ ptr'[r] = b
    BY <1>1, <1>8, <1>9, <1>11, <2>1 DEF Sound, Owners
  <2>4. lost' \subseteq Bufs /\ \A b \in On(s) : b \notin lost'
    BY <1>1, <1>8 DEF Sound, Owners
  <2>5. \A r \in Procs : Holds(r)' => ptr'[r] \notin lost'
    BY <1>1, <1>11, <2>1 DEF Sound, Owners
  <2>6. \A r, t \in Procs : Holds(r)' /\ Holds(t)' /\ ptr'[r] = ptr'[t] => r = t
    BY <1>1, <1>11, <2>1 DEF Sound, Owners
  <2>. QED BY <2>2, <2>3, <2>4, <2>5, <2>6 DEF Owners
<1>. QED BY <1>3, <1>5, <1>6, <1>13, <1>n, <1>14, <1>15, <1>16, <1>17 DEF Sound

LEMMA ReadFreeSound ==
  ASSUME NEW q \in Seq(Bufs), Sound(q), NEW p \in Procs, ReadFree(p)
  PROVE  Sound(q)'
<1>1. /\ pc[p] = "to_user" /\ pc' = [pc EXCEPT ![p] = "idle"]
      /\ memory' = memory \ {ptr[p]} /\ ptr' = [ptr EXCEPT ![p] = None]
      /\ msg' = [msg EXCEPT ![ptr[p]] = None] /\ sized' = sized \ {ptr[p]}
      /\ UNCHANGED <<qhead, qtail, link, lost, next>>
  BY DEF ReadFree, At, queueVars
<1>2. /\ pc'[p] = "idle" /\ ptr'[p] = None /\ ptr[p] \in Bufs
      /\ \A r \in Procs \ {p} : pc'[r] = pc[r] /\ ptr'[r] = ptr[r]
  BY <1>1, PtrTyped DEF Sound, Typed, Without
<1>3. Holds(p) /\ ptr[p] \notin On(q) /\ ptr[p] \notin lost
  BY <1>1 DEF Sound, Pointers, Owners, Holds
<1>4. Typed' /\ Chain(q)'
  BY <1>1, <1>2 DEF Sound, Typed, Chain, PCs
<1>m. \A b \in Bufs \ {ptr[p]} : msg'[b] = msg[b] /\ (b \in sized => b \in sized')
  BY <1>1, <1>2 DEF Sound, Typed
<1>5. Pointers(q)'
  <2>1. ASSUME NEW r \in Procs, pc[r] \in {"test", "head", "tail", "qtail", "size"}
        PROVE  msg'[ptr[r]] = msg[ptr[r]]
    <3>1. ptr[r] \in Bufs
      BY <2>1, PtrTyped DEF Without
    <3>2. ptr[r] # ptr[p]
      <4>1. CASE pc[r] \in {"qtail", "size"}
        BY <1>3, <4>1 DEF Sound, Writing, On
      <4>2. CASE pc[r] \notin {"qtail", "size"}
        BY <1>1, <1>3, <2>1, <4>2 DEF Sound, Owners, Holds
      <4>. QED BY <4>1, <4>2
    <3>. QED BY <1>m, <3>1, <3>2
  <2>. QED BY <1>1, <1>2, <2>1 DEF Sound, Pointers, Holds, Unlinking, Without, On
<1>6. Writing(q)'
  <2>1. \A b \in On(q) : b \in sized => b \in sized'
    BY <1>3, <1>m, OnBufs
  <2>2. \A r \in Procs : /\ \A c \in {"head", "tail", "qtail", "size"} : pc'[r] = c <=> pc[r] = c
                         /\ Linking(r)' <=> Linking(r)
                         /\ Linking(r) => ptr'[r] = ptr[r]
    BY <1>1, <1>2 DEF Linking
  <2>3. On(q)' = On(q)
    BY DEF On
  <2>4. (\A b \in On(q) : b \in sized \/ \E r \in Procs : Linking(r) /\ ptr[r] = b)'
    BY <2>1, <2>2, <2>3 DEF Sound, Writing
  <2>5. (\A r, s \in Procs : Linking(r) /\ Linking(s) => r = s)'
    BY <2>2 DEF Sound, Writing
  <2>6. (\A r \in Procs : /\ pc[r] = "head" => Len(q) = 0
                          /\ pc[r] = "tail" => Len(q) > 0
                          /\ pc[r] \in {"head", "tail"} => link[ptr[r]] = None
                          /\ pc[r] \in {"qtail", "size"} =>
                               Len(q) > 0 /\ q[Len(q)] = ptr[r])'
    BY <1>1, <2>2 DEF Sound, Writing, Linking
  <2>. QED BY <1>1, <2>2, <2>4, <2>5, <2>6 DEF Sound, Writing
<1>7. Owners(q)'
  BY <1>1, <1>2, <1>3 DEF Sound, Owners, Holds, On
<1>8. Reads'
  BY <1>1, <1>2 DEF Sound, Reads, Linking, Unlinking
<1>. QED BY <1>4, <1>5, <1>6, <1>7, <1>8 DEF Sound

(* Reload loses what is in the list; nobody has a buffer then.             *)
LEMMA ReloadSound ==
  ASSUME NEW q \in Seq(Bufs), Sound(q), Reload
  PROVE  \E s \in Seq(Bufs) : s = <<>> /\ Sound(s)'
<1>1. /\ \A r \in Procs : pc[r] = "idle"
      /\ qhead' = None /\ lost' = lost \cup InQueue
      /\ UNCHANGED <<qtail, link, msg, sized, memory, pc, ptr, next>>
  BY DEF Reload, procVars
<1>2. InQueue = On(q)
  BY QueueIsChain DEF Sound, InQueue, On
<1>3. PICK s \in Seq(Bufs) : s = <<>>
  <2>1. <<>> \in Seq(Bufs)
    OBVIOUS
  <2>. QED BY <2>1
<1>4. Len(s) = 0 /\ On(s) = {}
  BY <1>3 DEF On
<1>5. On(q) \subseteq Bufs
  BY OnBufs
<1>6. Typed' /\ Chain(s)'
  BY <1>1, <1>4 DEF Sound, Typed, Chain
<1>7. Pointers(s)'
  BY <1>1 DEF Sound, Pointers, Holds, Unlinking, Without
<1>8. Writing(s)'
  BY <1>1, <1>4 DEF Writing, Linking, On
<1>9. Owners(s)'
  BY <1>1, <1>2, <1>4, <1>5 DEF Sound, Owners, Holds, On
<1>10. Reads'
  BY <1>1 DEF Reads, Unlinking
<1>. QED BY <1>3, <1>6, <1>7, <1>8, <1>9, <1>10 DEF Sound

-----------------------------------------------------------------------------
(***************************************************************************)
(* The invariant, and the soundness of the list it implies.                *)
(***************************************************************************)
HasList == ~clash => \E q \in Seq(Bufs) : Sound(q)

LEMMA InitHasList == Init => HasList
<1> SUFFICES ASSUME Init PROVE \E q \in Seq(Bufs) : Sound(q)
  BY DEF HasList
<1>1. PICK q \in Seq(Bufs) : q = <<>>
  <2>1. <<>> \in Seq(Bufs)
    OBVIOUS
  <2>. QED BY <2>1
<1>2. Len(q) = 0 /\ On(q) = {}
  BY <1>1 DEF On
<1>3. Typed /\ Chain(q)
  BY <1>2 DEF Init, Typed, Chain, PCs
<1>4. Pointers(q)
  BY DEF Init, Pointers, Holds, Unlinking, Without
<1>5. Writing(q)
  BY <1>2 DEF Init, Writing, Linking, On
<1>6. Owners(q)
  BY <1>2 DEF Init, Owners, Holds, On
<1>7. Reads
  BY DEF Init, Reads, Unlinking
<1>. QED BY <1>3, <1>4, <1>5, <1>6, <1>7 DEF Sound

(* The steps that leave the list as it is.                                 *)
Stays(p) ==
  \/ \E how \in {"write", "read"} : OpenTest(p, how)
  \/ OpenSet(p) \/ tdd_release(p) \/ tdd_read(p)
  \/ tdd_write(p) \/ (\E m \in Msgs : CopyFromUser(p, m))
  \/ WriteTest(p) \/ WriteQtail(p) \/ WriteSize(p) \/ ReadTake(p) \/ ReadLink(p)

LEMMA StaysSound ==
  ASSUME NEW q \in Seq(Bufs), Sound(q), NEW p \in Procs, Stays(p), ~clash'
  PROVE  Sound(q)'
<1>1. CASE \/ \E how \in {"write", "read"} : OpenTest(p, how)
           \/ OpenSet(p) \/ tdd_release(p) \/ tdd_read(p)
  BY <1>1, IdleStepsSound
<1>2. CASE tdd_write(p)
  BY <1>2, TddWriteSound
<1>3. CASE \E m \in Msgs : CopyFromUser(p, m)
  BY <1>3, CopyFromUserSound
<1>4. CASE WriteTest(p)
  BY <1>4, WriteTestSound
<1>5. CASE WriteQtail(p)
  BY <1>5, WriteQtailSound
<1>6. CASE WriteSize(p)
  BY <1>6, WriteSizeSound
<1>7. CASE ReadTake(p)
  BY <1>7, ReadTakeSound
<1>8. CASE ReadLink(p)
  BY <1>8, ReadLinkSound
<1>. QED BY <1>1, <1>2, <1>3, <1>4, <1>5, <1>6, <1>7, <1>8 DEF Stays

LEMMA StepHasList ==
  ASSUME HasList, Next
  PROVE  HasList'
<1> SUFFICES ASSUME ~clash' PROVE (\E q \in Seq(Bufs) : Sound(q))'
  BY DEF HasList
<1>1. PICK q \in Seq(Bufs) : Sound(q)
  BY DEF HasList, Next
<1>2. CASE Reload
  BY <1>1, <1>2, ReloadSound
<1>3. CASE \E p \in Procs : Step(p)
  <2>1. PICK p \in Procs : Step(p)
    BY <1>3
  <2>2. CASE Stays(p)
    BY <1>1, <2>2, StaysSound
  <2>3. CASE CopyFails(p)
    BY <1>1, <2>3, CopyFailsSound
  <2>4. CASE WriteHead(p)
    BY <1>1, <2>4, WriteHeadSound
  <2>5. CASE WriteTail(p)
    BY <1>1, <2>5, WriteTailSound
  <2>6. CASE ReadAdvance(p)
    BY <1>1, <2>6, ReadAdvanceSound
  <2>7. CASE ReadFree(p)
    BY <1>1, <2>7, ReadFreeSound
  <2>. QED BY <2>1, <2>2, <2>3, <2>4, <2>5, <2>6, <2>7 DEF Step, Stays
<1>. QED BY <1>2, <1>3 DEF Next

LEMMA StutterHasList ==
  ASSUME HasList, UNCHANGED vars
  PROVE  HasList'
<1>1. UNCHANGED <<qhead, qtail, link, msg, sized, memory, lost, pc, ptr, next, clash>>
  BY DEF vars, queueVars, bufVars, procVars
<1>2. ASSUME NEW q \in Seq(Bufs), Sound(q) PROVE Sound(q)'
  BY <1>1, <1>2 DEF Sound, Typed, Chain, Pointers, Writing, Reads, Owners, On, Holds,
                    Linking, Unlinking
<1>. QED BY <1>1, <1>2 DEF HasList

LEMMA AlwaysHasList == Spec => []HasList
<1>1. HasList /\ [Next]_vars => HasList'
  BY StepHasList, StutterHasList
<1>. QED BY InitHasList, <1>1, PTL DEF Spec

(* Who has a buffer in hand, in the words of QueueIsSound.                 *)
LEMMA HeldAreHolders ==
  ASSUME NEW q \in Seq(Bufs), Sound(q)
  PROVE  {p \in Procs : ptr[p] # None /\ ~Unlinking(p) /\ ptr[p] \notin On(q)}
           = {p \in Procs : Holds(p)}
<1>1. \A p \in Procs : pc[p] \in {"qtail", "size"} => ptr[p] \in On(q)
  BY DEF Sound, Writing, On
<1>2. \A p \in Procs : Holds(p) => ptr[p] # None /\ ptr[p] \notin On(q) /\ ~Unlinking(p)
  BY DEF Sound, Pointers, Holds, Unlinking, Without
<1>3. \A p \in Procs : ptr[p] # None => pc[p] \in PCs \ Without
  BY DEF Sound, Typed, Pointers
<1>. QED BY <1>1, <1>2, <1>3 DEF Holds, Unlinking, PCs, Without

(* As many processes have a buffer in hand as there are buffers in hand.   *)
LEMMA OneEachInHand ==
  ASSUME NEW q \in Seq(Bufs), Sound(q)
  PROVE  Cardinality({p \in Procs : Holds(p)})
           = Cardinality({ptr[p] : p \in {r \in Procs : Holds(r)}})
<1> DEFINE held == {p \in Procs : Holds(p)}
           inHands == {ptr[p] : p \in held}
           f == [b \in inHands |-> CHOOSE p \in held : ptr[p] = b]
<1>1. IsFiniteSet(inHands)
  <2>1. ASSUME NEW p \in held PROVE ptr[p] \in Bufs
    BY PtrTyped DEF Holds, Without
  <2>2. inHands \subseteq Bufs
    BY <2>1
  <2> HIDE DEF inHands
  <2>. QED BY <2>2, BufsAssumption, FS_Subset
<1>2. \A b \in inHands : f[b] \in held /\ ptr[f[b]] = b
  OBVIOUS
<1>3. \A p \in held : f[ptr[p]] = p
  BY <1>2 DEF Sound, Owners
<1>4. f \in Bijection(inHands, held)
  <2>1. f \in [inHands -> held]
    BY <1>2
  <2>2. \A p \in held : ptr[p] \in inHands
    OBVIOUS
  <2> HIDE DEF f, inHands, held
  <2>. QED BY <1>2, <1>3, <2>1, <2>2 DEF Bijection, Injection, Surjection, IsInjective
<1>. QED
  <2> HIDE DEF f, inHands
  <2>1. Cardinality(inHands) = Cardinality(held)
    <3>1. ExistsBijection(inHands, held)
      BY <1>4 DEF ExistsBijection
    <3> HIDE DEF held
    <3>. QED BY <1>1, <3>1, FS_Bijection
  <2>. QED BY <2>1 DEF inHands

(* For any processes, any finite memory and any messages: unless two       *)
(* processes clashed, the list ends at qtail, what is in it is allocated   *)
(* and sized but for the buffer being written, and every allocated buffer  *)
(* is in the list, in the hands of exactly one process, or lost.           *)
THEOREM ListIsSound == Spec => []QueueIsSound
<1>1. HasList => QueueIsSound
  <2> SUFFICES ASSUME HasList, ~clash PROVE QueueIsSound
    BY DEF QueueIsSound
  <2>1. PICK q \in Seq(Bufs) : Sound(q)
    BY DEF HasList
  <2>2. Queue = q
    BY <2>1, QueueIsChain DEF Sound
  <2>3. InQueue = On(q)
    BY <2>2 DEF InQueue, On
  <2> DEFINE held == {p \in Procs : ptr[p] # None /\ ~Unlinking(p)
                                    /\ ptr[p] \notin InQueue}
             inHands == {ptr[p] : p \in held}
  <2>4. held = {p \in Procs : Holds(p)}
    BY <2>1, <2>3, HeldAreHolders
  <2>5. Len(Queue) <= Cardinality(Bufs)
    BY <2>1, <2>2, ChainFits DEF Sound
  <2>6. Queue # <<>> /\ (\A p \in Procs : pc[p] # "qtail") => Queue[Len(Queue)] = qtail
    BY <2>1, <2>2 DEF Sound, Writing
  <2>7. \A b \in InQueue : b \in sized \/ \E p \in Procs : Linking(p) /\ ptr[p] = b
    BY <2>1, <2>3 DEF Sound, Writing
  <2>8. ASSUME NEW p \in Procs, Holds(p) PROVE ptr[p] \in Bufs
    BY <2>1, <2>8, PtrTyped DEF Holds, Without
  <2>9. memory = InQueue \cup inHands \cup lost
    <3>1. memory \subseteq Bufs /\ InQueue \subseteq Bufs /\ lost \subseteq Bufs
      BY <2>1, <2>3, OnBufs DEF Sound, Typed, Owners
    <3>2. inHands \subseteq Bufs
      BY <2>4, <2>8
    <3>3. \A b \in Bufs : b \in memory <=> b \in InQueue \/ b \in lost \/ b \in inHands
      BY <2>1, <2>3, <2>4 DEF Sound, Owners
    <3> HIDE DEF inHands
    <3>. QED BY <3>1, <3>2, <3>3
  <2>10. InQueue \cap (inHands \cup lost) = {} /\ inHands \cap lost = {}
    BY <2>1, <2>3, <2>4 DEF Sound, Owners, Pointers
  <2>11. Cardinality(held) = Cardinality(inHands)
    BY <2>1, <2>4, OneEachInHand
  <2>. QED BY <2>5, <2>6, <2>7, <2>9, <2>10, <2>11 DEF QueueIsSound
<1>. QED BY AlwaysHasList, <1>1, PTL

-----------------------------------------------------------------------------
(***************************************************************************)
(* The device passes messages on as MessageFifo says: the messages of the  *)
(* list, and the one each reader is copying.                               *)
(***************************************************************************)
Messages(q) == [i \in 1..Len(q) |-> msg[q[i]]]

Copied == [p \in Procs |-> IF pc[p] = "to_user" THEN msg[ptr[p]] ELSE None]

(* The two are what MessageFifo is shown.                                  *)
ShownIsList == \A q \in Seq(Bufs) : Sound(q) =>
  [i \in DOMAIN Queue |-> msg[Queue[i]]] = Messages(q)

LEMMA ShownIsListAlways == ShownIsList
<1> SUFFICES ASSUME NEW q \in Seq(Bufs), Sound(q)
             PROVE  [i \in DOMAIN Queue |-> msg[Queue[i]]] = Messages(q)
  BY DEF ShownIsList
<1>1. Queue = q
  BY QueueIsChain DEF Sound
<1>. QED BY <1>1 DEF Messages

(* A message in the list or in a reader's hands changes with none of these *)
(* steps: what a writer fills is neither.                                  *)
LEMMA StaysKeepsMessages ==
  ASSUME NEW q \in Seq(Bufs), Sound(q), NEW p \in Procs, Stays(p)
  PROVE  Messages(q)' = Messages(q) /\ Copied' = Copied
<1>1. ASSUME \A b \in On(q) : msg'[b] = msg[b],
             \A r \in Procs :
               /\ pc'[r] = "to_user" <=> pc[r] = "to_user"
               /\ pc[r] = "to_user" => ptr'[r] = ptr[r] /\ msg'[ptr[r]] = msg[ptr[r]]
      PROVE  Messages(q)' = Messages(q) /\ Copied' = Copied
  <2>1. \A i \in 1..Len(q) : q[i] \in On(q)
    BY DEF On
  <2>2. Messages(q)' = Messages(q)
    BY <1>1, <2>1 DEF Messages
  <2>3. Copied' = Copied
    BY <1>1 DEF Copied
  <2>. QED BY <2>2, <2>3
<1>2. CASE \E m \in Msgs : CopyFromUser(p, m)
  <2>1. PICK m \in Msgs : CopyFromUser(p, m)
    BY <1>2
  <2>2. /\ msg' = [msg EXCEPT ![ptr[p]] = m] /\ ptr' = ptr
        /\ pc[p] = "from_user" /\ pc' = [pc EXCEPT ![p] = "test"]
    BY <2>1 DEF CopyFromUser, At
  <2>3. /\ ptr[p] \in Bufs /\ ptr[p] \notin On(q)
        /\ \A r \in Procs : pc[r] = "to_user" => ptr[r] \in Bufs /\ ptr[r] # ptr[p]
    BY <2>2, PtrTyped DEF Sound, Pointers, Owners, Holds, Without
  <2>4. \A c \in On(q) : msg'[c] = msg[c]
    BY <2>2, <2>3, OnBufs DEF Sound, Typed
  <2>5. \A r \in Procs : pc[r] = "to_user" => msg'[ptr[r]] = msg[ptr[r]]
    BY <2>2, <2>3 DEF Sound, Typed
  <2>6. \A r \in Procs : pc'[r] = "to_user" <=> pc[r] = "to_user"
    BY <2>2 DEF Sound, Typed
  <2>. QED BY <1>1, <2>2, <2>4, <2>5, <2>6
<1>3. CASE \/ \E how \in {"write", "read"} : OpenTest(p, how)
           \/ OpenSet(p) \/ tdd_release(p) \/ tdd_read(p) \/ tdd_write(p)
           \/ WriteTest(p) \/ WriteQtail(p) \/ WriteSize(p) \/ ReadTake(p) \/ ReadLink(p)
  <2>1. msg' = msg
    BY <1>3 DEF OpenTest, OpenSet, tdd_release, tdd_read, tdd_write, WriteTest,
                WriteQtail, WriteSize, ReadTake, ReadLink, bufVars
  <2>2. pc[p] # "to_user" /\ pc'[p] # "to_user"
    BY <1>3 DEF OpenTest, OpenSet, tdd_release, tdd_read, tdd_write, WriteTest,
                WriteQtail, WriteSize, ReadTake, ReadLink, At, Sound, Typed
  <2>3. \A r \in Procs \ {p} : pc'[r] = pc[r] /\ ptr'[r] = ptr[r]
    BY <1>3 DEF OpenTest, OpenSet, tdd_release, tdd_read, tdd_write, WriteTest,
                WriteQtail, WriteSize, ReadTake, ReadLink, At, Sound, Typed
  <2>. QED BY <1>1, <2>1, <2>2, <2>3
<1>. QED BY <1>2, <1>3 DEF Stays

(* A function on 1..n is a sequence of length n.                           *)
LEMMA FunctionIsSeq ==
  ASSUME NEW M, NEW n \in Nat, NEW f \in [1..n -> M]
  PROVE  f \in Seq(M) /\ Len(f) = n
OBVIOUS

(* The messages of the list, one for each buffer.                          *)
LEMMA MessagesTyped ==
  ASSUME NEW q \in Seq(Bufs), Sound(q)
  PROVE  /\ Messages(q) \in Seq(Msgs \cup {None}) /\ Len(Messages(q)) = Len(q)
         /\ \A i \in 1..Len(q) : Messages(q)[i] = msg[q[i]]
<1>1. \A i \in 1..Len(q) : msg[q[i]] \in Msgs \cup {None}
  BY OnBufs DEF Sound, Typed
<1>2. Len(q) \in Nat
  OBVIOUS
<1>. QED BY <1>1, <1>2 DEF Messages

(* A writer that links its buffer puts its message behind the others.      *)
LEMMA LinkingPuts ==
  ASSUME NEW q \in Seq(Bufs), Sound(q), NEW p \in Procs,
         (WriteHead(p) /\ Len(q) = 0) \/ WriteTail(p),
         NEW s \in Seq(Bufs), s = Append(q, ptr[p])
  PROVE  /\ msg[ptr[p]] \in Msgs
         /\ Messages(s)' = Append(Messages(q), msg[ptr[p]]) /\ Copied' = Copied
<1>1. /\ pc[p] \in {"head", "tail"} /\ pc' = [pc EXCEPT ![p] = "qtail"]
      /\ msg' = msg /\ ptr' = ptr
  BY DEF WriteHead, WriteTail, At, bufVars
<1>2. msg[ptr[p]] \in Msgs /\ ptr[p] \in Bufs
  BY <1>1, PtrTyped DEF Sound, Pointers, Without
<1>3. Copied' = Copied
  BY <1>1 DEF Copied, Sound, Typed
<1>4. PICK L \in Nat : L = Len(q)
  OBVIOUS
<1>5. /\ Len(s) = L + 1 /\ s[L + 1] = ptr[p] /\ \A i \in 1..L : s[i] = q[i]
  BY <1>2, <1>4
<1>6. PICK t \in Seq(Msgs \cup {None}) :
        t = Messages(q) /\ Len(t) = L /\ \A i \in 1..L : t[i] = msg[q[i]]
  BY <1>4, MessagesTyped
<1>7. PICK m \in Msgs : m = msg[ptr[p]]
  BY <1>2
<1>8. PICK u \in Seq(Msgs \cup {None}) :
        u = Messages(s)' /\ Len(u) = L + 1 /\ \A i \in 1..(L + 1) : u[i] = msg[s[i]]
  <2>1. \A i \in 1..(L + 1) : msg[s[i]] \in Msgs \cup {None}
    BY <1>5, OnBufs DEF Sound, Typed
  <2>2. Messages(s)' = [i \in 1..(L + 1) |-> msg[s[i]]]
    BY <1>1, <1>5 DEF Messages
  <2>3. L + 1 \in Nat
    BY <1>4
  <2> DEFINE w == [i \in 1..(L + 1) |-> msg[s[i]]]
  <2>4. w \in Seq(Msgs \cup {None}) /\ Len(w) = L + 1
    <3>1. w \in [1..(L + 1) -> Msgs \cup {None}]
      BY <2>1
    <3> HIDE DEF w
    <3>. QED BY <2>3, <3>1, FunctionIsSeq
  <2>5. w = Messages(s)' /\ \A i \in 1..(L + 1) : w[i] = msg[s[i]]
    BY <2>2
  <2> HIDE DEF w
  <2>. QED BY <2>4, <2>5
<1>9. u = Append(t, m)
  <2>1. /\ Append(t, m) \in Seq(Msgs \cup {None}) /\ Len(Append(t, m)) = L + 1
        /\ \A i \in 1..L : Append(t, m)[i] = t[i]
        /\ Append(t, m)[L + 1] = m
    BY <1>6, AppendProperties
  <2>2. ASSUME NEW i \in 1..(L + 1) PROVE u[i] = Append(t, m)[i]
    <3>1. i # L + 1 => i \in 1..L
      OBVIOUS
    <3>. QED BY <1>5, <1>6, <1>7, <1>8, <2>1, <3>1
  <2>. QED BY <1>8, <2>1, <2>2, SeqEqual
<1>. QED BY <1>2, <1>3, <1>6, <1>7, <1>8, <1>9

(* A read takes the oldest message, and only this reader has it.           *)
LEMMA AdvanceTakes ==
  ASSUME NEW q \in Seq(Bufs), Sound(q), NEW p \in Procs, ReadAdvance(p),
         Len(q) > 0, ptr[p] = q[1], NEW s \in Seq(Bufs), s = Tail(q)
  PROVE  /\ Messages(q) # <<>> /\ Copied[p] = None
         /\ Messages(s)' = Tail(Messages(q))
         /\ Copied' = [Copied EXCEPT ![p] = Head(Messages(q))]
<1>1. /\ pc[p] = "store" /\ pc' = [pc EXCEPT ![p] = "to_user"]
      /\ msg' = msg /\ ptr' = ptr
  BY DEF ReadAdvance, At, bufVars
<1>2. PICK L \in Nat : L = Len(q) /\ L > 0
  OBVIOUS
<1>3. Len(s) = L - 1 /\ \A i \in 1..(L - 1) : s[i] = q[i + 1]
  BY <1>2
<1>4. PICK t \in Seq(Msgs \cup {None}) :
        t = Messages(q) /\ Len(t) = L /\ \A i \in 1..L : t[i] = msg[q[i]]
  BY <1>2, MessagesTyped
<1>5. /\ t # <<>> /\ Head(t) = msg[q[1]]
      /\ Tail(t) \in Seq(Msgs \cup {None}) /\ Len(Tail(t)) = L - 1
      /\ \A i \in 1..(L - 1) : Tail(t)[i] = t[i + 1]
  <2>1. t # <<>> /\ 1 \in 1..L
    BY <1>2, <1>4
  <2>2. Head(t) = t[1]
    BY <1>4, <2>1
  <2>. QED BY <1>4, <2>1, <2>2, HeadTailProperties
<1>6. PICK u \in Seq(Msgs \cup {None}) :
        u = Messages(s)' /\ Len(u) = L - 1 /\ \A i \in 1..(L - 1) : u[i] = msg[s[i]]
  <2>1. \A i \in 1..(L - 1) : msg[s[i]] \in Msgs \cup {None}
    BY <1>3, OnBufs DEF Sound, Typed
  <2>2. Messages(s)' = [i \in 1..(L - 1) |-> msg[s[i]]]
    BY <1>1, <1>3 DEF Messages
  <2>3. L - 1 \in Nat
    BY <1>2
  <2> DEFINE w == [i \in 1..(L - 1) |-> msg[s[i]]]
  <2>4. w \in Seq(Msgs \cup {None}) /\ Len(w) = L - 1
    <3>1. w \in [1..(L - 1) -> Msgs \cup {None}]
      BY <2>1
    <3> HIDE DEF w
    <3>. QED BY <2>3, <3>1, FunctionIsSeq
  <2>5. w = Messages(s)' /\ \A i \in 1..(L - 1) : w[i] = msg[s[i]]
    BY <2>2
  <2> HIDE DEF w
  <2>. QED BY <2>4, <2>5
<1>7. ASSUME NEW i \in 1..(L - 1) PROVE u[i] = Tail(t)[i]
  <2>1. i + 1 \in 1..L
    OBVIOUS
  <2>. QED BY <1>3, <1>4, <1>5, <1>6, <2>1
<1>8. u = Tail(t)
  BY <1>5, <1>6, <1>7, SeqEqual
<1>9. Copied[p] = None
  BY <1>1 DEF Copied
<1>10. Copied' = [Copied EXCEPT ![p] = msg[q[1]]]
  BY <1>1 DEF Copied, Sound, Typed
<1>. QED BY <1>4, <1>5, <1>6, <1>8, <1>9, <1>10

(* A reader is done with its message, or its copy failed; a writer whose   *)
(* copy failed never had one to pass on.                                   *)
LEMMA LetsGo ==
  ASSUME NEW q \in Seq(Bufs), Sound(q), NEW p \in Procs, CopyFails(p) \/ ReadFree(p)
  PROVE  Messages(q)' = Messages(q) /\ Copied' = [Copied EXCEPT ![p] = None]
<1>1. /\ msg' = [msg EXCEPT ![ptr[p]] = None] /\ pc' = [pc EXCEPT ![p] = "idle"]
      /\ pc[p] \in {"from_user", "to_user"}
      /\ \A r \in Procs \ {p} : ptr'[r] = ptr[r]
  BY DEF CopyFails, ReadFree, At, Sound, Typed
<1>2. /\ ptr[p] \in Bufs /\ ptr[p] \notin On(q)
      /\ \A r \in Procs \ {p} : pc[r] = "to_user" => ptr[r] \in Bufs /\ ptr[r] # ptr[p]
  BY <1>1, PtrTyped DEF Sound, Pointers, Owners, Holds, Without
<1>3. \A i \in 1..Len(q) : msg'[q[i]] = msg[q[i]]
  BY <1>1, <1>2, OnBufs DEF Sound, Typed, On
<1>4. Messages(q)' = Messages(q)
  BY <1>3 DEF Messages
<1>5. \A r \in Procs \ {p} : pc[r] = "to_user" => msg'[ptr[r]] = msg[ptr[r]]
  BY <1>1, <1>2 DEF Sound, Typed
<1>6. Copied' = [Copied EXCEPT ![p] = None]
  BY <1>1, <1>5 DEF Copied, Sound, Typed
<1>. QED BY <1>4, <1>6

(* For any processes, any finite memory and any messages: every step is a  *)
(* step of MessageFifo, or one of those after which nothing is promised.   *)
THEOREM DeviceIsFifo == Spec => ImplementsFifo
<1> DEFINE fifo == [i \in DOMAIN Queue |-> msg[Queue[i]]]
           Same == UNCHANGED <<fifo, Copied>>
<1>1. Init => Fifo!Init
  <2> SUFFICES ASSUME Init PROVE Fifo!Init
    OBVIOUS
  <2>1. PICK q \in Seq(Bufs) : q = <<>> /\ Chain(q)
    <3>1. <<>> \in Seq(Bufs) /\ Chain(<<>>)
      BY DEF Init, Chain
    <3>. QED BY <3>1
  <2>2. Queue = <<>>
    BY <2>1, QueueIsChain
  <2>. QED BY <2>2 DEF Init, Fifo!Init
<1>2. HasList /\ ShownIsList /\ ShownIsList' /\ [Next]_vars
        => [clash' \/ Fifo!Next]_<<Fifo!fifoVars>>
  <2> SUFFICES ASSUME HasList, ShownIsList, ShownIsList', Next, ~clash'
               PROVE  Same \/ Fifo!Next
    <3>1. UNCHANGED vars => Same
      <4>1. UNCHANGED vars => UNCHANGED <<qhead, link, msg, pc, ptr>>
        BY DEF vars, queueVars, bufVars, procVars
      <4>2. UNCHANGED <<qhead, link, msg, pc, ptr>> => Same
        BY DEF Queue, Copied
      <4>. QED BY <4>1, <4>2
    <3>2. Same => UNCHANGED <<Fifo!fifoVars>>
      BY DEF Fifo!fifoVars, Copied
    <3>. QED BY <3>1, <3>2
  <2>1. PICK q \in Seq(Bufs) : Sound(q)
    BY DEF HasList, Next
  <2>2. fifo = Messages(q)
    BY <2>1 DEF ShownIsList
  <2>3. ASSUME NEW s \in Seq(Bufs), Sound(s)' PROVE fifo' = Messages(s)'
    BY <2>3 DEF ShownIsList
  <2>4. Same => Same \/ Fifo!Next
    OBVIOUS
  <2> HIDE DEF fifo
  <2>5. CASE Reload
    <3>1. PICK s \in Seq(Bufs) : s = <<>> /\ Sound(s)'
      BY <2>1, <2>5, ReloadSound
    <3>2. Messages(s)' = <<>> /\ Copied' = Copied
      BY <2>5, <3>1 DEF Reload, Messages, Copied, procVars
    <3>3. fifo' = <<>> /\ UNCHANGED Copied
      BY <2>3, <3>1, <3>2
    <3>. QED BY <3>3 DEF fifo, Copied, Fifo!Next, Fifo!Forget
  <2>6. CASE \E p \in Procs : Step(p)
    <3>1. PICK p \in Procs : Step(p)
      BY <2>6
    <3>2. CASE Stays(p)
      <4>1. Sound(q)' /\ Messages(q)' = Messages(q) /\ Copied' = Copied
        BY <2>1, <3>2, StaysSound, StaysKeepsMessages
      <4>. QED BY <2>2, <2>3, <4>1
    <3>3. CASE CopyFails(p) \/ ReadFree(p)
      <4>1. Sound(q)' /\ Messages(q)' = Messages(q)
            /\ Copied' = [Copied EXCEPT ![p] = None]
        BY <2>1, <3>3, CopyFailsSound, ReadFreeSound, LetsGo
      <4>2. UNCHANGED fifo /\ Copied' = [Copied EXCEPT ![p] = None]
        BY <2>2, <2>3, <4>1
      <4>. QED BY <4>2 DEF fifo, Copied, Fifo!Next, Fifo!LetGo
    <3>4. CASE WriteHead(p) \/ WriteTail(p)
      <4>1. PICK s \in Seq(Bufs) :
                /\ s = Append(q, ptr[p]) /\ Sound(s)'
                /\ (WriteHead(p) /\ Len(q) = 0) \/ WriteTail(p)
        <5>1. ASSUME NEW s \in Seq(Bufs), s = <<ptr[p]>>, Len(q) = 0
              PROVE  s = Append(q, ptr[p])
          <6>1. q = <<>>
            BY <5>1
          <6>. QED BY <5>1, <6>1
        <5>. QED BY <2>1, <3>4, <5>1, WriteHeadSound, WriteTailSound
      <4>2. /\ msg[ptr[p]] \in Msgs
            /\ Messages(s)' = Append(Messages(q), msg[ptr[p]]) /\ Copied' = Copied
        BY <2>1, <4>1, LinkingPuts
      <4>3. \E m \in Msgs : fifo' = Append(fifo, m) /\ UNCHANGED Copied
        <5>1. fifo' = Messages(s)'
          BY <2>3, <4>1
        <5>. QED BY <2>2, <4>2, <5>1
      <4>. QED BY <4>3 DEF fifo, Copied, Fifo!Next, Fifo!Put
    <3>5. CASE ReadAdvance(p)
      <4>1. Len(q) > 0 /\ ptr[p] = q[1] /\ \E s \in Seq(Bufs) : s = Tail(q) /\ Sound(s)'
        BY <2>1, <3>5, ReadAdvanceSound
      <4>2. PICK s \in Seq(Bufs) : s = Tail(q) /\ Sound(s)'
        BY <4>1
      <4>3. /\ Messages(q) # <<>> /\ Copied[p] = None
            /\ Messages(s)' = Tail(Messages(q))
            /\ Copied' = [Copied EXCEPT ![p] = Head(Messages(q))]
        BY <2>1, <3>5, <4>1, <4>2, AdvanceTakes
      <4>4. /\ fifo # <<>> /\ Copied[p] = None
            /\ Copied' = [Copied EXCEPT ![p] = Head(fifo)] /\ fifo' = Tail(fifo)
        BY <2>2, <2>3, <4>2, <4>3
      <4>. QED BY <4>4 DEF fifo, Copied, Fifo!Next, Fifo!Take
    <3>. QED BY <3>1, <3>2, <3>3, <3>4, <3>5 DEF Step, Stays
  <2>. QED BY <2>5, <2>6 DEF Next
<1>. QED BY <1>1, <1>2, AlwaysHasList, ShownIsListAlways, PTL DEF Spec, ImplementsFifo
=============================================================================
