------------------------------ MODULE TddDevice ------------------------------
(***************************************************************************)
(* The character device of linux_kernel/lab9/lab9.c: minor 0 is meant to   *)
(* write messages and minor 1 to read them, but tdd_write and tdd_read do  *)
(* not ask which one a file was opened by; a linked list of buffers is in  *)
(* between.  There is no lock, and as opens of minor 1 never exclude each  *)
(* other any number of processes may write and read at once.  On a         *)
(* preemptible kernel any process may run between two steps of another;    *)
(* each step below has at most one access to qhead, qtail or a link that   *)
(* others see, in the order of the code.  On a kernel that switches only   *)
(* in kmalloc and in the copies nothing clashes.  tdd_ioctl changes only a *)
(* trace flag that nothing reads, and is left out.                         *)
(***************************************************************************)
EXTENDS Integers, Sequences, FiniteSets, FiniteSetsExt

CONSTANTS Procs,  \* processes that use the device
          Bufs,   \* struct tdd_buf there is memory for
          Msgs,   \* contents of a message
          None    \* NULL, and no message

ASSUME BufsAssumption == IsFiniteSet(Bufs) /\ Bufs \subseteq Nat
ASSUME NoneAssumption == None \notin Bufs \cup Msgs

VARIABLES
  write_busy, read_busy,
  qhead, qtail,
  link,    \* link of each buffer
  msg,     \* buffer[] of each buffer, None unless it is in use and copied
  sized,   \* buffers whose buf_size is set
  memory,  \* buffers that are allocated
  opened,  \* "no", "write" or "read" for each process
  pc, ptr, \* where each process is, and its local ptr
  next,    \* the qhead->link each process has loaded
  lost,    \* buffers no one will free: a copy failed, or an unload
  clash    \* two processes were in each other's way

busyVars  == <<write_busy, read_busy>>
queueVars == <<qhead, qtail, link>>
bufVars   == <<msg, sized, memory, lost>>
procVars  == <<opened, pc, ptr, next>>
vars == <<busyVars, queueVars, bufVars, procVars, clash>>

Init ==
  /\ write_busy = FALSE /\ read_busy = FALSE
  /\ qhead = None /\ qtail = None
  /\ link = [b \in Bufs |-> None] /\ msg = [b \in Bufs |-> None]
  /\ sized = {} /\ memory = {} /\ lost = {}
  /\ opened = [p \in Procs |-> "no"]
  /\ pc = [p \in Procs |-> "idle"] /\ ptr = [p \in Procs |-> None]
  /\ next = [p \in Procs |-> None]
  /\ clash = FALSE

At(p, here, there) == pc[p] = here /\ pc' = [pc EXCEPT ![p] = there]

(* A write between its look at qhead and the size.                         *)
Linking(p) == pc[p] \in {"head", "tail", "qtail", "size"}

(* A read between its load of qhead and its store.                         *)
Unlinking(p) == pc[p] \in {"advance", "store"}

(* A read that has seen the end of the list and is about to empty it.      *)
Emptying(p) == pc[p] = "store" /\ next[p] = None

-----------------------------------------------------------------------------
(* tdd_open tests and then sets; for reading it sets FALSE.                *)
OpenTest(p, how) ==
  /\ opened[p] = "no"
  /\ ~(IF how = "write" THEN write_busy ELSE read_busy)
  /\ At(p, "idle", how)
  /\ UNCHANGED <<busyVars, queueVars, bufVars, opened, ptr, next, clash>>

OpenSet(p) ==
  /\ pc[p] \in {"write", "read"}
  /\ opened' = [opened EXCEPT ![p] = pc[p]]
  /\ pc' = [pc EXCEPT ![p] = "idle"]
  /\ IF pc[p] = "write" THEN write_busy' = TRUE /\ UNCHANGED read_busy
                        ELSE read_busy' = FALSE /\ UNCHANGED write_busy
  /\ UNCHANGED <<queueVars, bufVars, ptr, next, clash>>

tdd_release(p) ==
  /\ opened[p] # "no" /\ pc[p] = "idle"
  /\ opened' = [opened EXCEPT ![p] = "no"]
  /\ IF opened[p] = "write" THEN write_busy' = FALSE /\ UNCHANGED read_busy
                            ELSE read_busy' = FALSE /\ UNCHANGED write_busy
  /\ UNCHANGED <<queueVars, bufVars, pc, ptr, next, clash>>

-----------------------------------------------------------------------------
(* tdd_write: with no buffer left kmalloc fails and nothing changes.       *)
tdd_write(p) ==
  /\ opened[p] # "no" /\ At(p, "idle", "from_user")
  /\ LET free == Bufs \ memory
         b == Min(free)
     IN /\ free # {}
        /\ memory' = memory \cup {b}
        /\ ptr' = [ptr EXCEPT ![p] = b]
  /\ UNCHANGED <<busyVars, queueVars, msg, sized, lost, opened, next, clash>>

(* A copy of tdd_write or tdd_read that fails loses the buffer.            *)
CopyFromUser(p, m) ==
  /\ At(p, "from_user", "test")
  /\ msg' = [msg EXCEPT ![ptr[p]] = m]
  /\ UNCHANGED <<busyVars, queueVars, sized, memory, lost, opened, ptr, next, clash>>

CopyFails(p) ==
  /\ pc[p] \in {"from_user", "to_user"}
  /\ pc' = [pc EXCEPT ![p] = "idle"] /\ ptr' = [ptr EXCEPT ![p] = None]
  /\ lost' = lost \cup {ptr[p]}
  /\ msg' = [msg EXCEPT ![ptr[p]] = None] /\ sized' = sized \ {ptr[p]}
  /\ UNCHANGED <<busyVars, queueVars, memory, opened, next, clash>>

(* The mistake of not clearing the link of the new buffer.                 *)
WriteTestKeepsLink(p) ==
  /\ At(p, "test", IF qhead = None THEN "head" ELSE "tail")
  /\ clash' = \E q \in Procs \ {p} : Linking(q) \/ Emptying(q)
  /\ UNCHANGED <<busyVars, queueVars, bufVars, opened, ptr, next>>

(* Two writes clash here, and a write with a read that will undo it.       *)
WriteTest(p) ==
  /\ At(p, "test", IF qhead = None THEN "head" ELSE "tail")
  /\ link' = [link EXCEPT ![ptr[p]] = None]
  /\ clash' = \E q \in Procs \ {p} : Linking(q) \/ Emptying(q)
  /\ UNCHANGED <<busyVars, qhead, qtail, bufVars, opened, ptr, next>>

WriteHead(p) ==
  /\ At(p, "head", "qtail")
  /\ qhead' = ptr[p]
  /\ UNCHANGED <<busyVars, qtail, link, bufVars, opened, ptr, next, clash>>

(* The mistake of putting the new buffer before the others.                *)
WriteInFront(p) ==
  /\ At(p, "tail", "size")
  /\ link' = [link EXCEPT ![ptr[p]] = qhead] /\ qhead' = ptr[p]
  /\ UNCHANGED <<busyVars, qtail, bufVars, opened, ptr, next, clash>>

WriteTail(p) ==
  /\ At(p, "tail", "qtail")
  /\ link' = [link EXCEPT ![qtail] = ptr[p]]
  /\ UNCHANGED <<busyVars, qhead, qtail, bufVars, opened, ptr, next, clash>>

WriteQtail(p) ==
  /\ At(p, "qtail", "size")
  /\ qtail' = ptr[p]
  /\ UNCHANGED <<busyVars, qhead, link, bufVars, opened, ptr, next, clash>>

WriteSize(p) ==
  /\ At(p, "size", "idle")
  /\ sized' = sized \cup {ptr[p]} /\ ptr' = [ptr EXCEPT ![p] = None]
  /\ UNCHANGED <<busyVars, queueVars, msg, memory, lost, opened, next, clash>>

-----------------------------------------------------------------------------
(* tdd_read: an empty queue is ENODATA and changes nothing.                *)
tdd_read(p) ==
  /\ opened[p] # "no" /\ qhead # None
  /\ At(p, "idle", "take")
  /\ UNCHANGED <<busyVars, queueVars, bufVars, opened, ptr, next, clash>>

(* Another read may have emptied the queue since the test, or be about to  *)
(* unlink the same buffer.                                                 *)
ReadTake(p) ==
  /\ At(p, "take", "advance")
  /\ ptr' = [ptr EXCEPT ![p] = qhead]
  /\ clash' = (qhead = None \/ \E q \in Procs : Unlinking(q))
  /\ UNCHANGED <<busyVars, queueVars, bufVars, opened, next>>

(* A write that is not complete and the read of the last buffer clash.     *)
ReadLink(p) ==
  /\ At(p, "advance", "store")
  /\ next' = [next EXCEPT ![p] = link[qhead]]
  /\ clash' = (link[qhead] = None /\ \E q \in Procs : Linking(q))
  /\ UNCHANGED <<busyVars, queueVars, bufVars, opened, ptr>>

ReadAdvance(p) ==
  /\ At(p, "store", "to_user")
  /\ qhead' = next[p] /\ next' = [next EXCEPT ![p] = None]
  /\ UNCHANGED <<busyVars, qtail, link, bufVars, opened, ptr, clash>>

(* The copy succeeds and the buffer is free; what it holds is forgotten.   *)
ReadFree(p) ==
  /\ At(p, "to_user", "idle")
  /\ memory' = memory \ {ptr[p]} /\ ptr' = [ptr EXCEPT ![p] = None]
  /\ msg' = [msg EXCEPT ![ptr[p]] = None] /\ sized' = sized \ {ptr[p]}
  /\ UNCHANGED <<busyVars, queueVars, lost, opened, next, clash>>

-----------------------------------------------------------------------------
(* The buffers from qhead on; one more than there are if they form a loop. *)
Queue ==
  LET node[n \in 0..Cardinality(Bufs)] ==
        IF n = 0 THEN qhead
        ELSE IF node[n - 1] = None THEN None ELSE link[node[n - 1]]
      length == Cardinality({n \in DOMAIN node : node[n] # None})
  IN [i \in 1..length |-> node[i - 1]]

InQueue == {Queue[i] : i \in DOMAIN Queue}

(* rmmod and insmod: what is queued is lost.  With the device closed: the  *)
(* module has no .owner, but an unload under an open file is left out.     *)
Reload ==
  /\ \A p \in Procs : opened[p] = "no" /\ pc[p] = "idle"
  /\ qhead' = None /\ write_busy' = FALSE /\ read_busy' = FALSE
  /\ lost' = lost \cup InQueue
  /\ UNCHANGED <<qtail, link, msg, sized, memory, procVars, clash>>

Step(p) ==
  \/ \E how \in {"write", "read"} : OpenTest(p, how)
  \/ OpenSet(p) \/ tdd_release(p)
  \/ tdd_write(p) \/ (\E m \in Msgs : CopyFromUser(p, m)) \/ CopyFails(p)
  \/ WriteTest(p) \/ WriteHead(p) \/ WriteTail(p) \/ WriteQtail(p) \/ WriteSize(p)
  \/ tdd_read(p) \/ ReadTake(p) \/ ReadLink(p) \/ ReadAdvance(p) \/ ReadFree(p)

(* After a clash the list may be anything.                                 *)
Next == ~clash /\ (Reload \/ \E p \in Procs : Step(p))

Spec == Init /\ [][Next]_vars

-----------------------------------------------------------------------------
(* Outside four windows, at any length of the queue and in any other       *)
(* interleaving of any number of reads and writes, the list ends at qtail, *)
(* every buffer in it is allocated and sized but the one being written,    *)
(* and every buffer allocated is in the list, in the hands of one process, *)
(* or lost.  The windows: a write starts to link while another has not     *)
(* finished (lab9.c:181-189); a read is between load and store of qhead    *)
(* (205-206) when another loads it; the queue is emptied between a read's  *)
(* test of qhead and its load (202-205); a read takes the last buffer      *)
(* while a write is under way, or one starts between its load of the link  *)
(* and its store (206).                                                    *)
QueueIsSound ==
  LET held == {p \in Procs : ptr[p] # None /\ ~Unlinking(p) /\ ptr[p] \notin InQueue}
      inHands == {ptr[p] : p \in held}
  IN ~clash =>
       /\ Len(Queue) <= Cardinality(Bufs)
       /\ Queue # <<>> /\ (\A p \in Procs : pc[p] # "qtail") => Queue[Len(Queue)] = qtail
       /\ \A b \in InQueue : b \in sized \/ \E p \in Procs : Linking(p) /\ ptr[p] = b
       /\ memory = InQueue \cup inHands \cup lost
       /\ InQueue \cap (inHands \cup lost) = {} /\ inHands \cap lost = {}
       /\ Cardinality(held) = Cardinality(inHands)

(* Outside the same windows readers get the messages whole, in the order   *)
(* in which they were written, each at most once, and every message that   *)
(* was put stays in the queue until one reader takes it.                   *)
Fifo == INSTANCE MessageFifo WITH
  fifo <- [i \in DOMAIN Queue |-> msg[Queue[i]]],
  hand <- [p \in Procs |-> IF pc[p] = "to_user" THEN msg[ptr[p]] ELSE None]

ImplementsFifo == Fifo!Init /\ [][clash' \/ Fifo!Next]_<<Fifo!fifoVars>>
=============================================================================
