------------------------ MODULE PthreadServerProofs ------------------------
(***************************************************************************)
(* PthreadServer, for every number of clients and slots: two connections   *)
(* that are being served never share a slot, and the scan for a slot ends  *)
(* on a free one, although the main thread looks at the table without any  *)
(* lock.  The reason is that only the main thread takes slots: a free slot *)
(* it has not passed stays free, and one it has marked has no thread until *)
(* it starts one.                                                          *)
(***************************************************************************)
EXTENDS PthreadServer, FiniteSetTheorems, TLAPS

(* Threads that still use the slot they were given.                        *)
Serving(c) == tpc[c] \in {"call", "recv", "terminate"}

ThreadStates == {"none", "call", "recv", "terminate", "uncount", "close", "done"}

(* The ranges of what the argument looks at.                               *)
Typed ==
  /\ tpc \in [Clients -> ThreadStates] /\ tci \in [Clients -> Int]
  /\ ci \in Int /\ newcomer \in Clients \cup {NoClient}
  /\ client \in [Clients -> {"new", "queued", "connected", "left"}]

(* The slot the main thread is about to mark is free.                      *)
MarkFinds == mpc \in {"accept", "mark"} => ci \notin isopen

(* The slot it has marked is its own until it starts a thread.             *)
MarkedIsMain ==
  mpc \in {"count", "spawn"} =>
    ci \in isopen /\ \A c \in Clients : Serving(c) => tci[c] # ci

ServedIsMarked == \A c \in Clients : Serving(c) => tci[c] \in isopen

(* A client that has just been accepted has no thread yet.                 *)
NewcomerHasNone ==
  /\ \A c \in Clients : client[c] \in {"new", "queued"} => tpc[c] = "none"
  /\ mpc \in {"mark", "count", "spawn"} =>
       newcomer \in Clients /\ client[newcomer] \notin {"new", "queued"}
         /\ tpc[newcomer] = "none"

SlotInv ==
  /\ Typed /\ NewcomerHasNone
  /\ MarkFinds /\ MarkedIsMain /\ ServedIsMarked /\ SlotsNotShared

(* The main thread only marks a free slot and only hands out a marked one. *)
LEMMA SlotNext == SlotInv /\ [Next]_vars => SlotInv'
<1> SUFFICES ASSUME SlotInv, [Next]_vars PROVE SlotInv'
  OBVIOUS
<1> USE DEF SlotInv, Typed, ThreadStates, Serving, MarkFinds, MarkedIsMain,
            ServedIsMarked, SlotsNotShared, NewcomerHasNone, MainGoto, ThreadGoto,
            tableVars, mainVars, clientVars, threadVars
<1>1. CASE MainGate
  BY <1>1 DEF MainGate
<1>2. CASE MainScan
  BY <1>2 DEF MainScan
<1>3. CASE MainAccept
  BY <1>3 DEF MainAccept
<1>4. CASE MainMark
  BY <1>4 DEF MainMark
<1>5. CASE MainCount
  BY <1>5 DEF MainCount
<1>6. CASE MainSpawn
  <2>1. /\ mpc = "spawn" /\ mpc' = "gate" /\ ci' = ci /\ isopen' = isopen
        /\ newcomer' = newcomer /\ client' = client
        /\ tpc' = [tpc EXCEPT ![newcomer] = "call"]
        /\ tci' = [tci EXCEPT ![newcomer] = ci]
    BY <1>6 DEF MainSpawn
  <2>2. Typed'
    BY <2>1
  <2>3. MarkFinds' /\ MarkedIsMain'
    BY <2>1
  <2>4. \A c \in Clients :
          tpc'[c] = (IF c = newcomer THEN "call" ELSE tpc[c])
          /\ tci'[c] = (IF c = newcomer THEN ci ELSE tci[c])
    BY <2>1
  <2>5. NewcomerHasNone'
    BY <2>1, <2>4
  <2>6. ServedIsMarked'
    BY <2>1, <2>4
  <2>7. SlotsNotShared'
    BY <2>1, <2>4
  <2>. QED
    BY <2>2, <2>3, <2>5, <2>6, <2>7
<1>7. ASSUME NEW c \in Clients, ThreadCall(c) PROVE SlotInv'
  BY <1>7 DEF ThreadCall
<1>8. ASSUME NEW c \in Clients, ThreadRecv(c) PROVE SlotInv'
  BY <1>8 DEF ThreadRecv
<1>9. ASSUME NEW c \in Clients, TerminateMark(c) PROVE SlotInv'
  BY <1>9 DEF TerminateMark
<1>10. ASSUME NEW c \in Clients, TerminateCount(c) \/ TerminateClose(c) PROVE SlotInv'
  BY <1>10 DEF TerminateCount, TerminateClose
<1>11. ASSUME NEW c \in Clients, ClientStep(c) PROVE SlotInv'
  BY <1>11 DEF ClientStep, ClientConnect, ClientAsk, ClientLeave
<1>12. CASE UNCHANGED vars
  BY <1>12 DEF vars
<1>. QED
  BY <1>1, <1>2, <1>3, <1>4, <1>5, <1>6, <1>7, <1>8, <1>9, <1>10, <1>11, <1>12
  DEF Next, MainStep, ThreadStep

LEMMA SlotInit == Init => SlotInv
BY DEF Init, SlotInv, Typed, ThreadStates, MarkFinds, MarkedIsMain, ServedIsMarked,
       SlotsNotShared, NewcomerHasNone, Serving

(* Two connections that are being served never share a slot.               *)
THEOREM SlotsAreOwn == Spec => []SlotsNotShared
<1>1. SlotInv => SlotsNotShared
  BY DEF SlotInv
<1>. QED BY <1>1, SlotInit, SlotNext, PTL DEF Spec

-----------------------------------------------------------------------------
(***************************************************************************)
(* The scan for a slot.  nopen counts the slots in use, but for the one    *)
(* that is marked and not yet counted and those that are given back and    *)
(* still counted: it may be too high, and too low only where the main      *)
(* thread is past its scan.  So there is a free slot at the gate, and      *)
(* the scan cannot pass it, because only the main thread could take it.    *)
(***************************************************************************)
Uncounting == {c \in Clients : tpc[c] = "uncount"}

Counted ==
  Cardinality(isopen) + Cardinality(Uncounting)
    = IF mpc = "count" THEN nopen + 1 ELSE nopen

Room ==
  /\ nopen \in Int /\ nopen <= ncons
  /\ mpc \in {"scan", "accept", "mark", "count"} => nopen < ncons

FreeSlotAhead == mpc = "scan" => \E s \in Slots \ isopen : ci <= s

TableInv ==
  /\ SlotInv
  /\ isopen \subseteq Slots /\ ci >= 1
  /\ Counted /\ Room /\ FreeSlotAhead /\ SlotInTable

LEMMA FiniteTables ==
  ASSUME isopen \subseteq Slots
  PROVE  /\ IsFiniteSet(isopen) /\ Cardinality(isopen) \in Nat
         /\ IsFiniteSet(Uncounting) /\ Cardinality(Uncounting) \in Nat
         /\ IsFiniteSet(Slots) /\ Cardinality(Slots) = ncons
<1>1. IsFiniteSet(Slots) /\ Cardinality(Slots) = ncons
  <2>1. 1 \in Int /\ ncons \in Int /\ ncons >= 1
    BY NconsAssumption
  <2>. QED BY <2>1, FS_Interval DEF Slots
<1>2. IsFiniteSet(isopen)
  BY <1>1, FS_Subset
<1>3. IsFiniteSet(Uncounting)
  BY ClientsAssumption, FS_Subset DEF Uncounting
<1>. QED BY <1>1, <1>2, <1>3, FS_CardinalityType

LEMMA TableInit == Init => TableInv
<1> SUFFICES ASSUME Init PROVE TableInv
  OBVIOUS
<1>1. SlotInv
  BY SlotInit
<1>2. isopen = {} /\ Uncounting = {} /\ nopen = 0 /\ mpc = "gate" /\ ci = 1
  BY DEF Init, Uncounting
<1>3. Counted
  BY <1>2, FS_EmptySet DEF Counted
<1>. QED
  BY <1>1, <1>2, <1>3, NconsAssumption DEF TableInv, Room, FreeSlotAhead, SlotInTable

(* There is a free slot whenever the main thread passes the gate.          *)
LEMMA GateFindsRoom ==
  ASSUME TableInv, mpc = "gate", nopen # ncons
  PROVE  \E s \in Slots \ isopen : 1 <= s
<1>1. isopen \subseteq Slots /\ Counted /\ Room
  BY DEF TableInv
<1>2. Cardinality(isopen) < ncons
  BY <1>1, FiniteTables, NconsAssumption DEF Counted, Room
<1>3. isopen # Slots
  BY <1>1, <1>2, FiniteTables, NconsAssumption
<1>4. PICK s \in Slots : s \notin isopen
  BY <1>1, <1>3
<1>5. 1 <= s
  BY <1>4, NconsAssumption DEF Slots
<1>. QED BY <1>4, <1>5

(* A step that leaves the slots, the count and the threads' places alone.  *)
LEMMA TableFrame ==
  ASSUME TableInv, SlotInv', UNCHANGED <<nopen, isopen, mpc, ci>>,
         Uncounting' = Uncounting
  PROVE  TableInv'
BY DEF TableInv, Counted, Room, FreeSlotAhead, SlotInTable

LEMMA TableNext == TableInv /\ [Next]_vars => TableInv'
<1> SUFFICES ASSUME TableInv, [Next]_vars PROVE TableInv'
  OBVIOUS
<1>s. SlotInv' /\ SlotInv /\ isopen \subseteq Slots
  BY SlotNext DEF TableInv
<1>n. ncons \in Nat /\ ncons >= 1
  BY NconsAssumption
<1> USE DEF MainGoto, ThreadGoto, tableVars, mainVars, clientVars, threadVars
<1>1. CASE MainGate
  <2>1. /\ mpc = "gate" /\ nopen # ncons /\ mpc' = "scan" /\ ci' = 1
        /\ UNCHANGED <<nopen, isopen>> /\ Uncounting' = Uncounting
    BY <1>1 DEF MainGate, Uncounting
  <2>2. \E s \in Slots \ isopen : 1 <= s
    BY <2>1, GateFindsRoom
  <2>. QED
    BY <1>s, <1>n, <2>1, <2>2 DEF TableInv, Counted, Room, FreeSlotAhead, SlotInTable
<1>2. CASE MainScan
  <2>1. /\ mpc = "scan" /\ UNCHANGED <<nopen, isopen>> /\ Uncounting' = Uncounting
        /\ IF ci \in isopen THEN ci' = ci + 1 /\ mpc' = mpc
                             ELSE ci' = ci /\ mpc' = "accept"
    BY <1>2 DEF MainScan, Uncounting
  <2>2. PICK s \in Slots \ isopen : ci <= s
    BY <2>1 DEF TableInv, FreeSlotAhead
  <2>3. ci \in Int /\ ci >= 1
    BY DEF TableInv, SlotInv, Typed
  <2>4. FreeSlotAhead' /\ SlotInTable'
    BY <1>n, <2>1, <2>2, <2>3 DEF FreeSlotAhead, SlotInTable, Slots
  <2>. QED
    BY <1>s, <2>1, <2>3, <2>4 DEF TableInv, Counted, Room
<1>3. CASE MainAccept
  <2>1. /\ mpc = "accept" /\ mpc' = "mark" /\ UNCHANGED <<nopen, isopen, ci>>
        /\ Uncounting' = Uncounting
    BY <1>3 DEF MainAccept, Uncounting
  <2>. QED
    BY <1>s, <2>1 DEF TableInv, Counted, Room, FreeSlotAhead, SlotInTable
<1>4. CASE MainMark
  <2>1. /\ mpc = "mark" /\ mpc' = "count" /\ UNCHANGED <<nopen, ci>>
        /\ isopen' = isopen \cup {ci} /\ Uncounting' = Uncounting
    BY <1>4 DEF MainMark, Uncounting
  <2>2. ci \in Slots \ isopen
    BY <2>1 DEF TableInv, SlotInTable
  <2>3. Cardinality(isopen') = Cardinality(isopen) + 1
    BY <1>s, <2>1, <2>2, FiniteTables, FS_AddElement
  <2>4. Counted'
    <3>1. Cardinality(isopen) \in Nat /\ Cardinality(Uncounting) \in Nat
      BY <1>s, FiniteTables DEF TableInv
    <3>2. nopen \in Int /\ Cardinality(isopen) + Cardinality(Uncounting) = nopen
      BY <2>1 DEF TableInv, Counted, Room
    <3>. QED BY <2>1, <2>3, <3>1, <3>2 DEF Counted
  <2>5. Room' /\ FreeSlotAhead' /\ SlotInTable'
    BY <2>1 DEF TableInv, Room, FreeSlotAhead, SlotInTable
  <2>6. isopen' \subseteq Slots /\ ci' >= 1
    BY <2>1, <2>2 DEF TableInv
  <2>. QED
    BY <1>s, <2>4, <2>5, <2>6 DEF TableInv
<1>5. CASE MainCount
  <2>1. /\ mpc = "count" /\ mpc' = "spawn" /\ UNCHANGED <<isopen, ci>>
        /\ nopen' = nopen + 1 /\ Uncounting' = Uncounting
    BY <1>5 DEF MainCount, Uncounting
  <2>. QED
    BY <1>s, <1>n, <2>1 DEF TableInv, Counted, Room, FreeSlotAhead, SlotInTable
<1>6. CASE MainSpawn
  <2>1. /\ mpc = "spawn" /\ mpc' = "gate" /\ UNCHANGED <<nopen, isopen, ci>>
        /\ tpc' = [tpc EXCEPT ![newcomer] = "call"]
    BY <1>6 DEF MainSpawn
  <2>2. Uncounting' = Uncounting
    BY <1>s, <2>1 DEF Uncounting, SlotInv, Typed, NewcomerHasNone
  <2>. QED
    BY <1>s, <1>n, <2>1, <2>2 DEF TableInv, Counted, Room, FreeSlotAhead, SlotInTable
<1>7. ASSUME NEW c \in Clients, ThreadCall(c) \/ ThreadRecv(c) \/ TerminateClose(c)
      PROVE  TableInv'
  <2>1. UNCHANGED <<nopen, isopen, mpc, ci>> /\ Uncounting' = Uncounting
    BY <1>s, <1>7 DEF ThreadCall, ThreadRecv, TerminateClose, Uncounting, SlotInv, Typed
  <2>. QED BY <1>s, <2>1, TableFrame
<1>8. ASSUME NEW c \in Clients, TerminateMark(c) PROVE TableInv'
  <2>1. /\ tpc[c] = "terminate" /\ UNCHANGED <<nopen, mpc, ci>>
        /\ isopen' = isopen \ {tci[c]}
        /\ tpc' = [tpc EXCEPT ![c] = "uncount"]
    BY <1>8 DEF TerminateMark
  <2>2. tci[c] \in isopen
    BY <1>s, <2>1 DEF SlotInv, ServedIsMarked, Serving
  <2>3. Uncounting' = Uncounting \cup {c} /\ c \notin Uncounting
    BY <1>s, <2>1 DEF Uncounting, SlotInv, Typed
  <2>4. /\ Cardinality(isopen') = Cardinality(isopen) - 1
        /\ Cardinality(Uncounting') = Cardinality(Uncounting) + 1
    BY <1>s, <2>1, <2>2, <2>3, FiniteTables, FS_AddElement, FS_RemoveElement
  <2>5. Counted'
    BY <1>s, <2>1, <2>4, FiniteTables DEF TableInv, Counted, Room
  <2>. QED
    BY <1>s, <2>1, <2>5 DEF TableInv, Room, FreeSlotAhead, SlotInTable
<1>9. ASSUME NEW c \in Clients, TerminateCount(c) PROVE TableInv'
  <2>1. /\ tpc[c] = "uncount" /\ UNCHANGED <<isopen, mpc, ci>> /\ nopen' = nopen - 1
        /\ tpc' = [tpc EXCEPT ![c] = "close"]
    BY <1>9 DEF TerminateCount
  <2>2. Uncounting' = Uncounting \ {c} /\ c \in Uncounting
    BY <1>s, <2>1 DEF Uncounting, SlotInv, Typed
  <2>3. Cardinality(Uncounting') = Cardinality(Uncounting) - 1
    BY <1>s, <2>2, FiniteTables, FS_RemoveElement
  <2>4. Counted'
    BY <1>s, <2>1, <2>3, FiniteTables DEF TableInv, Counted, Room
  <2>. QED
    BY <1>s, <1>n, <2>1, <2>4 DEF TableInv, Room, FreeSlotAhead, SlotInTable
<1>10. CASE UNCHANGED vars \/ \E c \in Clients : ClientStep(c)
  <2>1. UNCHANGED <<nopen, isopen, mpc, ci>> /\ Uncounting' = Uncounting
    BY <1>10 DEF vars, ClientStep, ClientConnect, ClientAsk, ClientLeave, Uncounting
  <2>. QED BY <1>s, <2>1, TableFrame
<1>. QED
  BY <1>1, <1>2, <1>3, <1>4, <1>5, <1>6, <1>7, <1>8, <1>9, <1>10
  DEF Next, MainStep, ThreadStep

(* The scan of accept_one ends on a free slot of the table, for every      *)
(* number of clients and slots.                                            *)
THEOREM ScanEndsInTable == Spec => []SlotInTable
<1>1. TableInv => SlotInTable
  BY DEF TableInv
<1>. QED BY <1>1, TableInit, TableNext, PTL DEF Spec
=============================================================================
