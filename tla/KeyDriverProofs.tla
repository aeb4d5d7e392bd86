-------------------------- MODULE KeyDriverProofs ---------------------------
(***************************************************************************)
(* What IrqKey, FasyncKey and TimerKey guarantee for any set of programs,  *)
(* any number of keys, any requests that fail and any signals.             *)
(*                                                                         *)
(* The blocking driver first; then the driver with poll and fasync, which  *)
(* implements it, so that what is proved of the former holds of the latter *)
(* too; then the debounced driver.  They share the argument about who      *)
(* frees which line.                                                       *)
(***************************************************************************)
EXTENDS TimerKey, TLAPS

(* Membership form of the key codes, so that no proof expands the set.     *)
LEMMA KeyCodeInCodes ==
  ASSUME NEW k \in Keys, NEW level \in {0, 1}
  PROVE  KeyCode(k, level) \in KeyCodes
BY DEF KeyCodes

(* Loop bounds: an index inside the table stays in range one step further. *)
LEMMA IndexStep ==
  ASSUME NEW i \in Keys
  PROVE  /\ i + 1 \in 0..(NKeys + 1)
         /\ i - 1 \in 0..(NKeys + 1)
BY NKeysAssumption DEF Keys

(***************************************************************************)
(* Type correctness.                                                       *)
(***************************************************************************)
(* Each read() step keeps the types.                                       *)
LEMMA TypeReadStep ==
  ASSUME TypeOK, NEW p \in Procs, irq_key_read(p) \/ ReadStep(p)
  PROVE  TypeOK'
<1> USE DEF TypeOK, moduleVars, lineVars, eventVars, sleepVars, Goto, PCs, ReadStates
<1>1. CASE irq_key_read(p)
  BY <1>1 DEF irq_key_read
<1>2. CASE ReadTest(p)
  BY <1>2 DEF ReadTest
<1>3. CASE ReadPrepareToWait(p)
  BY <1>3 DEF ReadPrepareToWait
<1>4. CASE ReadRecheck(p)
  <2>1. waitq' \subseteq Procs
    BY <1>4 DEF ReadRecheck
  <2>2. pc' \in [Procs -> PCs]
    BY <1>4 DEF ReadRecheck
  <2>. QED BY <1>4, <2>1, <2>2 DEF ReadRecheck
<1>5. CASE ReadWoken(p)
  BY <1>5 DEF ReadWoken
<1>6. CASE ReadCopyToUser(p)
  BY <1>6 DEF ReadCopyToUser
<1>7. CASE ReadClear(p)
  BY <1>7 DEF ReadClear
<1>. QED BY <1>1, <1>2, <1>3, <1>4, <1>5, <1>6, <1>7 DEF ReadStep

(* Each open() and close() step keeps the types.                           *)
LEMMA TypeOpenCloseStep ==
  ASSUME TypeOK, NEW p \in Procs, OpenCloseStep(p)
  PROVE  TypeOK'
<1> USE NKeysAssumption
    DEF TypeOK, moduleVars, lineVars, eventVars, sleepVars, Goto, PCs
<1>1. CASE irq_key_open(p)
  BY <1>1 DEF irq_key_open
<1>2. CASE OpenRequestIrq(p)
  <2>1. idx[p] \in Keys /\ idx' \in [Procs -> 0..(NKeys + 1)]
    BY <1>2, IndexStep DEF OpenRequestIrq
  <2>2. handler' \subseteq Keys /\ masked' \subseteq Keys
    BY <1>2, <2>1 DEF OpenRequestIrq
  <2>3. err' \in [Procs -> BOOLEAN]
    BY <1>2 DEF OpenRequestIrq, RequestResults
  <2>4. refused' \in [Procs -> SUBSET Keys]
    BY <1>2, <2>1 DEF OpenRequestIrq
  <2>. QED BY <1>2, <2>1, <2>2, <2>3, <2>4 DEF OpenRequestIrq
<1>3. CASE OpenDone(p)
  <2>1. idx' \in [Procs -> 0..(NKeys + 1)]
    BY <1>3 DEF OpenDone
  <2>. QED BY <1>3, <2>1 DEF OpenDone
<1>4. CASE OpenUnwind(p)
  BY <1>4 DEF OpenUnwind
<1>5. CASE OpenFailed(p)
  BY <1>5 DEF OpenFailed
<1>6. CASE irq_key_close(p)
  BY <1>6 DEF irq_key_close
<1>7. CASE CloseFreeIrq(p)
  <2>1. idx' \in [Procs -> 0..(NKeys + 1)]
    BY <1>7, IndexStep DEF CloseFreeIrq
  <2>. QED BY <1>7, <2>1 DEF CloseFreeIrq, FreeLine
<1>8. CASE CloseDone(p)
  BY <1>8 DEF CloseDone
<1>9. CASE UnwindFreeIrq(p)
  <2>1. idx' \in [Procs -> 0..(NKeys + 1)]
    BY <1>9, IndexStep DEF UnwindFreeIrq
  <2>. QED BY <1>9, <2>1 DEF UnwindFreeIrq, FreeLine
<1>. QED BY <1>1, <1>2, <1>3, <1>4, <1>5, <1>6, <1>7, <1>8, <1>9 DEF OpenCloseStep

LEMMA TypeNext == TypeOK /\ [Next]_vars => TypeOK'
<1> SUFFICES ASSUME TypeOK, [Next]_vars PROVE TypeOK'
  OBVIOUS
<1> USE DEF TypeOK, moduleVars, lineVars, eventVars, sleepVars, procVars
<1>1. CASE Irq_key_init
  BY <1>1 DEF Irq_key_init
<1>2. CASE Irq_key_exit
  BY <1>2 DEF Irq_key_exit
<1>3. CASE \E p \in Procs : ProcStep(p)
  BY <1>3, TypeReadStep, TypeOpenCloseStep DEF ProcStep
<1>4. CASE \E p \in Procs : Signal(p)
  BY <1>4 DEF Signal
<1>5. CASE \E k \in Keys : Edge(k)
  <2>1. PICK k \in Keys : Edge(k)
    BY <1>5
  <2>2. pin' \in [Keys -> {0, 1}]
    BY <2>1 DEF Edge
  <2>3. latch' \subseteq Keys
    BY <2>1 DEF Edge
  <2>. QED BY <2>1, <2>2, <2>3 DEF Edge
<1>6. CASE \E k \in Keys : key_interrupt(k)
  <2>1. PICK k \in Keys : key_interrupt(k)
    BY <1>6
  <2>2. key_val' \in KeyCodes
    BY <2>1, KeyCodeInCodes DEF key_interrupt, Publish
  <2>. QED BY <2>1, <2>2 DEF key_interrupt, Publish
<1>7. CASE UNCHANGED vars
  BY <1>7 DEF vars
<1>. QED BY <1>1, <1>2, <1>3, <1>4, <1>5, <1>6, <1>7 DEF Next

(* The driver's state stays in the ranges of TypeOK.                       *)
THEOREM TypeCorrect == Spec => []TypeOK
<1>1. Init => TypeOK
  <2> SUFFICES ASSUME Init PROVE TypeOK
    OBVIOUS
  <2>1. idx \in [Procs -> 0..(NKeys + 1)]
    BY NKeysAssumption DEF Init
  <2>2. pc \in [Procs -> PCs]
    BY DEF Init, PCs
  <2>3. pin \in [Keys -> {0, 1}] /\ err \in [Procs -> BOOLEAN]
    BY DEF Init
  <2>. QED BY <2>1, <2>2, <2>3 DEF Init, TypeOK
<1>. QED BY <1>1, TypeNext, PTL DEF Spec

(***************************************************************************)
(* No lost wakeup.  The only step that can make the promise false is the   *)
(* one that goes to sleep, and it has just seen ev_press = 0; the handler  *)
(* sets ev_press and empties the queue together.                           *)
(***************************************************************************)
LEMMA WakeupNext == TypeOK /\ NoLostWakeup /\ [Next]_vars => NoLostWakeup'
<1> SUFFICES ASSUME TypeOK, NoLostWakeup, [Next]_vars,
                    NEW q \in Procs, pc'[q] = "sched", q \in waitq'
             PROVE  ev_press' = 0
  BY DEF NoLostWakeup
<1> USE DEF TypeOK, NoLostWakeup, moduleVars, lineVars, eventVars, sleepVars, procVars,
       Goto
<1>1. CASE Irq_key_init
  BY <1>1 DEF Irq_key_init
<1>2. CASE Irq_key_exit
  BY <1>2 DEF Irq_key_exit
<1>3. CASE \E p \in Procs : OpenCloseStep(p)
  <2>1. PICK p \in Procs : OpenCloseStep(p)
    BY <1>3
  <2>2. ev_press' = ev_press /\ waitq' = waitq
    BY <2>1 DEF OpenCloseStep, irq_key_open, OpenRequestIrq, OpenDone,
                OpenUnwind, UnwindFreeIrq, OpenFailed, irq_key_close, CloseFreeIrq,
                CloseDone
  <2>3. pc[q] = "sched"
    BY <2>1 DEF OpenCloseStep, irq_key_open, OpenRequestIrq, OpenDone,
                OpenUnwind, UnwindFreeIrq, OpenFailed, irq_key_close, CloseFreeIrq,
                CloseDone
  <2>. QED BY <2>2, <2>3
<1>4. CASE \E p \in Procs : irq_key_read(p) \/ ReadStep(p)
  <2>1. PICK p \in Procs : irq_key_read(p) \/ ReadStep(p)
    BY <1>4
  <2>2. CASE irq_key_read(p)
    BY <2>2 DEF irq_key_read
  <2>3. CASE ReadTest(p)
    BY <2>3 DEF ReadTest
  <2>4. CASE ReadPrepareToWait(p)
    BY <2>4 DEF ReadPrepareToWait
  <2>5. CASE ReadRecheck(p)
    BY <2>5 DEF ReadRecheck
  <2>6. CASE ReadWoken(p)
    BY <2>6 DEF ReadWoken
  <2>7. CASE ReadCopyToUser(p)
    BY <2>7 DEF ReadCopyToUser
  <2>8. CASE ReadClear(p)
    BY <2>8 DEF ReadClear
  <2>. QED BY <2>1, <2>2, <2>3, <2>4, <2>5, <2>6, <2>7, <2>8 DEF ReadStep
<1>5. CASE \E p \in Procs : Signal(p)
  BY <1>5 DEF Signal
<1>6. CASE \E k \in Keys : Edge(k)
  BY <1>6 DEF Edge
<1>7. CASE \E k \in Keys : key_interrupt(k)
  BY <1>7 DEF key_interrupt, Publish
<1>8. CASE UNCHANGED vars
  BY <1>8 DEF vars
<1>. QED BY <1>1, <1>2, <1>3, <1>4, <1>5, <1>6, <1>7, <1>8 DEF Next, ProcStep

(* A sleeping reader never misses the wakeup of an event that is there.    *)
THEOREM NoWakeupLost == Spec => []NoLostWakeup
<1>1. Init => NoLostWakeup
  BY DEF Init, NoLostWakeup
<1>. QED BY <1>1, WakeupNext, TypeCorrect, PTL DEF Spec

(***************************************************************************)
(* Lines are given back.  UnloadSafe alone says nothing about the states   *)
(* before the unload: the invariant is that every registered line has a    *)
(* process on its way to free it, and that the module outlives them all.   *)
(* It is stated for all the key drivers: a process inside poll(), which    *)
(* the blocking driver does not have, has the file open as well.           *)
(***************************************************************************)
AllPCs == PCs \cup PollStates

PcTyped == pc \in [Procs -> AllPCs]

TableTyped == PcTyped /\ idx \in [Procs -> Int] /\ handler \subseteq Keys

WillFree(p, k) == Responsible(p, k) \/ pc[p] \in PollStates

LinesHaveUser == \A k \in handler : \E p \in Procs : WillFree(p, k)

LoadedWhileUsed == \A p \in Procs : pc[p] # "closed" => loaded

(* The duty of a process that does not move stays.                         *)
LEMMA StillFrees ==
  ASSUME NEW p, NEW k, WillFree(p, k), pc'[p] = pc[p], idx'[p] = idx[p]
  PROVE  WillFree(p, k)'
BY DEF WillFree, Responsible, FileOpen

(* The loops of open() and close() stay in the table.                      *)
LEMMA OpenCloseStaysInTable ==
  ASSUME TableTyped, NEW p \in Procs, OpenCloseStep(p)
  PROVE  handler' \subseteq Keys /\ idx' \in [Procs -> Int]
<1>1. handler \subseteq Keys /\ idx \in [Procs -> Int] /\ NKeys \in Int
  BY NKeysAssumption DEF TableTyped
<1> USE DEF FreeLine, moduleVars, lineVars
<1>2. CASE irq_key_open(p) \/ OpenFailed(p) \/ irq_key_close(p) \/ CloseDone(p)
  BY <1>1, <1>2 DEF irq_key_open, OpenFailed, irq_key_close, CloseDone
<1>3. CASE OpenRequestIrq(p)
  BY <1>1, <1>3 DEF OpenRequestIrq
<1>4. CASE OpenDone(p)
  BY <1>1, <1>4 DEF OpenDone
<1>5. CASE OpenUnwind(p) \/ UnwindFreeIrq(p)
  BY <1>1, <1>5 DEF OpenUnwind, UnwindFreeIrq
<1>6. CASE CloseFreeIrq(p)
  BY <1>1, <1>6 DEF CloseFreeIrq
<1>. QED BY <1>2, <1>3, <1>4, <1>5, <1>6 DEF OpenCloseStep

(* open() and close(): whoever registers a line, or had it to free, still  *)
(* has it to free, unless this step freed it.                              *)
LEMMA OpenCloseKeepsUser ==
  ASSUME TableTyped, LinesHaveUser, NEW p \in Procs, OpenCloseStep(p)
  PROVE  LinesHaveUser'
<1>1. handler' \subseteq Keys /\ idx' \in [Procs -> Int]
  BY OpenCloseStaysInTable
<1> USE NKeysAssumption DEF TableTyped, PcTyped, Goto, moduleVars, lineVars, Keys
<1>2. ASSUME NEW k \in handler' PROVE \E q \in Procs : WillFree(q, k)'
  <2>1. k \in 1..NKeys /\ idx[p] \in Int
    BY <1>1
  <2>2. CASE k \in handler
    <3>1. PICK q \in Procs : WillFree(q, k)
      BY <2>2 DEF LinesHaveUser
    <3>2. CASE q # p
      <4>1. pc'[q] = pc[q] /\ idx'[q] = idx[q]
        BY <3>2 DEF OpenCloseStep, irq_key_open, OpenRequestIrq, OpenDone, OpenUnwind,
               UnwindFreeIrq,
                    OpenFailed, irq_key_close, CloseFreeIrq, CloseDone
      <4>. QED BY <3>1, <4>1, StillFrees
    <3>3. CASE q = p
      <4> USE DEF WillFree, Responsible, FileOpen, ReadStates, PollStates
      <4>1. CASE irq_key_open(p)
        BY <3>1, <3>3, <4>1 DEF irq_key_open
      <4>2. CASE OpenRequestIrq(p)
        BY <2>1, <3>1, <3>3, <4>2 DEF OpenRequestIrq
      <4>3. CASE OpenDone(p)
        BY <2>1, <3>1, <3>3, <4>3 DEF OpenDone
      <4>4. CASE OpenUnwind(p)
        BY <2>1, <3>1, <3>3, <4>4 DEF OpenUnwind
      <4>9. CASE UnwindFreeIrq(p)
        BY <2>1, <3>1, <3>3, <4>9 DEF UnwindFreeIrq, FreeLine
      <4>5. CASE OpenFailed(p)
        BY <2>1, <3>1, <3>3, <4>5 DEF OpenFailed
      <4>6. CASE irq_key_close(p)
        BY <2>1, <3>1, <3>3, <4>6 DEF irq_key_close
      <4>7. CASE CloseFreeIrq(p)
        BY <2>1, <3>1, <3>3, <4>7 DEF CloseFreeIrq, FreeLine
      <4>8. CASE CloseDone(p)
        BY <2>1, <3>1, <3>3, <4>8 DEF CloseDone
      <4>. QED BY <4>1, <4>2, <4>3, <4>4, <4>5, <4>6, <4>7, <4>8, <4>9 DEF OpenCloseStep
    <3>. QED BY <3>2, <3>3
  <2>3. CASE k \notin handler
    <3>1. OpenRequestIrq(p) /\ k = idx[p]
      BY <1>2, <2>3 DEF OpenCloseStep, irq_key_open, OpenRequestIrq, OpenDone,
             OpenUnwind, UnwindFreeIrq,
                  OpenFailed, irq_key_close, CloseFreeIrq, CloseDone, FreeLine
    <3>2. pc'[p] = "requesting" /\ idx'[p] > k
      BY <2>1, <3>1 DEF OpenRequestIrq
    <3>. QED BY <3>2 DEF WillFree, Responsible
  <2>. QED BY <2>2, <2>3
<1>. QED BY <1>1, <1>2 DEF LinesHaveUser

(* open() and close() run only in a loaded module.                         *)
LEMMA OpenCloseNeedsModule ==
  ASSUME PcTyped, LoadedWhileUsed, NEW p \in Procs, OpenCloseStep(p)
  PROVE  loaded' = loaded /\ LoadedWhileUsed'
BY DEF moduleVars, PcTyped, LoadedWhileUsed, Goto, OpenCloseStep, irq_key_open,
       OpenRequestIrq,
       OpenDone, OpenUnwind, UnwindFreeIrq, OpenFailed, irq_key_close, CloseFreeIrq,
       CloseDone

(* read(), poll() and the SIGIO handler run with the file open and leave   *)
(* it open, wherever in them the process is.                               *)
LEMMA FileStaysOpen ==
  ASSUME PcTyped, NEW p \in Procs,
         \/ irq_key_read(p) \/ ReadStep(p)
         \/ PollCall(p) \/ PollStep(p) \/ PollTimeout(p) \/ PollinRead(p) \/ SigioRead(p)
  PROVE  /\ pc[p] \in {"open"} \cup ReadStates \cup PollStates
         /\ pc'[p] \in {"open"} \cup ReadStates \cup PollStates
         /\ \A q \in Procs \ {p} : pc'[q] = pc[q]
         /\ UNCHANGED <<loaded, handler, idx>>
<1> USE DEF PcTyped, Goto, ReadStates, PollStates, moduleVars, lineVars
<1>1. CASE irq_key_read(p) \/ ReadStep(p)
  BY <1>1 DEF irq_key_read, ReadStep, ReadTest, ReadPrepareToWait, ReadRecheck,
              ReadWoken, ReadCopyToUser, ReadClear
<1>2. CASE PollCall(p) \/ PollStep(p) \/ PollTimeout(p) \/ PollinRead(p) \/ SigioRead(p)
  BY <1>2 DEF PollCall, PollStep, PollWait, irq_key_poll, PollWoken, PollTimeout,
              PollinRead, SigioRead, OnlyGoto
<1>. QED BY <1>1, <1>2

LEMMA FileStepKeepsUser ==
  ASSUME PcTyped, LinesHaveUser, LoadedWhileUsed, NEW p \in Procs,
         \/ irq_key_read(p) \/ ReadStep(p)
         \/ PollCall(p) \/ PollStep(p) \/ PollTimeout(p) \/ PollinRead(p) \/ SigioRead(p)
  PROVE  LinesHaveUser' /\ LoadedWhileUsed' /\ UNCHANGED <<loaded, handler, idx>>
<1>1. /\ pc[p] \in {"open"} \cup ReadStates \cup PollStates
      /\ pc'[p] \in {"open"} \cup ReadStates \cup PollStates
      /\ \A q \in Procs \ {p} : pc'[q] = pc[q]
      /\ UNCHANGED <<loaded, handler, idx>>
  BY FileStaysOpen
<1>2. ASSUME NEW k \in handler PROVE \E q \in Procs : WillFree(q, k)'
  <2>1. PICK q \in Procs : WillFree(q, k)
    BY DEF LinesHaveUser
  <2>2. CASE q = p
    BY <1>1, <2>2 DEF WillFree, Responsible, FileOpen
  <2>3. CASE q # p
    BY <1>1, <2>1, <2>3, StillFrees
  <2>. QED BY <2>2, <2>3
<1>3. LoadedWhileUsed'
  BY <1>1 DEF LoadedWhileUsed, ReadStates, PollStates
<1>. QED BY <1>1, <1>2, <1>3 DEF LinesHaveUser

(* Steps that move nobody.                                                 *)
LEMMA QuietKeepsUser ==
  ASSUME LinesHaveUser, UNCHANGED <<handler, pc, idx>>
  PROVE  LinesHaveUser'
BY DEF LinesHaveUser, WillFree, Responsible, FileOpen

(***************************************************************************)
(* The blocking driver: unload.                                            *)
(***************************************************************************)
LineInv == TypeOK /\ LinesHaveUser /\ LoadedWhileUsed

LEMMA LineInvTable == LineInv => TableTyped /\ HandlerOwned
BY DEF LineInv, TypeOK, TableTyped, PcTyped, AllPCs, LinesHaveUser, WillFree,
       HandlerOwned, PCs, ReadStates, PollStates

LEMMA LineNext == LineInv /\ [Next]_vars => LineInv'
<1> SUFFICES ASSUME LineInv, [Next]_vars PROVE LineInv'
  OBVIOUS
<1>1. TypeOK'
  BY TypeNext DEF LineInv
<1>2. TableTyped /\ PcTyped
  BY LineInvTable DEF TableTyped
<1>3. CASE \E p \in Procs : OpenCloseStep(p)
  BY <1>1, <1>2, <1>3, OpenCloseKeepsUser, OpenCloseNeedsModule DEF LineInv
<1>4. CASE \E p \in Procs : irq_key_read(p) \/ ReadStep(p)
  BY <1>1, <1>2, <1>4, FileStepKeepsUser DEF LineInv
<1>5. CASE \/ Irq_key_init \/ Irq_key_exit \/ UNCHANGED vars
           \/ \E p \in Procs : Signal(p)
           \/ \E k \in Keys : Edge(k) \/ key_interrupt(k)
  <2>1. UNCHANGED <<handler, pc, idx>>
    BY <1>5 DEF Irq_key_init, Irq_key_exit, Signal, Edge, key_interrupt, vars,
                moduleVars, lineVars, procVars
  <2>2. LoadedWhileUsed'
    BY <1>5, <2>1 DEF moduleVars, LineInv, LoadedWhileUsed, Irq_key_init, Irq_key_exit,
           Signal,
                      Edge, key_interrupt, vars
  <2>. QED BY <1>1, <2>1, <2>2, QuietKeepsUser DEF LineInv
<1>. QED BY <1>3, <1>4, <1>5 DEF Next, ProcStep

LEMMA LineInvariant == Spec => []LineInv
<1>1. Init => LinesHaveUser /\ LoadedWhileUsed
  BY DEF Init, LinesHaveUser, LoadedWhileUsed
<1>2. Spec => TypeOK
  BY TypeCorrect, PTL
<1>. QED BY <1>1, <1>2, LineNext, PTL DEF Spec, LineInv

(* Every registered line has a process that will free it.                  *)
THEOREM LinesAreOwned == Spec => []HandlerOwned
BY LineInvariant, LineInvTable, PTL

(* After unload no interrupt can reach the module.                         *)
THEOREM UnloadIsSafe == Spec => []UnloadSafe
<1>1. LineInv => UnloadSafe
  <2> SUFFICES ASSUME LineInv, ~loaded, NEW k \in handler PROVE FALSE
    BY DEF UnloadSafe
  <2>1. PICK p \in Procs : Responsible(p, k)
    BY LineInvTable DEF HandlerOwned
  <2>2. pc[p] = "closed"
    BY DEF LineInv, LoadedWhileUsed
  <2>. QED BY <2>1, <2>2 DEF Responsible, FileOpen, ReadStates
<1>. QED BY <1>1, LineInvariant, PTL

(***************************************************************************)
(* disable_irq never outlives the error path.  Whoever masks a registered  *)
(* line stands right before freeing it, and stays there until it has; a    *)
(* request enables what it gets.                                           *)
(***************************************************************************)
MaskInv == TypeOK /\ RegisteredLineEnabled

(* A line that stays registered and masked has its freeing process still.  *)
LEMMA StillFreeing ==
  ASSUME TypeOK, RegisteredLineEnabled, NEW k \in handler \cap masked, NEW p \in Procs,
         \A q \in Procs \ {p} : pc'[q] = pc[q] /\ idx'[q] = idx[q],
         pc[p] = "freeing" => idx[p] # k
  PROVE  \E q \in Procs : pc'[q] = "freeing" /\ idx'[q] = k
BY DEF RegisteredLineEnabled

LEMMA MaskNext == MaskInv /\ [Next]_vars => MaskInv'
<1> SUFFICES ASSUME MaskInv, [Next]_vars PROVE RegisteredLineEnabled'
  BY TypeNext DEF MaskInv
<1>1. TypeOK /\ RegisteredLineEnabled
  BY DEF MaskInv
<1>2. ASSUME UNCHANGED <<handler, masked, pc, idx>> PROVE RegisteredLineEnabled'
  BY <1>1, <1>2 DEF RegisteredLineEnabled
<1> USE DEF moduleVars, lineVars, procVars
<1>3. ASSUME NEW p \in Procs, OpenCloseStep(p) PROVE RegisteredLineEnabled'
  <2>1. \A q \in Procs \ {p} : pc'[q] = pc[q] /\ idx'[q] = idx[q]
    BY <1>1, <1>3 DEF TypeOK, Goto, OpenCloseStep, irq_key_open, OpenRequestIrq, OpenDone,
                      OpenUnwind, UnwindFreeIrq, OpenFailed, irq_key_close, CloseFreeIrq,
                      CloseDone
  <2> SUFFICES ASSUME NEW k \in handler' \cap masked'
               PROVE  \E q \in Procs : pc'[q] = "freeing" /\ idx'[q] = k
    BY DEF RegisteredLineEnabled
  <2>2. CASE OpenUnwind(p)
    <3>1. handler' = handler /\ pc'[p] = "freeing" /\ idx'[p] = idx[p]
          /\ masked' = masked \cup {idx[p]} /\ pc[p] # "freeing"
      BY <1>1, <2>2 DEF OpenUnwind, Goto, TypeOK
    <3>2. CASE k = idx[p]
      BY <3>1, <3>2
    <3>3. CASE k # idx[p]
      <4>1. k \in handler \cap masked
        BY <3>1, <3>3
      <4>. QED BY <1>1, <2>1, <3>1, <4>1, StillFreeing
    <3>. QED BY <3>2, <3>3
  <2>3. CASE UnwindFreeIrq(p)
    <3>1. k \in handler \cap masked /\ k # idx[p]
      BY <2>3 DEF UnwindFreeIrq, FreeLine
    <3>. QED BY <1>1, <2>1, <3>1, StillFreeing
  <2>4. CASE \/ irq_key_open(p) \/ OpenRequestIrq(p) \/ OpenDone(p) \/ OpenFailed(p)
             \/ irq_key_close(p) \/ CloseFreeIrq(p) \/ CloseDone(p)
    <3>1. k \in handler \cap masked /\ pc[p] # "freeing"
      BY <2>4 DEF irq_key_open, OpenRequestIrq, OpenDone, OpenFailed, irq_key_close,
                  CloseFreeIrq, CloseDone, FreeLine
    <3>. QED BY <1>1, <2>1, <3>1, StillFreeing
  <2>. QED BY <1>3, <2>2, <2>3, <2>4 DEF OpenCloseStep
<1>4. ASSUME NEW p \in Procs, irq_key_read(p) \/ ReadStep(p) PROVE RegisteredLineEnabled'
  <2>1. /\ UNCHANGED <<handler, masked, idx>> /\ pc[p] # "freeing"
        /\ \A q \in Procs \ {p} : pc'[q] = pc[q]
    BY <1>1, <1>4 DEF TypeOK, Goto, irq_key_read, ReadStep, ReadTest, ReadPrepareToWait,
                      ReadRecheck, ReadWoken, ReadCopyToUser, ReadClear
  <2>. QED BY <1>1, <2>1, StillFreeing DEF RegisteredLineEnabled
<1>5. CASE \/ Irq_key_init \/ Irq_key_exit \/ UNCHANGED vars
           \/ \E p \in Procs : Signal(p)
           \/ \E k \in Keys : Edge(k) \/ key_interrupt(k)
  BY <1>2, <1>5 DEF Irq_key_init, Irq_key_exit, Signal, Edge, key_interrupt, vars
<1>. QED BY <1>3, <1>4, <1>5 DEF Next, ProcStep

(* A registered line is never left disabled, whoever fails to open.        *)
THEOREM RegisteredLinesEnabled == Spec => []RegisteredLineEnabled
<1>1. Init => RegisteredLineEnabled
  BY DEF Init, RegisteredLineEnabled
<1>2. Init /\ TypeOK => MaskInv
  BY <1>1 DEF MaskInv
<1>3. MaskInv => RegisteredLineEnabled
  BY DEF MaskInv
<1>. QED BY <1>2, <1>3, MaskNext, TypeCorrect, PTL DEF Spec

(***************************************************************************)
(* One reader and no signals: what read() returns is a key action.  The    *)
(* strengthening says who may see ev_press = 1: until the reader is about  *)
(* to clear it, the event it stands for has not been read.                 *)
(***************************************************************************)
SoleReader == Signallers = {} /\ \A p, q \in Procs : p = q

ReaderInv ==
  /\ LineInv
  /\ ReadReturnsKeyAction
  /\ sigpending = {}
  /\ ev_press = 1 => unread \/ \E p \in Procs : pc[p] = "clear"

LEMMA ReaderNext == SoleReader /\ ReaderInv /\ [Next]_vars => ReaderInv'
<1> SUFFICES ASSUME SoleReader, ReaderInv, [Next]_vars PROVE ReaderInv'
  OBVIOUS
<1>1. LineInv'
  BY LineNext DEF ReaderInv
<1> USE DEF ReaderInv, ReadReturnsKeyAction, LineInv, TypeOK, SoleReader,
            moduleVars, lineVars, eventVars, sleepVars, procVars, Goto
<1>2. CASE Irq_key_init
  BY <1>1, <1>2 DEF Irq_key_init, LoadedWhileUsed
<1>3. CASE Irq_key_exit
  BY <1>1, <1>3 DEF Irq_key_exit
<1>4. CASE \E p \in Procs : OpenCloseStep(p)
  BY <1>1, <1>4 DEF OpenCloseStep, irq_key_open, OpenRequestIrq, OpenDone,
                    OpenUnwind, UnwindFreeIrq, OpenFailed, irq_key_close, CloseFreeIrq,
                    CloseDone
<1>5. CASE \E p \in Procs : irq_key_read(p) \/ ReadStep(p)
  <2>1. PICK p \in Procs : irq_key_read(p) \/ ReadStep(p)
    BY <1>5
  <2>2. CASE irq_key_read(p)
    BY <1>1, <2>2 DEF irq_key_read
  <2>3. CASE ReadTest(p)
    BY <1>1, <2>3 DEF ReadTest
  <2>4. CASE ReadPrepareToWait(p)
    BY <1>1, <2>4 DEF ReadPrepareToWait
  <2>5. CASE ReadRecheck(p)
    BY <1>1, <2>5 DEF ReadRecheck
  <2>6. CASE ReadWoken(p)
    BY <1>1, <2>6 DEF ReadWoken
  <2>7. CASE ReadCopyToUser(p)
    BY <1>1, <2>7 DEF ReadCopyToUser
  <2>8. CASE ReadClear(p)
    BY <1>1, <2>8 DEF ReadClear
  <2>. QED BY <2>1, <2>2, <2>3, <2>4, <2>5, <2>6, <2>7, <2>8 DEF ReadStep
<1>6. CASE \E p \in Procs : Signal(p)
  BY <1>6 DEF Signal
<1>7. CASE \E k \in Keys : Edge(k)
  BY <1>1, <1>7 DEF Edge
<1>8. CASE \E k \in Keys : key_interrupt(k)
  BY <1>1, <1>8 DEF key_interrupt, Publish
<1>9. CASE UNCHANGED vars
  BY <1>1, <1>9 DEF vars
<1>. QED BY <1>2, <1>3, <1>4, <1>5, <1>6, <1>7, <1>8, <1>9 DEF Next, ProcStep

(* A sole reader that takes no signal never copies a value no key caused.  *)
THEOREM SoleReaderGetsKeyActions ==
  ASSUME SoleReader
  PROVE  Spec => []ReadReturnsKeyAction
<1>1. Init => ReadReturnsKeyAction /\ sigpending = {} /\ ev_press # 1
  BY DEF Init, ReadReturnsKeyAction
<1>2. Init /\ LineInv => ReaderInv
  BY <1>1 DEF ReaderInv
<1>3. ReaderInv /\ [Next]_vars => ReaderInv'
  BY ReaderNext
<1>4. ReaderInv => ReadReturnsKeyAction
  BY DEF ReaderInv
<1>. QED BY <1>2, <1>3, <1>4, LineInvariant, PTL DEF Spec

(***************************************************************************)
(* What open() checked of its requests: the last one.  A refused last line *)
(* is remembered in err, so the file does not open.  For a process alone   *)
(* with the device the invariant follows the loops: which of the table     *)
(* open() has obtained, what the error path and close() have still to free.*)
(***************************************************************************)
LastRefusalSeen(p) ==
  /\ pc[p] = "requesting" /\ NKeys \in refused[p] => idx[p] = NKeys + 1 /\ err[p]
  /\ FileOpen(p) => NKeys \notin refused[p]

Wired(p) ==
  /\ pc[p] = "closed" => handler = {}
  /\ pc[p] = "requesting" =>
       /\ idx[p] >= 1
       /\ refused[p] \subseteq {k \in Keys : k < idx[p]}
       /\ handler = {k \in Keys : k < idx[p]} \ refused[p]
  /\ pc[p] \in {"unwinding", "freeing"} => handler \subseteq {k \in Keys : k <= idx[p]}
  /\ FileOpen(p) => handler = Keys \ refused[p]
  /\ pc[p] = "closing" => handler \subseteq {k \in Keys : k >= idx[p]}

OpenerInv ==
  /\ TypeOK
  /\ \A p \in Procs : LastRefusalSeen(p) /\ (Procs = {p} => Wired(p))

(* The process that opens or closes.                                       *)
LEMMA RefusalKept ==
  ASSUME TypeOK, NEW p \in Procs, LastRefusalSeen(p), OpenCloseStep(p)
  PROVE  LastRefusalSeen(p)'
<1> USE NKeysAssumption DEF TypeOK, Goto, LastRefusalSeen, FileOpen, ReadStates, Keys
<1>1. CASE OpenRequestIrq(p)
  <2>1. /\ idx[p] \in 1..NKeys /\ pc[p] = "requesting" /\ pc' = pc
        /\ idx'[p] = idx[p] + 1 /\ NKeys \notin refused[p]
    BY <1>1 DEF OpenRequestIrq
  <2>2. PICK ok \in BOOLEAN :
          /\ err' = [err EXCEPT ![p] = ~ok]
          /\ refused' = [refused EXCEPT ![p] = @ \cup ({idx[p]} \ {k \in {idx[p]} : ok})]
    BY <1>1 DEF OpenRequestIrq, RequestResults
  <2>3. err'[p] = ~ok /\ (ok => refused'[p] = refused[p])
        /\ refused'[p] \subseteq refused[p] \cup {idx[p]}
    BY <2>2
  <2>. QED BY <2>1, <2>3
<1>2. CASE OpenDone(p)
  BY <1>2 DEF OpenDone
<1>3. CASE \/ irq_key_open(p) \/ OpenUnwind(p) \/ UnwindFreeIrq(p) \/ OpenFailed(p)
           \/ irq_key_close(p) \/ CloseFreeIrq(p) \/ CloseDone(p)
  BY <1>3 DEF irq_key_open, OpenUnwind, UnwindFreeIrq, OpenFailed, irq_key_close,
              CloseFreeIrq, CloseDone
<1>. QED BY <1>1, <1>2, <1>3 DEF OpenCloseStep

LEMMA WiredKept ==
  ASSUME TypeOK, NEW p \in Procs, Wired(p), OpenCloseStep(p)
  PROVE  Wired(p)'
<1> USE NKeysAssumption DEF TypeOK, Goto, moduleVars, lineVars, Keys
<1> idx[p] \in Int
  OBVIOUS
<1>1. CASE irq_key_open(p)
  <2>1. /\ handler' = {} /\ pc'[p] = "requesting" /\ idx'[p] = 1 /\ refused'[p] = {}
    BY <1>1 DEF irq_key_open, Wired
  <2>2. {} = {k \in 1..NKeys : k < 1}
    OBVIOUS
  <2>. QED BY <2>1, <2>2 DEF Wired, FileOpen, ReadStates
<1>2. CASE OpenRequestIrq(p)
  <2> DEFINE i == idx[p]
             got == {k \in {i} : k \in handler'}
  <2>1. /\ i \in 1..NKeys /\ pc[p] = "requesting"
        /\ refused[p] \subseteq {k \in 1..NKeys : k < i}
        /\ handler = {k \in 1..NKeys : k < i} \ refused[p]
    BY <1>2 DEF OpenRequestIrq, Wired
  <2>2. i \notin handler
    BY <2>1
  <2>3. /\ pc' = pc /\ idx'[p] = i + 1
        /\ handler' = handler \cup got
        /\ refused'[p] = refused[p] \cup ({i} \ got)
    BY <1>2, <2>2 DEF OpenRequestIrq
  <2>4. {k \in 1..NKeys : k < i + 1} = {k \in 1..NKeys : k < i} \cup {i}
    BY <2>1
  <2>5. handler' = {k \in 1..NKeys : k < i + 1} \ refused'[p]
    BY <2>1, <2>2, <2>3, <2>4
  <2>6. refused'[p] \subseteq {k \in 1..NKeys : k < i + 1}
    BY <2>1, <2>3, <2>4
  <2>. QED BY <2>1, <2>3, <2>5, <2>6 DEF Wired, FileOpen, ReadStates
<1>3. CASE OpenDone(p)
  <2>1. /\ idx[p] = NKeys + 1
        /\ handler = {k \in 1..NKeys : k < NKeys + 1} \ refused[p]
    BY <1>3 DEF OpenDone, Wired
  <2>2. /\ pc'[p] \in {"open", "unwinding"} /\ handler' = handler /\ idx'[p] = NKeys
        /\ refused' = refused
    BY <1>3, <2>1 DEF OpenDone
  <2>3. handler = 1..NKeys \ refused[p]
    BY <2>1
  <2>. QED BY <2>2, <2>3 DEF Wired, FileOpen, ReadStates
<1>4. CASE OpenUnwind(p)
  BY <1>4 DEF OpenUnwind, Wired, FileOpen, ReadStates
<1>5. CASE UnwindFreeIrq(p)
  <2>1. /\ pc[p] = "freeing" /\ idx[p] \in 1..NKeys /\ handler' = handler \ {idx[p]}
        /\ idx'[p] = idx[p] - 1 /\ pc'[p] = "unwinding"
    BY <1>5 DEF UnwindFreeIrq, FreeLine
  <2>2. handler' \subseteq {k \in 1..NKeys : k <= idx[p] - 1}
    BY <2>1 DEF Wired
  <2>. QED BY <2>1, <2>2 DEF Wired, FileOpen, ReadStates
<1>6. CASE OpenFailed(p)
  <2>1. handler = {} /\ handler' = handler /\ pc'[p] = "closed"
    BY <1>6 DEF OpenFailed, Wired
  <2>. QED BY <2>1 DEF Wired, FileOpen, ReadStates
<1>7. CASE irq_key_close(p)
  BY <1>7 DEF irq_key_close, Wired, FileOpen, ReadStates
<1>8. CASE CloseFreeIrq(p)
  <2>1. /\ pc[p] = "closing" /\ idx[p] \in 1..NKeys /\ handler' = handler \ {idx[p]}
        /\ idx'[p] = idx[p] + 1 /\ pc' = pc
    BY <1>8 DEF CloseFreeIrq, FreeLine
  <2>2. \A k \in handler' : k \in 1..NKeys /\ k >= idx[p] /\ k # idx[p]
    BY <2>1 DEF Wired
  <2>3. ASSUME NEW k \in handler' PROVE k \in {j \in 1..NKeys : j >= idx[p] + 1}
    <3>1. k \in Int /\ k \in 1..NKeys /\ k >= idx[p] /\ k # idx[p]
      BY <2>2
    <3>2. k >= idx[p] + 1
      BY <3>1
    <3>. QED BY <3>1, <3>2
  <2>. QED BY <2>1, <2>3 DEF Wired, FileOpen, ReadStates
<1>9. CASE CloseDone(p)
  <2>1. handler = {} /\ handler' = handler /\ pc'[p] = "closed"
    BY <1>9 DEF CloseDone, Wired
  <2>. QED BY <2>1 DEF Wired, FileOpen, ReadStates
<1>. QED BY <1>1, <1>2, <1>3, <1>4, <1>5, <1>6, <1>7, <1>8, <1>9 DEF OpenCloseStep

LEMMA OpenerNext == OpenerInv /\ [Next]_vars => OpenerInv'
<1> SUFFICES ASSUME OpenerInv, [Next]_vars, NEW p \in Procs
             PROVE  LastRefusalSeen(p)' /\ (Procs = {p} => Wired(p)')
  BY TypeNext DEF OpenerInv
<1>1. TypeOK /\ LastRefusalSeen(p) /\ (Procs = {p} => Wired(p))
  BY DEF OpenerInv
<1>2. ASSUME pc'[p] = pc[p], idx'[p] = idx[p], err'[p] = err[p], refused'[p] = refused[p]
      PROVE  LastRefusalSeen(p)' /\ (handler' = handler /\ Wired(p) => Wired(p)')
  BY <1>1, <1>2 DEF LastRefusalSeen, Wired, FileOpen
<1> USE DEF moduleVars, lineVars, procVars
<1>3. ASSUME NEW q \in Procs, OpenCloseStep(q)
      PROVE  LastRefusalSeen(p)' /\ (Procs = {p} => Wired(p)')
  <2>1. CASE q = p
    BY <1>1, <1>3, <2>1, RefusalKept, WiredKept
  <2>2. CASE q # p
    <3>1. /\ pc'[p] = pc[p] /\ idx'[p] = idx[p] /\ err'[p] = err[p]
          /\ refused'[p] = refused[p]
      BY <1>1, <1>3, <2>2
         DEF TypeOK, Goto, OpenCloseStep, irq_key_open, OpenRequestIrq, OpenDone,
                OpenUnwind,
             UnwindFreeIrq, OpenFailed, irq_key_close, CloseFreeIrq, CloseDone
    <3>. QED BY <1>2, <2>2, <3>1
  <2>. QED BY <2>1, <2>2
<1>4. ASSUME NEW q \in Procs, irq_key_read(q) \/ ReadStep(q)
      PROVE  LastRefusalSeen(p)' /\ (Procs = {p} => Wired(p)')
  <2>1. /\ UNCHANGED <<handler, idx, err, refused>>
        /\ q # p => pc'[p] = pc[p]
        /\ q = p => FileOpen(p) /\ FileOpen(p)' /\ pc'[p] \in {"open"} \cup ReadStates
    BY <1>1, <1>4 DEF TypeOK, Goto, irq_key_read, ReadStep, ReadTest, ReadPrepareToWait,
                      ReadRecheck, ReadWoken, ReadCopyToUser, ReadClear, FileOpen,
                      ReadStates
  <2>. QED BY <1>1, <1>2, <2>1 DEF LastRefusalSeen, Wired, FileOpen, ReadStates
<1>5. CASE \/ Irq_key_init \/ Irq_key_exit \/ UNCHANGED vars
           \/ \E q \in Procs : Signal(q)
           \/ \E k \in Keys : Edge(k) \/ key_interrupt(k)
  <2>1. UNCHANGED <<handler, pc, idx, err, refused>>
    BY <1>5 DEF Irq_key_init, Irq_key_exit, Signal, Edge, key_interrupt, vars
  <2>. QED BY <1>1, <1>2, <2>1
<1>. QED BY <1>3, <1>4, <1>5 DEF Next, ProcStep

(* A file that opened got its last line, whichever requests failed; and a  *)
(* process alone with the device has exactly the lines it was not refused. *)
THEOREM OnlyLastRequestJudged == Spec => []OpenJudgedByLastLine
<1>1. Init => \A p \in Procs : LastRefusalSeen(p) /\ Wired(p)
  BY DEF Init, LastRefusalSeen, Wired, FileOpen, ReadStates
<1>2. Init /\ TypeOK => OpenerInv
  BY <1>1 DEF OpenerInv
<1>3. OpenerInv => OpenJudgedByLastLine
  BY DEF OpenerInv, LastRefusalSeen, Wired, OpenJudgedByLastLine
<1>. QED BY <1>2, <1>3, OpenerNext, TypeCorrect, PTL DEF Spec

-----------------------------------------------------------------------------
(***************************************************************************)
(* FasyncKey.  Where a process is.                                         *)
(***************************************************************************)
(* A step of one process: only its own place changes.                      *)
Moves(p) == \E label \in AllPCs : Goto(p, label)

LEMMA MoveTyped ==
  ASSUME PcTyped, NEW p \in Procs, Moves(p)
  PROVE  PcTyped'
BY DEF PcTyped, Moves, Goto

(* open(), close() and read() move one process at a time.                 *)
LEMMA BlockingMoves ==
  ASSUME NEW p \in Procs, ProcStep(p), PcTyped
  PROVE  Moves(p) \/ pc' = pc
<1> USE DEF Moves, AllPCs, PCs, ReadStates
<1>1. CASE OpenCloseStep(p)
  BY <1>1 DEF OpenCloseStep, irq_key_open, OpenRequestIrq, OpenDone, OpenUnwind,
         UnwindFreeIrq,
              OpenFailed, irq_key_close, CloseFreeIrq, CloseDone
<1>2. CASE irq_key_read(p) \/ ReadStep(p)
  BY <1>2 DEF irq_key_read, ReadStep, ReadTest, ReadPrepareToWait, ReadRecheck,
              ReadWoken, ReadCopyToUser, ReadClear
<1>. QED BY <1>1, <1>2 DEF ProcStep

(* So do poll() and the SIGIO handler.                                     *)
LEMMA NotifyMoves ==
  ASSUME NEW p \in Procs,
         PollCall(p) \/ PollStep(p) \/ PollTimeout(p) \/ PollinRead(p) \/ SigioRead(p)
  PROVE  Moves(p)
BY DEF Moves, AllPCs, PCs, ReadStates, PollStates, OnlyGoto, PollCall, PollStep,
       PollWait, irq_key_poll, PollWoken, PollTimeout, PollinRead, SigioRead

(* Every process stays at a place of the driver or of the poll loop.       *)
LEMMA PcNext == PcTyped /\ [FNext]_fvars => PcTyped'
<1> SUFFICES ASSUME PcTyped, [FNext]_fvars PROVE PcTyped'
  OBVIOUS
<1>1. ASSUME NEW p \in Procs, FProcStep(p) PROVE PcTyped'
  <2>1. CASE FasyncOpenClose(p) \/ FasyncRead(p) \/ FasyncReadStep(p)
    <3>1. ProcStep(p)
      BY <2>1 DEF FasyncOpenClose, FasyncRead, FasyncReadStep, ProcStep
    <3>2. Moves(p) \/ pc' = pc
      BY <3>1, BlockingMoves
    <3>. QED BY <3>2, MoveTyped DEF PcTyped
  <2>2. CASE PollCall(p) \/ PollStep(p) \/ PollTimeout(p) \/ PollinRead(p)
               \/ SigioRead(p)
    BY <2>2, NotifyMoves, MoveTyped
  <2>3. CASE \E on \in BOOLEAN : irq_key_fasync(p, on)
    BY <2>3 DEF irq_key_fasync, vars, procVars, PcTyped
  <2>. QED BY <1>1, <2>1, <2>2, <2>3 DEF FProcStep, PollKeyStep
<1>2. CASE FasyncEnvironment
  BY <1>2 DEF FasyncEnvironment, Irq_key_init, Irq_key_exit, Edge, Signal, procVars,
              PcTyped
<1>3. CASE \E k \in Keys : FasyncInterrupt(k)
  BY <1>3 DEF FasyncInterrupt, key_interrupt, procVars, PcTyped
<1>4. CASE UNCHANGED fvars
  BY <1>4 DEF fvars, vars, procVars, PcTyped
<1>. QED BY <1>1, <1>2, <1>3, <1>4 DEF FNext

LEMMA PcCorrect == FSpec => []PcTyped
<1>1. FInit => PcTyped
  BY DEF FInit, Init, PcTyped, AllPCs, PCs
<1>. QED BY <1>1, PcNext, PTL DEF FSpec

(***************************************************************************)
(* No lost wakeup in poll.  A poller goes to sleep only where it has seen  *)
(* ev_press = 0, and the handler that sets it triggers every poller; no    *)
(* step of the blocking driver sets it or sends a process to sleep there.  *)
(***************************************************************************)
LEMMA BlockingKeepsEvent ==
  ASSUME PcTyped, NEW p \in Procs, ProcStep(p)
  PROVE  /\ ev_press' \in {ev_press, 0}
         /\ \A q \in Procs : pc'[q] = "pollsleep" => pc[q] = "pollsleep"
<1> USE DEF PcTyped, Goto, AllPCs, PCs, ReadStates, eventVars
<1>1. CASE OpenCloseStep(p)
  BY <1>1 DEF OpenCloseStep, irq_key_open, OpenRequestIrq, OpenDone, OpenUnwind,
         UnwindFreeIrq,
              OpenFailed, irq_key_close, CloseFreeIrq, CloseDone
<1>2. CASE irq_key_read(p) \/ ReadStep(p)
  BY <1>2 DEF irq_key_read, ReadStep, ReadTest, ReadPrepareToWait, ReadRecheck,
              ReadWoken, ReadCopyToUser, ReadClear
<1>. QED BY <1>1, <1>2 DEF ProcStep

(* ev_press is 0 or 1: what poll() does not see as 1 is 0.                 *)
EvBit == ev_press \in {0, 1}

LEMMA EvBitNext == PcTyped /\ EvBit /\ [FNext]_fvars => EvBit'
<1> SUFFICES ASSUME PcTyped, EvBit, [FNext]_fvars PROVE EvBit'
  OBVIOUS
<1> USE DEF EvBit
<1>1. ASSUME NEW p \in Procs, FProcStep(p) PROVE ev_press' \in {ev_press, 0}
  <2>1. CASE FasyncOpenClose(p) \/ FasyncRead(p) \/ FasyncReadStep(p)
    <3>1. ProcStep(p)
      BY <2>1 DEF FasyncOpenClose, FasyncRead, FasyncReadStep, ProcStep
    <3>. QED BY <3>1, BlockingKeepsEvent
  <2>2. CASE PollCall(p) \/ PollStep(p) \/ PollTimeout(p) \/ PollinRead(p)
               \/ SigioRead(p)
    BY <2>2 DEF PollCall, PollStep, PollWait, irq_key_poll, PollWoken, PollTimeout,
                PollinRead, SigioRead, OnlyGoto, eventVars
  <2>3. CASE \E on \in BOOLEAN : irq_key_fasync(p, on)
    <3>1. UNCHANGED vars
      BY <2>3 DEF irq_key_fasync
    <3>. QED BY <3>1 DEF vars, eventVars
  <2>. QED BY <1>1, <2>1, <2>2, <2>3 DEF FProcStep, PollKeyStep
<1>2. CASE FasyncEnvironment
  BY <1>2 DEF FasyncEnvironment, Irq_key_init, Irq_key_exit, Edge, Signal, eventVars
<1>3. CASE \E k \in Keys : FasyncInterrupt(k)
  BY <1>3 DEF FasyncInterrupt, key_interrupt, Publish
<1>4. CASE UNCHANGED fvars
  BY <1>4 DEF fvars, vars, eventVars
<1>. QED BY <1>1, <1>2, <1>3, <1>4 DEF FNext

LEMMA PollWakeupNext ==
  PcTyped /\ EvBit /\ NoLostPollWakeup /\ [FNext]_fvars => NoLostPollWakeup'
<1> SUFFICES ASSUME PcTyped, EvBit, NoLostPollWakeup, [FNext]_fvars,
                    NEW q \in Procs, pc'[q] = "pollsleep", q \in pollq'
             PROVE  ev_press' = 0
  BY DEF NoLostPollWakeup
<1> USE DEF NoLostPollWakeup, EvBit
<1>1. ASSUME NEW p \in Procs, FProcStep(p) PROVE ev_press' = 0
  <2>1. CASE FasyncOpenClose(p) \/ FasyncRead(p) \/ FasyncReadStep(p)
    <3>1. ProcStep(p) /\ pollq' = pollq
      BY <2>1 DEF FasyncOpenClose, FasyncRead, FasyncReadStep, ProcStep, notifyVars
    <3>. QED BY <3>1, BlockingKeepsEvent
  <2>2. CASE PollCall(p) \/ PollWait(p) \/ PollWoken(p) \/ PollTimeout(p)
               \/ PollinRead(p) \/ SigioRead(p)
    <3>1. ev_press' = ev_press
      BY <2>2 DEF PollCall, PollWait, PollWoken, PollTimeout, PollinRead, SigioRead,
                  OnlyGoto, eventVars
    <3>2. pc[q] = "pollsleep" /\ q \in pollq
      BY <2>2 DEF PollCall, PollWait, PollWoken, PollTimeout, PollinRead, SigioRead,
                  OnlyGoto, Goto, PcTyped, notifyVars
    <3>. QED BY <3>1, <3>2
  <2>3. CASE irq_key_poll(p)
    <3>1. ev_press' = ev_press
      BY <2>3 DEF irq_key_poll, OnlyGoto, eventVars
    <3>2. CASE q = p
      BY <2>3, <3>1, <3>2 DEF irq_key_poll, OnlyGoto, Goto, PcTyped
    <3>3. CASE q # p
      BY <2>3, <3>1, <3>3 DEF irq_key_poll, OnlyGoto, Goto, PcTyped
    <3>. QED BY <3>2, <3>3
  <2>4. CASE \E on \in BOOLEAN : irq_key_fasync(p, on)
    <3>1. UNCHANGED <<vars, pollq>>
      BY <2>4 DEF irq_key_fasync
    <3>. QED BY <3>1 DEF vars, procVars, eventVars
  <2>. QED BY <1>1, <2>1, <2>2, <2>3, <2>4 DEF FProcStep, PollKeyStep, PollStep
<1>2. CASE FasyncEnvironment
  BY <1>2 DEF FasyncEnvironment, Irq_key_init, Irq_key_exit, Edge, Signal, procVars,
              eventVars, notifyVars
<1>3. CASE \E k \in Keys : FasyncInterrupt(k)
  BY <1>3 DEF FasyncInterrupt, NotifyPollAndFasync
<1>4. CASE UNCHANGED fvars
  BY <1>4 DEF fvars, vars, procVars, eventVars, notifyVars
<1>. QED BY <1>1, <1>2, <1>3, <1>4 DEF FNext

(* No poller sleeps through an event that is there, for any set of         *)
(* programs, with or without SIGIO, timeouts and failed opens.             *)
THEOREM NoPollWakeupLost == FSpec => []NoLostPollWakeup
<1>1. FInit => NoLostPollWakeup /\ EvBit
  BY DEF FInit, Init, NoLostPollWakeup, EvBit
<1>. QED BY <1>1, EvBitNext, PollWakeupNext, PcCorrect, PTL DEF FSpec

(***************************************************************************)
(* The driver with poll and fasync implements the blocking driver: a       *)
(* process inside poll() counts as one that has the device open, so the    *)
(* poll steps and the registration for SIGIO are no steps of IrqKey, and   *)
(* the read() after POLLIN or in the SIGIO handler is one it starts itself.*)
(***************************************************************************)
AsOpen(label) == IF label \in PollStates THEN "open" ELSE label

MappedPc == [p \in Procs |-> IF pc[p] \in PollStates THEN "open" ELSE pc[p]]

LEMMA MappedGoto ==
  ASSUME PcTyped, NEW p \in Procs, NEW label, Goto(p, label)
  PROVE  MappedPc' = [MappedPc EXCEPT ![p] = AsOpen(label)]
BY DEF PcTyped, Goto, MappedPc, AsOpen

LEMMA MappedLabel ==
  ASSUME PcTyped, NEW p \in Procs, pc[p] \notin PollStates
  PROVE  MappedPc[p] = pc[p]
BY DEF MappedPc

(* open(), close() and their loops.                                        *)
LEMMA OpenCloseImplemented ==
  ASSUME PcTyped, NEW p \in Procs, OpenCloseStep(p)
  PROVE  Blocking!OpenCloseStep(p)
<1> USE MappedGoto, MappedLabel
    DEF MappedPc, PollStates, AsOpen, Blocking!Goto, Blocking!moduleVars, moduleVars,
           Blocking!lineVars, lineVars,
        Blocking!eventVars, eventVars, Blocking!sleepVars, sleepVars,
        Blocking!Keys, Keys, Blocking!OpenCloseStep
<1>1. CASE irq_key_open(p)
  <2>1. MappedPc[p] = "closed" /\ MappedPc' = [MappedPc EXCEPT ![p] = "requesting"]
    BY <1>1 DEF irq_key_open
  <2>. QED BY <1>1, <2>1 DEF irq_key_open, Blocking!irq_key_open
<1>2. CASE OpenRequestIrq(p)
  <2>1. MappedPc[p] = "requesting" /\ MappedPc' = MappedPc
    BY <1>2 DEF OpenRequestIrq
  <2>. QED BY <1>2, <2>1 DEF OpenRequestIrq, Blocking!OpenRequestIrq, RequestResults,
                             Blocking!RequestResults
<1>3. CASE OpenDone(p)
  <2>1. /\ MappedPc[p] = "requesting"
        /\ MappedPc' = [MappedPc EXCEPT ![p] =
                          IF err[p] THEN "unwinding" ELSE "open"]
    BY <1>3 DEF OpenDone
  <2>. QED BY <1>3, <2>1 DEF OpenDone, Blocking!OpenDone
<1>4. CASE OpenUnwind(p)
  <2>1. MappedPc[p] = "unwinding" /\ MappedPc' = [MappedPc EXCEPT ![p] = "freeing"]
    BY <1>4 DEF OpenUnwind
  <2>. QED BY <1>4, <2>1 DEF OpenUnwind, Blocking!OpenUnwind
<1>5. CASE OpenFailed(p)
  <2>1. MappedPc[p] = "unwinding" /\ MappedPc' = [MappedPc EXCEPT ![p] = "closed"]
    BY <1>5 DEF OpenFailed
  <2>. QED BY <1>5, <2>1 DEF OpenFailed, Blocking!OpenFailed
<1>6. CASE irq_key_close(p)
  <2>1. MappedPc[p] = "open" /\ MappedPc' = [MappedPc EXCEPT ![p] = "closing"]
    BY <1>6 DEF irq_key_close
  <2>. QED BY <1>6, <2>1 DEF irq_key_close, Blocking!irq_key_close
<1>7. CASE CloseFreeIrq(p)
  <2>1. MappedPc[p] = "closing" /\ MappedPc' = MappedPc
    BY <1>7 DEF CloseFreeIrq
  <2>. QED BY <1>7, <2>1 DEF CloseFreeIrq, Blocking!CloseFreeIrq, FreeLine,
                             Blocking!FreeLine
<1>8. CASE CloseDone(p)
  <2>1. MappedPc[p] = "closing" /\ MappedPc' = [MappedPc EXCEPT ![p] = "closed"]
    BY <1>8 DEF CloseDone
  <2>. QED BY <1>8, <2>1 DEF CloseDone, Blocking!CloseDone
<1>9. CASE UnwindFreeIrq(p)
  <2>1. MappedPc[p] = "freeing" /\ MappedPc' = [MappedPc EXCEPT ![p] = "unwinding"]
    BY <1>9 DEF UnwindFreeIrq
  <2>. QED BY <1>9, <2>1 DEF UnwindFreeIrq, Blocking!UnwindFreeIrq, FreeLine,
                             Blocking!FreeLine
<1>. QED BY <1>1, <1>2, <1>3, <1>4, <1>5, <1>6, <1>7, <1>8, <1>9 DEF OpenCloseStep

(* read() and the wait in it.                                              *)
LEMMA ReadImplemented ==
  ASSUME PcTyped, NEW p \in Procs, irq_key_read(p) \/ ReadStep(p)
  PROVE  Blocking!irq_key_read(p) \/ Blocking!ReadStep(p)
<1> USE MappedGoto, MappedLabel
    DEF MappedPc, PollStates, AsOpen, Blocking!Goto, Blocking!moduleVars, moduleVars,
           Blocking!lineVars, lineVars,
        Blocking!eventVars, eventVars, Blocking!sleepVars, sleepVars
<1>1. CASE irq_key_read(p)
  <2>1. MappedPc[p] = "open" /\ MappedPc' = [MappedPc EXCEPT ![p] = "test"]
    BY <1>1 DEF irq_key_read
  <2>. QED BY <1>1, <2>1 DEF irq_key_read, Blocking!irq_key_read
<1>2. CASE ReadTest(p)
  <2>1. /\ MappedPc[p] = "test"
        /\ MappedPc' = [MappedPc EXCEPT ![p] =
                          IF ev_press = 1 THEN "copy" ELSE "prep"]
    BY <1>2 DEF ReadTest
  <2>. QED BY <1>2, <2>1 DEF ReadTest, Blocking!ReadTest, Blocking!ReadStep
<1>3. CASE ReadPrepareToWait(p)
  <2>1. MappedPc[p] = "prep" /\ MappedPc' = [MappedPc EXCEPT ![p] = "recheck"]
    BY <1>3 DEF ReadPrepareToWait
  <2>. QED BY <1>3, <2>1 DEF ReadPrepareToWait, Blocking!ReadPrepareToWait,
                             Blocking!ReadStep
<1>4. CASE ReadRecheck(p)
  <2>1. /\ MappedPc[p] = "recheck"
        /\ MappedPc' = [MappedPc EXCEPT ![p] =
                          IF ev_press = 1 \/ p \in sigpending THEN "copy" ELSE "sched"]
    BY <1>4 DEF ReadRecheck
  <2>. QED BY <1>4, <2>1 DEF ReadRecheck, Blocking!ReadRecheck, Blocking!ReadStep
<1>5. CASE ReadWoken(p)
  <2>1. MappedPc[p] = "sched" /\ MappedPc' = [MappedPc EXCEPT ![p] = "prep"]
    BY <1>5 DEF ReadWoken
  <2>. QED BY <1>5, <2>1 DEF ReadWoken, Blocking!ReadWoken, Blocking!ReadStep
<1>6. CASE ReadCopyToUser(p)
  <2>1. MappedPc[p] = "copy" /\ MappedPc' = [MappedPc EXCEPT ![p] = "clear"]
    BY <1>6 DEF ReadCopyToUser
  <2>. QED BY <1>6, <2>1 DEF ReadCopyToUser, Blocking!ReadCopyToUser, Blocking!ReadStep
<1>7. CASE ReadClear(p)
  <2>1. MappedPc[p] = "clear" /\ MappedPc' = [MappedPc EXCEPT ![p] = "open"]
    BY <1>7 DEF ReadClear
  <2>. QED BY <1>7, <2>1 DEF ReadClear, Blocking!ReadClear, Blocking!ReadStep
<1>. QED BY <1>1, <1>2, <1>3, <1>4, <1>5, <1>6, <1>7 DEF ReadStep

(* Inside poll() the blocking driver sees a process that does nothing.     *)
LEMMA PollInvisible ==
  ASSUME PcTyped, NEW p \in Procs, PollCall(p) \/ PollStep(p) \/ PollTimeout(p)
  PROVE  UNCHANGED Blocking!vars
<1>1. /\ pc[p] \in PollStates \cup {"open"}
      /\ \E label \in PollStates \cup {"open"} : Goto(p, label)
  BY DEF PollCall, PollStep, PollWait, irq_key_poll, PollWoken, PollTimeout,
         PollStates, OnlyGoto
<1>2. MappedPc' = MappedPc
  BY <1>1 DEF PcTyped, Goto, MappedPc, PollStates
<1>3. UNCHANGED <<moduleVars, lineVars, eventVars, sleepVars, idx, err, refused>>
  BY DEF PollCall, PollStep, PollWait, irq_key_poll, PollWoken, PollTimeout, OnlyGoto
<1>. QED
  BY <1>2, <1>3 DEF Blocking!vars, Blocking!moduleVars, moduleVars, Blocking!lineVars,
         lineVars, Blocking!eventVars,
     eventVars, Blocking!sleepVars, sleepVars, Blocking!procVars, MappedPc

(* The read() after POLLIN and the one in the SIGIO handler.               *)
LEMMA NotifiedRead ==
  ASSUME PcTyped, NEW p \in Procs, PollinRead(p) \/ SigioRead(p)
  PROVE  Blocking!irq_key_read(p)
<1>1. pc[p] \in {"pollin", "open"} /\ OnlyGoto(p, "test")
  BY DEF PollinRead, SigioRead
<1>2. MappedPc[p] = "open" /\ MappedPc' = [MappedPc EXCEPT ![p] = "test"]
  BY <1>1, MappedGoto DEF OnlyGoto, MappedPc, AsOpen, PollStates
<1>. QED
  BY <1>1, <1>2 DEF OnlyGoto, MappedPc, Blocking!irq_key_read, Blocking!Goto,
     Blocking!moduleVars, moduleVars, Blocking!lineVars, lineVars, Blocking!eventVars,
     eventVars,
     Blocking!sleepVars, sleepVars

(* What is not a step of a process is the same in both.                    *)
LEMMA EnvironmentImplemented ==
  ASSUME PcTyped, FasyncEnvironment \/ \E k \in Keys : FasyncInterrupt(k)
  PROVE  Blocking!Next
<1> USE DEF Blocking!moduleVars, moduleVars, Blocking!lineVars, lineVars,
       Blocking!eventVars, eventVars,
            Blocking!sleepVars, sleepVars, Blocking!procVars, procVars,
            Blocking!Keys, Keys
<1>1. CASE Irq_key_init
  BY <1>1 DEF Irq_key_init, Blocking!Irq_key_init, Blocking!Next
<1>2. CASE Irq_key_exit
  BY <1>2 DEF Irq_key_exit, Blocking!Irq_key_exit, Blocking!Next, PollStates
<1>3. ASSUME NEW k \in Keys, Edge(k) PROVE Blocking!Next
  BY <1>3 DEF Edge, Blocking!Edge, Blocking!Next
<1>4. ASSUME NEW p \in Procs, Signal(p) PROVE Blocking!Next
  BY <1>4 DEF Signal, Blocking!Signal, Blocking!Next, ReadStates, Blocking!ReadStates,
              PollStates
<1>5. ASSUME NEW k \in Keys, key_interrupt(k) PROVE Blocking!Next
  BY <1>5 DEF key_interrupt, Blocking!key_interrupt, Publish, Blocking!Publish, KeyCode,
              Blocking!KeyCode, Blocking!Next
<1>. QED BY <1>1, <1>2, <1>3, <1>4, <1>5 DEF FasyncEnvironment, FasyncInterrupt

(* Every step is a step of the blocking driver or none at all.             *)
LEMMA StepImplemented == PcTyped /\ [FNext]_fvars => [Blocking!Next]_(Blocking!vars)
<1> SUFFICES ASSUME PcTyped, [FNext]_fvars PROVE [Blocking!Next]_(Blocking!vars)
  OBVIOUS
<1>1. ASSUME NEW p \in Procs, FProcStep(p)
      PROVE  Blocking!ProcStep(p) \/ UNCHANGED Blocking!vars
  <2>1. CASE FasyncOpenClose(p)
    BY <2>1, OpenCloseImplemented DEF FasyncOpenClose, Blocking!ProcStep
  <2>2. CASE FasyncRead(p) \/ FasyncReadStep(p)
    BY <2>2, ReadImplemented DEF FasyncRead, FasyncReadStep, Blocking!ProcStep
  <2>3. CASE PollCall(p) \/ PollStep(p) \/ PollTimeout(p)
    BY <2>3, PollInvisible
  <2>4. CASE PollinRead(p) \/ SigioRead(p)
    BY <2>4, NotifiedRead DEF Blocking!ProcStep
  <2>5. CASE \E on \in BOOLEAN : irq_key_fasync(p, on)
    <3>1. UNCHANGED vars
      BY <2>5 DEF irq_key_fasync
    <3>. QED
      BY <3>1 DEF vars, Blocking!vars, Blocking!moduleVars, moduleVars,
             Blocking!lineVars, lineVars, Blocking!eventVars,
         eventVars, Blocking!sleepVars, sleepVars, Blocking!procVars, procVars
  <2>. QED BY <1>1, <2>1, <2>2, <2>3, <2>4, <2>5 DEF FProcStep, PollKeyStep
<1>2. CASE UNCHANGED fvars
  BY <1>2 DEF fvars, vars, Blocking!vars, Blocking!moduleVars, moduleVars,
         Blocking!lineVars, lineVars,
     Blocking!eventVars, eventVars, Blocking!sleepVars, sleepVars,
     Blocking!procVars, procVars
<1>. QED BY <1>1, <1>2, EnvironmentImplemented DEF FNext, Blocking!Next

(* Whatever a program does with poll and SIGIO, the driver behaves to the  *)
(* others as the blocking driver IrqKey.                                   *)
THEOREM FasyncImplementsIrqKey == FSpec => ImplementsIrqKey
<1>1. FInit => Blocking!Init
  BY DEF FInit, Init, Blocking!Init, Blocking!Keys, Keys, PollStates
<1>. QED BY <1>1, StepImplemented, PcCorrect, PTL
         DEF FSpec, ImplementsIrqKey, Blocking!Spec

-----------------------------------------------------------------------------
(***************************************************************************)
(* TimerKey: nothing calls into the module once it is unloaded.  close()   *)
(* leaves the timer running, so "no open file" does not imply "no timer".  *)
(* What keeps the module there while the timer may be started is that a    *)
(* registered line always has a process that will still free it, and such  *)
(* a process holds the module; the timer runs only in a loaded module,     *)
(* because an interrupt starts it and exit deletes it.                     *)
(***************************************************************************)
TimerInv ==
  /\ TableTyped
  /\ LinesHaveUser
  /\ LoadedWhileUsed
  /\ timer => loaded

(* A registered line means a loaded module: its user holds the module.     *)
LEMMA LineMeansLoaded ==
  ASSUME TimerInv, NEW k \in handler
  PROVE  loaded
<1>1. PICK p \in Procs : WillFree(p, k)
  BY DEF TimerInv, LinesHaveUser
<1>2. pc[p] # "closed"
  BY <1>1 DEF WillFree, Responsible, FileOpen, ReadStates, PollStates
<1>. QED BY <1>2 DEF TimerInv, LoadedWhileUsed

LEMMA FileStepKeepsTimerInv ==
  ASSUME TimerInv, NEW p \in Procs, TimerFileStep(p)
  PROVE  TimerInv'
<1>1. TableTyped /\ PcTyped /\ LinesHaveUser /\ LoadedWhileUsed
  BY DEF TimerInv, TableTyped
<1>2. PcTyped' /\ timer' = timer
  BY <1>1, PcNext DEF TimerFileStep, FNext, timerVars
<1>3. CASE FasyncOpenClose(p)
  BY <1>1, <1>2, <1>3, OpenCloseStaysInTable, OpenCloseKeepsUser, OpenCloseNeedsModule
     DEF FasyncOpenClose, TimerInv, TableTyped
<1>4. CASE \/ FasyncRead(p) \/ FasyncReadStep(p)
           \/ PollCall(p) \/ PollStep(p) \/ PollTimeout(p) \/ PollinRead(p) \/ SigioRead(p)
  BY <1>1, <1>2, <1>4, FileStepKeepsUser
     DEF FasyncRead, FasyncReadStep, TimerInv, TableTyped
<1>5. CASE \E on \in BOOLEAN : irq_key_fasync(p, on)
  <2>1. UNCHANGED <<loaded, handler, pc, idx>>
    BY <1>5 DEF irq_key_fasync, vars, moduleVars, lineVars, procVars
  <2>. QED BY <1>1, <1>2, <2>1, QuietKeepsUser DEF TimerInv, TableTyped, LoadedWhileUsed
<1>. QED BY <1>3, <1>4, <1>5 DEF TimerFileStep, FProcStep, PollKeyStep

LEMMA TimerNext == TimerInv /\ [TNext]_tvars => TimerInv'
<1> SUFFICES ASSUME TimerInv, [TNext]_tvars PROVE TimerInv'
  OBVIOUS
<1>1. ASSUME UNCHANGED <<handler, pc, idx>>, LoadedWhileUsed', timer' => loaded'
      PROVE  TimerInv'
  BY <1>1, QuietKeepsUser DEF TimerInv, TableTyped, PcTyped
<1>2. CASE TimerInit \/ TimerExit
  BY <1>1, <1>2 DEF TimerInit, TimerExit, Irq_key_init, Irq_key_exit, moduleVars,
         lineVars, procVars,
                    TimerInv, LoadedWhileUsed
<1>3. CASE \E p \in Procs : TimerFileStep(p)
  BY <1>3, FileStepKeepsTimerInv
<1>4. ASSUME NEW k \in Keys, TimerInterrupt(k) PROVE TimerInv'
  <2>1. loaded /\ UNCHANGED <<handler, pc, idx, loaded>>
    BY <1>4, LineMeansLoaded DEF TimerInterrupt, moduleVars, procVars
  <2>. QED BY <1>1, <2>1 DEF TimerInv, LoadedWhileUsed
<1>5. CASE buttons_timer_function
  <2>1. loaded /\ UNCHANGED <<handler, pc, idx, loaded>>
    BY <1>5 DEF buttons_timer_function, TimerInv, vars, moduleVars, lineVars, procVars
  <2>. QED BY <1>1, <2>1 DEF TimerInv, LoadedWhileUsed
<1>6. CASE TimerEnvironment \/ UNCHANGED tvars
  <2>1. UNCHANGED <<handler, pc, idx, loaded, timer>>
    BY <1>6 DEF TimerEnvironment, Edge, Signal, moduleVars, lineVars, procVars,
           timerVars, tvars,
                fvars, vars
  <2>. QED BY <1>1, <2>1 DEF TimerInv, LoadedWhileUsed
<1>. QED BY <1>2, <1>3, <1>4, <1>5, <1>6 DEF TNext

(* After unload neither the timer nor an interrupt line can call into the  *)
(* freed module, for any mixture of failed opens, lines owned by others    *)
(* and programs that close with the timer running.                         *)
THEOREM TimerUnloadIsSafe == TSpec => []NothingCallsUnloadedModule
<1>1. TInit => TimerInv
  BY DEF TInit, FInit, Init, TimerInv, TableTyped, PcTyped, AllPCs, PCs, LinesHaveUser,
         LoadedWhileUsed
<1>2. TimerInv => NothingCallsUnloadedModule
  BY LineMeansLoaded DEF NothingCallsUnloadedModule, TimerInv
<1>. QED BY <1>1, <1>2, TimerNext, PTL DEF TSpec

-----------------------------------------------------------------------------
(***************************************************************************)
(* TimerKey: which interrupts are forgotten.  One timer and one irq_pd     *)
(* serve all keys: an interrupt that finds another key waiting takes its   *)
(* place, and overtaken remembers whom.  No other step forgets a key.      *)
(***************************************************************************)
(* owed is about lines that exist; NULL is none of them.                   *)
OwedKeys == owed \subseteq Keys

LEMMA OwedNext ==
  ASSUME OwedKeys, KeyPublishedUnlessOvertaken, [TNext]_tvars
  PROVE  OwedKeys' /\ KeyPublishedUnlessOvertaken'
<1> USE DEF OwedKeys, KeyPublishedUnlessOvertaken, historyVars
<1>k. NULL \notin Keys
  BY NKeysAssumption DEF Keys, NULL
<1>1. CASE TimerInit
  BY <1>1 DEF TimerInit
<1>2. CASE TimerExit
  <2>1. CASE loaded'
    BY <1>2, <2>1 DEF TimerExit
  <2>2. CASE ~loaded'
    BY <1>2, <2>2 DEF TimerExit
  <2>. QED BY <2>1, <2>2
<1>3. ASSUME NEW k \in Keys, TimerInterrupt(k)
      PROVE  OwedKeys' /\ KeyPublishedUnlessOvertaken'
  <2>1. /\ owed' = owed \cup {k} /\ overtaken' = (overtaken \cup owed) \ {k}
        /\ timer' /\ irq_pd' = k
    BY <1>3 DEF TimerInterrupt, Owe
  <2>. QED BY <2>1
<1>4. CASE buttons_timer_function
  <2>1. CASE irq_pd = NULL
    <3>1. owed \ overtaken = {}
      BY <1>4, <1>k, <2>1 DEF buttons_timer_function
    <3>2. owed' = owed /\ overtaken' = overtaken
      BY <1>4, <2>1 DEF buttons_timer_function
    <3>. QED BY <3>1, <3>2
  <2>2. CASE irq_pd # NULL
    BY <1>4, <2>2 DEF buttons_timer_function
  <2>. QED BY <2>1, <2>2
<1>5. CASE UNCHANGED timerVars
  BY <1>5 DEF timerVars
<1>. QED
  BY <1>1, <1>2, <1>3, <1>4, <1>5 DEF TNext, TimerFileStep, TimerEnvironment, tvars

(* Every interrupt that was taken is on its way to key_val, however it     *)
(* bounces and whatever the programs do, unless another key took its place.*)
THEOREM KeysPublished == TSpec => []KeyPublishedUnlessOvertaken
<1>1. TInit => OwedKeys /\ KeyPublishedUnlessOvertaken
  BY DEF TInit, OwedKeys, KeyPublishedUnlessOvertaken
<1>2. OwedKeys /\ KeyPublishedUnlessOvertaken /\ [TNext]_tvars
      => (OwedKeys /\ KeyPublishedUnlessOvertaken)'
  BY OwedNext
<1>. QED BY <1>1, <1>2, PTL DEF TSpec
=============================================================================
