-------------------------- MODULE ForkServerProofs ---------------------------
(***************************************************************************)
(* ForkServer, for any clients, any number of slots and any pids: the scan *)
(* for a slot stays in the table and the count covers the slots although   *)
(* SIGCHLD may come between any two steps of main(), a slot is taken back  *)
(* when its own child has ended but for the one window, and the server is  *)
(* a ConnectionPool but for the connection cut off in that window.         *)
(*                                                                         *)
(* Counting does not depend on who is mistaken for whom: a slot, a child   *)
(* and the count go together (Counted).  Which slot remembers which child  *)
(* does: the two are in step until a child is robbed of its slot (InStep), *)
(* which waitpid(0) alone can do, in a slot that was never used; and as    *)
(* slots are first used in order, the child is of an earlier one.          *)
(***************************************************************************)
EXTENDS ForkServer, SetLemmas

Places == {"gate", "scan", "accept", "count", "store", "fork", "publish", "reap",
           "uncount"}

(* The ranges of what the argument looks at.                               *)
Typed ==
  /\ oneStep \in BOOLEAN /\ zeroed \in BOOLEAN /\ robbed \in BOOLEAN
  /\ nopen \in Int /\ reg \in Int
  /\ isopen \subseteq 0..ncons - 1
  /\ pid \in [Slots -> Pids \cup {0, NoProcess}]
  /\ cd \in Clients \cup {NoClient}
  /\ pc \in Places /\ ci \in Slots /\ hci \in Slots
  /\ oneStep => pc \notin {"store", "uncount"}
  /\ proc \in [Pids -> {"none", "runs", "zombie"}]
  /\ serves \in [Pids -> Clients \cup {NoClient}]
  /\ queue \in Seq(Clients) /\ asked \subseteq Clients

(* A slot that is taken and has its pid: not that of the window.           *)
Live(s) == s \in isopen /\ ~(InWindow /\ s = ci)

(* No slot remembers a process that is gone.                               *)
Remembered == \A s \in Slots : pid[s] \in Pids => proc[pid[s]] # "none"

(* A zero in pid[] is from malloc(), and slots are first used in order.    *)
ZeroUnused ==
  /\ \A s \in Slots : pid[s] = 0 => zeroed /\ ~Live(s)
  /\ \A s, t \in Slots : t < s /\ pid[t] = 0 => pid[s] = 0
  /\ pc \in {"scan", "accept"} \/ InWindow => \A t \in Slots : t < ci => pid[t] # 0

(* main()'s slot, and the child it has forked.                             *)
InTable ==
  /\ pc = "gate" => ci = 0
  /\ pc = "accept" => ci \notin isopen
  /\ pc \in {"accept", "uncount"} \/ InWindow => ci < ncons
  /\ pc = "publish" => reg \in Pids /\ \A s \in Slots : pid[s] # reg

(* Until a child is robbed of its slot, a slot that is taken remembers a   *)
(* child, every child has its slot, and main() still has that of the       *)
(* window, which only the child it has forked for it can lose.             *)
InStep ==
  ~robbed =>
    /\ \A s \in Slots : Live(s) => pid[s] \in Pids
    /\ \A p \in Pids : proc[p] # "none" =>
         \/ \E s \in Slots : Live(s) /\ pid[s] = p
         \/ pc = "publish" /\ p = reg /\ ci \in isopen
    /\ pc \in {"count", "store", "fork"} => ci \in isopen
    /\ pc = "publish" /\ ci \in isopen => proc[reg] # "none"

SlotInv == Typed /\ Remembered /\ ZeroUnused /\ InTable /\ InStep

(* The count, in nopen or as main() has loaded it into a register, of the  *)
(* slots taken and of the children.                                        *)
Uncounted == IF pc \in {"count", "store"} THEN 1 ELSE 0
Unborn    == IF pc = "fork" THEN 1 ELSE 0
Alive     == {p \in Pids : proc[p] # "none"}

Covers(n, slots, children) == n >= slots /\ n >= children

Counted ==
  /\ Covers(nopen, Cardinality(isopen) - Uncounted, Cardinality(Alive) + Unborn)
  /\ oneStep => nopen = Cardinality(isopen) - Uncounted
  /\ pc = "store" => Covers(reg + 1, Cardinality(isopen), Cardinality(Alive) + 1) /\ reg < ncons
  /\ pc = "uncount" => Covers(reg - 1, Cardinality(isopen), Cardinality(Alive)) /\ reg <= ncons

Room == nopen <= ncons /\ (pc \in {"scan", "accept", "count"} => nopen < ncons)

FreeSlotAhead == pc = "scan" => \E s \in 0..ncons - 1 : s \notin isopen /\ ci <= s

TableInv == SlotInv /\ Counted /\ Room /\ FreeSlotAhead

(* No client is served twice, and none waits that is served.               *)
ServedOnce ==
  /\ \A p, q \in Running : serves[p] = serves[q] /\ serves[p] # NoClient => p = q
  /\ \A p \in Running : serves[p] \notin Unforked

QueuedOnce ==
  /\ \A i, j \in DOMAIN queue : queue[i] = queue[j] => i = j
  /\ \A i \in DOMAIN queue :
       queue[i] \notin Unforked /\ \A p \in Running : serves[p] # queue[i]

PoolInv == TableInv /\ ServedOnce /\ QueuedOnce

LEMMA NoProcessIsNone == NoProcess \notin Pids /\ 0 \notin Pids /\ NoProcess # 0
<1>1. Pids \subseteq Int
  BY PidsAssumption
<1>2. Max(Pids) \in Pids /\ \A p \in Pids : Max(Pids) >= p
  BY <1>1, PidsAssumption, MaxOfFinite
<1>3. Max(Pids) \in Int /\ NoProcess = Max(Pids) + 1
  BY <1>1, <1>2 DEF NoProcess
<1>4. PICK m \in Nat \ {0} : m = Max(Pids)
  BY <1>2, PidsAssumption
<1>5. NoProcess # 0
  BY <1>3, <1>4
<1>6. NoProcess \notin Pids
  BY <1>1, <1>2, <1>3
<1>. QED BY <1>5, <1>6, PidsAssumption

(* fork() returns a pid that no process has.                               *)
LEMMA ForkedPid ==
  ASSUME Fork
  PROVE  /\ reg' \in Pids /\ proc[reg'] = "none"
         /\ proc' = [proc EXCEPT ![reg'] = "runs"]
         /\ serves' = [serves EXCEPT ![reg'] = cd]
<1> DEFINE free == {p \in Pids : proc[p] = "none"}
<1>1. free # {} /\ reg' = Min(free)
  BY DEF Fork
<1>2. free \subseteq Int /\ IsFiniteSet(free)
  <2>1. free \subseteq Pids
    OBVIOUS
  <2> HIDE DEF free
  <2>2. free \subseteq Int
    BY <2>1, PidsAssumption
  <2>3. IsFiniteSet(free)
    BY <2>1, PidsAssumption, FS_Subset
  <2>. QED BY <2>2, <2>3
<1>3. reg' \in free
  <2> HIDE DEF free
  <2>. QED BY <1>1, <1>2, MinOfFinite
<1>. QED BY <1>1, <1>3 DEF Fork

LEMMA SlotInit == Init => SlotInv
<1> SUFFICES ASSUME Init PROVE SlotInv
  OBVIOUS
<1>1. oneStep \in BOOLEAN /\ zeroed \in BOOLEAN
  BY BuildsAssumption DEF Init
<1>2. Typed
  BY <1>1, NconsAssumption DEF Init, Typed, Places, Slots
<1>3. \A s \in Slots : ~Live(s) /\ pid[s] \notin Pids /\ (pid[s] = 0 <=> zeroed)
  BY <1>1, NoProcessIsNone DEF Init, Live
<1>4. \A p \in Pids : proc[p] = "none"
  BY DEF Init
<1>. QED BY <1>2, <1>3, <1>4
         DEF SlotInv, Remembered, ZeroUnused, InTable, InStep, Init, InWindow

-----------------------------------------------------------------------------
(***************************************************************************)
(* waitpid() returns the child z, and slot s is given back: by the handler *)
(* while main() waits, or by main() itself where there is no window.       *)
(***************************************************************************)
Taking(s, z) ==
  /\ s \in isopen /\ z \in Waitable(s) /\ TakeBack(s, z)
  /\ UNCHANGED zeroed
  /\ UNCHANGED <<pc, ci, reg>> \/ (pc = "reap" /\ pc' \in {"reap", "uncount"})

(* The facts of such a step.                                               *)
LEMMA TakingFacts ==
  ASSUME SlotInv, NEW s, NEW z, Taking(s, z)
  PROVE  /\ s \in Slots /\ z \in Pids /\ proc[z] = "zombie"
         /\ pid[s] = z \/ pid[s] = 0
         /\ \A t \in Slots : pid'[t] = IF pid[t] = z THEN NoProcess ELSE pid[t]
         /\ \A p \in Pids : proc'[p] = IF p = z THEN "none" ELSE proc[p]
         /\ InWindow' = InWindow /\ (InWindow => UNCHANGED <<pc, ci, reg>>)
         /\ \A t \in Slots : Live(t)' <=> Live(t) /\ t # s
         /\ ~robbed' => ~robbed /\ \A t \in isopen \ {s} : pid[t] # z
<1>t. Typed /\ isopen \subseteq Slots
  BY NconsAssumption DEF SlotInv, Typed, Slots
<1>1. s \in Slots /\ z \in Pids /\ proc[z] = "zombie" /\ (pid[s] = z \/ pid[s] = 0)
  BY <1>t DEF Taking, Waitable, Zombies
<1>2. \A t \in Slots : pid'[t] = IF pid[t] = z THEN NoProcess ELSE pid[t]
  BY DEF Taking, TakeBack
<1>3. \A p \in Pids : proc'[p] = IF p = z THEN "none" ELSE proc[p]
  BY <1>t DEF Taking, TakeBack, Typed
<1>4. InWindow' = InWindow /\ (InWindow => UNCHANGED <<pc, ci, reg>>)
  BY DEF Taking, InWindow
<1>5. \A t \in Slots : Live(t)' <=> Live(t) /\ t # s
  BY <1>4 DEF Taking, TakeBack, Live
<1>6. ~robbed' => ~robbed /\ \A t \in isopen \ {s} : pid[t] # z
  BY <1>t DEF Taking, TakeBack, Typed
<1>. QED BY <1>1, <1>2, <1>3, <1>4, <1>5, <1>6

(* A slot that is taken back from a child of its own, or by waitpid(0).    *)
LEMMA WhoseChild ==
  ASSUME SlotInv, NEW s, NEW z, Taking(s, z), ~robbed
  PROVE  \/ pid[s] = z
         \/ pc = "publish" /\ s = ci /\ z = reg
         \/ /\ zeroed /\ InWindow /\ s = ci /\ pid[s] = 0
            /\ \E t \in isopen \ {s} : t < s /\ pid[t] = z
<1>1. /\ s \in Slots /\ z \in Pids /\ proc[z] = "zombie" /\ s \in isopen
      /\ pid[s] = z \/ pid[s] = 0
  BY TakingFacts DEF Taking
<1>2. SUFFICES ASSUME pid[s] = 0, ~(pc = "publish" /\ z = reg)
               PROVE  /\ zeroed /\ InWindow /\ s = ci
                      /\ \E t \in isopen \ {s} : t < s /\ pid[t] = z
  <2>1. pid[s] = 0 => s = ci
    BY <1>1 DEF SlotInv, ZeroUnused, Live
  <2>. QED BY <1>1, <2>1
<1>3. zeroed /\ InWindow /\ s = ci
  BY <1>1, <1>2 DEF SlotInv, ZeroUnused, Live
<1>4. PICK t \in Slots : Live(t) /\ pid[t] = z
  BY <1>1, <1>2 DEF SlotInv, InStep
<1>5. t \in isopen /\ t # s
  BY <1>3, <1>4 DEF Live
<1>6. ~(s < t)
  BY <1>1, <1>2, <1>4, NoProcessIsNone DEF SlotInv, ZeroUnused
<1>7. t < s
  BY <1>1, <1>4, <1>5, <1>6, NconsAssumption DEF Slots
<1>. QED BY <1>3, <1>4, <1>5, <1>7

LEMMA TakingKeepsSlots ==
  ASSUME SlotInv, NEW s, NEW z, Taking(s, z)
  PROVE  Remembered' /\ InStep' /\ ZeroUnused'
         /\ isopen' = isopen \ {s} /\ \A t \in Slots : pid'[t] # z
<1>f. /\ s \in Slots /\ z \in Pids /\ proc[z] = "zombie"
      /\ pid[s] = z \/ pid[s] = 0
      /\ \A t \in Slots : pid'[t] = IF pid[t] = z THEN NoProcess ELSE pid[t]
      /\ \A p \in Pids : proc'[p] = IF p = z THEN "none" ELSE proc[p]
      /\ InWindow' = InWindow /\ (InWindow => UNCHANGED <<pc, ci, reg>>)
      /\ \A t \in Slots : Live(t)' <=> Live(t) /\ t # s
      /\ ~robbed' => ~robbed /\ \A t \in isopen \ {s} : pid[t] # z
  BY TakingFacts
<1>g. /\ isopen' = isopen \ {s} /\ UNCHANGED zeroed
      /\ UNCHANGED <<pc, ci, reg>> \/ (pc = "reap" /\ pc' \in {"reap", "uncount"})
  BY DEF Taking, TakeBack
<1>n. NoProcess \notin Pids /\ NoProcess # z /\ NoProcess # 0 /\ z # 0
  BY <1>f, NoProcessIsNone
<1>1. Remembered'
  BY <1>f, <1>n DEF SlotInv, Remembered
<1>2. ZeroUnused'
  <2>1. \A t \in Slots : pid'[t] = 0 <=> pid[t] = 0
    BY <1>f, <1>n
  <2>2. pc' \in {"scan", "accept"} \/ InWindow' => UNCHANGED ci /\ (pc \in {"scan", "accept"} \/ InWindow)
    BY <1>f, <1>g
  <2>. QED BY <1>f, <1>g, <2>1, <2>2 DEF SlotInv, ZeroUnused
<1>3. InStep'
  <2> SUFFICES ASSUME ~robbed' PROVE InStep'
    BY DEF InStep
  <2>0. ~robbed /\ \A t \in isopen \ {s} : pid[t] # z
    BY <1>f
  <2>i. /\ \A t \in Slots : Live(t) => pid[t] \in Pids
        /\ \A p \in Pids : proc[p] # "none" =>
             \/ \E t \in Slots : Live(t) /\ pid[t] = p
             \/ pc = "publish" /\ p = reg /\ ci \in isopen
        /\ pc \in {"count", "store", "fork"} => ci \in isopen
        /\ pc = "publish" /\ ci \in isopen => proc[reg] # "none"
    BY <2>0 DEF SlotInv, InStep
  <2>w. pid[s] = z \/ (pc = "publish" /\ s = ci /\ z = reg)
    BY <2>0, WhoseChild
  <2>p. \A t \in Slots : Live(t)' => pid'[t] = pid[t]
    BY <1>f, <2>0 DEF Live
  <2>1. \A t \in Slots : Live(t)' => pid'[t] \in Pids
    BY <1>f, <2>i, <2>p
  <2>2. s = ci /\ InWindow => pc = "publish" /\ z = reg
    <3> SUFFICES ASSUME s = ci, InWindow, ~(pc = "publish" /\ z = reg) PROVE FALSE
      OBVIOUS
    <3>1. PICK t \in Slots : Live(t) /\ pid[t] = z
      BY <1>f, <2>i
    <3>. QED BY <2>0, <3>1 DEF Live
  <2>3. pc' \in {"count", "store", "fork"} => ci' \in isopen'
    BY <1>f, <1>g, <2>i, <2>2 DEF InWindow
  <2>r. pc = "publish" => reg \in Pids /\ \A t \in Slots : pid[t] # reg
    BY DEF SlotInv, InTable
  <2>4. pc' = "publish" /\ ci' \in isopen' => proc'[reg'] # "none" /\ pc = "publish"
                                            /\ ci' = ci /\ reg' = reg /\ ci \in isopen
    BY <1>f, <1>g, <2>i, <2>w, <2>r
  <2>5. ASSUME NEW p \in Pids, proc'[p] # "none"
        PROVE  \/ \E t \in Slots : Live(t)' /\ pid'[t] = p
               \/ pc' = "publish" /\ p = reg' /\ ci' \in isopen'
    <3>1. proc[p] # "none" /\ p # z
      BY <1>f, <2>5
    <3>2. CASE \E t \in Slots : Live(t) /\ pid[t] = p
      <4>1. PICK t \in Slots : Live(t) /\ pid[t] = p
        BY <3>2
      <4>2. t # s
        BY <1>f, <1>n, <2>2, <2>w, <3>1, <4>1 DEF Live, InWindow
      <4>. QED BY <1>f, <2>p, <4>1, <4>2
    <3>3. CASE pc = "publish" /\ p = reg /\ ci \in isopen
      <4>1. s # ci
        BY <2>2, <3>1, <3>3 DEF InWindow
      <4>. QED BY <1>f, <1>g, <3>3, <4>1 DEF InWindow
    <3>. QED BY <2>i, <3>1, <3>2, <3>3
  <2>. QED BY <2>1, <2>3, <2>4, <2>5 DEF InStep
<1>4. \A t \in Slots : pid'[t] # z
  BY <1>f, <1>n
<1>. QED BY <1>g, <1>1, <1>2, <1>3, <1>4

(* A slot that the handler leaves alone, or where it finds nobody, and its *)
(* start.                                                                  *)
HandlerPasses ==
  /\ Handler
  /\ UNCHANGED <<tableVars, mainVars, proc, serves, robbed, clientVars>>

(* Otherwise it takes one back.                                            *)
HandlerTakes(z) ==
  /\ hci \in isopen /\ z \in Waitable(hci) /\ hci < ncons /\ hci' = hci + 1
  /\ HandlerTakesBack(hci, z)
  /\ UNCHANGED <<buildVars, mainVars, serves, queue>>

LEMMA HandlerCases ==
  ASSUME Handler
  PROVE  /\ HandlerPasses \/ \E z \in Waitable(hci) : HandlerTakes(z)
         /\ UNCHANGED buildVars
<1>1. UNCHANGED buildVars
  BY DEF Handler, HandlerStart, HandlerSlot
<1>2. CASE HandlerStart
  BY <1>2 DEF HandlerStart, Handler, HandlerPasses, clientVars
<1>3. CASE HandlerSlot /\ ~(hci \in isopen /\ Waitable(hci) # {})
  BY <1>3 DEF HandlerSlot, Handler, HandlerPasses, clientVars
<1>4. CASE HandlerSlot /\ hci \in isopen /\ Waitable(hci) # {}
  BY <1>4 DEF HandlerSlot, HandlerTakes
<1>. QED BY <1>1, <1>2, <1>3, <1>4 DEF Handler

LEMMA HandlerKeepsSlots == SlotInv /\ Handler => SlotInv'
<1> SUFFICES ASSUME SlotInv, Handler PROVE SlotInv'
  OBVIOUS
<1>t. Typed /\ ncons \in Nat /\ Slots = 0..ncons
  BY NconsAssumption DEF SlotInv, Slots
<1>1. CASE HandlerPasses
  <2>1. /\ UNCHANGED <<buildVars, nopen, isopen, cd, pid, pc, ci, reg, proc, serves, robbed>>
        /\ UNCHANGED <<queue, asked>> /\ hci' \in Slots
    BY <1>1, <1>t, HandlerCases
       DEF HandlerPasses, Handler, HandlerStart, HandlerSlot, tableVars, mainVars,
           clientVars, Typed
  <2>2. Typed'
    BY <1>t, <2>1 DEF Typed, buildVars
  <2>3. InWindow' = InWindow /\ \A s \in Slots : Live(s)' <=> Live(s)
    BY <2>1 DEF InWindow, Live
  <2>. QED BY <2>1, <2>2, <2>3
           DEF SlotInv, Remembered, ZeroUnused, InTable, InStep, buildVars
<1>2. ASSUME NEW z \in Waitable(hci), HandlerTakes(z) PROVE SlotInv'
  <2>1. Taking(hci, z)
    <3>1. TakeBack(hci, z) /\ hci \in isopen /\ UNCHANGED <<buildVars, mainVars>>
      BY <1>2 DEF HandlerTakes, HandlerTakesBack
    <3>2. UNCHANGED zeroed /\ UNCHANGED <<pc, ci, reg>>
      BY <3>1 DEF buildVars, mainVars
    <3>. QED BY <3>1, <3>2 DEF Taking
  <2>2. UNCHANGED <<buildVars, pc, ci, reg, serves, queue>> /\ nopen' = nopen - 1
    BY <1>2 DEF HandlerTakes, HandlerTakesBack, mainVars
  <2>3. /\ z \in Pids /\ proc' = [proc EXCEPT ![z] = "none"] /\ isopen' = isopen \ {hci}
        /\ cd' = (IF hci = ci THEN NoClient ELSE cd) /\ asked' \subseteq asked
        /\ pid' = [t \in Slots |-> IF pid[t] = z THEN NoProcess ELSE pid[t]]
        /\ robbed' \in BOOLEAN /\ hci' \in Slots
    BY <1>2, <1>t, <2>1, TakingFacts DEF HandlerTakes, HandlerTakesBack, TakeBack, Typed
  <2>4. Typed'
    BY <1>t, <2>2, <2>3 DEF Typed, buildVars
  <2>5. InTable'
    <3>1. InTable /\ InWindow' = InWindow /\ \A t \in Slots : pid'[t] # z
      BY <2>1, TakingFacts, TakingKeepsSlots DEF SlotInv
    <3>2. pc = "publish" => \A t \in Slots : pid'[t] # reg
      BY <2>3, <3>1, NoProcessIsNone DEF InTable
    <3>. QED BY <2>2, <2>3, <3>1, <3>2 DEF InTable
  <2>. QED BY <2>1, <2>4, <2>5, TakingKeepsSlots DEF SlotInv
<1>. QED BY <1>1, <1>2, HandlerCases

-----------------------------------------------------------------------------
(* main() at a step that moves it without touching slots and children.     *)
LEMMA SlotFrame ==
  ASSUME SlotInv, UNCHANGED <<isopen, pid, proc, robbed, zeroed>>, InWindow' = InWindow,
         ci' = ci \/ ~InWindow, pc # "publish", pc' # "publish",
         pc' \in {"count", "store", "fork"} => pc \in {"count", "store", "fork"}
  PROVE  Remembered' /\ InStep' /\ \A s \in Slots : Live(s)' <=> Live(s)
<1>1. \A s \in Slots : Live(s)' <=> Live(s)
  BY DEF Live
<1>2. pc' \in {"count", "store", "fork"} => ci' = ci
  BY DEF InWindow
<1>. QED BY <1>1, <1>2 DEF SlotInv, Remembered, InStep

(* main() in cleanupkids() takes a slot back.                              *)
ReapTakes(z) ==
  /\ pc = "reap" /\ ci # ncons /\ ci \in isopen /\ z \in Waitable(ci) /\ TakeBack(ci, z)
  /\ IF oneStep THEN nopen' = nopen - 1 /\ ci' = ci + 1 /\ UNCHANGED <<pc, reg>>
                ELSE reg' = nopen /\ pc' = "uncount" /\ UNCHANGED <<nopen, ci>>
  /\ UNCHANGED <<buildVars, serves, sigchld, hci, clientVars>>

(* It goes on to the next slot, or leaves.                                 *)
ReapPasses ==
  /\ pc = "reap" /\ pc' \in {"reap", "gate"}
  /\ IF ci = ncons THEN pc' = "gate" /\ ci' = 0 ELSE pc' = "reap" /\ ci' = ci + 1
  /\ UNCHANGED <<tableVars, reg, childVars, robbed, hci, buildVars, clientVars>>

LEMMA ReapCases ==
  ASSUME Reap
  PROVE  ReapPasses \/ \E z \in Waitable(ci) : ReapTakes(z)
<1>1. CASE ci = ncons \/ ci \notin isopen \/ Waitable(ci) = {}
  BY <1>1 DEF Reap, ReapPasses, childVars
<1>2. CASE ~(ci = ncons \/ ci \notin isopen \/ Waitable(ci) = {})
  BY <1>2 DEF Reap, ReapTakes
<1>. QED BY <1>1, <1>2

LEMMA ReapIsTaking ==
  ASSUME NEW z \in Waitable(ci), ReapTakes(z)
  PROVE  Taking(ci, z) /\ UNCHANGED <<buildVars, hci, serves, clientVars>>
<1>1. /\ TakeBack(ci, z) /\ ci \in isopen /\ UNCHANGED zeroed
      /\ pc = "reap" /\ pc' \in {"reap", "uncount"}
  BY DEF ReapTakes, buildVars
<1>2. UNCHANGED <<buildVars, hci, serves, clientVars>>
  BY DEF ReapTakes
<1>. QED BY <1>1, <1>2 DEF Taking

LEMMA MainKeepsSlots == TableInv /\ Main => SlotInv'
<1> SUFFICES ASSUME TableInv, Main PROVE SlotInv'
  OBVIOUS
<1>n. ncons \in Nat /\ ncons >= 1 /\ Slots = 0..ncons
  BY NconsAssumption DEF Slots
<1>s. SlotInv
  BY DEF TableInv
<1>i. Typed /\ Remembered /\ ZeroUnused /\ InTable /\ InStep
  BY <1>s DEF SlotInv
<1> USE DEF buildVars, tableVars, mainVars, childVars, clientVars, handlerVars
<1>1. CASE Gate
  <2>1. /\ UNCHANGED <<oneStep, zeroed, nopen, isopen, cd, pid, ci, reg, proc, serves>>
        /\ UNCHANGED <<hci, robbed, queue, asked>>
        /\ pc = "gate" /\ pc' \in {"reap", "scan"}
    BY <1>1 DEF Gate
  <2>2. Remembered' /\ InStep' /\ \A s \in Slots : Live(s)' <=> Live(s)
    BY <1>s, <2>1, SlotFrame DEF InWindow
  <2>3. ci = 0
    BY <1>i, <2>1 DEF InTable
  <2>4. Typed' /\ InTable'
    BY <1>i, <2>1 DEF Typed, Places, InTable, InWindow
  <2>5. ZeroUnused'
    BY <1>i, <1>n, <2>1, <2>2, <2>3 DEF ZeroUnused, InWindow
  <2>. QED BY <2>2, <2>4, <2>5 DEF SlotInv
<1>2. CASE Scan
  <2>1. /\ UNCHANGED <<oneStep, zeroed, nopen, isopen, cd, pid, reg, proc, serves>>
        /\ UNCHANGED <<hci, robbed, queue, asked>>
        /\ pc = "scan"
        /\ IF ci < ncons /\ ci \in isopen THEN ci' = ci + 1 /\ pc' = "scan"
                                          ELSE ci' = ci /\ pc' = "accept"
    BY <1>2 DEF Scan
  <2>2. Remembered' /\ InStep' /\ \A s \in Slots : Live(s)' <=> Live(s)
    BY <1>s, <2>1, SlotFrame DEF InWindow
  <2>3. Typed'
    BY <1>i, <1>n, <2>1 DEF Typed, Places
  <2>4. ZeroUnused'
    <3>1. ci \in isopen => pid[ci] # 0
      BY <1>i, <2>1 DEF ZeroUnused, Live, InWindow, Typed
    <3>. QED BY <1>i, <1>n, <2>1, <2>2, <3>1 DEF ZeroUnused, Typed, InWindow
  <2>5. InTable'
    <3>1. ci < ncons
      BY <1>i, <1>n, <2>1 DEF TableInv, FreeSlotAhead, Typed
    <3>. QED BY <1>i, <1>n, <2>1, <3>1 DEF InTable, Typed, InWindow
  <2>. QED BY <2>2, <2>3, <2>4, <2>5 DEF SlotInv
<1>3. CASE Accept
  <2>1. /\ UNCHANGED <<oneStep, zeroed, nopen, pid, ci, reg, proc, serves, hci, robbed, asked>>
        /\ pc = "accept" /\ pc' = "count" /\ queue' = Tail(queue)
        /\ isopen' = isopen \cup {ci} /\ cd' = Head(queue)
        /\ ci \notin isopen /\ ci < ncons
    BY <1>3, <1>i DEF Accept, InTable
  <2>2. Head(queue) \in Clients /\ queue' \in Seq(Clients)
    BY <1>3, <1>i, <2>1 DEF Accept, Typed
  <2>3. Typed' /\ InTable'
    BY <1>i, <1>n, <2>1, <2>2 DEF Typed, Places, InTable, InWindow
  <2>4. \A s \in Slots : Live(s)' <=> Live(s)
    BY <2>1 DEF Live, InWindow
  <2>5. Remembered' /\ ZeroUnused'
    BY <1>i, <2>1, <2>4 DEF Remembered, ZeroUnused, InWindow
  <2>6. InStep'
    BY <1>i, <2>1, <2>4 DEF InStep
  <2>. QED BY <2>3, <2>5, <2>6 DEF SlotInv
<1>4. CASE Count \/ Store
  <2>1. /\ UNCHANGED <<oneStep, zeroed, isopen, cd, pid, ci, proc, serves>>
        /\ UNCHANGED <<hci, robbed, queue, asked>>
        /\ pc \in {"count", "store"} /\ pc' \in {"store", "fork"}
        /\ oneStep => pc' # "store"
        /\ nopen' \in Int /\ reg' \in Int
    BY <1>4, <1>i DEF Count, Store, Typed
  <2>2. Remembered' /\ InStep' /\ \A s \in Slots : Live(s)' <=> Live(s)
    BY <1>s, <2>1, SlotFrame DEF InWindow
  <2>3. Typed' /\ InTable'
    BY <1>i, <2>1 DEF Typed, Places, InTable, InWindow
  <2>4. ZeroUnused'
    BY <1>i, <2>1, <2>2 DEF ZeroUnused, InWindow
  <2>. QED BY <2>2, <2>3, <2>4 DEF SlotInv
<1>5. CASE Fork
  <2>1. /\ UNCHANGED <<oneStep, zeroed, nopen, isopen, pid, ci, hci, robbed, queue, asked>>
        /\ pc = "fork" /\ pc' = "publish" /\ cd' = NoClient
    BY <1>5 DEF Fork
  <2>2. /\ reg' \in Pids /\ proc[reg'] = "none"
        /\ proc' = [proc EXCEPT ![reg'] = "runs"]
        /\ serves' = [serves EXCEPT ![reg'] = cd]
    BY <1>5, ForkedPid
  <2>3. \A s \in Slots : pid[s] # reg'
    BY <1>i, <2>2 DEF Remembered
  <2>4. \A s \in Slots : Live(s)' <=> Live(s)
    BY <2>1 DEF Live, InWindow
  <2>5. \A p \in Pids : proc'[p] = IF p = reg' THEN "runs" ELSE proc[p]
    BY <1>i, <2>2 DEF Typed
  <2>6. Typed' /\ InTable'
    <3>1. reg' \in Int
      BY <2>2, PidsAssumption
    <3>. QED BY <1>i, <2>1, <2>2, <2>3, <3>1 DEF Typed, Places, InTable, InWindow
  <2>7. Remembered' /\ ZeroUnused'
    BY <1>i, <2>1, <2>4, <2>5 DEF Remembered, ZeroUnused, InWindow
  <2>8. InStep'
    BY <1>i, <2>1, <2>2, <2>4, <2>5 DEF InStep
  <2>. QED BY <2>6, <2>7, <2>8 DEF SlotInv
<1>6. CASE Publish
  <2>1. /\ UNCHANGED <<oneStep, zeroed, nopen, isopen, cd, proc, serves>>
        /\ UNCHANGED <<hci, robbed, queue, asked>>
        /\ pc = "publish" /\ pc' = "gate" /\ ci' = 0 /\ reg' = 0
        /\ pid' = [pid EXCEPT ![ci] = IF proc[reg] = "none" THEN NoProcess ELSE reg]
    BY <1>6 DEF Publish
  <2>2. reg \in Pids /\ (\A s \in Slots : pid[s] # reg) /\ ci \in Slots
    BY <1>i, <2>1 DEF InTable, Typed
  <2>3. \A s \in Slots : pid'[s] = IF s # ci THEN pid[s]
                                   ELSE IF proc[reg] = "none" THEN NoProcess ELSE reg
    BY <1>i, <2>1 DEF Typed
  <2>4. \A s \in Slots : Live(s)' <=> IF s = ci THEN ci \in isopen ELSE Live(s)
    BY <2>1 DEF Live, InWindow
  <2>5. Typed' /\ InTable'
    BY <1>i, <1>n, <2>1, <2>2 DEF Typed, Places, InTable, InWindow
  <2>6. Remembered'
    BY <1>i, <2>1, <2>2, <2>3, NoProcessIsNone DEF Remembered
  <2>7. ZeroUnused'
    <3>1. pid'[ci] # 0 /\ \A t \in Slots : t < ci => pid[t] # 0
      BY <1>i, <2>1, <2>2, <2>3, NoProcessIsNone DEF ZeroUnused, InWindow
    <3>2. \A t \in Slots : pid'[t] = 0 => pid[t] = 0 /\ t # ci
      BY <2>3, <3>1
    <3>3. \A t \in Slots : pid'[t] = 0 => zeroed' /\ ~Live(t)'
      BY <1>i, <2>1, <2>4, <3>2 DEF ZeroUnused
    <3>4. \A s, t \in Slots : t < s /\ pid'[t] = 0 => pid'[s] = 0
      BY <1>i, <2>3, <3>1, <3>2 DEF ZeroUnused
    <3>. QED BY <2>1, <3>3, <3>4 DEF ZeroUnused, InWindow
  <2>8. InStep'
    <3> SUFFICES ASSUME ~robbed PROVE InStep'
      BY <2>1 DEF InStep
    <3>1. ci \in isopen => proc[reg] # "none"
      BY <1>i, <2>1 DEF InStep
    <3>2. \A s \in Slots : Live(s)' => pid'[s] \in Pids
      BY <1>i, <2>2, <2>3, <2>4, <3>1 DEF InStep
    <3>3. ASSUME NEW p \in Pids, proc[p] # "none"
          PROVE  \E s \in Slots : Live(s)' /\ pid'[s] = p
      <4>1. CASE \E s \in Slots : Live(s) /\ pid[s] = p
        <5>1. PICK s \in Slots : Live(s) /\ pid[s] = p
          BY <4>1
        <5>2. s # ci
          BY <2>1, <5>1 DEF Live, InWindow
        <5>. QED BY <2>3, <2>4, <5>1, <5>2
      <4>2. CASE p = reg /\ ci \in isopen
        BY <2>2, <2>3, <2>4, <3>1, <4>2
      <4>. QED BY <1>i, <3>3, <4>1, <4>2 DEF InStep
    <3>. QED BY <2>1, <3>2, <3>3 DEF InStep
  <2>. QED BY <2>5, <2>6, <2>7, <2>8 DEF SlotInv
<1>7. ASSUME NEW z \in Waitable(ci), ReapTakes(z) PROVE SlotInv'
  <2>1. Taking(ci, z) /\ UNCHANGED <<oneStep, zeroed, hci, serves, queue, asked>>
    BY <1>7, ReapIsTaking
  <2>2. /\ pc = "reap" /\ pc' \in {"reap", "uncount"} /\ (oneStep => pc' = "reap")
        /\ nopen' \in Int /\ reg' \in Int /\ ci < ncons /\ ci \in isopen
        /\ ci' = IF pc' = "uncount" THEN ci ELSE ci + 1
    BY <1>7, <1>i, <1>n DEF ReapTakes, Typed
  <2>3. /\ z \in Pids /\ proc' = [proc EXCEPT ![z] = "none"] /\ isopen' = isopen \ {ci}
        /\ cd' = NoClient /\ robbed' \in BOOLEAN
        /\ pid' = [t \in Slots |-> IF pid[t] = z THEN NoProcess ELSE pid[t]]
    BY <1>i, <1>s, <2>1, TakingFacts DEF Taking, TakeBack, Typed
  <2>4. Typed'
    BY <1>i, <1>n, <2>1, <2>2, <2>3 DEF Typed, Places
  <2>5. InTable'
    BY <1>n, <2>2 DEF InTable, InWindow
  <2>. QED BY <1>s, <2>1, <2>4, <2>5, TakingKeepsSlots DEF SlotInv
<1>8. CASE ReapPasses \/ Uncount
  <2>1. /\ UNCHANGED <<oneStep, zeroed, isopen, cd, pid, proc, serves>>
        /\ UNCHANGED <<hci, robbed, queue, asked>>
        /\ pc \in {"reap", "uncount"} /\ pc' \in {"reap", "gate"}
        /\ nopen' \in Int /\ reg' \in Int /\ ci' \in Slots
        /\ pc' = "gate" => ci' = 0
    BY <1>8, <1>i, <1>n DEF ReapPasses, Uncount, Typed, InTable
  <2>2. Remembered' /\ InStep' /\ \A s \in Slots : Live(s)' <=> Live(s)
    BY <1>s, <2>1, SlotFrame DEF InWindow
  <2>3. Typed' /\ InTable'
    BY <1>i, <2>1 DEF Typed, Places, InTable, InWindow
  <2>4. ZeroUnused'
    BY <1>i, <2>1, <2>2 DEF ZeroUnused, InWindow
  <2>. QED BY <2>2, <2>3, <2>4 DEF SlotInv
<1>. QED BY <1>1, <1>2, <1>3, <1>4, <1>5, <1>6, <1>7, <1>8, ReapCases DEF Main

(* Clients, children and stuttering do not touch the parent's table; a     *)
(* child ends but is not reaped.                                           *)
LEMMA OthersKeepSlots ==
  ASSUME SlotInv,
         \/ \E p \in Pids : Child(p)
         \/ \E c \in Clients : Connect(c) \/ Send(c) \/ Close(c)
         \/ UNCHANGED vars
  PROVE  SlotInv' /\ Alive' = Alive /\ UNCHANGED <<oneStep, nopen, isopen, pc, ci, reg>>
<1>1. /\ UNCHANGED <<oneStep, zeroed, nopen, isopen, cd, pid, pc, ci, reg, hci, robbed>>
      /\ queue' = queue \/ \E c \in Clients : queue' = Append(queue, c)
      /\ asked' \subseteq asked \/ \E c \in Clients : asked' = asked \cup {c}
      /\ \/ UNCHANGED <<proc, serves>>
         \/ \E p \in Pids : /\ proc[p] = "runs" /\ proc' = [proc EXCEPT ![p] = "zombie"]
                            /\ serves' = [serves EXCEPT ![p] = NoClient]
  BY DEF Child, Connect, Send, Close, vars, buildVars, tableVars, mainVars, childVars,
         handlerVars, clientVars
<1>t. Typed
  BY DEF SlotInv
<1>2. Typed'
  <2>1. queue' \in Seq(Clients)
    <3>1. queue \in Seq(Clients)
      BY <1>t DEF Typed
    <3>2. queue' = queue \/ \E c \in Clients : queue' = Append(queue, c)
      BY <1>1
    <3>. QED BY ONLY <3>1, <3>2
  <2>2. asked' \subseteq Clients
    BY <1>1, <1>t DEF Typed
  <2>3. proc' \in [Pids -> {"none", "runs", "zombie"}]
    BY <1>1, <1>t DEF Typed
  <2>4. serves' \in [Pids -> Clients \cup {NoClient}]
    BY <1>1, <1>t DEF Typed
  <2>. QED BY <1>1, <1>t, <2>1, <2>2, <2>3, <2>4 DEF Typed
<1>3. \A p \in Pids : proc'[p] = "none" <=> proc[p] = "none"
  BY <1>1, <1>t DEF Typed
<1>4. InWindow' = InWindow /\ \A s \in Slots : Live(s)' <=> Live(s)
  BY <1>1 DEF InWindow, Live
<1>5. Remembered' /\ ZeroUnused' /\ InTable'
  BY <1>1, <1>3, <1>4 DEF SlotInv, Remembered, ZeroUnused, InTable
<1>6. InStep'
  <2> SUFFICES ASSUME ~robbed PROVE InStep'
    BY <1>1 DEF InStep
  <2>1. pc = "publish" => reg \in Pids
    BY DEF SlotInv, InTable
  <2>. QED BY <1>1, <1>3, <1>4, <2>1 DEF SlotInv, InStep
<1>. QED BY <1>1, <1>2, <1>3, <1>5, <1>6 DEF SlotInv, Alive

-----------------------------------------------------------------------------
(* The slots taken are finitely many, and at most those there are; and so  *)
(* are the children.                                                       *)
LEMMA SlotsTaken ==
  ASSUME Typed
  PROVE  /\ IsFiniteSet(isopen) /\ Cardinality(isopen) \in Nat
         /\ IsFiniteSet(Alive) /\ Cardinality(Alive) \in Nat
         /\ Cardinality(isopen) < ncons => \E s \in 0..ncons - 1 : s \notin isopen
<1>1. IsFiniteSet(0..ncons - 1) /\ Cardinality(0..ncons - 1) = ncons
  BY NconsAssumption, FS_Interval
<1>2. IsFiniteSet(isopen)
  BY <1>1, FS_Subset DEF Typed
<1>3. Alive \subseteq Pids
  BY DEF Alive
<1>4. IsFiniteSet(Alive)
  BY <1>3, PidsAssumption, FS_Subset
<1>5. Cardinality(isopen) \in Nat /\ Cardinality(Alive) \in Nat
  BY <1>2, <1>4, FS_CardinalityType
<1>6. ASSUME Cardinality(isopen) < ncons PROVE \E s \in 0..ncons - 1 : s \notin isopen
  <2> SUFFICES ASSUME 0..ncons - 1 \subseteq isopen PROVE FALSE
    OBVIOUS
  <2>1. isopen = 0..ncons - 1
    BY DEF Typed
  <2>. QED BY <1>1, <1>6, <2>1, NconsAssumption
<1>. QED BY <1>2, <1>4, <1>5, <1>6

(* Whatever child waitpid() returns, one child goes with one slot.         *)
LEMMA TakingCounts ==
  ASSUME SlotInv, NEW s, NEW z, Taking(s, z)
  PROVE  /\ Cardinality(isopen') = Cardinality(isopen) - 1
         /\ Cardinality(Alive') = Cardinality(Alive) - 1
<1>1. IsFiniteSet(isopen) /\ IsFiniteSet(Alive)
  BY SlotsTaken DEF SlotInv
<1>2. isopen' = isopen \ {s} /\ s \in isopen
  BY TakingKeepsSlots DEF Taking
<1>3. Alive' = Alive \ {z} /\ z \in Alive
  BY TakingFacts DEF Alive
<1>. QED BY <1>1, <1>2, <1>3, FS_RemoveElement

LEMMA TableInit == Init => TableInv
<1> SUFFICES ASSUME Init PROVE TableInv
  OBVIOUS
<1>1. isopen = {} /\ Alive = {}
  BY DEF Init, Alive
<1>2. Cardinality(isopen) = 0 /\ Cardinality(Alive) = 0
  BY <1>1, FS_EmptySet
<1>. QED BY <1>2, SlotInit, NconsAssumption
         DEF Init, TableInv, Counted, Covers, Room, FreeSlotAhead, Uncounted, Unborn

(* cleanupkids() as a handler takes as much off the count as off the table. *)
LEMMA HandlerKeepsTable == TableInv /\ Handler => TableInv'
<1> SUFFICES ASSUME TableInv, Handler PROVE TableInv'
  OBVIOUS
<1>s. SlotInv /\ Typed /\ SlotInv'
  BY HandlerKeepsSlots DEF TableInv, SlotInv
<1>t. /\ Counted /\ Room /\ FreeSlotAhead
      /\ Cardinality(isopen) \in Nat /\ Cardinality(Alive) \in Nat
      /\ nopen \in Int /\ reg \in Int /\ ncons \in Nat
  BY <1>s, SlotsTaken, NconsAssumption DEF TableInv, Typed
<1>1. CASE HandlerPasses
  <2>1. UNCHANGED <<oneStep, nopen, isopen, proc, pc, ci, reg>>
    BY <1>1, HandlerCases DEF HandlerPasses, tableVars, mainVars, buildVars
  <2>. QED BY <1>s, <1>t, <2>1
           DEF TableInv, Counted, Covers, Room, FreeSlotAhead, Uncounted, Unborn, Alive
<1>2. ASSUME NEW z \in Waitable(hci), HandlerTakes(z) PROVE TableInv'
  <2>1. UNCHANGED <<oneStep, zeroed, pc, ci, reg>> /\ nopen' = nopen - 1
    BY <1>2 DEF HandlerTakes, HandlerTakesBack, buildVars, mainVars
  <2>2. Taking(hci, z)
    <3>1. hci \in isopen /\ TakeBack(hci, z)
      BY <1>2 DEF HandlerTakes, HandlerTakesBack
    <3>. QED BY <2>1, <3>1 DEF Taking
  <2>3. /\ Cardinality(isopen') = Cardinality(isopen) - 1
        /\ Cardinality(Alive') = Cardinality(Alive) - 1
        /\ isopen' \subseteq isopen
    BY <1>s, <2>2, TakingCounts, TakingKeepsSlots
  <2>4. Uncounted' = Uncounted /\ Unborn' = Unborn /\ Uncounted \in 0..1 /\ Unborn \in 0..1
    BY <2>1 DEF Uncounted, Unborn
  <2>5. Counted'
    BY <1>t, <2>1, <2>3, <2>4 DEF Counted, Covers
  <2>6. Room' /\ FreeSlotAhead'
    BY <1>t, <2>1, <2>3 DEF Room, FreeSlotAhead
  <2>. QED BY <1>s, <2>5, <2>6 DEF TableInv
<1>. QED BY <1>1, <1>2, HandlerCases

LEMMA MainKeepsTable == TableInv /\ Main => TableInv'
<1> SUFFICES ASSUME TableInv, Main PROVE TableInv'
  OBVIOUS
<1>s. SlotInv /\ Typed /\ InTable /\ SlotInv'
  BY MainKeepsSlots DEF TableInv, SlotInv
<1>3. /\ IsFiniteSet(isopen) /\ Cardinality(isopen) \in Nat
      /\ IsFiniteSet(Alive) /\ Cardinality(Alive) \in Nat
      /\ Cardinality(isopen) < ncons => \E s \in 0..ncons - 1 : s \notin isopen
  BY <1>s, SlotsTaken
<1>7. nopen \in Int /\ reg \in Int /\ ncons \in Nat /\ ci \in Int
  BY <1>s, NconsAssumption DEF Typed, Slots
<1>t. Counted /\ Room /\ FreeSlotAhead
  BY DEF TableInv
<1> USE DEF buildVars, tableVars, mainVars, childVars, clientVars, Covers
<1> SUFFICES Counted' /\ Room' /\ FreeSlotAhead'
  BY <1>s DEF TableInv
<1>4. CASE Gate
  <2>1. /\ UNCHANGED <<oneStep, nopen, isopen, ci, reg, proc>> /\ pc = "gate" /\ ci = 0
        /\ pc' = IF nopen = ncons THEN "reap" ELSE "scan"
    BY <1>4, <1>s DEF Gate, InTable
  <2>2. Counted' /\ Room'
    BY <1>3, <1>7, <1>t, <2>1 DEF Counted, Room, Uncounted, Unborn, Alive
  <2>3. FreeSlotAhead'
    BY <1>3, <1>7, <1>t, <2>1 DEF Counted, Room, Uncounted, FreeSlotAhead
  <2>. QED BY <2>2, <2>3
<1>5. CASE Scan
  <2>1. /\ UNCHANGED <<oneStep, nopen, isopen, reg, proc>> /\ pc = "scan"
        /\ IF ci < ncons /\ ci \in isopen THEN ci' = ci + 1 /\ pc' = "scan"
                                           ELSE pc' = "accept"
    BY <1>5 DEF Scan
  <2>2. Counted' /\ Room'
    BY <1>3, <1>7, <1>t, <2>1 DEF Counted, Room, Uncounted, Unborn, Alive
  <2>3. FreeSlotAhead'
    BY <1>7, <1>t, <2>1 DEF FreeSlotAhead
  <2>. QED BY <2>2, <2>3
<1>6. CASE Accept
  <2>1. /\ UNCHANGED <<oneStep, nopen, ci, reg, proc>> /\ pc = "accept" /\ pc' = "count"
        /\ isopen' = isopen \cup {ci} /\ ci \notin isopen
    BY <1>6, <1>s DEF Accept, InTable
  <2>2. Cardinality(isopen') = Cardinality(isopen) + 1
    BY <1>3, <2>1, FS_AddElement
  <2>. QED BY <1>3, <1>7, <1>t, <2>1, <2>2
           DEF Counted, Room, Uncounted, Unborn, Alive, FreeSlotAhead
<1>8. CASE Count \/ Store \/ Publish \/ Uncount
  <2>1. UNCHANGED <<oneStep, isopen>> /\ Alive' = Alive
    BY <1>8 DEF Count, Store, Publish, Uncount, Alive
  <2>2. CASE Count
    BY <1>3, <1>7, <1>t, <2>1, <2>2 DEF Count, Counted, Room, Uncounted, Unborn, FreeSlotAhead
  <2>3. CASE Store
    BY <1>3, <1>7, <1>t, <1>s, <2>1, <2>3
       DEF Store, Counted, Room, Uncounted, Unborn, FreeSlotAhead, Typed
  <2>4. CASE Publish
    BY <1>3, <1>7, <1>t, <2>1, <2>4
       DEF Publish, Counted, Room, Uncounted, Unborn, FreeSlotAhead
  <2>5. CASE Uncount
    BY <1>3, <1>7, <1>t, <1>s, <2>1, <2>5
       DEF Uncount, Counted, Room, Uncounted, Unborn, FreeSlotAhead, Typed
  <2>. QED BY <1>8, <2>2, <2>3, <2>4, <2>5
<1>9. CASE Fork
  <2>1. UNCHANGED <<oneStep, nopen, isopen>> /\ pc = "fork" /\ pc' = "publish"
    BY <1>9 DEF Fork
  <2>2. Alive' = Alive \cup {reg'} /\ reg' \notin Alive
    BY <1>9, <1>s, ForkedPid DEF Alive, Typed
  <2>3. Cardinality(Alive') = Cardinality(Alive) + 1
    BY <1>3, <2>2, FS_AddElement
  <2>. QED BY <1>3, <1>7, <1>t, <2>1, <2>3
           DEF Counted, Room, Uncounted, Unborn, FreeSlotAhead
<1>10. ASSUME NEW z \in Waitable(ci), ReapTakes(z)
       PROVE  Counted' /\ Room' /\ FreeSlotAhead'
  <2>1. /\ UNCHANGED oneStep /\ pc = "reap"
        /\ IF oneStep THEN nopen' = nopen - 1 /\ pc' = "reap"
                      ELSE reg' = nopen /\ pc' = "uncount" /\ nopen' = nopen
    BY <1>10 DEF ReapTakes
  <2>2. /\ Cardinality(isopen') = Cardinality(isopen) - 1
        /\ Cardinality(Alive') = Cardinality(Alive) - 1
    BY <1>10, <1>s, ReapIsTaking, TakingCounts
  <2>. QED BY <1>3, <1>7, <1>t, <2>1, <2>2 DEF Counted, Room, Uncounted, Unborn, FreeSlotAhead
<1>11. CASE ReapPasses
  <2>1. /\ UNCHANGED <<oneStep, nopen, isopen, proc>>
        /\ pc = "reap" /\ pc' \in {"reap", "gate"}
    BY <1>11 DEF ReapPasses
  <2>. QED BY <1>3, <1>7, <1>t, <2>1
           DEF Counted, Room, Uncounted, Unborn, Alive, FreeSlotAhead
<1>. QED BY <1>4, <1>5, <1>6, <1>8, <1>9, <1>10, <1>11, ReapCases DEF Main

LEMMA TableNext == TableInv /\ [Next]_vars => TableInv'
<1> SUFFICES ASSUME TableInv, [Next]_vars PROVE TableInv'
  OBVIOUS
<1>1. CASE Main
  BY <1>1, MainKeepsTable
<1>2. CASE Handler
  BY <1>2, HandlerKeepsTable
<1>3. CASE \/ \E p \in Pids : Child(p)
           \/ \E c \in Clients : Connect(c) \/ Send(c) \/ Close(c)
           \/ UNCHANGED vars
  <2>1. SlotInv' /\ Alive' = Alive /\ UNCHANGED <<oneStep, nopen, isopen, pc, ci, reg>>
    BY <1>3, OthersKeepSlots DEF TableInv
  <2>. QED BY <2>1 DEF TableInv, Counted, Covers, Room, FreeSlotAhead, Uncounted, Unborn
<1>. QED BY <1>1, <1>2, <1>3 DEF Next

(* The count never falls short of the slots taken but for the one of the   *)
(* window, with one instruction it is exact, accept_one stops inside the   *)
(* table, and until a child is robbed a slot taken keeps one.              *)
THEOREM SlotsCounted == Spec => []CountCoversSlots
<1>1. TableInv => CountCoversSlots
  <2> SUFFICES ASSUME TableInv PROVE CountCoversSlots
    OBVIOUS
  <2>1. SlotInv /\ Typed /\ InTable /\ InStep /\ Counted
    BY DEF TableInv, SlotInv
  <2>2. pc \notin {"gate", "scan", "reap"} => ci < ncons
    BY <2>1 DEF InTable, Typed, Places, InWindow
  <2>3. /\ nopen >= Cardinality(isopen) - Uncounted
        /\ oneStep => nopen = Cardinality(isopen) - Uncounted
    BY <2>1 DEF Counted, Covers
  <2>4. robbed \/ \A s \in isopen : (InWindow /\ s = ci) \/ pid[s] \in Pids
    BY <2>1, NconsAssumption DEF InStep, Live, Typed, Slots
  <2>. QED BY <2>2, <2>3, <2>4 DEF CountCoversSlots, Uncounted
<1>. QED BY <1>1, TableInit, TableNext, PTL DEF Spec

(* cleanupkids() takes a slot back when its own child has ended, pid       *)
(* stored or not, unless it is the slot of the window in its first use and *)
(* waitpid(0) returns the child of an earlier slot, for any slots and pids.*)
THEOREM SlotsOutlive == Spec => SlotOutlivesItsChild
<1> DEFINE Ended == \A s \in isopen \ isopen' :
                      \/ pid[s] \in Zombies
                      \/ pc = "publish" /\ s = ci /\ reg \in Zombies
                      \/ /\ zeroed /\ InWindow /\ s = ci /\ pid[s] = 0
                         /\ \E t \in isopen : t < s /\ pid[t] \in Zombies
                      \/ robbed
<1>1. ASSUME SlotInv, NEW s, NEW z, Taking(s, z) PROVE Ended
  <2>1. (\A r \in isopen \ isopen' : r = s) /\ z \in Zombies
    <3>1. isopen' = isopen \ {s}
      BY <1>1 DEF Taking, TakeBack
    <3>2. z \in Zombies
      BY <1>1, TakingFacts DEF Zombies
    <3>. QED BY <3>1, <3>2
  <2>2. CASE robbed
    BY <2>2
  <2>3. CASE ~robbed
    <3>1. \/ pid[s] = z
          \/ pc = "publish" /\ s = ci /\ z = reg
          \/ /\ zeroed /\ InWindow /\ s = ci /\ pid[s] = 0
             /\ \E t \in isopen \ {s} : t < s /\ pid[t] = z
      BY <1>1, <2>3, WhoseChild
    <3>. QED BY <2>1, <3>1
  <2>. QED BY <2>2, <2>3
<1>2. TableInv /\ [Next]_vars => [Ended]_vars
  <2> SUFFICES ASSUME TableInv, [Next]_vars PROVE Ended
    OBVIOUS
  <2>1. SlotInv
    BY DEF TableInv
  <2>2. (\A s \in isopen : s \in isopen') => Ended
    OBVIOUS
  <2>3. CASE Handler
    <3>1. CASE HandlerPasses
      BY <2>2, <3>1 DEF HandlerPasses, tableVars
    <3>2. ASSUME NEW z \in Waitable(hci), HandlerTakes(z) PROVE Ended
      <4>1. /\ hci \in isopen /\ TakeBack(hci, z) /\ UNCHANGED <<buildVars, mainVars>>
        BY <3>2 DEF HandlerTakes, HandlerTakesBack
      <4>2. Taking(hci, z)
        BY <4>1 DEF Taking, buildVars, mainVars
      <4>. QED BY <1>1, <2>1, <4>2
    <3>. QED BY <2>3, <3>1, <3>2, HandlerCases
  <2>4. CASE Reap
    <3>1. CASE ReapPasses
      BY <2>2, <3>1 DEF ReapPasses, tableVars
    <3>2. ASSUME NEW z \in Waitable(ci), ReapTakes(z) PROVE Ended
      BY <1>1, <2>1, <3>2, ReapIsTaking
    <3>. QED BY <2>4, <3>1, <3>2, ReapCases
  <2>5. CASE Main /\ ~Reap
    <3>1. \A s \in isopen : s \in isopen'
      BY <2>5 DEF Main, Gate, Scan, Accept, Count, Store, Fork, Publish, Uncount, tableVars
    <3>. QED BY <2>2, <3>1
  <2>6. CASE ~Handler /\ ~Main
    <3>1. isopen' = isopen
      BY <2>1, <2>6, OthersKeepSlots DEF Next
    <3>. QED BY <2>2, <3>1
  <2>. QED BY <2>3, <2>4, <2>5, <2>6
<1>3. Spec => [][Ended]_vars
  BY <1>2, TableInit, TableNext, PTL DEF Spec
<1>. QED BY <1>3 DEF SlotOutlivesItsChild

-----------------------------------------------------------------------------
(***************************************************************************)
(* The server as a ConnectionPool.  A client is in the pool from accept()  *)
(* on: first main() holds it, then the child that was forked for it, if    *)
(* the handler has not cut it off.  The children that are not reaped bound *)
(* the pool, and they are no more than the count.                          *)
(***************************************************************************)
Served   == {serves[p] : p \in Running}
PoolNow  == (Unforked \cup Served) \ {NoClient}

(* What the parent does to the pool: nothing, but for Accept.              *)
KeepsPool ==
  /\ UNCHANGED <<queue, present, asked>>
  /\ Unforked' \subseteq Unforked
  /\ PoolNow' = PoolNow /\ ServedOnce'

(* Reaping a child takes nobody from the pool: the child has let go.       *)
LEMMA TakingKeepsRunning ==
  ASSUME SlotInv, NEW s, NEW z, Taking(s, z), serves' = serves
  PROVE  Running' = Running /\ Served' = Served
<1>1. Running' = Running
  BY TakingFacts DEF Running
<1>. QED BY <1>1 DEF Served

LEMMA MainKeepsPool ==
  ASSUME TableInv, ServedOnce, Main, ~Accept
  PROVE  KeepsPool
<1>i. SlotInv /\ Typed /\ InTable
  BY DEF TableInv, SlotInv
<1> USE DEF buildVars, tableVars, mainVars, childVars, clientVars
<1>1. CASE Fork
  <2>1. UNCHANGED <<ci, queue, present, asked>> /\ pc = "fork" /\ pc' = "publish"
    BY <1>1 DEF Fork
  <2>2. /\ reg' \in Pids /\ proc[reg'] = "none" /\ proc' = [proc EXCEPT ![reg'] = "runs"]
        /\ serves' = [serves EXCEPT ![reg'] = cd]
    BY <1>1, ForkedPid
  <2>3. /\ Running' = Running \cup {reg'} /\ reg' \notin Running
        /\ \A p \in Running' : serves'[p] = IF p = reg' THEN cd ELSE serves[p]
    BY <1>i, <2>2 DEF Typed, Running
  <2>4. Unforked = {cd} \ {NoClient} /\ Unforked' = {}
    BY <2>1 DEF Unforked
  <2>5. Served' = Served \cup {cd}
    BY <2>3 DEF Served
  <2>6. PoolNow' = PoolNow
    BY <2>4, <2>5 DEF PoolNow
  <2>7. ServedOnce'
    BY <2>3, <2>4 DEF ServedOnce
  <2>. QED BY <2>1, <2>4, <2>6, <2>7 DEF KeepsPool
<1>2. CASE Count \/ Store
  <2>1. /\ UNCHANGED <<cd, proc, serves, queue, present, asked>>
        /\ pc \in {"count", "store"} /\ pc' \in {"store", "fork"}
    BY <1>2 DEF Count, Store
  <2>2. Unforked' = Unforked /\ Running' = Running /\ Served' = Served
    BY <2>1 DEF Unforked, Running, Served
  <2>. QED BY <2>1, <2>2 DEF KeepsPool, PoolNow, ServedOnce
<1>3. CASE Gate \/ Scan \/ Publish \/ Reap \/ Uncount
  <2>1. /\ UNCHANGED <<serves, queue, present, asked>>
        /\ pc \notin {"count", "store", "fork"} /\ pc' \notin {"count", "store", "fork"}
    BY <1>3 DEF Gate, Scan, Publish, Reap, Uncount
  <2>2. Unforked = {} /\ Unforked' = {}
    BY <2>1 DEF Unforked
  <2>3. Running' = Running /\ Served' = Served
    <3>1. CASE \E z \in Waitable(ci) : ReapTakes(z)
      BY <1>i, <2>1, <3>1, ReapIsTaking, TakingKeepsRunning
    <3>2. CASE Gate \/ Scan \/ Publish \/ ReapPasses \/ Uncount
      <4>1. proc' = proc
        BY <3>2 DEF Gate, Scan, Publish, ReapPasses, Uncount
      <4>. QED BY <2>1, <4>1 DEF Running, Served
    <3>. QED BY <1>3, <3>1, <3>2, ReapCases
  <2>. QED BY <2>1, <2>2, <2>3 DEF KeepsPool, PoolNow, ServedOnce
<1>. QED BY <1>1, <1>2, <1>3 DEF Main

(* The handler cuts main()'s connection off, or changes nothing.           *)
LEMMA HandlerKeepsPool ==
  ASSUME TableInv, ServedOnce, Handler
  PROVE  /\ KeepsPool \/ ConnectionCut
         /\ ServedOnce' /\ queue' = queue /\ asked' \subseteq asked
         /\ Unforked' \subseteq Unforked /\ Served' = Served
<1>i. SlotInv /\ Typed
  BY DEF TableInv, SlotInv
<1>1. CASE HandlerPasses
  <2>1. UNCHANGED <<cd, pc, proc, serves, queue, present, asked>>
    BY <1>1 DEF HandlerPasses, tableVars, mainVars, clientVars
  <2>2. Unforked' = Unforked /\ Running' = Running /\ Served' = Served
    BY <2>1 DEF Unforked, Running, Served
  <2>. QED BY <2>1, <2>2 DEF KeepsPool, PoolNow, ServedOnce
<1>2. ASSUME NEW z \in Waitable(hci), HandlerTakes(z)
      PROVE  /\ KeepsPool \/ ConnectionCut
             /\ ServedOnce' /\ queue' = queue /\ asked' \subseteq asked
             /\ Unforked' \subseteq Unforked /\ Served' = Served
  <2>1. /\ hci \in isopen /\ TakeBack(hci, z)
        /\ UNCHANGED <<zeroed, pc, ci, reg, serves, queue>>
        /\ LET gone == {c \in Unforked : hci = ci}
           IN present' = present \ gone /\ asked' = asked \ gone
    BY <1>2 DEF HandlerTakes, HandlerTakesBack, buildVars, mainVars
  <2>2. Taking(hci, z)
    BY <2>1 DEF Taking
  <2>3. Running' = Running /\ Served' = Served
    BY <1>i, <2>1, <2>2, TakingKeepsRunning
  <2>4. cd' = IF hci = ci THEN NoClient ELSE cd
    BY <2>1 DEF TakeBack
  <2>5. Unforked' \subseteq Unforked
    BY <2>1, <2>4 DEF Unforked
  <2>6. ServedOnce'
    BY <2>1, <2>3, <2>5 DEF ServedOnce
  <2>7. CASE hci = ci /\ pc \in {"count", "store", "fork"}
    <3>1. ci \in isopen \ isopen'
      BY <2>1, <2>7 DEF TakeBack
    <3>2. ConnectionCut
      BY <2>1, <2>7, <3>1 DEF ConnectionCut
    <3>. QED BY <2>1, <2>3, <2>5, <2>6, <3>2
  <2>8. CASE ~(hci = ci /\ pc \in {"count", "store", "fork"})
    <3>1. Unforked' = Unforked /\ {c \in Unforked : hci = ci} = {}
      BY <2>1, <2>4, <2>8 DEF Unforked
    <3>2. UNCHANGED <<present, asked>>
      BY <2>1, <3>1
    <3>. QED BY <2>1, <2>3, <2>6, <3>1, <3>2 DEF KeepsPool, PoolNow
  <2>. QED BY <2>7, <2>8
<1>. QED BY <1>1, <1>2, HandlerCases

(* The pool counts as the server does.                                     *)
LEMMA PoolCounts == \A S : Pool!Cardinality(S) = Cardinality(S)
BY DEF Pool!Cardinality, Cardinality

(* There is room in the pool when accept_one has found a slot.             *)
LEMMA PoolHasRoom ==
  ASSUME TableInv, pc = "accept"
  PROVE  Cardinality(PoolNow) < ncons
<1>i. SlotInv /\ Typed
  BY DEF TableInv, SlotInv
<1>1. IsFiniteSet(Alive) /\ Cardinality(Alive) \in Nat
  BY <1>i, SlotsTaken
<1>2. Unforked = {}
  BY DEF Unforked
<1>3. PoolNow \subseteq {serves[p] : p \in Alive}
  BY <1>2 DEF PoolNow, Served, Running, Alive
<1>4. IsFiniteSet(PoolNow) /\ Cardinality(PoolNow) <= Cardinality(Alive)
  BY <1>1, <1>3, ImageBound
<1>5. Cardinality(PoolNow) \in Nat
  BY <1>4, FS_CardinalityType
<1>6. Cardinality(Alive) <= nopen /\ nopen < ncons /\ nopen \in Int /\ ncons \in Int
  BY <1>1, <1>i, NconsAssumption DEF TableInv, Counted, Covers, Room, Unborn, Typed
<1>. QED BY <1>1, <1>4, <1>5, <1>6

LEMMA PoolInit == Init => PoolInv /\ Pool!Init
<1> SUFFICES ASSUME Init PROVE PoolInv /\ Pool!Init
  OBVIOUS
<1>1. Running = {} /\ Unforked = {}
  BY DEF Init, Running, Unforked
<1>2. TableInv /\ ServedOnce /\ QueuedOnce
  BY <1>1, TableInit DEF Init, ServedOnce, QueuedOnce
<1>3. Pool!Init
  BY <1>1 DEF Init, Pool!Init
<1>. QED BY <1>2, <1>3 DEF PoolInv

(* Every step of the server is a step of the pool, or none, or cuts a      *)
(* connection off.                                                         *)
LEMMA PoolNext ==
  PoolInv /\ [Next]_vars => PoolInv' /\ [Pool!Next \/ ConnectionCut]_Pool!poolVars
<1> SUFFICES ASSUME PoolInv, [Next]_vars
             PROVE  PoolInv' /\ [Pool!Next \/ ConnectionCut]_Pool!poolVars
  OBVIOUS
<1>i. TableInv /\ SlotInv /\ Typed /\ ServedOnce /\ QueuedOnce /\ TableInv'
  BY TableNext DEF PoolInv, TableInv, SlotInv
<1>a. \A c \in Clients :
        Pool!Come(c) \/ Pool!Ask(c) \/ Pool!Leave(c) \/ Pool!Serve(c)
          \/ Pool!Answer(c) \/ Pool!LetGo(c) => Pool!Next
  BY DEF Pool!Next
<1>c. \A c \in Clients : c # NoClient
  BY ClientsAssumption
<1> SUFFICES ServedOnce' /\ QueuedOnce' /\ [Pool!Next \/ ConnectionCut]_Pool!poolVars
  BY <1>i DEF PoolInv
<1> USE DEF buildVars, tableVars, mainVars, childVars, handlerVars, clientVars
<1>1. CASE (Main /\ ~Accept) \/ Handler
  <2>1. /\ KeepsPool \/ ConnectionCut
        /\ queue' = queue /\ ServedOnce' /\ Unforked' \subseteq Unforked
        /\ \A c \in Served' : c \in Served \/ c \in Unforked \/ c = NoClient
    <3>1. CASE Handler
      BY <1>i, <3>1, HandlerKeepsPool
    <3>2. CASE Main /\ ~Accept
      <4>1. KeepsPool
        BY <1>i, <3>2, MainKeepsPool
      <4>. QED BY <4>1 DEF KeepsPool, PoolNow
    <3>. QED BY <1>1, <3>1, <3>2
  <2>2. QueuedOnce'
    <3>1. \A i \in DOMAIN queue : queue[i] \notin Unforked /\ queue[i] \notin Served
      BY <1>i DEF QueuedOnce, Served
    <3>2. \A i \in DOMAIN queue : queue[i] # NoClient
      BY <1>i, <1>c DEF Typed
    <3>3. \A i \in DOMAIN queue : queue[i] \notin Unforked' /\ queue[i] \notin Served'
      BY <2>1, <3>1, <3>2
    <3>4. \A i \in DOMAIN queue : \A p \in Running' : serves'[p] # queue[i]
      BY <3>3 DEF Served
    <3>. QED BY <1>i, <2>1, <3>3, <3>4 DEF QueuedOnce
  <2>3. KeepsPool => UNCHANGED Pool!poolVars
    BY DEF Pool!poolVars, KeepsPool, PoolNow, Served
  <2>. QED BY <2>1, <2>2, <2>3
<1>2. CASE Accept
  <2>1. /\ UNCHANGED <<ci, proc, serves, present, asked>> /\ pc = "accept" /\ pc' = "count"
        /\ queue # <<>> /\ queue' = Tail(queue) /\ cd' = Head(queue)
    BY <1>2 DEF Accept
  <2>2. /\ queue \in Seq(Clients) /\ Head(queue) = queue[1] /\ 1 \in DOMAIN queue
        /\ queue[1] \in Clients
        /\ \A i \in DOMAIN queue' : i + 1 \in DOMAIN queue /\ queue'[i] = queue[i + 1]
        /\ \A i \in DOMAIN queue' : i \in Int /\ i >= 1
    BY <1>i, <2>1 DEF Typed
  <2>3. Unforked = {} /\ Unforked' = {queue[1]} /\ queue[1] # NoClient
    BY <1>c, <2>1, <2>2 DEF Unforked
  <2>4. Running' = Running /\ Served' = Served
    BY <2>1 DEF Running, Served
  <2>5. queue[1] \notin Served
    BY <1>i, <2>2 DEF QueuedOnce, Served
  <2>6. ServedOnce'
    BY <1>i, <2>1, <2>3, <2>4, <2>5 DEF ServedOnce, Served
  <2>7. QueuedOnce'
    <3>1. \A i, j \in DOMAIN queue' : queue'[i] = queue'[j] => i = j
      <4> SUFFICES ASSUME NEW i \in DOMAIN queue', NEW j \in DOMAIN queue', queue'[i] = queue'[j]
                   PROVE  i = j
        OBVIOUS
      <4>1. i + 1 = j + 1
        BY <1>i, <2>2 DEF QueuedOnce
      <4>. QED BY <2>2, <4>1
    <3>2. ASSUME NEW i \in DOMAIN queue'
          PROVE  queue'[i] \notin Unforked' /\ queue'[i] \notin Served'
      <4>1. i + 1 # 1 /\ i + 1 \in DOMAIN queue /\ queue'[i] = queue[i + 1]
        BY <2>2
      <4>2. queue[i + 1] # queue[1] /\ queue[i + 1] \notin Served
        BY <1>i, <2>2, <4>1 DEF QueuedOnce, Served
      <4>. QED BY <2>3, <2>4, <4>1, <4>2
    <3>. QED BY <3>1, <3>2 DEF QueuedOnce, Served
  <2>8. PICK c \in Clients : c = queue[1]
    BY <2>2
  <2>9. Pool!Serve(c)
    <3>1. Pool!Cardinality(PoolNow) < ncons
      BY <1>i, <2>1, PoolHasRoom, PoolCounts
    <3>2. PoolNow' = PoolNow \cup {c} /\ c \notin PoolNow
      BY <2>3, <2>4, <2>5, <2>8 DEF PoolNow
    <3>. QED BY <2>1, <3>1, <3>2 DEF Pool!Serve, PoolNow, Served
  <2>. QED BY <1>a, <2>6, <2>7, <2>9
<1>3. ASSUME NEW p \in Pids, Child(p)
      PROVE  ServedOnce' /\ QueuedOnce' /\ [Pool!Next \/ ConnectionCut]_Pool!poolVars
  <2>1. /\ UNCHANGED <<cd, pc, ci, queue, present>> /\ p \in Running /\ Unforked' = Unforked
    BY <1>3 DEF Child, Running, Unforked
  <2>2. CASE serves[p] \in asked
    <3>1. UNCHANGED <<proc, serves>> /\ asked' = asked \ {serves[p]}
      BY <1>3, <2>2 DEF Child
    <3>2. Running' = Running /\ Served' = Served
      BY <3>1 DEF Running, Served
    <3>3. ServedOnce' /\ QueuedOnce'
      BY <1>i, <2>1, <3>1, <3>2 DEF ServedOnce, QueuedOnce
    <3>4. PICK c \in Clients : c = serves[p] /\ c \in PoolNow
      BY <1>c, <1>i, <2>1, <2>2 DEF Typed, PoolNow, Served
    <3>5. Pool!Answer(c)
      BY <2>1, <2>2, <3>1, <3>2, <3>4 DEF Pool!Answer, PoolNow, Served
    <3>. QED BY <1>a, <3>3, <3>5
  <2>3. CASE serves[p] \notin asked
    <3>1. /\ serves[p] \notin present /\ asked' = asked
          /\ proc' = [proc EXCEPT ![p] = "zombie"] /\ serves' = [serves EXCEPT ![p] = NoClient]
      BY <1>3, <2>3 DEF Child
    <3>2. Running' = Running \ {p} /\ \A q \in Running' : serves'[q] = serves[q]
      BY <1>i, <3>1 DEF Running, Typed
    <3>3. ServedOnce' /\ QueuedOnce'
      BY <1>i, <2>1, <3>2 DEF ServedOnce, QueuedOnce
    <3>4. Served' \subseteq Served /\ \A c \in Served : c # serves[p] => c \in Served'
      BY <3>2 DEF Served
    <3>5. CASE serves[p] = NoClient
      <4>1. PoolNow' = PoolNow
        BY <2>1, <3>4, <3>5 DEF PoolNow
      <4>. QED BY <2>1, <3>1, <3>3, <4>1 DEF Pool!poolVars, PoolNow, Served
    <3>6. CASE serves[p] # NoClient
      <4>1. PICK c \in Clients : c = serves[p] /\ c \in PoolNow
        BY <1>i, <2>1, <3>6 DEF Typed, PoolNow, Served, Running
      <4>2. c \notin Served' /\ c \notin Unforked
        BY <1>i, <2>1, <3>2, <3>6, <4>1 DEF Served, ServedOnce
      <4>3. PoolNow' = PoolNow \ {c}
        BY <2>1, <3>4, <4>1, <4>2 DEF PoolNow
      <4>4. Pool!LetGo(c)
        BY <2>1, <2>3, <3>1, <4>1, <4>3 DEF Pool!LetGo, PoolNow, Served
      <4>. QED BY <1>a, <3>3, <4>4
    <3>. QED BY <3>5, <3>6
  <2>. QED BY <2>2, <2>3
<1>4. ASSUME NEW c \in Clients, Connect(c) \/ Send(c) \/ Close(c)
      PROVE  ServedOnce' /\ QueuedOnce' /\ [Pool!Next \/ ConnectionCut]_Pool!poolVars
  <2>1. /\ UNCHANGED <<cd, pc, ci, proc, serves>>
        /\ Unforked' = Unforked /\ Running' = Running /\ Served' = Served
    BY <1>4 DEF Connect, Send, Close, Unforked, Running, Served
  <2>2. ServedOnce' /\ PoolNow' = PoolNow
    BY <1>i, <2>1 DEF ServedOnce, PoolNow
  <2>3. CASE Connect(c)
    <3>1. /\ c \notin present /\ c \notin Queued /\ c \notin Unforked /\ c \notin Served
          /\ present' = present \cup {c} /\ queue' = Append(queue, c) /\ asked' = asked
      BY <2>3 DEF Connect, Served
    <3>2. /\ \A i \in DOMAIN queue : queue[i] # c /\ i \in Int
          /\ \A i \in DOMAIN queue' :
               IF i \in DOMAIN queue THEN queue'[i] = queue[i]
                                     ELSE i = Len(queue) + 1 /\ queue'[i] = c
      BY <1>i, <3>1 DEF Queued, Typed
    <3>3. QueuedOnce'
      BY <1>i, <2>1, <3>1, <3>2 DEF QueuedOnce, Served
    <3>4. Pool!Come(c)
      BY <2>2, <3>1 DEF Pool!Come, PoolNow, Served
    <3>. QED BY <1>a, <2>2, <3>3, <3>4
  <2>4. CASE Send(c) \/ Close(c)
    <3>1. queue' = queue
      BY <2>4 DEF Send, Close
    <3>2. QueuedOnce'
      BY <1>i, <2>1, <3>1 DEF QueuedOnce
    <3>3. Pool!Ask(c) \/ Pool!Leave(c)
      BY <2>2, <2>4 DEF Send, Close, Pool!Ask, Pool!Leave, PoolNow, Served
    <3>. QED BY <1>a, <2>2, <3>2, <3>3
  <2>. QED BY <1>4, <2>3, <2>4
<1>5. CASE UNCHANGED vars
  <2>1. UNCHANGED <<cd, pc, ci, proc, serves, queue, present, asked>>
    BY <1>5 DEF vars
  <2>2. Unforked' = Unforked /\ Running' = Running /\ Served' = Served
    BY <2>1 DEF Unforked, Running, Served
  <2>3. ServedOnce' /\ QueuedOnce'
    BY <1>i, <2>1, <2>2 DEF ServedOnce, QueuedOnce
  <2>4. UNCHANGED Pool!poolVars
    BY <2>1, <2>2 DEF Pool!poolVars, Served
  <2>. QED BY <2>3, <2>4
<1>. QED BY <1>1, <1>2, <1>3, <1>4, <1>5 DEF Next

(* Never more than ncons clients are served, each request is answered once *)
(* and a client is kept until it leaves, for any clients, slots and pids   *)
(* and on every build; the handler may cut off the client main() has just  *)
(* accepted, and does nothing else to the pool.                            *)
THEOREM ForkingServerIsPool == Spec => ImplementsPool
<1>1. Spec => [][Pool!Next \/ ConnectionCut]_Pool!poolVars
  BY PoolInit, PoolNext, PTL DEF Spec
<1>2. Spec => Pool!Init
  BY PoolInit, PTL DEF Spec
<1>. QED BY <1>1, <1>2, PTL DEF ImplementsPool
=============================================================================
