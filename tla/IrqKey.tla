------------------------------- MODULE IrqKey -------------------------------
(***************************************************************************)
(* The blocking key driver 5_advanced_driver_method/1_wait_queue/irq_key.c: *)
(* a character device whose open() requests one interrupt line per key,    *)
(* whose interrupt handler publishes the last key event in two statics     *)
(* (key_val, ev_press) and whose read() sleeps on button_waitq until there *)
(* is an event.                                                            *)
(*                                                                         *)
(* Processes run the file operations; a step of a process can be preempted *)
(* by another process or by an interrupt wherever the code can be, so      *)
(* wait_event_interruptible is unfolded into the steps of its macro.  The  *)
(* interrupt handler runs with interrupts disabled on a uniprocessor and   *)
(* is therefore one atomic action.                                         *)
(***************************************************************************)
EXTENDS Integers, FiniteSets

CONSTANTS Procs,        \* processes that use the device file
          NKeys,        \* entries of button_irqs
          Signallers    \* processes that may receive a signal during read()

Keys == 1..NKeys

ASSUME NKeysAssumption == NKeys \in Nat \ {0}
ASSUME SignallersAssumption == Signallers \subseteq Procs

VARIABLES
  loaded,      \* the module is inserted
  made,        \* what the calls of Irq_key_init really made
  handler,     \* lines on which key_interrupt is registered
  masked,      \* lines left disabled by disable_irq
  pin,         \* gpio level of each key: 0 pressed, 1 released
  latch,       \* lines with an edge the handler has not serviced yet
  key_val,     \* static unsigned char key_val
  ev_press,    \* static volatile int ev_press
  waitq,       \* processes asleep (or about to be) on button_waitq
  sigpending,  \* processes with a signal pending
  pc,          \* where each process is in the driver
  idx,         \* loop counter i of open() and close()
  err,         \* whether err is nonzero in open()
  refused,     \* history: lines whose request failed in this open()
  unread       \* history: a published event no read() has copied yet

lineVars  == <<handler, masked, pin, latch>>
eventVars == <<key_val, ev_press, unread>>
sleepVars == <<waitq, sigpending>>
moduleVars == <<loaded, made>>
procVars  == <<pc, idx, err, refused>>
vars == <<moduleVars, lineVars, eventVars, sleepVars, procVars>>

(* The bits 0x01..0x08 and 0x81..0x88 of button_irqs: 0x80 marks a release. *)
KeyCode(k, level) == IF level = 1 THEN 128 + k ELSE k
KeyCodes == {KeyCode(k, level) : k \in Keys, level \in {0, 1}}

ReadStates == {"test", "prep", "recheck", "sched", "copy", "clear"}
PCs == {"closed", "requesting", "unwinding", "freeing", "open", "closing"} \cup ReadStates

FileOpen(p) == pc[p] \in {"open"} \cup ReadStates

-----------------------------------------------------------------------------
Init ==
  /\ loaded = FALSE /\ made = {}
  /\ handler = {} /\ masked = {} /\ latch = {}
  /\ pin = [k \in Keys |-> 1]
  /\ key_val = 0 /\ ev_press = 0 /\ unread = FALSE
  /\ waitq = {} /\ sigpending = {}
  /\ pc = [p \in Procs |-> "closed"]
  /\ idx = [p \in Procs |-> 0]
  /\ err = [p \in Procs |-> FALSE]
  /\ refused = [p \in Procs |-> {}]

Goto(p, label) == pc' = [pc EXCEPT ![p] = label]

(***************************************************************************)
(* Module load and unload.  Loading starts from fresh statics and looks at *)
(* no result: register_chrdev and class_create may each have failed.  (A   *)
(* device_create that fails only leaves the node to mknod.)  Unloading     *)
(* unregisters the device and then takes the class apart; where that is an *)
(* error pointer, rmmod ends in an oops and the module stays in place.     *)
(* .owner = THIS_MODULE keeps it loaded while a process is inside it.      *)
(***************************************************************************)
Irq_key_init ==
  /\ ~loaded
  /\ loaded' = TRUE
  /\ made' \in SUBSET {"chrdev", "class"}
  /\ key_val' = 0 /\ ev_press' = 0 /\ unread' = FALSE
  /\ UNCHANGED <<lineVars, sleepVars, procVars>>

(* Mutant: file_operations without .owner.                                 *)
ExitWithoutOwner ==
  /\ loaded
  /\ made' = {} /\ loaded' = ("class" \notin made)
  /\ UNCHANGED <<lineVars, eventVars, sleepVars, procVars>>

Irq_key_exit ==
  /\ loaded
  /\ \A p \in Procs : pc[p] = "closed"
  /\ made' = {} /\ loaded' = ("class" \notin made)
  /\ UNCHANGED <<lineVars, eventVars, sleepVars, procVars>>

(***************************************************************************)
(* request_irq and free_irq of the kernel.  A line has one owner (the      *)
(* driver does not pass IRQF_SHARED), so a request for a registered line   *)
(* fails; any other request may fail too, because another driver has the   *)
(* line at that time or memory is short.  A fresh request enables the      *)
(* line.  free_irq finds the handler by its dev_id, which is the same      *)
(* static table entry for every open of the device, and freeing a line     *)
(* that has no such handler only warns.                                    *)
(***************************************************************************)
RequestResults(k) == IF k \in handler THEN {FALSE} ELSE BOOLEAN

FreeLine(k) == handler' = handler \ {k} /\ latch' = latch \ {k}

(***************************************************************************)
(* irq_key_open: the loop requests every line and keeps only the last err; *)
(* the error path disables and frees every line from the last to the       *)
(* first, obtained or not.                                                 *)
(***************************************************************************)
irq_key_open(p) ==
  /\ loaded /\ "chrdev" \in made /\ pc[p] = "closed"
  /\ Goto(p, "requesting")
  /\ idx' = [idx EXCEPT ![p] = 1]
  /\ err' = [err EXCEPT ![p] = FALSE]
  /\ refused' = [refused EXCEPT ![p] = {}]
  /\ UNCHANGED <<moduleVars, lineVars, eventVars, sleepVars>>

OpenRequestIrq(p) ==
  /\ pc[p] = "requesting" /\ idx[p] \in Keys
  /\ \E ok \in RequestResults(idx[p]) :
       LET got == {k \in {idx[p]} : ok} IN
         /\ err' = [err EXCEPT ![p] = ~ok]
         /\ handler' = handler \cup got
         /\ masked' = masked \ got
         /\ refused' = [refused EXCEPT ![p] = @ \cup ({idx[p]} \ got)]
  /\ idx' = [idx EXCEPT ![p] = @ + 1]
  /\ UNCHANGED <<moduleVars, pin, latch, eventVars, sleepVars, pc>>

(* Mutant: the request loop stops one entry early.                         *)
OpenDoneEarly(p) ==
  /\ pc[p] = "requesting" /\ idx[p] = NKeys
  /\ Goto(p, IF err[p] THEN "unwinding" ELSE "open")
  /\ UNCHANGED <<moduleVars, lineVars, eventVars, sleepVars, idx, err, refused>>

OpenDone(p) ==
  /\ pc[p] = "requesting" /\ idx[p] = NKeys + 1
  /\ Goto(p, IF err[p] THEN "unwinding" ELSE "open")
  /\ idx' = [idx EXCEPT ![p] = @ - 1]
  /\ UNCHANGED <<moduleVars, lineVars, eventVars, sleepVars, err, refused>>

(* Mutants: the unwinding loop runs off the front of the table; it forgets *)
(* free_irq after disable_irq; it stops before the first entry.            *)
OpenUnwindPastStart(p) ==
  /\ pc[p] = "unwinding" /\ idx[p] \in Keys \cup {0}
  /\ masked' = masked \cup {idx[p]}
  /\ Goto(p, "freeing")
  /\ UNCHANGED <<moduleVars, handler, pin, latch, eventVars, sleepVars, idx, err, refused>>

UnwindForgetsFree(p) ==
  /\ pc[p] = "freeing"
  /\ idx' = [idx EXCEPT ![p] = @ - 1]
  /\ Goto(p, "unwinding")
  /\ UNCHANGED <<moduleVars, lineVars, eventVars, sleepVars, err, refused>>

OpenFailedEarly(p) ==
  /\ pc[p] = "unwinding" /\ idx[p] = 1
  /\ Goto(p, "closed")
  /\ UNCHANGED <<moduleVars, lineVars, eventVars, sleepVars, idx, err, refused>>

(* disable_irq of one line and free_irq of the same line, whoever has it.  *)
OpenUnwind(p) ==
  /\ pc[p] = "unwinding" /\ idx[p] \in Keys
  /\ masked' = masked \cup {idx[p]}
  /\ Goto(p, "freeing")
  /\ UNCHANGED <<moduleVars, handler, pin, latch, eventVars, sleepVars, idx, err, refused>>

UnwindFreeIrq(p) ==
  /\ pc[p] = "freeing" /\ idx[p] \in Keys
  /\ FreeLine(idx[p])
  /\ idx' = [idx EXCEPT ![p] = @ - 1]
  /\ Goto(p, "unwinding")
  /\ UNCHANGED <<moduleVars, masked, pin, eventVars, sleepVars, err, refused>>

OpenFailed(p) ==
  /\ pc[p] = "unwinding" /\ idx[p] = 0
  /\ Goto(p, "closed")
  /\ UNCHANGED <<moduleVars, lineVars, eventVars, sleepVars, idx, err, refused>>

(***************************************************************************)
(* irq_key_close: free every line, whoever registered it.                  *)
(***************************************************************************)
irq_key_close(p) ==
  /\ pc[p] = "open"
  /\ Goto(p, "closing")
  /\ idx' = [idx EXCEPT ![p] = 1]
  /\ UNCHANGED <<moduleVars, lineVars, eventVars, sleepVars, err, refused>>

CloseFreeIrq(p) ==
  /\ pc[p] = "closing" /\ idx[p] \in Keys
  /\ FreeLine(idx[p])
  /\ idx' = [idx EXCEPT ![p] = @ + 1]
  /\ UNCHANGED <<moduleVars, masked, pin, eventVars, sleepVars, pc, err, refused>>

CloseDone(p) ==
  /\ pc[p] = "closing" /\ idx[p] = NKeys + 1
  /\ Goto(p, "closed")
  /\ idx' = [idx EXCEPT ![p] = 0]
  /\ UNCHANGED <<moduleVars, lineVars, eventVars, sleepVars, err, refused>>

(***************************************************************************)
(* irq_key_read.  A call with count /= 1 returns -EINVAL and touches       *)
(* nothing.  wait_event_interruptible tests ev_press, and if it is 0 loops *)
(* over: enqueue and become TASK_INTERRUPTIBLE, test again, leave if a     *)
(* signal is pending, schedule.  Its result is not looked at: an           *)
(* interrupted wait goes on to copy_to_user like a successful one.         *)
(***************************************************************************)
irq_key_read(p) ==
  /\ pc[p] = "open"
  /\ Goto(p, "test")
  /\ UNCHANGED <<moduleVars, lineVars, eventVars, sleepVars, idx, err, refused>>

ReadTest(p) ==
  /\ pc[p] = "test"
  /\ Goto(p, IF ev_press = 1 THEN "copy" ELSE "prep")
  /\ UNCHANGED <<moduleVars, lineVars, eventVars, sleepVars, idx, err, refused>>

ReadPrepareToWait(p) ==
  /\ pc[p] = "prep"
  /\ waitq' = waitq \cup {p}
  /\ Goto(p, "recheck")
  /\ UNCHANGED <<moduleVars, lineVars, eventVars, sigpending, idx, err, refused>>

(* Mutant: ev_press is not tested again after enqueueing.                  *)
ReadSleepUnchecked(p) ==
  /\ pc[p] = "recheck"
  /\ LET stop == p \in sigpending IN
       /\ Goto(p, IF stop THEN "copy" ELSE "sched")
       /\ waitq' = IF stop THEN waitq \ {p} ELSE waitq
  /\ UNCHANGED <<moduleVars, lineVars, eventVars, sigpending, idx, err, refused>>

ReadRecheck(p) ==
  /\ pc[p] = "recheck"
  /\ LET stop == ev_press = 1 \/ p \in sigpending IN
       /\ Goto(p, IF stop THEN "copy" ELSE "sched")
       /\ waitq' = IF stop THEN waitq \ {p} ELSE waitq   \* finish_wait
  /\ UNCHANGED <<moduleVars, lineVars, eventVars, sigpending, idx, err, refused>>

ReadWoken(p) ==
  /\ pc[p] = "sched" /\ p \notin waitq
  /\ Goto(p, "prep")
  /\ UNCHANGED <<moduleVars, lineVars, eventVars, sleepVars, idx, err, refused>>

ReadCopyToUser(p) ==
  /\ pc[p] = "copy"
  /\ unread' = FALSE
  /\ Goto(p, "clear")
  /\ UNCHANGED <<moduleVars, lineVars, key_val, ev_press, sleepVars, idx, err, refused>>

(* Mutant: ev_press is not cleared.                                        *)
ReadNoClear(p) ==
  /\ pc[p] = "clear"
  /\ sigpending' = sigpending \ {p}
  /\ Goto(p, "open")
  /\ UNCHANGED <<moduleVars, lineVars, eventVars, waitq, idx, err, refused>>

(* ev_press = 0; return 1: a pending signal is delivered on the way out.   *)
ReadClear(p) ==
  /\ pc[p] = "clear"
  /\ ev_press' = 0
  /\ sigpending' = sigpending \ {p}
  /\ Goto(p, "open")
  /\ UNCHANGED <<moduleVars, lineVars, key_val, unread, waitq, idx, err, refused>>

(***************************************************************************)
(* The environment: a key moves, a signal is sent.  The controller latches *)
(* at most one edge per line and only while the line has a handler.        *)
(***************************************************************************)
Edge(k) ==
  /\ pin' = [pin EXCEPT ![k] = 1 - @]
  /\ latch' = IF k \in handler \ masked THEN latch \cup {k} ELSE latch
  /\ UNCHANGED <<moduleVars, handler, masked, eventVars, sleepVars, procVars>>

Signal(p) ==
  /\ p \in Signallers \ sigpending /\ pc[p] \in ReadStates
  /\ sigpending' = sigpending \cup {p}
  /\ waitq' = waitq \ {p}
  /\ UNCHANGED <<moduleVars, lineVars, eventVars, procVars>>

(* Mutant: the handler does not wake the sleepers.                         *)
PublishWithoutWakeup(k) ==
  /\ key_val' = KeyCode(k, pin[k])
  /\ ev_press' = 1
  /\ unread' = TRUE
  /\ UNCHANGED waitq

(***************************************************************************)
(* key_interrupt: publish the level the pin has now, wake every sleeper.   *)
(***************************************************************************)
Publish(k) ==
  /\ key_val' = KeyCode(k, pin[k])
  /\ ev_press' = 1
  /\ unread' = TRUE
  /\ waitq' = {}

key_interrupt(k) ==
  /\ k \in latch \cap (handler \ masked)
  /\ latch' = latch \ {k}
  /\ Publish(k)
  /\ UNCHANGED <<moduleVars, handler, masked, pin, sigpending, procVars>>

-----------------------------------------------------------------------------
ReadStep(p) ==
  \/ ReadTest(p) \/ ReadPrepareToWait(p) \/ ReadRecheck(p)
  \/ ReadWoken(p) \/ ReadCopyToUser(p) \/ ReadClear(p)

OpenCloseStep(p) ==
  \/ irq_key_open(p) \/ OpenRequestIrq(p) \/ OpenDone(p)
  \/ OpenUnwind(p) \/ UnwindFreeIrq(p) \/ OpenFailed(p)
  \/ irq_key_close(p) \/ CloseFreeIrq(p) \/ CloseDone(p)

ProcStep(p) == OpenCloseStep(p) \/ irq_key_read(p) \/ ReadStep(p)

Next ==
  \/ Irq_key_init \/ Irq_key_exit
  \/ \E p \in Procs : ProcStep(p) \/ Signal(p)
  \/ \E k \in Keys : Edge(k) \/ key_interrupt(k)

Spec == Init /\ [][Next]_vars

(* A pending interrupt is taken and a runnable process inside read() runs. *)
Fairness ==
  /\ \A k \in Keys : WF_vars(key_interrupt(k))
  /\ \A p \in Procs : WF_vars(ReadStep(p))

FairSpec == Spec /\ Fairness

-----------------------------------------------------------------------------
(* Every variable stays in its range; the loop counter stays inside the    *)
(* bounds of the loop the process is in.                                   *)
TypeOK ==
  /\ loaded \in BOOLEAN
  /\ made \subseteq {"chrdev", "class"}
  /\ handler \subseteq Keys
  /\ masked \subseteq Keys
  /\ pin \in [Keys -> {0, 1}]
  /\ latch \subseteq Keys
  /\ key_val \in {0} \cup KeyCodes
  /\ ev_press \in {0, 1}
  /\ unread \in BOOLEAN
  /\ waitq \subseteq Procs
  /\ sigpending \subseteq Procs
  /\ pc \in [Procs -> PCs]
  /\ idx \in [Procs -> 0..(NKeys + 1)]
  /\ err \in [Procs -> BOOLEAN]
  /\ refused \in [Procs -> SUBSET Keys]

(* No lost wakeup: a process that went to sleep after finding ev_press = 0 *)
(* is never still asleep while an event is there (irq_key.c:71-74 against  *)
(* the test-enqueue-test order inside line 116), however many readers,     *)
(* signals and interrupts interleave.                                      *)
NoLostWakeup ==
  \A p \in Procs : pc[p] = "sched" /\ p \in waitq => ev_press = 0

(* Some process inside the driver still has to free line k.                *)
Responsible(p, k) ==
  \/ pc[p] = "requesting" /\ idx[p] > k
  \/ FileOpen(p)
  \/ pc[p] \in {"unwinding", "freeing"} /\ idx[p] >= k
  \/ pc[p] = "closing" /\ idx[p] <= k

HandlerOwned == \A k \in handler : \E p \in Procs : Responsible(p, k)

(* key_interrupt is never left registered when the module's text is gone,  *)
(* whatever mixture of failed opens, stolen lines and closes came before   *)
(* (irq_key.c:92-101, 130-133, 160-165).                                   *)
UnloadSafe == ~loaded => handler = {}

(* disable_irq in the error path of open() never outlives it: whatever     *)
(* mixture of opens and closes interleaves, a line that has the handler    *)
(* and is disabled is just being freed (irq_key.c:97, before 98).          *)
RegisteredLineEnabled ==
  \A k \in handler \cap masked : \E p \in Procs : pc[p] = "freeing" /\ idx[p] = k

(* A read() that reaches copy_to_user has a key event that no earlier      *)
(* read() returned (comment irq_key.c:110-114, 118).  It holds for a       *)
(* single reader that takes no signal; signals break it.                   *)
ReadReturnsKeyAction == \A p \in Procs : pc[p] = "copy" => unread

(* open() is judged by its last request alone, because each overwrites the *)
(* error of the one before (irq_key.c:87, 92): a file that opened got its  *)
(* last line, and a process alone with the device has all the lines but    *)
(* those it was refused, for as long as the file is open.                  *)
OpenJudgedByLastLine ==
  \A p \in Procs : FileOpen(p) =>
    /\ NKeys \notin refused[p]
    /\ Procs = {p} => handler = Keys \ refused[p]

(* A sleeping reader whose key has moved does return: the handler runs,    *)
(* the wakeup reaches it and it gets as far as copy_to_user.               *)
ReaderServed ==
  \A p \in Procs : (pc[p] = "sched" /\ latch # {}) ~> (pc[p] = "copy")
=============================================================================
