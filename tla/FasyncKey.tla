----------------------------- MODULE FasyncKey -----------------------------
(***************************************************************************)
(* 5_advanced_driver_method/3_fasync/fasync_key.c (and 2_poll/poll_key.c,  *)
(* which is the same driver without fasync): the blocking key driver of    *)
(* IrqKey with two more ways to learn of a key event.                      *)
(*                                                                         *)
(*   poll    the process is put on button_waitq, ev_press is read, and the *)
(*           kernel's poll loop sleeps until a wakeup or the timeout;      *)
(*   fasync  the interrupt handler sends SIGIO to the registered files,    *)
(*           and the program's signal handler calls read().                *)
(*                                                                         *)
(* The programs are poll_test.c, which reads only after poll() said POLLIN, *)
(* and fasync_test.c, which reads only from its SIGIO handler; SIGIO stays *)
(* blocked while that handler runs, so it never interrupts the read.       *)
(***************************************************************************)
EXTENDS IrqKey

VARIABLES
  fasync,   \* processes on button_fasync
  sigio,    \* processes with SIGIO pending
  pollq     \* processes inside poll() that no wakeup has triggered yet

notifyVars == <<fasync, sigio, pollq>>
fvars == <<vars, notifyVars>>

PollStates == {"poll", "pollcheck", "pollsleep", "polllast", "pollin"}

FInit == Init /\ fasync = {} /\ sigio = {} /\ pollq = {}

(* Everything but the program counter stays.                               *)
OnlyGoto(p, label) ==
  /\ Goto(p, label)
  /\ UNCHANGED <<moduleVars, lineVars, eventVars, sleepVars, idx, err, refused>>

-----------------------------------------------------------------------------
(***************************************************************************)
(* open() and close().  On the last close the kernel first calls           *)
(* irq_key_fasync(-1, filp, 0) for a file with FASYNC set; a SIGIO still   *)
(* pending then finds a closed descriptor and its read() fails.            *)
(***************************************************************************)
FasyncOpenClose(p) ==
  /\ OpenCloseStep(p)
  /\ LET leaving == {q \in {p} : pc'[q] = "closing"} IN
       /\ fasync' = fasync \ leaving
       /\ sigio' = sigio \ leaving
  /\ UNCHANGED pollq

(* A plain read() of a program that neither polls nor uses SIGIO.          *)
FasyncRead(p) ==
  /\ p \notin fasync
  /\ irq_key_read(p)
  /\ UNCHANGED notifyVars

FasyncReadStep(p) == ReadStep(p) /\ UNCHANGED notifyVars

(* irq_key_fasync through fcntl(F_SETFL): fasync_helper adds or removes.   *)
irq_key_fasync(p, on) ==
  /\ pc[p] = "open" /\ (on <=> p \notin fasync)
  /\ fasync' = IF on THEN fasync \cup {p} ELSE fasync \ {p}
  /\ UNCHANGED <<vars, sigio, pollq>>

(* mysignal_fun of fasync_test.c: the handler of SIGIO calls read().       *)
SigioRead(p) ==
  /\ p \in sigio /\ pc[p] = "open"
  /\ sigio' = sigio \ {p}
  /\ OnlyGoto(p, "test")
  /\ UNCHANGED <<fasync, pollq>>

(***************************************************************************)
(* irq_key_poll under the kernel's poll loop: the first call registers on  *)
(* button_waitq (poll_wait only queues), every call reads ev_press.  The   *)
(* loop sleeps unless a wakeup has triggered it since it was last armed,   *)
(* and asks the driver once more after the timeout.                        *)
(***************************************************************************)
PollCall(p) ==
  /\ pc[p] = "open" /\ p \notin fasync
  /\ OnlyGoto(p, "poll")
  /\ UNCHANGED notifyVars

PollWait(p) ==
  /\ pc[p] = "poll"
  /\ pollq' = pollq \cup {p}
  /\ OnlyGoto(p, "pollcheck")
  /\ UNCHANGED <<fasync, sigio>>

(* Mutant: the check consumes the event.                                   *)
PollConsumes(p) ==
  /\ pc[p] \in {"pollcheck", "polllast"} /\ ev_press = 1
  /\ Goto(p, "pollin") /\ ev_press' = 0
  /\ pollq' = pollq \ {p}
  /\ UNCHANGED <<moduleVars, lineVars, key_val, unread, sleepVars, idx, err, refused,
         fasync, sigio>>

irq_key_poll(p) ==
  /\ pc[p] \in {"pollcheck", "polllast"}
  /\ IF ev_press = 1 THEN OnlyGoto(p, "pollin")
     ELSE OnlyGoto(p, IF pc[p] = "polllast" THEN "open" ELSE "pollsleep")
  /\ pollq' = IF pc'[p] = "pollsleep" THEN pollq ELSE pollq \ {p}
  /\ UNCHANGED <<fasync, sigio>>

PollWoken(p) ==
  /\ pc[p] = "pollsleep" /\ p \notin pollq
  /\ pollq' = pollq \cup {p}
  /\ OnlyGoto(p, "pollcheck")
  /\ UNCHANGED <<fasync, sigio>>

PollTimeout(p) ==
  /\ pc[p] = "pollsleep"
  /\ OnlyGoto(p, "polllast")
  /\ UNCHANGED notifyVars

PollinRead(p) ==
  /\ pc[p] = "pollin"
  /\ OnlyGoto(p, "test")
  /\ UNCHANGED notifyVars

(* Mutants: the handler only sends SIGIO; the handler only wakes.          *)
NotifyOnlyFasync == sigio' = sigio \cup fasync /\ UNCHANGED <<fasync, pollq>>
NotifyOnlyPoll == pollq' = {} /\ UNCHANGED <<fasync, sigio>>

(* wake_up_interruptible also triggers pollers; kill_fasync sends SIGIO.   *)
NotifyPollAndFasync ==
  /\ pollq' = {}
  /\ sigio' = sigio \cup fasync
  /\ UNCHANGED fasync

FasyncInterrupt(k) == key_interrupt(k) /\ NotifyPollAndFasync

FasyncEnvironment ==
  /\ \/ Irq_key_init \/ Irq_key_exit
     \/ \E k \in Keys : Edge(k)
     \/ \E p \in Procs : Signal(p)
  /\ UNCHANGED notifyVars

-----------------------------------------------------------------------------
PollStep(p) == PollWait(p) \/ irq_key_poll(p) \/ PollWoken(p)

(* What a process does with the driver of poll_key.c, which has no fasync. *)
PollKeyStep(p) ==
  \/ FasyncOpenClose(p) \/ FasyncRead(p) \/ FasyncReadStep(p)
  \/ PollCall(p) \/ PollStep(p) \/ PollTimeout(p) \/ PollinRead(p)

FProcStep(p) ==
  \/ PollKeyStep(p)
  \/ \E on \in BOOLEAN : irq_key_fasync(p, on)
  \/ SigioRead(p)

FNext ==
  \/ \E p \in Procs : FProcStep(p)
  \/ \E k \in Keys : FasyncInterrupt(k)
  \/ FasyncEnvironment

FSpec == FInit /\ [][FNext]_fvars

(* Interrupts are taken, runnable processes run inside the driver, and a   *)
(* pending SIGIO is delivered.  Nobody has to call, close or time out.     *)
FFairness ==
  /\ \A k \in Keys : WF_fvars(FasyncInterrupt(k))
  /\ \A p \in Procs : WF_fvars(FasyncReadStep(p)) /\ WF_fvars(PollStep(p))
                      /\ WF_fvars(SigioRead(p))

FFairSpec == FSpec /\ FFairness

-----------------------------------------------------------------------------
(* No lost wakeup in poll: a poller that went to sleep after reading       *)
(* ev_press = 0 is never still unwoken while an event is there             *)
(* (fasync_key.c:152 before 157, and 75 before 78).                        *)
NoLostPollWakeup ==
  \A p \in Procs : pc[p] = "pollsleep" /\ p \in pollq => ev_press = 0

(* A key that moves while a registered program is idle gets as far as the  *)
(* copy_to_user of the read() its SIGIO handler calls, unless the program  *)
(* unregisters or closes first.                                            *)
SigioServed ==
  \A p \in Procs : (pc[p] = "open" /\ p \in fasync /\ latch # {}) ~>
                     (pc[p] = "copy" \/ p \notin fasync)

(* The driver with poll and fasync still is the blocking driver: with the  *)
(* poll states read as "open", each of its steps is a step of IrqKey.      *)
Blocking ==
  INSTANCE IrqKey WITH
    pc <- [p \in Procs |-> IF pc[p] \in PollStates THEN "open" ELSE pc[p]]

ImplementsIrqKey == Blocking!Spec

(* poll() never reports "nothing to read" while a key event has not been   *)
(* read (comment fasync_key.c:154-155, 160).                               *)
PollReportsUnread ==
  [][\A p \in Procs : pc[p] = "pollcheck" /\ pc'[p] = "pollsleep" => ~unread]_fvars
=============================================================================
