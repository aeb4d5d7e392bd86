------------------------------ MODULE TimerKey ------------------------------
(***************************************************************************)
(* 5_advanced_driver_method/4_timer/timer_key.c: the key driver of         *)
(* FasyncKey with debouncing.  The interrupt handler only remembers which  *)
(* key interrupted (irq_pd) and pushes a 10 ms timer back; the timer       *)
(* function reads the pin of irq_pd, publishes and notifies.               *)
(*                                                                         *)
(* One timer and one irq_pd serve all keys.  Irq_key_init starts the timer *)
(* with add_timer while irq_pd is still NULL and expires is 0: depending   *)
(* on jiffies it fires at the next tick or minutes later, so here it may   *)
(* fire at any time.  A timer function that dereferences NULL stops the    *)
(* system (an oops in interrupt context).                                  *)
(***************************************************************************)
EXTENDS FasyncKey

NULL == 0   \* no entry of button_irqs has index 0

VARIABLES
  irq_pd,   \* the entry the last interrupt came from, or NULL
  timer,    \* buttons_timer is pending
  oops,     \* the kernel stopped on a NULL dereference
  owed,     \* history: keys whose interrupt was taken and not yet published
  overtaken \* history: those of them another key has interrupted since

historyVars == <<owed, overtaken>>
timerVars == <<irq_pd, timer, oops, historyVars>>
tvars == <<fvars, timerVars>>

TInit ==
  /\ FInit
  /\ irq_pd = NULL /\ timer = FALSE /\ oops = FALSE
  /\ owed = {} /\ overtaken = {}

-----------------------------------------------------------------------------
(* Load: init_timer and add_timer, then the character device.              *)
TimerInit ==
  /\ Irq_key_init
  /\ irq_pd' = NULL /\ timer' = TRUE /\ owed' = {} /\ overtaken' = {}
  /\ UNCHANGED <<notifyVars, oops>>

(* Mutant: exit without del_timer.                                         *)
TimerExitKeepsTimer ==
  /\ Irq_key_exit
  /\ owed' = {} /\ overtaken' = {}
  /\ UNCHANGED <<notifyVars, irq_pd, timer, oops>>

(* Unload: the device goes first, the timer is deleted last, and with it   *)
(* an event nobody could read any more.  An rmmod that died on the class   *)
(* never gets to del_timer.                                                *)
TimerExit ==
  /\ Irq_key_exit
  /\ timer' = (timer /\ loaded')
  /\ owed' = {k \in owed : loaded'} /\ overtaken' = {k \in overtaken : loaded'}
  /\ UNCHANGED <<notifyVars, irq_pd, oops>>

(* open, close, read, poll and fasync are those of FasyncKey: close() does *)
(* not stop the timer.                                                     *)
TimerFileStep(p) == FProcStep(p) /\ UNCHANGED timerVars

(* The history of an interrupt of k: k is owed, the keys owed before it    *)
(* are overtaken.                                                          *)
Owe(k) ==
  /\ owed' = owed \cup {k}
  /\ overtaken' = (overtaken \cup owed) \ {k}

(* Mutant: the handler leaves the timer alone while an event is unread.    *)
TimerInterruptWhenRead(k) ==
  /\ k \in latch \cap (handler \ masked)
  /\ latch' = latch \ {k}
  /\ irq_pd' = k /\ timer' = (timer \/ ev_press = 0) /\ Owe(k)
  /\ UNCHANGED <<moduleVars, handler, masked, pin, eventVars, sleepVars, procVars,
                 notifyVars, oops>>

(* The key takes irq_pd over and pushes the one timer back, whichever key  *)
(* that was waiting for it.                                                *)
TimerInterrupt(k) ==
  /\ k \in latch \cap (handler \ masked)
  /\ latch' = latch \ {k}
  /\ irq_pd' = k
  /\ timer' = TRUE                              \* mod_timer, pending or not
  /\ Owe(k)
  /\ UNCHANGED <<moduleVars, handler, masked, pin, eventVars, sleepVars, procVars,
                 notifyVars, oops>>

buttons_timer_function ==
  /\ timer
  /\ timer' = FALSE
  /\ IF irq_pd = NULL
       THEN /\ oops' = TRUE
            /\ UNCHANGED <<vars, notifyVars, irq_pd, historyVars>>
       ELSE /\ Publish(irq_pd)
            /\ NotifyPollAndFasync
            /\ owed' = owed \ {irq_pd} /\ overtaken' = overtaken \ {irq_pd}
            /\ UNCHANGED <<moduleVars, lineVars, sigpending, procVars, irq_pd, oops>>

TimerEnvironment ==
  /\ \/ \E k \in Keys : Edge(k)
     \/ \E p \in Procs : Signal(p)
  /\ UNCHANGED <<notifyVars, timerVars>>

-----------------------------------------------------------------------------
TNext ==
  /\ ~oops
  /\ \/ TimerInit \/ TimerExit
     \/ \E p \in Procs : TimerFileStep(p)
     \/ \E k \in Keys : TimerInterrupt(k)
     \/ buttons_timer_function
     \/ TimerEnvironment

TSpec == TInit /\ [][TNext]_tvars

(* As FFairness; and the timer expires, that is, a bouncing key is at some *)
(* point quiet for 10 ms.                                                  *)
TFairness ==
  /\ \A k \in Keys : WF_tvars(~oops /\ TimerInterrupt(k))
  /\ WF_tvars(~oops /\ buttons_timer_function)
  /\ \A p \in Procs : WF_tvars(~oops /\ FasyncReadStep(p) /\ UNCHANGED timerVars)

TFairSpec == TSpec /\ TFairness

-----------------------------------------------------------------------------
(* After unload neither the timer nor an interrupt line can call into the  *)
(* freed module, although close() leaves the timer running and exit only   *)
(* deletes it after the device is gone (timer_key.c:118-129, 220-226).     *)
NothingCallsUnloadedModule == ~loaded => ~timer /\ handler = {}

(* A key action is lost only to another key: once an interrupt was taken   *)
(* the timer stays on its way until that key's level is published, however *)
(* the lines bounce, unless another key interrupts in between and takes    *)
(* irq_pd and the timer over (timer_key.c:63-69, 170; the comment at 111   *)
(* promises the program every key).                                        *)
KeyPublishedUnlessOvertaken ==
  owed \ overtaken \subseteq (IF timer THEN {irq_pd} ELSE {})

(* A sleeping reader gets the debounced event of a key that moved, unless  *)
(* the system stopped.                                                     *)
TimerReaderServed ==
  \A p \in Procs : (pc[p] = "sched" /\ latch # {}) ~> (pc[p] = "copy" \/ oops)
=============================================================================
