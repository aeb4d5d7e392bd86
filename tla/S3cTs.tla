------------------------------- MODULE S3cTs -------------------------------
(***************************************************************************)
(* The touchscreen driver 6_input_driver/2_touch_screen_drivers/s3c-ts.c   *)
(* and the ADC lock it shares with an ADC driver through the exported      *)
(* X6410_adc_acquire_io and X6410_adc_release_io (CONFIG_S5P_ADC set,      *)
(* CONFIG_ANDROID not set).                                                *)
(*                                                                         *)
(* Three kinds of code run, each able to interrupt the next:               *)
(*   interrupt handlers   stylus_updown, stylus_action: atomic;            *)
(*   the timer softirq    touch_timer_fire: interrupts are enabled while   *)
(*                        it runs, so it is a sequence of steps;           *)
(*   processes            the ADC clients, and suspend and resume.         *)
(*                                                                         *)
(* Coordinates are left out: what matters of a sample is that it was taken *)
(* and for whom.                                                           *)
(***************************************************************************)
EXTENDS Integers, FiniteSets

CONSTANTS Clients,     \* processes that use the ADC through the exported calls
          Samples,     \* 1 << ts->shift, conversions per reported position
          CanSuspend,  \* whether the system may suspend
          FastPen      \* whether the stylus may move within the microseconds
                       \* touch_timer_fire runs (it may always bounce otherwise)

ASSUME SamplesAssumption == Samples \in Nat \ {0}
ASSUME FlagsAssumption == CanSuspend \in BOOLEAN /\ FastPen \in BOOLEAN

FREE == "LOCK_FREE"
TS   == "LOCK_TS"
ADC  == "LOCK_ADC"

VARIABLES
  sem,          \* count of the semaphore ADC_LOCK
  adc_lock_id,  \* who the lock claims is using the controller
  pen,          \* the stylus: "up" or "down"
  tsc,          \* ADCTSC: "wait_down", "wait_up" or "auto" (converting)
  conv,         \* whose conversion is running: "none", "ts" or "adc"
  pendn,        \* IRQ_PENDN is pending
  eoc,          \* IRQ_ADC is pending, with whose conversion it ended
  touch_timer,  \* touch_timer is pending
  count,        \* ts->count, samples accumulated so far
  touch,        \* BTN_TOUCH as last reported to the input system
  tpc,          \* where the timer softirq is in touch_timer_fire
  cpc,          \* where each client is
  suspended     \* both interrupts are disabled and the clock is off

lockVars  == <<sem, adc_lock_id>>
hwVars    == <<pen, tsc, conv, pendn, eoc>>
touchVars == <<touch_timer, count, touch>>
vars == <<lockVars, hwVars, touchVars, tpc, cpc, suspended>>

ClientStates == {"idle", "locking", "holding", "unlocking"}

(* s3c_ts_probe leaves the controller waiting for a pen-down interrupt.    *)
Init ==
  /\ sem = 1 /\ adc_lock_id = FREE
  /\ pen = "up" /\ tsc = "wait_down" /\ conv = "none"
  /\ pendn = FALSE /\ eoc = "none"
  /\ touch_timer = FALSE /\ count = 0 /\ touch = FALSE
  /\ tpc = "idle"
  /\ cpc = [c \in Clients |-> "idle"]
  /\ suspended = FALSE

ADC_locked4TS == adc_lock_id = TS

-----------------------------------------------------------------------------
(***************************************************************************)
(* The controller.  In a waiting mode the awaited stylus move raises       *)
(* IRQ_PENDN; entering the mode with the stylus already there may or may   *)
(* not.  With the clock off nothing converts and the data registers read   *)
(* as anything.                                                            *)
(***************************************************************************)
WAIT4INT(mode) ==
  /\ tsc' = mode
  /\ pendn' \in {pendn} \cup (IF <<mode, pen>> \in {<<"wait_down", "down">>,
                                                    <<"wait_up", "up">>}
                              THEN {TRUE} ELSE {})

StartConversion == tsc' = "auto" /\ conv' = "ts"

PenSeen == IF suspended THEN {"up", "down"} ELSE {pen}

PenMove ==
  /\ FastPen \/ tpc = "idle"
  /\ pen' = IF pen = "up" THEN "down" ELSE "up"
  /\ pendn' = (pendn \/ (~suspended /\ tsc = (IF pen = "up" THEN "wait_down"
                                              ELSE "wait_up")))
  /\ UNCHANGED <<lockVars, tsc, conv, eoc, touchVars, tpc, cpc, suspended>>

ConversionEnds ==
  /\ conv # "none" /\ ~suspended
  /\ eoc' = conv /\ conv' = "none"
  /\ UNCHANGED <<lockVars, pen, tsc, pendn, touchVars, tpc, cpc, suspended>>

-----------------------------------------------------------------------------
(***************************************************************************)
(* touch_timer_fire.  The branch for a stylus seen down reports a touch if *)
(* a position has been accumulated and converts again; the other reports   *)
(* the release, waits for the next touch and gives the lock back.          *)
(***************************************************************************)
TouchSeenDown ==
  /\ touch' = (touch \/ count > 0)
  /\ count' = 0
  /\ StartConversion

(* As the timer softirq, one step per place where an interrupt matters.    *)
TimerFire ==
  /\ tpc = "idle" /\ touch_timer
  /\ touch_timer' = FALSE
  /\ tpc' = IF ADC_locked4TS THEN "read" ELSE "idle"
  /\ UNCHANGED <<lockVars, hwVars, count, touch, cpc, suspended>>

TimerRead ==
  /\ tpc = "read"
  /\ tpc' \in PenSeen
  /\ UNCHANGED <<lockVars, hwVars, touchVars, cpc, suspended>>

TimerDown ==
  /\ tpc = "down"
  /\ TouchSeenDown
  /\ tpc' = "idle"
  /\ UNCHANGED <<lockVars, pen, pendn, eoc, touch_timer, cpc, suspended>>

TimerUp ==
  /\ tpc = "up"
  /\ count' = 0 /\ touch' = FALSE
  /\ WAIT4INT("wait_down")
  /\ tpc' = "relock"
  /\ UNCHANGED <<lockVars, pen, conv, eoc, touch_timer, cpc, suspended>>

(* s3c_ts_adc_unlock, if the lock is still ours: first the id, then up().  *)
TimerUnlockId ==
  /\ tpc = "relock"
  /\ IF ADC_locked4TS
       THEN adc_lock_id' = FREE /\ tpc' = "unlock"
       ELSE tpc' = "idle" /\ UNCHANGED adc_lock_id
  /\ UNCHANGED <<sem, hwVars, touchVars, cpc, suspended>>

(* Mutant: up() is missing.                                                *)
TimerUnlockNoUp ==
  /\ tpc = "unlock"
  /\ tpc' = "idle"
  /\ UNCHANGED <<lockVars, hwVars, touchVars, cpc, suspended>>

TimerUnlockUp ==
  /\ tpc = "unlock"
  /\ sem' = sem + 1
  /\ tpc' = "idle"
  /\ UNCHANGED <<adc_lock_id, hwVars, touchVars, cpc, suspended>>

(***************************************************************************)
(* stylus_updown.  Without the lock it tries to take it for TS.  If that   *)
(* fails while someone is registered as holder, it releases the holder's   *)
(* lock and returns; the interrupt is lost.  With the lock and the stylus  *)
(* seen down it calls touch_timer_fire; with the stylus seen up it does    *)
(* nothing and leaves the lock to the timer.                               *)
(***************************************************************************)
UpdownLock ==
  IF ADC_locked4TS
    THEN UNCHANGED lockVars
    ELSE sem > 0 /\ sem' = sem - 1 /\ adc_lock_id' = TS

UpdownLockFailed ==
  /\ ~ADC_locked4TS /\ sem = 0
  /\ adc_lock_id' = FREE
  /\ sem' = IF adc_lock_id # FREE THEN sem + 1 ELSE sem
  /\ UNCHANGED <<tsc, conv, touch, count>>

stylus_updown ==
  /\ pendn /\ ~suspended
  /\ pendn' = FALSE
  /\ \/ UpdownLockFailed
     \/ /\ UpdownLock
        /\ IF pen = "down" THEN TouchSeenDown
                           ELSE UNCHANGED <<tsc, conv, touch, count>>
  /\ UNCHANGED <<pen, eoc, touch_timer, tpc, cpc, suspended>>

(***************************************************************************)
(* stylus_action: the end of a conversion.  Without the lock the interrupt *)
(* is dropped.  Otherwise it counts as one more sample, whoever started    *)
(* the conversion, and either the next one starts or the timer does.       *)
(***************************************************************************)
(* Mutant: the timer is not started.                                       *)
ActionWithoutTimer ==
  /\ count' = IF count > Samples THEN count ELSE count + 1
  /\ IF count + 1 < Samples
       THEN StartConversion /\ UNCHANGED <<pendn, touch_timer>>
       ELSE WAIT4INT("wait_up") /\ UNCHANGED <<conv, touch_timer>>

(* Nothing distinguishes counts above Samples, so count stops one above.   *)
ActionAccumulate ==
  /\ count' = IF count > Samples THEN count ELSE count + 1
  /\ IF count + 1 < Samples
       THEN StartConversion /\ UNCHANGED <<pendn, touch_timer>>
       ELSE touch_timer' = TRUE /\ WAIT4INT("wait_up") /\ UNCHANGED conv

stylus_action ==
  /\ eoc # "none" /\ ~suspended
  /\ eoc' = "none"
  /\ IF ADC_locked4TS
       THEN ActionAccumulate
       ELSE UNCHANGED <<count, tsc, conv, pendn, touch_timer>>
  /\ UNCHANGED <<lockVars, pen, touch, tpc, cpc, suspended>>

-----------------------------------------------------------------------------
(***************************************************************************)
(* The ADC clients, in process context: they do not run while the timer    *)
(* softirq does, but it and the interrupts run between their steps.        *)
(* acquire is down_trylock and then the id; release is the id and then     *)
(* up(), whether or not the lock still is the client's.                    *)
(***************************************************************************)
ClientGoto(c, label) == cpc' = [cpc EXCEPT ![c] = label]

X6410_adc_acquire_io(c) ==
  /\ tpc = "idle" /\ cpc[c] = "idle" /\ sem > 0
  /\ sem' = sem - 1
  /\ ClientGoto(c, "locking")
  /\ UNCHANGED <<adc_lock_id, hwVars, touchVars, tpc, suspended>>

AcquireSetId(c) ==
  /\ tpc = "idle" /\ cpc[c] = "locking"
  /\ adc_lock_id' = ADC
  /\ ClientGoto(c, "holding")
  /\ UNCHANGED <<sem, hwVars, touchVars, tpc, suspended>>

ClientConverts(c) ==
  /\ tpc = "idle" /\ cpc[c] = "holding" /\ conv = "none"
  /\ conv' = "adc"
  /\ UNCHANGED <<lockVars, pen, tsc, pendn, eoc, touchVars, tpc, cpc, suspended>>

X6410_adc_release_io(c) ==
  /\ tpc = "idle" /\ cpc[c] = "holding"
  /\ adc_lock_id' = FREE
  /\ ClientGoto(c, "unlocking")
  /\ UNCHANGED <<sem, hwVars, touchVars, tpc, suspended>>

ReleaseUp(c) ==
  /\ tpc = "idle" /\ cpc[c] = "unlocking"
  /\ sem' = sem + 1
  /\ ClientGoto(c, "idle")
  /\ UNCHANGED <<adc_lock_id, hwVars, touchVars, tpc, suspended>>

(* Suspend disables both interrupts and the clock; it neither stops the    *)
(* timer nor releases the lock.  Resume waits for the next touch.          *)
s3c_ts_suspend ==
  /\ CanSuspend /\ ~suspended /\ tpc = "idle"
  /\ suspended' = TRUE /\ conv' = "none"
  /\ UNCHANGED <<lockVars, pen, tsc, pendn, eoc, touchVars, tpc, cpc>>

s3c_ts_resume ==
  /\ suspended /\ tpc = "idle"
  /\ suspended' = FALSE
  /\ WAIT4INT("wait_down")
  /\ UNCHANGED <<lockVars, pen, conv, eoc, touchVars, tpc, cpc>>

-----------------------------------------------------------------------------
TimerStep ==
  \/ TimerFire \/ TimerRead \/ TimerDown \/ TimerUp
  \/ TimerUnlockId \/ TimerUnlockUp

ClientStep(c) ==
  \/ X6410_adc_acquire_io(c) \/ AcquireSetId(c) \/ ClientConverts(c)
  \/ X6410_adc_release_io(c) \/ ReleaseUp(c)

Next ==
  \/ PenMove \/ ConversionEnds
  \/ stylus_updown \/ stylus_action \/ TimerStep
  \/ \E c \in Clients : ClientStep(c)
  \/ s3c_ts_suspend \/ s3c_ts_resume

Spec == Init /\ [][Next]_vars

(* Interrupts, the timer and the converter always get their turn.          *)
Fairness ==
  /\ WF_vars(ConversionEnds) /\ WF_vars(stylus_updown)
  /\ WF_vars(stylus_action) /\ WF_vars(TimerStep)

FairSpec == Spec /\ Fairness

-----------------------------------------------------------------------------
Users == {c \in Clients : cpc[c] # "idle"}

TsUses == IF ADC_locked4TS \/ tpc = "unlock" THEN 1 ELSE 0

(* The lock is never lost: if nobody can take the semaphore, somebody is   *)
(* on the way to give it back, whatever the touchscreen stole meanwhile    *)
(* (s3c-ts.c:127-130, 153-164, 286-292, 306-313).                          *)
LockNotLeaked == sem = 0 => TsUses = 1 \/ Users # {}

(* Without ADC clients the lock is exact: held once by the touchscreen or  *)
(* free once.  An interrupt between the id and up() of the timer's unlock  *)
(* does not add a release.                                                 *)
LockExact == sem = 1 - TsUses

(* A reported touch ends: with the stylus lifted BTN_TOUCH goes back to 0  *)
(* (unless it comes down again), although the pen-up interrupt itself does *)
(* nothing and only the timer reports.  Stated for histories without       *)
(* suspend and ADC clients, and with a stylus that does not move while     *)
(* touch_timer_fire runs: a suspend, a client that gives back a lock that  *)
(* was stolen from it, and a fast stylus can each leave BTN_TOUCH at 1     *)
(* for good (README).                                                      *)
TouchReleased ==
  \/ <>(suspended \/ Users # {})
  \/ (touch /\ pen = "up") ~> (~touch \/ pen = "down")

(* adc_lock_id says who is using the controller (comment s3c-ts.c:109): a  *)
(* client between acquire and release is registered there.                 *)
HolderRegistered == \A c \in Clients : cpc[c] = "holding" => adc_lock_id = ADC
=============================================================================
