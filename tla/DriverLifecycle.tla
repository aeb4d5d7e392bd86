--------------------------- MODULE DriverLifecycle ---------------------------
(***************************************************************************)
(* Load and unload of every driver and kernel module of the repository,    *)
(* run step by step.  Each call that can fail may fail; interrupts of a    *)
(* line that is requested and the work they started may run between any    *)
(* two steps, and still after the module is gone.  A module may be loaded  *)
(* again on top of what its earlier lives left behind.                     *)
(*                                                                         *)
(* Init picks the driver; nothing changes it.  One core, so del_timer and  *)
(* free_irq never meet a running handler.                                  *)
(***************************************************************************)
EXTENDS DriverScripts, LabScripts, TLC

CONSTANT DriversUnderTest   \* names of BoardDrivers and LabModules

Scripts == BoardDrivers @@ LabModules

ASSUME DriversAssumption == DriversUnderTest \subseteq DOMAIN Scripts

VARIABLES
  driver,   \* the driver under test
  phase,    \* "out", "load", "in" or "unload"
  todo,     \* steps of the running init, error path or exit still to do
  held,     \* what the kernel has given to the driver and not got back
  pending,  \* timers, work and threads on their way to call the driver
  failed,   \* calls of this life that failed
  freed,    \* what this life has given back
  stray,    \* what it gave back without having it
  before,   \* what earlier lives left behind
  outcome,  \* how the last life ended: "none", "failed", "unloaded"
  oops      \* "none", "null" (used what it does not have), "freed" (called
            \* after the module was gone)

lifeVars == <<held, pending, failed, freed, stray>>
driverVars == <<driver, phase, todo, held, pending, failed, freed, stray, before,
                outcome, oops>>

Script  == Scripts[driver]
Handler == Script.handler

(* Only one owner at a time; memory and objects can be taken again.        *)
Exclusive == {"region", "irq1", "irq2", "major", "chrdev", "devno", "fstype"}

Statics == {"irq_pd", "work_init", "sets"}   \* not the kernel's: static data

LifeInit ==
  /\ driver \in DriversUnderTest
  /\ phase = "out" /\ todo = <<>> /\ outcome = "none" /\ oops = "none"
  /\ held = {} /\ pending = {} /\ failed = {} /\ freed = {} /\ stray = {}
  /\ before = {}

Start(ph, script) ==
  /\ phase' = ph /\ todo' = script
  /\ UNCHANGED <<driver, held, pending, oops>>

Load ==
  /\ phase = "out"
  /\ Start("load", Script.load)
  /\ before' = held \cup pending
  /\ failed' = {} /\ freed' = {} /\ stray' = {} /\ outcome' = "none"

Unload ==
  /\ phase = "in"
  /\ Start("unload", Script.unload)
  /\ UNCHANGED <<failed, freed, stray, before, outcome>>

-----------------------------------------------------------------------------
(* One step of the running function.                                       *)
Running(op) == phase \in {"load", "unload"} /\ todo # <<>> /\ Head(todo).op = op
Now   == CHOOSE r \in Head(todo).on : TRUE     \* steps with one operand
Resume == todo' = Tail(todo)
Branch(l) == IF l = "" THEN Resume ELSE todo' = Script.unwind[l]
Same  == UNCHANGED <<driver, phase, before, outcome>>

Acquire ==
  /\ Running("get")
  /\ ~(Now \in Exclusive /\ {Now, Off(Now)} \cap held # {})
  /\ held' = held \cup {Now}
  /\ Resume
  /\ Same /\ UNCHANGED <<pending, failed, freed, stray, oops>>

AcquireFails ==
  /\ Running("get")
  /\ failed' = failed \cup {Now}
  /\ Branch(Head(todo).to)
  /\ Same /\ UNCHANGED <<held, pending, freed, stray, oops>>

CheckOne ==
  /\ Running("check")
  /\ \/ Resume
     \/ Branch(Head(todo).to)
  /\ Same /\ UNCHANGED <<lifeVars, oops>>

CheckNone ==
  /\ Running("none")
  /\ IF Head(todo).on \subseteq failed THEN Branch(Head(todo).to) ELSE Resume
  /\ Same /\ UNCHANGED <<lifeVars, oops>>

DoIt ==
  /\ Running("do")
  /\ held' = held \cup {Now}
  /\ Resume
  /\ Same /\ UNCHANGED <<pending, failed, freed, stray, oops>>

UseIt ==
  /\ Running("use")
  /\ oops' = IF Now \in held THEN oops ELSE "null"
  /\ Resume
  /\ Same /\ UNCHANGED lifeVars

Release(R) ==
  /\ held' = held \ R
  /\ freed' = freed \cup (R \cap held)
  /\ stray' = stray \cup (R \ held)
  /\ Resume
  /\ Same /\ UNCHANGED <<pending, failed, oops>>

GiveBack  == Running("put") /\ Release(Head(todo).on)

(* kfree and the like: a NULL pointer, that is, something this life never  *)
(* had, is no mistake.                                                     *)
FreeIt == Running("free") /\ Release(Head(todo).on \cap (held \cup freed))

FreeOne == Running("oneof") /\ \E r \in Head(todo).on : Release({r} \cap (held \cup freed))

ArmIt ==
  /\ Running("arm") \/ Running("tryarm")
  /\ pending' = pending \cup {Now}
  /\ Resume
  /\ Same /\ UNCHANGED <<held, failed, freed, stray, oops>>

ArmFails ==
  /\ Running("tryarm")
  /\ failed' = failed \cup {Now}
  /\ Resume
  /\ Same /\ UNCHANGED <<held, pending, freed, stray, oops>>

CancelIt ==
  /\ Running("cancel")
  /\ pending' = pending \ {Now}
  /\ Resume
  /\ Same /\ UNCHANGED <<held, failed, freed, stray, oops>>

MaskIt ==
  /\ Running("mask")
  /\ held' = IF Now \in held THEN (held \ {Now}) \cup {Off(Now)} ELSE held
  /\ Resume
  /\ Same /\ UNCHANGED <<pending, failed, freed, stray, oops>>

(* The function returns: an init that returns 0 leaves the module loaded,  *)
(* anything else leaves it out, and its variables with it.                 *)
Finish ==
  /\ Running("end")
  /\ todo' = <<>>
  /\ phase' = IF phase = "load" THEN Head(todo).to ELSE "out"
  /\ outcome' = CASE phase = "unload" -> "unloaded"
                  [] phase = "load" /\ Head(todo).to = "out" -> "failed"
                  [] OTHER -> "none"
  /\ held' = IF phase' = "out" THEN held \ Statics ELSE held
  /\ UNCHANGED <<driver, pending, failed, freed, stray, before, oops>>

-----------------------------------------------------------------------------
Gone(r) == phase = "out" \/ r \in before

(* An interrupt on a requested, enabled line; or a thread's turn.          *)
Interrupt ==
  \E l \in Handler.lines \cap held :
    /\ oops' = IF Gone(l) THEN "freed"
               ELSE IF Handler.needs \subseteq held THEN oops ELSE "null"
    /\ IF oops' = "none"
         THEN /\ held' = held \cup Handler.gives
              /\ pending' = pending \cup Handler.arms
         ELSE UNCHANGED <<held, pending>>
    /\ UNCHANGED <<driver, phase, todo, failed, freed, stray, before, outcome>>

(* A timer expires, a work item or a thread runs.                          *)
Deferred ==
  \E w \in pending :
    /\ oops' = IF Gone(w) THEN "freed"
               ELSE IF Handler.workNeeds \subseteq held THEN oops ELSE "null"
    /\ pending' = IF w \in Handler.rearms THEN pending ELSE pending \ {w}
    /\ UNCHANGED <<driver, phase, todo, held, failed, freed, stray, before, outcome>>

-----------------------------------------------------------------------------
LifeNext ==
  /\ oops = "none"
  /\ \/ Load \/ Unload
     \/ Acquire \/ AcquireFails \/ CheckOne \/ CheckNone \/ DoIt \/ UseIt
     \/ GiveBack \/ FreeIt \/ FreeOne \/ ArmIt \/ ArmFails \/ CancelIt \/ MaskIt
     \/ Finish
     \/ Interrupt \/ Deferred

LifeSpec == LifeInit /\ [][LifeNext]_driverVars

-----------------------------------------------------------------------------
(* What is known to stay behind, with the call that is missing.            *)
LeftByFailure ==
  [d \in DriversUnderTest |->
    CASE d = "buttons_input" -> {"evdev", "input", "timer"}  \* lines: return -EBUSY
      [] d = "s3c_ts"  -> {"irq1", "irq2", "timer", "ts"}  \* err_irq frees no
                                                \* line, err_alloc not ts
      [] d = "sdhci"   -> {"map", "region"}     \* no iounmap; ioremap's failure
      [] d = "nand"    -> {"clk", "region", "map"}     \* exit_error: kfree only
      [] d = "lab25_4" -> {"lp_wq"}             \* thread failed, queue stays
      [] d = "lab27_1" -> {"thread1", "thread2"}
      [] d = "lab30"   -> {"camel1"}
      [] d = "lab42"   -> {"ext4"}              \* no put_filesystem
      [] d = "lab51_2" -> {"kset"}              \* foo_error: no kset_unregister
      [] OTHER         -> {}]

LeftByUnload ==
  [d \in DriversUnderTest |->
    CASE d = "key_tasklet" -> {"tasklet"}       \* no tasklet_kill
      [] d = "key_delayed" -> {"dwork"}         \* no cancel_delayed_work
      [] d = "key_queue"   -> {"dwork"}
      [] d = "lcd"         -> {"clk"}           \* no clk_disable, clk_put
      [] d = "s3c_ts"      -> {"irq1 off", "irq2 off", "region", "ts", "timer"}
      [] d = "sdhci"       -> AskedFor(SdhciProbe)        \* remove is empty
      [] d = "nand"        -> AskedFor(NandProbe)
      [] d = "lab22_pool"  -> {"bufs"}
      [] d = "lab25"       -> {"tasklet"}
      [] d = "lab25_5"     -> {"work"}          \* no flush_scheduled_work
      [] d \in {"lab29", "lab34"} -> {"thread1", "thread2"}
      [] d = "lab30"       -> {"camel1", "camel2"}
      [] d = "lab38"       -> {"my_timer"}      \* 200 ms, never deleted
      [] d = "lab42"       -> {"ext4"}
      [] d = "lab43"       -> {"cdev mem"}
      [] d = "lab45_1"     -> {"queue", "disk1"}
      [] OTHER             -> {}]

GivenBackTwice ==
  [d \in DriversUnderTest |->
    CASE d \in {"buttons_input", "usbmouse"} -> {"input"}  \* after unregister
      [] d = "s3c_ts"  -> {"line of ts->dev"}
      [] d = "lab45_1" -> {"disk0"}
      [] OTHER         -> {}]

(* A load that fails gives back everything it took, and stops what it      *)
(* started, except for the named gaps of nine error paths.                 *)
FailedLoadLeavesNothingElse ==
  phase = "out" /\ outcome = "failed" =>
    (held \cup pending) \ before \subseteq LeftByFailure[driver]

(* Unload gives back everything load took and leaves nothing that could    *)
(* call into the freed module, except for the named gaps.                  *)
UnloadLeavesNothingElse ==
  phase = "out" /\ outcome = "unloaded" =>
    (held \cup pending) \ before \subseteq LeftByUnload[driver]

(* Nothing is given back that the driver does not have, unless the call    *)
(* that should have got it failed and its result was ignored, and except   *)
(* for four named double releases.                                         *)
ReleasesMatchAcquisitions == stray \subseteq failed \cup GivenBackTwice[driver]

(* Drivers whose load tests every call and starts nothing before its       *)
(* ground is laid.                                                         *)
CheckedDrivers ==
  DriversUnderTest \cap
    {"led_ioctl", "bus", "bus_device", "bus_driver", "key_timer", "lab22_cache",
     "lab24", "lab25", "lab25_4", "lab25_5", "lab25_6", "lab27_1", "lab29", "lab30",
     "lab34", "lab44", "lab46", "lab51_1", "lab51_2", "lab55", "lab57_10",
     "samplefs", "ingbenfs"}

(* In those a failing call never leads to a NULL dereference; in the       *)
(* others it takes a failed call, or an interrupt before the work, the     *)
(* queue or irq_pd is there (buttons_input, key_delayed, key_queue), or    *)
(* one that finds ts freed (s3c_ts).                                       *)
NullOnlyWhereUnchecked ==
  oops = "null" =>
    /\ driver \notin CheckedDrivers
    /\ failed # {} \/ driver \in {"buttons_input", "key_delayed", "key_queue"}

=============================================================================
