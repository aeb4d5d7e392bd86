----------------------------- MODULE DriverSteps -----------------------------
(***************************************************************************)
(* The vocabulary in which DriverScripts and LabScripts write down the     *)
(* load and unload functions of the drivers: a function is the sequence of *)
(* the calls it makes that take or give back something of the kernel's, in *)
(* the order of the source.  DriverLifecycle executes the sequences.       *)
(***************************************************************************)
EXTENDS Sequences, FiniteSets

Step(op, on, to) == [op |-> op, on |-> on, to |-> to]

Get(r)       == Step("get", {r}, "")      \* may fail; the result is not tested
GetOr(r, l)  == Step("get", {r}, l)       \* may fail; the code then goes to l
CheckOr(l)   == Step("check", {}, l)      \* a test that takes nothing
NoneOr(R, l) == Step("none", R, l)        \* go to l if nothing of R was got
Do(r)        == Step("do", {r}, "")       \* cannot fail
Use(r)       == Step("use", {r}, "")      \* dereferences it
Put(r)       == Step("put", {r}, "")      \* give back, whatever was got
PutAll(R)    == Step("put", R, "")        \* one call that gives back all of R
Free(r)      == Step("free", {r}, "")     \* give back; nothing if NULL
FreeOneOf(R) == Step("oneof", R, "")      \* a pointer that may be any of R
Arm(w)       == Step("arm", {w}, "")      \* start a timer, thread or work item
TryArm(w)    == Step("tryarm", {w}, "")   \* the same, and it may fail
Cancel(w)    == Step("cancel", {w}, "")   \* stop it, or wait until it is done
Mask(l)      == Step("mask", {l}, "")     \* disable_irq
Ok           == Step("end", {}, "in")     \* return 0
Fail         == Step("end", {}, "out")    \* return an error

GoingOn == [out |-> <<Fail>>]             \* "return err" at the failing call

(* What interrupts do: a handled line needs some things to exist, sets     *)
(* some statics and arms some work; the work needs things too and may      *)
(* rearm itself.  A kernel thread that schedules work counts as a line.    *)
OnLine(lines, needs, arms) ==
  [lines |-> lines, needs |-> needs, arms |-> arms, gives |-> {},
   workNeeds |-> {}, rearms |-> {}]
Quiet == OnLine({}, {}, {})

Driver(load, unwind, unload, handler) ==
  [load |-> load, unwind |-> unwind, unload |-> unload, handler |-> handler]

(* A disabled line, still requested.                                       *)
Off(l) == CASE l = "irq1" -> "irq1 off" [] l = "irq2" -> "irq2 off" [] OTHER -> l

(* Everything a load function asks for.                                    *)
AskedFor(script) ==
  UNION {script[i].on : i \in {j \in DOMAIN script : script[j].op \in {"get", "do"}}}
=============================================================================
