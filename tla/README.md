# OK210_drivers: TLA+ models, checks and proofs

The repository is a collection of Linux drivers for the Forlinx OK210 board
(Samsung S5PV210, one core) and of kernel and system programming labs. It is
not one program: each directory is a module or a server of its own, and the
interesting part of each is how a few dozen lines of C behave when interrupts,
timers, signals, several processes or several threads meet in them. That is
what the models here are about.

Contents: 1 inventory, 2 modules, 3 what is checked, 4 what is proved,
5 what the checks found, 6 assumptions and bounds, 7 not modelled, 8 plan.

## 1. Inventory

### Key drivers: `5_advanced_driver_method/`

Four drivers for the eight keys of the board, each an extension of the last.

| driver | state | operations | hard part |
|---|---|---|---|
| `1_wait_queue/irq_key.c` | `key_val`, `ev_press`, `button_waitq`, one interrupt line per key | open, close, read, `key_interrupt`, load, unload | wakeup against going to sleep; open() that fails half way; lines shared by all opens; signals |
| `2_poll/poll_key.c` | the same | and `irq_key_poll` | the event arriving between the test of `ev_press` and the poll loop sleeping |
| `3_fasync/fasync_key.c` | and `button_fasync` | and `irq_key_fasync` | SIGIO announcing an event that is gone by the time it is delivered |
| `4_timer/timer_key.c` | and `irq_pd`, `buttons_timer` | the interrupt arms a 10 ms timer, the timer function publishes | one timer and one pointer for all keys; close and unload with the timer pending |

A process interacts with a driver through its file operations, the hardware
through the interrupt, the two meet in `key_val`, `ev_press` and the wait
queue. Correct means: no event is slept through; what read() returns is a key
action and is returned once; every registered line has a process that will
free it and nothing can call the module after it was unloaded; a failing open()
leaves no trace.

### Touchscreen and ADC lock: `6_input_driver/2_touch_screen_drivers/s3c-ts.c`

One analogue-digital converter serves the touchscreen and, through the
exported `X6410_adc_acquire_io` / `X6410_adc_release_io`, an ADC driver. State:
the semaphore `ADC_LOCK` and `adc_lock_id`, the controller's mode register, the
count of samples, `touch_timer`, the last reported `BTN_TOUCH`. Handlers:
`stylus_updown` (pen moved), `stylus_action` (conversion done), the softirq
`touch_timer_fire`, suspend, resume, and the two exported calls. The handlers
interrupt the softirq and processes, the softirq interrupts processes, and the
stylus bounces. Correct means: the converter has one user at a time, the lock
is never lost or doubled, a reported touch ends.

### Other key and input drivers

`6_input_driver/1_button_input/buttons_input.c` (the timer driver's scheme with
input events instead of a file), `8_USB_driver/usbmouse_as_key.c` (a cycle of
urbs, disconnect), `3_key/*` (bottom halves: tasklet, work queue, delayed work,
timer), and the simple drivers of keys, LEDs, the LED bus and the LCD. Hard part:
an interrupt can come as soon as its line is requested, and what it started runs
later. Correct means: what an interrupt uses exists before the line is requested;
nothing scheduled survives unload; a load that fails gives everything back.

### Servers: `linux_kernel/lab53/`

Five servers with the same tables (`isopen`, `cd`, `nopen`, limit `ncons`) and
the same helpers (`lab_server.h`): by threads, by fork, by select, by poll, by
epoll; and a client. Hard part: the tables have no lock (threads), a signal
handler changes them (fork), three tables are indexed by descriptor or by slot
(event loops). Correct means: a slot and a descriptor belong to one connection;
the limit holds; the server does not wait for one client while others have sent;
children are reaped; who may be let in is let in.

### Storage and buffers

| part | state | operations | hard part |
|---|---|---|---|
| `9_nand_driver/s3c_nand.c` | layout chosen at probe, the ECC engine's mode and lock | identify, read and write a page, read and write the spare area | four code strengths, the code of the spare area, two ways to write it, pages never written |
| `10_MMC_driver/sdhci-s3c.c` | `cur_clk`, `max_clk`, the source selected in CONTROL2 | `set_clock`, `set_ios`, the core's reset and divider | unsigned differences; registers a reset forgets and the driver remembers |
| `linux_kernel/lab9/lab9.c` (tdd) | `qhead`, `qtail`, the buffers, two busy flags | open, write, read, release on two minors | a list without a lock |
| `linux_kernel/lab46/lab46.c` | a block device in RAM | load, unload, transfer | error path of load |

### The rest

`linux_kernel/lab*` (threads, timers, work queues, memory, objects, proc and
character devices), toy file systems, board tables. Nearly all their behaviour
is in load and unload. `PROJECT.json` lists every part with its status.

## 2. Modules

| module | models | uses |
|---|---|---|
| `IrqKey`, `MCIrqKey` | irq_key.c; symmetry set for TLC | |
| `FasyncKey` | fasync_key.c, poll_key.c and their programs | extends `IrqKey`, implements it |
| `TimerKey` | timer_key.c | extends `FasyncKey` |
| `S3cTs` | s3c-ts.c | |
| `PthreadServer` | lab53_server_pthread.c, lab_server.h, the client | |
| `ConnectionPool` | what a server promises (abstract) | |
| `EventServer` | the select, poll and epoll servers | implements `ConnectionPool` |
| `ForkServer`, `MCForkServer` | lab53_server_fork.c; the builds for TLC | implements `ConnectionPool` |
| `MessageFifo` | what a message device promises (abstract) | |
| `TddDevice`, `MCTddDevice` | lab9.c; symmetry set | implements `MessageFifo` |
| `S3cNand` | the ECC path and identification of s3c_nand.c | |
| `SdhciS3c` | clock and width of sdhci-s3c.c, the core's divider and reset | |
| `DriverSteps` | the vocabulary of load and unload scripts | |
| `DriverScripts`, `LabScripts` | the scripts of 19 board drivers and of 30 lab modules and mounts | `DriverSteps` |
| `DriverLifecycle` | the machine that runs the scripts | the two script modules |
| `DriverDiscipline`, `MCDriverLifecycle` | what a driver's scripts have to keep to; the drivers for TLC | extends `DriverLifecycle` |
| `KeyDriverProofs` | theorems about the four key drivers | `TimerKey`, and so `FasyncKey`, `IrqKey` |
| `PthreadServerProofs`, `ForkServerProofs`, `EventServerProofs`, `TddDeviceProofs` | theorems | the module they are named after |
| `DriverProofs` | theorems about the ADC lock and about load and unload | `S3cTs`, `DriverDiscipline` |
| `StorageProofs` | theorems about the NAND driver and the SD card clock | `S3cNand`, `SdhciS3c` |
| `SetLemmas` | least and greatest elements of finite sets, images | the proofs that need them |

**IrqKey.** `Procs` are the processes, `Keys` the entries of `button_irqs`,
`Signallers` the processes that may get a signal. `pc[p]` says where process p
is; a label is placed wherever the interrupt handler or another process can get
in between and matter. open() is a step per `request_irq` (`OpenRequestIrq`),
which fails on a line this driver holds and may fail on any other, the test of
the last `err` (`OpenDone`), and two steps per line of the error path,
`disable_irq` (`OpenUnwind`) and `free_irq` (`UnwindFreeIrq`). Load ignores the
results of `register_chrdev` and `class_create`; `made` remembers what they
really made, since without a device nothing can be opened and without a class
rmmod oopses and the module stays. `refused` is a history variable: the lines an
open() did not get.
`wait_event_interruptible` is unfolded as its macro expands:
test, enqueue, test again, leave on a signal, schedule (`ReadTest`,
`ReadPrepareToWait`, `ReadRecheck`, `ReadWoken`), then `ReadCopyToUser` and
`ReadClear` (`ev_press = 0`). `key_interrupt` publishes and empties the wait
queue in one step. `unread` is a history variable: a published event that no
copy_to_user has taken.

**FasyncKey** adds the queue entry of poll, SIGIO and the programs: poll_test.c
reads after POLLIN only, fasync_test.c reads from its SIGIO handler only. Each
action of `IrqKey` is used as it is, conjoined with what fasync and poll add.

**TimerKey** replaces `key_interrupt` by `TimerInterrupt` and
`buttons_timer_function`; the file operations are those of `FasyncKey`. All keys
share one `irq_pd` and one timer, as in the code. `owed` and `overtaken` are
history variables: keys whose interrupt was taken and not yet published, and
those of them that another key has interrupted since.

**S3cTs.** Interrupt handlers are single actions; `touch_timer_fire` runs with
interrupts on and is six steps; clients and suspend do not run while the softirq
does. `stylus_updown` calls the body of `touch_timer_fire` too
(`TouchSeenDown`). Giving the lock back is two steps, `adc_lock_id = 0` and
`up()`, as in the code.

**PthreadServer.** The main thread reads `nopen` and then `isopen` one slot at a
time; each connection's thread is named by its client; `fdtable` is the
descriptor table, because descriptor numbers are reused, lowest first.
`terminate_client` is three steps: slot, count (lock), close (unlock).

**ConnectionPool, EventServer, ForkServer.** The abstract pool serves at most
`Limit` clients, answers a served client once per request and lets go of one only
after it left and nothing it asked is open. `EventServer` picks one of three
servers at the start; its loop is one thread, so `wait`, `accept`, `serve` and
`recv` are separate steps with clients in between, and `recv` on a descriptor
with nothing to receive is a step that is not enabled: the server hangs there.
The epoll server's result array and slot table are one array, as in the code.
poll's `cd[]` comes from malloc() and slot 0 has no descriptor: `get_max_fd`
may set `fdmax` from `Junk`, and poll() then fails and the server exits.

`ForkServer` lets the SIGCHLD handler begin between any two steps of main(),
between load and store of `nopen++` too on builds that have them (`oneStep`
FALSE), and between fork() and the store into `pid[ci]` (`Publish`); `pid[]`
starts as zeros or as anything, because the code mallocs it. The handler goes
slot by slot (`HandlerSlot`), and children end in between: one that ends after
the loop has passed its slot can be taken for the child of a later slot whose
pid is still 0. main() waits for the handler; the call of `cleanupkids` by main()
itself (`Reap`) is interrupted like everything else. `robbed` is a history
variable: a child was once taken for another slot's.

**S3cNand.** One page of two sectors with every chip probe knows. The contents
are symbols; a code is the sequence of what the engine was fed while it was not
locked, so a code computed over the wrong bytes, or with the engine in the wrong
mode, is not the code of the sector. Programming only clears bits. Flips are
counted for each sector, code and the spare area, which decides what the engine
does: repair, report, or (beyond its strength) anything. `behind` says whether
correct_data changed a byte behind the caller's buffer: the MLC engine also
locates errors in the stored code, and the driver XORs there too.

**SdhciS3c.** `ConsiderClock` and `BestSource` are the arithmetic of
`sdhci_s3c_consider_clock` modulo `Word`; `SetClock`, `SetIos` are the driver's
callbacks, `CoreDivides` and `Reset` what the core in the kernel does.

**TddDevice.** Each access to `qhead`, `qtail` or a link is a step of its own;
`qhead = qhead->link` is a load (`ReadLink`) and a store (`ReadAdvance`), and the
test of `qhead` in tdd_read comes before the load (`ReadTake`). tdd_write and
tdd_read do not ask which minor a file was opened by, and neither does the
model. `clash` records that two processes met in one of four windows (section
5); afterwards the list may be anything and the model stops.

**DriverLifecycle.** A script is the sequence of the calls that take or give back
something, in source order: `Get` (its result is ignored), `GetOr` (failure goes
to a label of the error path), `Use` (dereferences what an earlier call
returned), `Arm`, `Cancel`, `Put`, `Free` and so on. The machine runs the script
of one driver: each call succeeds or fails, interrupts and deferred work run
between any two steps, and the module may be loaded again on top of what an
earlier life left. `held` is what the driver has, `stray` what it gave back
without having it, `oops` that NULL or freed memory was used.

**DriverDiscipline.** What one looks for when one reads such functions instead of
running them, said of the scripts alone. `LeavesNothingElse`: wherever load goes to
a label, the error path there gives back all that load has taken by then, unload
gives back all that load takes, and what an interrupt sets or starts goes after the
last line has gone. `PutsWhatItGot`: a script gives each thing back once, and only
what was asked for before. `UsesWhatItGot`: what a step dereferences, and what the
lines and timers it takes need, was got before and is given back only after those
lines and timers. Each is exact up to the same named gaps as the invariants. The
discipline looks at each step and each label once; the machine runs them with any
call failing, any number of interrupts in between and any number of lives.

Definitions commented as a mistake or a slip are deliberately wrong variants of
the definition that follows them. They are no part of any specification: each
stands for a plausible error, and putting it in place of the right one makes one
property fail. They show what the properties are able to notice.

## 3. What is checked

| run | instance | properties |
|---|---|---|
| `IrqKey_many` | 2 processes with signals, 2 keys, symmetric | `TypeOK`, `NoLostWakeup`, `HandlerOwned`, `UnloadSafe`, `RegisteredLineEnabled` |
| `FasyncKey_one` | 1 program, 2 keys, fair | `ReadReturnsKeyAction`, `OpenJudgedByLastLine`, `NoLostPollWakeup`, `ReaderServed`, `SigioServed`, `ImplementsIrqKey` |
| `TimerKey_one` | 1 program with signals, 2 keys, fair | `NothingCallsUnloadedModule`, `KeyPublishedUnlessOvertaken`, `TimerReaderServed` |
| `S3cTs` | 1 ADC client, 2 samples, suspend, bouncing stylus, fair | `LockNotLeaked`, `TouchReleased` |
| `PthreadServer` | 3 clients, 2 slots, fair | `SlotInTable`, `SlotsNotShared`, `QueuedAccepted` |
| `EventServer` | 3 servers, 3 clients, 2 slots, fair | `SlotFollowsDescriptor`, `NeverBlocksInRecv`, `RequestAnswered`, `ImplementsPool` |
| `ForkServer` | 2 clients, 3 slots, 4 pids, 2 opposite builds, fair | `CountCoversSlots`, `SlotOutlivesItsChild`, `RoomIsMade`, `ImplementsPool` |
| `TddDevice` | 3 processes, 3 buffers, 2 messages, symmetric | `QueueIsSound`, `ImplementsFifo` |
| `S3cNand` | every chip, 2 sectors, 2 programs and 2 hits between erasures | `CleanReadIsTrue`, `FewFlipsRepaired`, `FreeBytesRepaired`, `CodesWhereReadLooks` |
| `SdhciS3c` | every table of four clocks with rates 48, 400, 1024, 2600 or none; words of 12 bits | `NearestSource`, `CardNotTooFast` |
| `DriverLifecycle` | 49 scripts | `FailedLoadLeavesNothingElse`, `UnloadLeavesNothingElse`, `ReleasesMatchAcquisitions`, `NullOnlyWhereUnchecked`, `KeepsDiscipline` |
| `FasyncKey_pollmiss` | 1 program, 1 key | `PollReportsUnread`, violated: section 5 |

What the less obvious properties say:

* `ImplementsIrqKey`: the driver with poll and fasync is still the blocking
  driver; with the poll states read as "open", each of its steps is a step of
  `IrqKey` or leaves it alone. `TimerKey` does not refine it: a key event is
  published later than its interrupt and may be merged with others.
* `OpenJudgedByLastLine`: the error of each request overwrites the one before, so
  open() may succeed without its first keys. What it does guarantee is its last
  line, and, to a process alone with the device, every line it was not refused.
* `KeyPublishedUnlessOvertaken`: an interrupt that was taken stays on its way to be
  published, with the timer pending and `irq_pd` on its key, however lines bounce
  and files are closed, until another key takes both over. In that case the key
  is lost, which is what the code does (section 5).
* `TouchReleased`: a reported touch ends once the stylus is up. It is stated for
  histories without suspend and ADC clients, and with a stylus that does not move
  during the microseconds of `touch_timer_fire`. All three restrictions are
  needed. (a) A client that gives back a lock the touchscreen had stolen from it
  clears `adc_lock_id` under the touchscreen's own conversion: the sample is
  dropped and no timer is pending. (b) Suspend stops a conversion with the lock
  held and the touch reported; after resume nothing is pending that would end
  either. (c) The softirq has re-enabled the pen interrupt but not yet given the
  lock back; the stylus comes down, the interrupt finds the lock held and starts
  converting; the softirq then releases the lock and the samples are dropped.
* `SlotOutlivesItsChild`: the handler gives back a slot whose own child has ended.
  The exception is exact: a slot of the window that was never used (`pid` 0), and
  an earlier slot whose child ended after the handler had looked there. Afterwards
  slots and children differ and no more is asked (`robbed`).
* `RoomIsMade`: a server that is full by its count either serves `ncons` running
  children or soon is no longer full, although signals are merged and one may
  come before the pid is stored. It holds where `nopen++` is one instruction and
  until a child was taken for another's, whose slot then waits for ever.
* `ImplementsPool` of the forking server holds on every build and after any such
  mistake; the one step `ConnectionPool` does not have is `ConnectionCut`: the
  handler closes the connection main() has just accepted, before fork().
* `RequestAnswered`: under select and poll; a poll server that has exited because
  `fdmax` was set from uninitialised memory owes nobody an answer.
* `CountCoversSlots`, `SlotInTable`: the scan for a slot has no end of its own;
  it stops inside the table because the count is never short of the slots.
* `CardNotTooFast`: with the divider the core computes from `max_clk` the card
  is not clocked above the rate asked for, although `max_clk` may be the rate of
  another source than the one used.
* `FailedLoadLeavesNothingElse`, `UnloadLeavesNothingElse`,
  `ReleasesMatchAcquisitions`: exact up to named gaps (`LeftByFailure`,
  `LeftByUnload`, `GivenBackTwice`, section 5); for the other drivers the gap is
  empty. `NullOnlyWhereUnchecked` names the drivers whose every call is tested:
  none of those ever uses what it did not get.
* `KeepsDiscipline`: the scripts of the driver keep to `DriverDiscipline`. It is a
  predicate of the tables; TLC evaluates it for each of the 49, and the theorems
  of section 4 take it as their only hypothesis.

Two statements hold for one process only and are checked for one:
`ReadReturnsKeyAction` (a second reader can be woken by the same event) and
the second half of `OpenJudgedByLastLine` (a second open steals the lines; the
first half is checked, and both are proved, for any number).

### Bounds

Two processes are enough for every two-party interleaving of open, close and
read. Two keys are the least that makes a loop over the table, a failure before
its end and a mixture of lines possible. The statics hold one event whatever the
number of keys. Two samples make a round have a first and a last conversion.
Counts above `Samples` behave alike, so `count` stops one above (the only counter
that is capped). Three clients and two slots have the limit reached, a slot
reused and a client waiting at once; clients of the newer servers come again, so
two of them already do that for `ForkServer`. Its three slots are the least with
which a child can be taken for that of a later slot while a third one runs, and
four pids let a number be remembered by a slot while other children run. The two
builds differ in both choices; the other two combinations are covered by the
proofs. The timer driver has two keys because they share one timer and one
`irq_pd`. Three buffers give the list a first, a middle and a last; three
processes a writer and two readers. The rates of `SdhciS3c` are spread so that each source can be best, out of reach, or
attained by several dividers, and `Word` is large against them as 2^32 is against
real clocks (`WordAssumption`). `MaxPrograms` and `MaxHits` bound what happens to
a page between two erasures: both orders of page and spare area, and flips in two
places, of strength 1, the engine's, and one more. What the bounds could hide is
what the theorems of section 4 are about, where there are any. The largest runs
are `ForkServer` (1.7 million states, a minute and a half), `TddDevice` (1.4
million, with symmetry, almost three minutes) and `IrqKey_many` (1.2 million).

### Fairness

Weak fairness for what the hardware and the scheduler run: a pending enabled
interrupt is taken, a process that can run inside the driver runs, the converter
finishes, an expired timer fires, a thread or a server loop that can run does, a
pending signal is delivered and its handler goes on. The children of the forking
server may be slow for ever. For the timer driver this says that a bouncing key
is quiet for 10 ms at some point, otherwise `mod_timer` pushes the timer back for
ever. Nothing is assumed of users: no process has to open, close
or read, no key has to move, no client to ask or leave. The threaded server's
lock needs no strong fairness, since each thread takes it once. `S3cNand`,
`SdhciS3c`, `TddDevice` and `DriverLifecycle` state no fairness; they have safety
properties only.

Deadlock is checked except where the system really stops: `TimerKey` and
`DriverLifecycle` (an oops ends it), `PthreadServer` (all clients have left and
accept() waits), `EventServer` (the poll server may exit) and `TddDevice` (a
clash).

## 4. What is proved

Checked by TLAPS, for every value of the constants.

### Key drivers: `KeyDriverProofs`

For any processes, any number of keys, any failing requests and any signals. Of
the blocking driver:

* `TypeCorrect`: `TypeOK`, which includes that the loop counters of open() and
  close() stay within one of the table.
* `NoWakeupLost`: `NoLostWakeup`, inductive together with the types. It speaks
  of a process that sleeps while on the queue: `ReadRecheck` goes to sleep only
  after it has tested `ev_press` a second time, and a publication sets
  `ev_press` and empties the queue in one step.
* `LinesAreOwned`, `UnloadIsSafe`: `HandlerOwned` says that each registered line
  has a process that still has to free it: one that has requested it, has the
  file open, or whose freeing loop has not passed it. `LineInv` is that
  (`LinesHaveUser`), the types and `LoadedWhileUsed` (the module is loaded while
  a process is inside the driver). Unload needs every process outside, so then
  no line is registered. That a step of open() or close() leaves each line its
  user (`OpenCloseKeepsUser`) is shown once and used for the timer driver too.
* `RegisteredLinesEnabled`: inductive with the types. Whoever masks a registered
  line stands right before freeing it and stays there until it has
  (`StillFreeing`); a request enables what it gets.
* `SoleReaderGetsKeyActions`, under `SoleReader` (one process, no signals):
  `ReaderInv` adds that no signal is pending and that an event flagged in
  `ev_press` is unread except between copy and clear.
* `OnlyLastRequestJudged`: `OpenJudgedByLastLine`. A refused last line is
  remembered in `err` until it is looked at (`LastRefusalSeen`). For a process
  alone with the device `Wired(p)` follows the loops: the prefix open() has
  requested less what it was refused, the part the error path or close() still
  has to free.

Of the driver with poll and fasync:

* `NoPollWakeupLost`: `NoLostPollWakeup`, inductive with the range of `pc` and
  of `ev_press`. irq_key_poll queues the poller before it tests `ev_press`, and
  the publication both sets it and wakes the queue.
* `FasyncImplementsIrqKey`: `ImplementsIrqKey`. One lemma for each group of
  actions shows the step, seen through `MappedPc`, to be a step of `IrqKey` or a
  stutter; polling is invisible, a read from the SIGIO handler is a read.

Of the timer driver:

* `TimerUnloadIsSafe`: `NothingCallsUnloadedModule`. `TimerInv` is `LineInv`
  with the ranges the timer driver keeps, and that the timer is pending only
  while the module is loaded; unload deletes it, and no interrupt can arm it
  again because no line is registered then.
* `KeysPublished`: `KeyPublishedUnlessOvertaken`, for any number of keys. Each
  step either leaves `irq_pd`, the timer and the history alone, or publishes the
  key of `irq_pd`, or is an interrupt that overtakes all keys owed before it.

### Threaded server: `PthreadServerProofs`

For any clients and any number of slots:

* `SlotsAreOwn`: no two served connections share a slot. `SlotInv` says that a
  served connection's slot is marked (`ServedIsMarked`), that a slot between mark
  and spawn is the main thread's (`MarkedIsMain`), that the connection being
  accepted has no thread yet (`NewcomerHasNone`), and that the main thread marks
  only a slot it found free (`MarkFinds`).
* `ScanEndsInTable`: the scan ends on a free slot. `TableInv` is a count: the
  slots in use, plus the threads that have given back theirs and not yet counted
  down, are `nopen` (one more before the main thread has counted), so at the
  gate `nopen < ncons` means that a slot is free, and threads only free more.

### Forking server: `ForkServerProofs`

For any clients, slots and pids, whether `nopen++` is one instruction or two, and
whatever `pid[]` holds at the start:

* `SlotsCounted`: `CountCoversSlots`. The count, as `nopen` has it or as main() has
  loaded it, is not short of the slots taken nor of the children there are
  (`Counted`), because a slot, a child and the count go together whoever is taken
  for whom; with one instruction it is exact. It stays within `ncons` (`Room`),
  and the scan has a free slot ahead (`FreeSlotAhead`).
* `SlotsOutlive`: `SlotOutlivesItsChild`. The hard part is the window between
  `isopen[ci] = 1` and `pid[ci] = fork()`, in which the handler finds in `pid[ci]`
  the pid of a child reaped long ago, or zero, and `waitpid(0)` returns any child.
  `SlotInv` says which slot remembers which child: nobody remembers a process that
  is gone (`Remembered`); a zero is in slots never used, and these come after all
  the others (`ZeroUnused`); until a child is robbed of its slot every slot taken
  outside the window remembers a child and every child has its slot (`InStep`).
  So a child found by `waitpid(0)` belongs to the window itself or to an earlier
  slot (`WhoseChild`).
* `ForkingServerIsPool`: `ImplementsPool`. The count is not short of the
  children, which bounds the pool; nobody is served twice (`ServedOnce`) and nobody
  waits who is served (`QueuedOnce`). One lemma for each group of steps shows the
  step of `ConnectionPool` it is.

### Event-loop servers: `EventServerProofs`

For any clients and any number of slots, under select, poll and epoll:

* `SlotsFollow`: `SlotFollowsDescriptor`. The lowest free slot and the lowest
  free descriptor are taken together and given back together, so slot s has
  always had the same descriptor (`InStep`); entries of `cd` that are not cleared
  name the descriptor of their own slot. What malloc() left in the entries poll()
  has not set only raises `fdmax`.
* `NoBlockInRecv`: `NeverBlocksInRecv`. What a round was told is ready is ready
  until the round comes to it (`ReportedIsReady` for select and poll,
  `ReportedIsOpen` for epoll), because every descriptor has a client of its own
  (`OneEach`) and only the loop takes from it.
* `EventServersArePools`: `ImplementsPool`, by the same table.

### Clock of the SD card: `StorageProofs`

For any rates of the bus clocks, any rates the core asks for, and any width of
`unsigned int` that holds the sum of two of them (`WordAssumption`):

* `NearestIsChosen`: `NearestSource`. The loop of `sdhci_s3c_consider_clock`
  stops at the nearest of the dividers that slow the source down enough
  (`DividerIsNearest`); for those the unsigned difference is the distance, for
  the others it wraps and is larger than any (`Difference`), so the least of the
  four differences belongs to the nearest source (`BestSourceIsNearest`).
* `CardIsNotTooFast`: `CardNotTooFast`. `ClockInv` adds that the source in use is
  never faster than `max_clk` and that the divider in the register slows
  `max_clk` down to the rate asked for; it then slows the source down too.

### NAND driver: `StorageProofs`

For any number of sectors, of programs between two erasures, of hits and of flips
in one hit, and any chip and cpu (the run has 2 sectors, 2 programs and 2 hits):

* `CleanReadHolds`, `FewFlipsAreRepaired`, `FreeBytesAreRepaired`:
  `CleanReadIsTrue`, `FewFlipsRepaired`, `FreeBytesRepaired`. None of the three is
  inductive, since each speaks of the last read only. `PageInv` says what is on
  the chip whatever has happened to it: a sector holds what was written to it;
  once a page is written each stored code is the code of its sector
  (`SectorCode`), before that sectors and codes are erased; the code of an SLC
  spare area belongs to what is there until a second program; nothing is
  written before the first program. That it is kept is one lemma for each
  operation (`WritePageKeeps`, `WriteOobKeeps`, `BitsFlipKeeps`, `EraseKeeps`).
  Each read then follows from three facts: whether calculate_ecc is fed what the
  stored code was made of (`SlcMatches`, `MlcMatches`, `CodesBelong`); what
  correct_data makes of a sector whose code belongs to it (`CleanMeansRepaired`,
  `FewAreRepaired`); and for SLC that correcting the spare area first changes
  none of its values (`SpareIsCorrected`).
* `CodesLieWhereReadLooks`: `CodesWhereReadLooks`, which depends on `Identify`
  only.

Two definitions are recursive: `Encoded`, the loop of write_page that collects a
code for each sector with the engine it left behind, and the sum of the flips in
the codes. Induction over them is not to be had, but none is needed: `EncodedIs`
gives the sequence of codes as a solution of the recursion and shows by the least
place where two solutions differ that there is no other; it holds because
`EnableHwecc` restarts the engine (`EngineRestarts`), so that a sector's code does
not depend on the sectors before it. `SumOfFlips` and `SumExists` do
the same for the sum over a set, by a smallest set that goes wrong, and
`SpareFlipsBounds` has from them that no code holds more flips than the spare
area.

The exemptions of section 5 (`Supported`, `SpareIntact`, `Overruled`) are those of
the properties; the theorems add none.

### FIFO device: `TddDeviceProofs`

For any processes, any finite memory and any messages, up to a clash:

* `ListIsSound`: `QueueIsSound`. The invariant `HasList` says that there is a
  sequence of buffers that is the list (`Sound`): `qhead` and the links give it
  (`Chain`); each process's `ptr` is in the list, at its head, or a buffer of its
  own, as the place of the process says (`Pointers`); one process at most is
  linking, and how far it is says whether `qtail` and the size are set
  (`Writing`); one at most is unlinking, and the link it has loaded is still true
  when it stores it, NULL only if nobody is linking (`Reads`); each allocated buffer is in the list, in one process's hands, or
  lost (`Owners`). `Queue` is a recursive function along the links; that it is
  that sequence needs no induction over the data: the function exists because
  the sequence gives one, and the least place where two of them differ would
  follow a place where they agree (`QueueIsChain`).
* `DeviceIsFifo`: `ImplementsFifo`. The step that links the buffer puts the
  message (`LinkingPuts`), the step that advances `qhead` takes the oldest
  (`AdvanceTakes`), the end of a read lets it go (`LetsGo`), and the other steps
  change no message in the list or in a reader's hands (`StaysKeepsMessages`).

### Touchscreen: `DriverProofs`

For any clients, samples, suspend and stylus:

* `LockNeverLeaks`: a semaphore at 0 has a user on the way to give it back,
  although `stylus_updown` gives back other people's locks.
* `LockIsExactAlone`, assuming no clients: the count is exactly one minus the
  touchscreen's use (`LockExact`).

### Load and unload: `DriverProofs`

For any driver whose scripts keep to the discipline (`KeepsDiscipline`, which TLC
checks for all 49), whichever calls fail, whatever interrupts, timers and threads
run between two steps, in any of its lives:

* `FailedLoadsLeaveNothingElse`, `UnloadsLeaveNothingElse`:
  `FailedLoadLeavesNothingElse`, `UnloadLeavesNothingElse`.
* `OnlyWhatIsThere`: `ReleasesMatchAcquisitions`.
* `NullNeedsAFailure`: `NullOnlyWhereUnchecked`.

The proofs use nothing of a script but its discipline: the tables are never
expanded, so a driver added to them is covered once it passes `KeepsDiscipline`.

What runs is always the rest of a well-formed script (`ScriptInv`). With it a step
of the machine is one of a few kinds (`StepCases`): it passes on to the next call,
jumps to a label, an interrupt or deferred work comes in between, load or unload
begins, or one of them returns; each invariant has a lemma for each kind.

* `LeaveInv`: the rest of the script clears what there is now (`Clears`), and what
  earlier lives left is among the named gaps. A jump starts the error path of its
  label, which clears what was taken up to there (`JumpsClear`); `NoneOr` goes on
  only if all its calls failed, which is known because each was asked for once
  (`AskedOnce`). An interrupt may add what its handler sets and starts: then a line
  is still there, and what has to go last is still to come (`ClearsGrown`).
* `PutInv`: the rest of the script gives back only what is there (`SafePuts`), or
  the unload dereferences what is missing, and oopses, before it gives back
  anything (`Fatal`); the latter is what a load that returned success after a
  failure leads to.
* `NullInv`: as long as the driver can be trusted (it tests every call, or none has
  failed), what is there covers the rest of the script and of its jumps (`Covers`,
  `JumpsCover`); while a line is there so is what its handler needs, and while
  deferred work is pending, what that needs.

The lemmas in front say what remains of each part of the discipline when the first
step of a script is done (`TakenTail`, `ClearsTail`, `CoversTail` and so on). The
scripts are sequences and the sets taken "before step i" are unions over a range
of them, so no recursion is involved.

### Only model-checked

* What needs fairness (`ReaderServed`, `SigioServed`,
  `TimerReaderServed`, `TouchReleased`, `QueuedAccepted`, `RoomIsMade`,
  `RequestAnswered`): liveness and ENABLED are beyond the prover.
* `KeepsDiscipline`: that the tables of the 49 drivers keep to the discipline. It
  is a finite computation, which is TLC's work; what follows from it in every
  behaviour is proved.

## 5. What the checks found

One finding has a run: `FasyncKey_pollmiss`. `ev_press = 0` (`fasync_key.c:129`)
after `copy_to_user` erases an event that came in between; poll() then says there
is nothing to read, against the comment at line 160.

More are in the models without a run of their own. Each is a statement the code
does not meet, or a gap a property names:

* A second open() fails, and its error path (`irq_key.c:92-101`) frees every
  line, its own or not. `free_irq` goes by the table entry, which all opens
  share, so the first process never sees a key again (`OpenJudgedByLastLine`
  without `Procs = {p}` is false).
* open() succeeds without its first keys when only its last request did not fail
  (`irq_key.c:87, 92`).
* A second key within 10 ms replaces `irq_pd`, and the first key's event is never
  published (`timer_key.c:66-69, 170`), although the comment at line 111 promises
  the program every key: `KeyPublishedUnlessOvertaken` without `overtaken` is
  false.
* A pen-down interrupt while a client converts releases the client's lock
  (`s3c-ts.c:309-310`; `HolderRegistered`, false with a client). The touchscreen
  may then stay at touched for good, cases (a) to (c) of section 3.
* `terminate_client` frees the slot before it closes `cd[ci]`; the main thread
  accepts into the slot in between, and the old thread closes the new client's
  descriptor (`ClosesOwnClient`, false with two slots).
* Where `nopen++` is a load and a store, SIGCHLD in between loses a decrement of
  `cleanupkids`: after enough of them `nopen` stays at `ncons` and the forking
  server accepts nobody (`RoomIsMade` without `oneStep` fails).
* `cleanupkids` in the window of a slot that was never used calls `waitpid(0)`
  (`lab53_server_fork.c:36`, pid[] from malloc()). If the child of an earlier slot
  ends after the loop has passed that slot, it is reaped here: the new slot is
  given back, the connection just accepted is closed before main() forks for it,
  and the earlier slot is never given back. It takes three slots, unless the
  signal is late.
* poll()'s slot 0 is taken (`lab53_server_poll.c:87`) with `cd[0]` never set (37).
  When the client with the largest descriptor leaves, `get_max_fd` may choose
  what malloc() left there, and poll() then fails on the number of entries, or
  looks past the end of `ufds`.

Limits the properties name:

* `DriverLifecycle`: nine error paths leave something behind (`LeftByFailure`),
  seventeen unloads do (`LeftByUnload`: no tasklet_kill or cancel_delayed_work,
  empty remove functions, interrupts freed under another dev_id), and four
  drivers give back twice or what they never had (`GivenBackTwice`). `sdhci` passes
  bus clocks it may not have got to clk_put on its error path
  (`sdhci-s3c.c:480-483`), and `nand` reads `sets` when there is no platform data
  (`s3c_nand.c:1174, 1199`); both dereference NULL, as the scripts say. An interrupt
  before the work item, the queue or `irq_pd` is there dereferences NULL in
  `buttons_input`, `key_delayed` and `key_queue`.
* `EventServer`: `accept_it` of the epoll server writes the new connection over
  the second of two results, and the server then blocks in recv() of a client
  that has sent nothing; hence the exemption in `NeverBlocksInRecv` and
  `RequestAnswered` for select and poll only.
* `SdhciS3c`: between a reset and the next `set_ios` the card runs from source 0
  with the divider of `cur_clk`; `set_clock` sees nothing to change.
* `S3cNand`: an S3C6400 drives 8 bit chips with the 4 bit engine (`Supported`);
  writing the spare area and the page separately ands two codes (`SpareIntact`);
  a sector with 0xff in five places is taken for JFFS2's marker and not corrected
  (`Overruled`). An error located in the stored code of a 4 or 8 bit sector is XORed behind
  the sector (619-629, 658-686): into the next one, which is read only then, or
  behind the caller's buffer (`behind`; `FewFlipsRepaired` shows that it takes a
  flip in the last code).
* `TddDevice`, the four windows: two writes link at once (181-189); a read loads
  `qhead` while another is between its load and its store (205-206); the queue is
  emptied between a read's test and its load (202-205); the last buffer is taken
  while a write is linking, or a write begins between a read's load of a NULL link
  and its store (206), which loses the message. Outside of these the device is a
  `MessageFifo`.

And smaller ones: read() returns an old value after a signal (`Signallers =
{a}`), a SIGIO handler sleeps in read() because the event it announced was taken,
the timer started at load fires with `irq_pd = NULL` (`oops` in `TimerKey`), an
rmmod of a key driver whose `class_create` had failed oopses half way (`made`),
pen-down interrupts come while the touchscreen's timer runs, which
`s3c-ts.c:325-327` rules out, and a pen-up interrupt returns with the lock still
held, which 181-182 rules out.

## 6. Assumptions about code outside the repository

* One core; an interrupt handler is not interrupted; the timer softirq is
  interrupted by handlers only. `TddDevice` assumes a preemptible kernel.
* `request_irq` fails on a line that has an owner and may fail on any other; it
  enables the line it gets; `free_irq` finds the handler by its dev_id and only
  warns if there is none; an edge on a line without handler, or masked, is not
  kept.
* `.owner = THIS_MODULE` keeps a module loaded while a file is open. lab9 has no
  owner; its unload under an open file is left out.
* `poll_wait` queues without sleeping; do_poll sleeps unless a wakeup came since
  the last pass and asks once more after the timeout; SIGIO is blocked while its
  handler runs; closing a file leaves fasync first.
* Entering a waiting mode of the touchscreen controller with the stylus already
  there may or may not interrupt at once. With the clock off nothing converts,
  and the data registers read as anything.
* A descriptor is the lowest free number; a recv() under way keeps its socket;
  select, poll and epoll report a descriptor with a request or an end of stream.
* waitpid(0) returns any child that has ended; the number of a process that is
  gone is not used again, so that in `pid[]` it is as good as junk; SIGCHLD is one
  bit, and blocked while its handler runs.
* The ECC engine finishes within the driver's 80 ms, corrects as many flips as
  it is made for, reports one more, and beyond that may do either. The MTD layer
  calls under its chip lock.
* The sdhci core holds its lock over each callback, resets the controller when
  power goes or the card does, and divides by a power of two up to 256.
* Memory, queues and objects can be taken again while an old one lives; lines,
  regions, numbers and names cannot.

## 7. Not modelled

Wording of messages, coordinates, the values of most registers. Read calls with
a count other than 1 (they return `-EINVAL` and change nothing). Exits of the
servers through DEATH. The events the input key driver and the USB mouse report
(they repeat the debounce of `TimerKey` and a table of bytes). The transfer of a
block request in lab46, a copy under the queue lock. Suspend and resume of the
NAND driver, the bad block calls of the MTD core, the card detect notifier and
`init_issue_cmd` of sdhci-s3c. What the threads of the labs do under their locks
(a demonstration of the call each is about), and the file operations of the toy
file systems, which are libfs's. Board tables, hello-world modules and the
25-line open-once counter have no behaviour to check. `PROJECT.json` gives the
reason for every part that is partly modelled or not.

## 8. What is left

1. Input events of `buttons_input` and `usbmouse_as_key` against the order of
   press and release; the block transfer of lab46 against an array of sectors.
2. Unload of lab9 under an open file.
