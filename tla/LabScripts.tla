----------------------------- MODULE LabScripts -----------------------------
(***************************************************************************)
(* Load and unload of the modules of linux_kernel and file_system, in the  *)
(* vocabulary of DriverSteps.  The last two are mounts: fill_super and     *)
(* what unmounting gives back.                                             *)
(***************************************************************************)
EXTENDS DriverSteps

(* ---- interrupts, tasklets and work queues: lab24, lab25, lab26 -------- *)
SharedIrqLoad   == <<GetOr("irq1", "out"), Ok>>
SharedIrqUnload == <<Put("irq1"), Ok>>

IrqTaskletLoad    == <<GetOr("irq1", "out"), Ok>>
IrqTaskletUnload  == <<Put("irq1"), Ok>>
IrqTaskletHandler == OnLine({"irq1"}, {}, {"tasklet"})

ThreadQueueLoadLate == <<Do("work_init"), GetOr("thread", "out"), GetOr("lp_wq", "out"), Ok>>
ThreadQueueLoad    == <<Do("work_init"), GetOr("lp_wq", "out"), GetOr("thread", "out"), Ok>>
ThreadQueueUnloadEarly == <<Cancel("work"), Put("lp_wq"), Free("thread"), Ok>>
ThreadQueueUnload  == <<Free("thread"), Cancel("work"), Put("lp_wq"), Ok>>
ThreadQueueHandler == OnLine({"thread"}, {"lp_wq"}, {"work"})

ThreadWorkLoad    == <<Do("work_init"), GetOr("thread", "out"), Ok>>
ThreadWorkUnload  == <<Free("thread"), Ok>>
ThreadWorkHandler == OnLine({"thread"}, {"work_init"}, {"work"})

SenderLoad   == <<GetOr("thread", "out"), Ok>>
SenderUnload == <<Put("thread"), Ok>>

DelayQueueLoad   == <<GetOr("test_wq", "one"), Arm("dwork"), Ok>>
DelayQueueUnwind == [one |-> <<Ok>>]     \* "return 1" is no error to insmod
DelayQueueUnload == <<Cancel("dwork"), Use("test_wq"), Put("test_wq"), Ok>>

(* ---- kernel threads: lab27, lab29, lab32, lab34, lab35 ---------------- *)
ThreadsLoad   == <<GetOr("thread1", "out"), GetOr("thread2", "out"),
                   GetOr("thread3", "out"), Ok>>
ThreadsUnload == <<Free("thread1"), Free("thread2"), Free("thread3"), Ok>>

SemThreadsLoad   == <<TryArm("thread1"), TryArm("thread2"), Ok>>
SemThreadsUnload == <<Ok>>
ComplThreadsLoad   == <<TryArm("thread2"), TryArm("thread1"), Ok>>
ComplThreadsUnload == <<Ok>>

(* kthread_run's error is a pointer too, so exit stops what never ran.     *)
RwThreadsLoad    == <<Get("thread1"), Get("thread2"), Get("thread3"), Ok>>
RwThreadsUnload  == <<Use("thread1"), Put("thread1"), Use("thread2"), Put("thread2"),
                      Use("thread3"), Put("thread3"), Ok>>
SeqThreadsLoad   == RwThreadsLoad
SeqThreadsUnload == RwThreadsUnload

(* ---- memory: lab22, lab30 --------------------------------------------- *)
CacheLoad   == <<CheckOr("out"), GetOr("cache", "out"), GetOr("object", "nocache"), Ok>>
CacheUnwind == [out |-> <<Fail>>, nocache |-> <<Put("cache"), Fail>>]
CacheUnload == <<Put("object"), Put("cache"), Ok>>

PoolLoad   == <<Get("pool"), Ok>>
PoolUnload == <<Get("bufs"), Use("bufs"), Use("pool"), Put("pool"), Ok>>

CamelsLoad   == <<GetOr("camel1", "out"), GetOr("camel2", "out"), Ok>>
CamelsUnload == <<Ok>>

(* ---- timers: lab38, lab39, lab40.  A timer that rearms itself until it  *)
(* is deleted, and looks at its data each time, counts as a line.          *)
TwoTimersLoad    == <<Get("data_a"), Get("data_b"), Use("data_a"), Use("data_b"),
                      Do("timer_a"), Do("timer_b"), Arm("my_timer"), Ok>>
TwoTimersUnload  == <<Put("timer_a"), Put("timer_b"), Free("data_a"),
                      Free("data_b"), Ok>>
TwoTimersHandler == OnLine({"timer_a", "timer_b"}, {"data_a", "data_b"}, {})

OneShotLoad   == <<Get("data"), Use("data"), Arm("hrtimer"), Ok>>
OneShotUnload == <<Cancel("hrtimer"), Free("data"), Ok>>
OneShotHandler == [Quiet EXCEPT !.workNeeds = {"data"}]

HrtimersLoad    == <<Get("data_a"), Get("data_b"), Use("data_a"), Use("data_b"),
                     Do("timer_a"), Do("timer_b"), Ok>>
HrtimersUnload  == <<Put("timer_a"), Put("timer_b"), Free("data_a"), Free("data_b"), Ok>>

(* ---- devices: lab43, lab44, lab45, lab46.  cdev_init makes cdev_del     *)
(* forget that cdev_alloc allocated it.                                    *)
CharLoad   == <<Get("devno"), Get("cdev mem"), Use("cdev mem"), Get("cdev"), Ok>>
CharUnload == <<Put("cdev"), Put("devno"), Ok>>

CallLoad   == <<GetOr("chrdev", "out"), Ok>>
CallUnload == <<Put("chrdev"), Ok>>

(* vdisk has one entry; vdisk[1] may share its place with device[0].data,  *)
(* which is then overwritten with vdisk[0].                                *)
VrdLoad   == <<Get("disk0"), Get("disk1"), Get("major"), Get("gd"), Get("queue"),
               Use("queue"), Use("gd"), Ok>>
VrdUnload == <<Put("gd"), Put("major"), Free("disk0"),
               FreeOneOf({"disk0", "disk1"}), Ok>>

RamBlockLoad   == <<GetOr("data", "out"), GetOr("major", "no_major"),
                    GetOr("queue", "no_queue"), GetOr("disk", "no_disk"), Ok>>
(* The error path without blk_cleanup_queue, a plausible slip.             *)
RamBlockUnwindNoQueue ==
  LET no_major == <<Free("data"), Fail>>
      no_queue == <<Put("major")>> \o no_major
  IN [out |-> <<Fail>>, no_major |-> no_major, no_queue |-> no_queue,
      no_disk |-> no_queue]
RamBlockUnwind ==
  LET no_major == <<Free("data"), Fail>>
      no_queue == <<Put("major")>> \o no_major
  IN [out |-> <<Fail>>, no_major |-> no_major, no_queue |-> no_queue,
      no_disk |-> <<Put("queue")>> \o no_queue]
RamBlockUnload == <<Put("disk"), Put("queue"), Put("major"), Free("data"), Ok>>

(* ---- objects: lab51, lab52, lab55, lab57 ------------------------------ *)
KobjectLoad   == <<GetOr("kobject", "out"), GetOr("group", "put"), Ok>>
KobjectUnwind == [out |-> <<Fail>>, put |-> <<Put("kobject"), Fail>>]
KobjectUnload == <<PutAll({"group", "kobject"}), Ok>>

KsetLoad == <<GetOr("kset", "out"), GetOr("foo", "foo_error"),
              GetOr("bar", "bar_error"), GetOr("baz", "baz_error"), Ok>>
KsetUnwind ==
  LET foo_error == <<Fail>>
      bar_error == <<Put("foo")>> \o foo_error
  IN [out |-> <<Fail>>, foo_error |-> foo_error, bar_error |-> bar_error,
      baz_error |-> <<Put("bar")>> \o bar_error]
KsetUnloadTwice == <<Put("baz"), Put("foo"), Put("foo"), Put("kset"), Ok>>  \* slip
KsetUnload == <<Put("baz"), Put("bar"), Put("foo"), Put("kset"), Ok>>

ClassLoad   == <<Get("chrdev"), Get("class"), Ok>>
ClassUnload == <<Put("class"), Put("chrdev"), Ok>>

NetlinkLoad   == <<GetOr("sock", "out"), Ok>>
NetlinkUnload == <<Put("sock"), Ok>>

SysrqLoad   == <<GetOr("sysrq", "out"), Ok>>
SysrqUnload == <<Put("sysrq"), Ok>>

(* ---- file systems: lab42, all/aufs.c, 2day/super.c -------------------- *)
IngbenLoad   == <<Get("ext4"), Use("ext4"), GetOr("fstype", "out"), Ok>>
IngbenUnload == <<Put("fstype"), Ok>>

(* kern_mount's failure returns the 0 that register_filesystem returned.   *)
AufsLoad   == <<GetOr("fstype", "out"), GetOr("mount", "no_mount"), Ok>>
AufsUnwind == [out |-> <<Fail>>, no_mount |-> <<Put("fstype"), Ok>>]
AufsUnload == <<Use("mount"), Put("mount"), Put("fstype"), Ok>>

SampleMount   == <<GetOr("inode", "out"), GetOr("info", "no_info"),
                   GetOr("root", "no_root"), Do("nls"), Ok>>
SampleUnwind  == [out     |-> <<Fail>>,
                  no_info |-> <<Put("inode"), Fail>>,
                  no_root |-> <<Put("inode"), Free("info"), Fail>>]
SampleUnmount == <<PutAll({"root", "inode"}), Put("nls"), Free("info"), Ok>>

IngbenMount   == <<GetOr("inode", "out"), GetOr("root", "out_iput"), Ok>>
IngbenUnwind  == [out |-> <<Fail>>, out_iput |-> <<Put("inode"), Fail>>]
IngbenUnmount == <<PutAll({"root", "inode"}), Ok>>

LabModules ==
  [lab22_cache  |-> Driver(CacheLoad, CacheUnwind, CacheUnload, Quiet),
   lab22_pool   |-> Driver(PoolLoad, GoingOn, PoolUnload, Quiet),
   lab24        |-> Driver(SharedIrqLoad, GoingOn, SharedIrqUnload, OnLine({"irq1"}, {}, {})),
   lab25        |-> Driver(IrqTaskletLoad, GoingOn, IrqTaskletUnload, IrqTaskletHandler),
   lab25_4      |-> Driver(ThreadQueueLoad, GoingOn, ThreadQueueUnload, ThreadQueueHandler),
   lab25_5      |-> Driver(ThreadWorkLoad, GoingOn, ThreadWorkUnload, ThreadWorkHandler),
   lab25_6      |-> Driver(SenderLoad, GoingOn, SenderUnload, Quiet),
   lab26        |-> Driver(DelayQueueLoad, DelayQueueUnwind, DelayQueueUnload, Quiet),
   lab27_1      |-> Driver(ThreadsLoad, GoingOn, ThreadsUnload, Quiet),
   lab29        |-> Driver(SemThreadsLoad, GoingOn, SemThreadsUnload, Quiet),
   lab30        |-> Driver(CamelsLoad, GoingOn, CamelsUnload, Quiet),
   lab32        |-> Driver(RwThreadsLoad, GoingOn, RwThreadsUnload, Quiet),
   lab34        |-> Driver(ComplThreadsLoad, GoingOn, ComplThreadsUnload, Quiet),
   lab35        |-> Driver(SeqThreadsLoad, GoingOn, SeqThreadsUnload, Quiet),
   lab38        |-> Driver(TwoTimersLoad, GoingOn, TwoTimersUnload, TwoTimersHandler),
   lab39        |-> Driver(OneShotLoad, GoingOn, OneShotUnload, OneShotHandler),
   lab40        |-> Driver(HrtimersLoad, GoingOn, HrtimersUnload, TwoTimersHandler),
   lab42        |-> Driver(IngbenLoad, GoingOn, IngbenUnload, Quiet),
   lab43        |-> Driver(CharLoad, GoingOn, CharUnload, Quiet),
   lab44        |-> Driver(CallLoad, GoingOn, CallUnload, Quiet),
   lab45_1      |-> Driver(VrdLoad, GoingOn, VrdUnload, Quiet),
   lab46        |-> Driver(RamBlockLoad, RamBlockUnwind, RamBlockUnload, Quiet),
   lab51_1      |-> Driver(KobjectLoad, KobjectUnwind, KobjectUnload, Quiet),
   lab51_2      |-> Driver(KsetLoad, KsetUnwind, KsetUnload, Quiet),
   lab52_1      |-> Driver(ClassLoad, GoingOn, ClassUnload, Quiet),
   lab55        |-> Driver(NetlinkLoad, GoingOn, NetlinkUnload, Quiet),
   lab57_10     |-> Driver(SysrqLoad, GoingOn, SysrqUnload, Quiet),
   aufs         |-> Driver(AufsLoad, AufsUnwind, AufsUnload, Quiet),
   samplefs     |-> Driver(SampleMount, SampleUnwind, SampleUnmount, Quiet),
   ingbenfs     |-> Driver(IngbenMount, IngbenUnwind, IngbenUnmount, Quiet)]
=============================================================================
