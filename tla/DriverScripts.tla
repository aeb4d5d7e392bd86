---------------------------- MODULE DriverScripts ----------------------------
(***************************************************************************)
(* Load and unload of the drivers of the board: for each the steps of its  *)
(* init or probe function, the labels of its error path, the steps of exit *)
(* or remove, and what its interrupts do.  Two lines stand for a table of  *)
(* four or eight; a run of equal calls (gpio, ioremap) is one resource.    *)
(***************************************************************************)
EXTENDS DriverSteps

(* ---- 6_input_driver/1_button_input: only the last request_irq counts -- *)
ButtonsLoad == <<Get("input"), Use("input"), GetOr("evdev", "fail"), Arm("timer"),
                 Get("irq1"), GetOr("irq2", "lines"), Ok>>
ButtonsUnwind == [fail  |-> <<Put("input"), Fail>>,
                  lines |-> <<Put("irq2"), Put("irq1"), Fail>>]
ButtonsUnload == <<Put("irq1"), Put("irq2"), Cancel("timer"),
                   PutAll({"evdev", "input"}), Put("input"), Ok>>
ButtonsHandler == [OnLine({"irq1", "irq2"}, {}, {"timer"}) EXCEPT
                     !.gives = {"irq_pd"}, !.workNeeds = {"irq_pd"}]

(* ---- 8_USB_driver ----------------------------------------------------- *)
MouseProbe == <<Get("input"), Use("input"), Get("evdev"), Get("buf"), Get("urb"),
                Use("urb"), TryArm("transfer"), Ok>>
MouseDisconnect == <<Cancel("transfer"), Free("urb"), Free("buf"),
                     PutAll({"evdev", "input"}), Put("input"), Ok>>
MouseHandler == [Quiet EXCEPT !.workNeeds = {"buf"}, !.rearms = {"transfer"}]

(* ---- 3_key: lines first, bottom half later ---------------------------- *)
LinesLoad   == <<Get("irq1"), Get("irq2"), Ok>>
LinesUnload == <<Put("irq1"), Put("irq2"), Ok>>
LinesHandler == OnLine({"irq1", "irq2"}, {}, {})

TaskletLoad    == <<Get("irq1"), Get("irq2"), Ok>>
TaskletUnload  == <<Put("irq1"), Put("irq2"), Ok>>
TaskletHandler == OnLine({"irq1", "irq2"}, {}, {"tasklet"})

DelayedLoad    == <<Get("irq1"), Get("irq2"), Do("work_init"), Ok>>
DelayedUnload  == <<Put("irq1"), Put("irq2"), Ok>>
DelayedHandler == OnLine({"irq1", "irq2"}, {"work_init"}, {"dwork"})

QueueLoad    == <<Get("irq1"), Get("irq2"), Do("work_init"), Get("btn_wq"), Ok>>
QueueUnload  == <<Put("irq1"), Put("irq2"), Use("btn_wq"), Cancel("work"),
                  Put("btn_wq"), Ok>>
QueueHandler == OnLine({"irq1", "irq2"}, {"work_init", "btn_wq"}, {"work", "dwork"})

TimerLoad    == <<Arm("timer"), Ok>>
TimerUnloadRunning == <<Ok>>             \* a slip: no del_timer
TimerUnload  == <<Cancel("timer"), Ok>>
TimerHandler == [Quiet EXCEPT !.rearms = {"timer"}]

MiscLoad    == <<Get("misc"), Get("irq1"), Ok>>
MiscUnload  == <<Put("misc"), Put("irq1"), Ok>>
MiscHandler == OnLine({"irq1"}, {}, {})

PinKeyLoad   == <<Get("devno"), Get("cdev"), Get("class"), Use("class"),
                  Get("device"), Get("gpio"), Ok>>
PinKeyUnload == <<Put("gpio"), Put("device"), Put("class"), Put("cdev"),
                  Put("devno"), Ok>>

(* ---- 2_LED ------------------------------------------------------------ *)
LedLoad   == <<Get("devno"), Get("cdev"), Get("gpio"), Ok>>
LedUnload == <<Put("gpio"), Put("cdev"), Put("devno"), Ok>>

LedIoctlLoad == <<GetOr("mem", "out"), GetOr("chrdev", "err1"),
                  GetOr("class", "err2"), GetOr("device", "err3"),
                  GetOr("map", "err4"), Ok>>
LedIoctlUnwind ==
  LET err1 == <<Free("mem"), Fail>>
      err2 == <<Put("chrdev")>> \o err1
      err3 == <<Put("class")>> \o err2
  IN [out |-> <<Fail>>, err1 |-> err1, err2 |-> err2, err3 |-> err3,
      err4 |-> <<Put("device")>> \o err3]
LedIoctlUnload == <<Put("chrdev"), Put("device"), Put("class"), Put("map"),
                    Free("mem"), Ok>>

(* ---- 4_BUSdriver ------------------------------------------------------ *)
LedProbe  == <<Get("map"), Use("map"), Get("devno"), Get("cdev"), Get("class"),
               Use("class"), Get("device"), Ok>>
LedRemove == <<Put("device"), Put("class"), Put("cdev"), Put("devno"), Put("map"), Ok>>

BusLoad      == <<GetOr("bus", "out"), Ok>>
BusUnload    == <<Put("bus"), Ok>>
DeviceLoad   == <<GetOr("device", "out"), Ok>>
DeviceUnload == <<Put("device"), Ok>>
BusDrvLoad   == <<GetOr("driver", "out"), Ok>>
BusDrvUnload == <<Put("driver"), Ok>>

(* ---- 7_LCD_driver ----------------------------------------------------- *)
LcdLoad   == <<Get("fbinfo"), Use("fbinfo"), Get("screen"), Get("clk"), Use("clk"),
               Get("gpio_map"), Use("gpio_map"), Get("lcd_map"), Use("lcd_map"),
               Get("fb"), Ok>>
LcdUnload == <<Put("fb"), Put("screen"), Put("gpio_map"), Put("lcd_map"),
               Put("fbinfo"), Ok>>

(* ---- 6_input_driver/2_touch_screen_drivers: the interrupts are freed -- *)
(* under a dev_id nobody registered, so they stay.                         *)
TouchProbe ==
  <<GetOr("region", "err_req"), GetOr("map", "err_map"), GetOr("clk", "err_clk"),
    Get("ts"), GetOr("input", "err_alloc"), Use("ts"), GetOr("irq1", "err_irq"),
    GetOr("irq2", "err_irq"), GetOr("evdev", "fail"), Ok>>
TouchUnwind ==
  LET err_req   == <<Fail>>
      err_map   == <<Put("region")>> \o err_req
      err_clk   == <<Put("map")>> \o err_map
      err_alloc == <<Put("clk")>> \o err_clk
      err_irq   == <<Put("input"), Free("ts")>> \o err_alloc
  IN [err_req |-> err_req, err_map |-> err_map, err_clk |-> err_clk,
      err_alloc |-> err_alloc, err_irq |-> err_irq,
      fail |-> <<Put("line of ts->dev"), Put("line of ts->dev")>> \o err_irq]
TouchRemove ==
  <<Mask("irq2"), Mask("irq1"), Put("line of ts->dev"), Put("line of ts->dev"),
    Put("clk"), PutAll({"evdev", "input"}), Put("map"), Ok>>
TouchHandler == [OnLine({"irq1", "irq2"}, {"ts"}, {"timer"}) EXCEPT !.workNeeds = {"ts"}]

(* ---- 10_MMC_driver: remove does nothing at all.  err_req_regs gives all *)
(* bus clocks back, and clk_put dereferences those that were not got.      *)
SdhciProbe ==
  <<GetOr("host", "out"), GetOr("clk_io", "err_io_clk"), Get("clk_bus1"),
    Get("clk_bus2"), NoneOr({"clk_bus1", "clk_bus2"}, "err_no_busclks"),
    GetOr("region", "err_req_regs"), GetOr("map", "err_req_regs"),
    GetOr("mmc", "err_add_host"), Get("irq1"), Ok>>
SdhciUnwind ==
  LET err_io_clk     == <<Put("host"), Fail>>
      err_no_busclks == <<Put("clk_io")>> \o err_io_clk
      err_req_regs   == <<Use("clk_bus1"), Put("clk_bus1"), Use("clk_bus2"),
                          Put("clk_bus2")>> \o err_no_busclks
  IN [out |-> <<Fail>>, err_io_clk |-> err_io_clk,
      err_no_busclks |-> err_no_busclks, err_req_regs |-> err_req_regs,
      err_add_host |-> <<Put("region")>> \o err_req_regs]
SdhciRemove  == <<Ok>>
SdhciHandler == OnLine({"irq1"}, {"host"}, {})

(* ---- 9_nand_driver: exit_error frees the MTD and returns ret, which is  *)
(* still 0 unless nand_scan set it.  A board without platform data has no  *)
(* sets.                                                                   *)
NandProbe ==
  <<GetOr("clk", "exit_error"), GetOr("region", "exit_error"),
    GetOr("map", "exit_error"), Get("sets"), GetOr("mtd", "nomem"), Use("sets"),
    CheckOr("exit_error"), CheckOr("enxio"), Do("partitions"), Ok>>
NandUnwind == [exit_error |-> <<Free("mtd"), Ok>>,
               enxio      |-> <<Free("mtd"), Fail>>,
               nomem      |-> <<Fail>>]
NandRemove == <<Ok>>

BoardDrivers ==
  [buttons_input |-> Driver(ButtonsLoad, ButtonsUnwind, ButtonsUnload, ButtonsHandler),
   usbmouse      |-> Driver(MouseProbe, GoingOn, MouseDisconnect, MouseHandler),
   key_lines     |-> Driver(LinesLoad, GoingOn, LinesUnload, LinesHandler),
   key_tasklet   |-> Driver(TaskletLoad, GoingOn, TaskletUnload, TaskletHandler),
   key_delayed   |-> Driver(DelayedLoad, GoingOn, DelayedUnload, DelayedHandler),
   key_queue     |-> Driver(QueueLoad, GoingOn, QueueUnload, QueueHandler),
   key_timer     |-> Driver(TimerLoad, GoingOn, TimerUnload, TimerHandler),
   key_misc      |-> Driver(MiscLoad, GoingOn, MiscUnload, MiscHandler),
   key_pin       |-> Driver(PinKeyLoad, GoingOn, PinKeyUnload, Quiet),
   led_cdev      |-> Driver(LedLoad, GoingOn, LedUnload, Quiet),
   led_ioctl     |-> Driver(LedIoctlLoad, LedIoctlUnwind, LedIoctlUnload, Quiet),
   led_platform  |-> Driver(LedProbe, GoingOn, LedRemove, Quiet),
   bus           |-> Driver(BusLoad, GoingOn, BusUnload, Quiet),
   bus_device    |-> Driver(DeviceLoad, GoingOn, DeviceUnload, Quiet),
   bus_driver    |-> Driver(BusDrvLoad, GoingOn, BusDrvUnload, Quiet),
   lcd           |-> Driver(LcdLoad, GoingOn, LcdUnload, Quiet),
   s3c_ts        |-> Driver(TouchProbe, TouchUnwind, TouchRemove, TouchHandler),
   sdhci         |-> Driver(SdhciProbe, SdhciUnwind, SdhciRemove, SdhciHandler),
   nand          |-> Driver(NandProbe, NandUnwind, NandRemove, Quiet)]
=============================================================================
