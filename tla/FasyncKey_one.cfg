CONSTANTS
  Procs = {a}
  NKeys = 2
  Signallers = {}
SPECIFICATION FFairSpec
INVARIANTS ReadReturnsKeyAction OpenJudgedByLastLine NoLostPollWakeup
PROPERTIES ReaderServed SigioServed ImplementsIrqKey
