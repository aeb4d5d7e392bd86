CONSTANTS
  Procs = {a}
  NKeys = 1
  Signallers = {}
SPECIFICATION FSpec
PROPERTIES PollReportsUnread
