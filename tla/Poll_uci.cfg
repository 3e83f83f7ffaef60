SPECIFICATION Spec
CONSTANTS
  Allowed <- NativeAndUci
  Others = {"hosts"}
  Aps = 1
  BootLimit = 2
  UptimeLimit = 2
INVARIANT UciIsRechecked
