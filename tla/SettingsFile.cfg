SPECIFICATION FileSpec
CONSTANTS
  Ips = {ip1, ip2}
  MaxIps = 1
  Pids = {p1, p2}
INVARIANT FileTypeOK
PROPERTIES IsRegister FailuresLeaveNoLitter
CHECK_DEADLOCK FALSE
