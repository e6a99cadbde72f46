SPECIFICATION LiveServer
CONSTANTS
  Requests = {r1, r2, r3}
  Threads = {t1, t2}
  Listeners = {l1, l2}
INVARIANT ServerInv
PROPERTY ResolvePromise
PROPERTY Serves
CHECK_DEADLOCK FALSE
