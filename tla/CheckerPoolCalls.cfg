\* Two threads whose callbacks call the pool again, sharing a request id.
SPECIFICATION FairSpec
CONSTANTS
  t1 = t1  t2 = t2  r1 = r1  d1 = d1  d2 = d2
  NoFile = NoFile
  NoRequest = NoRequest
  Threads = {t1, t2}
  MaxCheckers = 2
  Files = {}
  Requests = {r1}
  Diags = {}
  RequestsOf <- AnyRequest
  MaxDepth = 2
  PanicAfterCancel = TRUE
INVARIANTS SlotExclusion StateExclusion RequestAssociation NoLostWakeup
PROPERTIES WaitersWake
