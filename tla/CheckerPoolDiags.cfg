\* Two threads and a publisher: cancellation and global diagnostics.
SPECIFICATION Spec
SYMMETRY Symmetry
CONSTANTS
  t1 = t1  t2 = t2  r1 = r1  d1 = d1  d2 = d2
  NoFile = NoFile
  NoRequest = NoRequest
  Threads = {t1, t2}
  MaxCheckers = 2
  Files = {f1}
  Requests = {}
  Diags = {d1, d2}
  RequestsOf <- NoRequests
  MaxDepth = 1
  PanicAfterCancel = FALSE
INVARIANTS CountShortcutSound PublishPending
PROPERTIES CanceledNotReused
