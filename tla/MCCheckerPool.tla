---------------------------- MODULE MCCheckerPool ----------------------------
(* Instances of CheckerPool for TLC.                                       *)
EXTENDS CheckerPool, TLC

CONSTANTS t1, t2, r1, d1, d2

(* Only calls without a request id.                                        *)
NoRequests(t) == {NoRequest}

(* Threads may work for the same request, or for none.                     *)
AnyRequest(t) == Requests \cup {NoRequest}

(* Threads and diagnostics are interchangeable (safety runs only).         *)
Symmetry == Permutations({t1, t2}) \cup Permutations({d1, d2})
=============================================================================
