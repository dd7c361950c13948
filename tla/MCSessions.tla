----------------------------- MODULE MCSessions -----------------------------
(* Small instances of Sessions for TLC.                                    *)
EXTENDS Sessions, TLC

\* Ids, Pids and handler slots are interchangeable model values.
MCSymmetry == Permutations(Ids) \cup Permutations(Pids) \cup Permutations(H)

\* The real width and base: 16-bit counter starting at 10000.
MCPortSpace == 65536
MCPortBase == 10000
\* Auto-assignment, and the default port of BackgroundRunRequest.
MCReqPorts == {0, 5173}
\* A counter three values wide starting at 1: it hands out 1 and 2, wraps on
\* the second allocation, and the third allocation returns port 0.
MCSmallPortSpace == 3
MCSmallPortBase == 1
=============================================================================
