--------------------------- MODULE MCBrowserSession ---------------------------
(* BrowserSession for TLC.  Processes are interchangeable, and so are requests. *)
EXTENDS BrowserSession, TLC

Symmetry == Permutations(Procs) \cup Permutations(Requests)

===============================================================================
