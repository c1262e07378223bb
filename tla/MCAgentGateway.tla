---------------------------- MODULE MCAgentGateway ----------------------------
(* AgentGateway for TLC.  Connections, processes and the requests of a kind    *)
(* are interchangeable; the symmetry is used by runs without liveness.         *)
EXTENDS AgentGateway, TLC

Symmetry == Permutations(Conns) \cup Permutations(Procs)
            \cup Permutations(Reqs \ Maintenance)

===============================================================================
