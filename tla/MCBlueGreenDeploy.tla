-------------------------- MODULE MCBlueGreenDeploy --------------------------
(* BlueGreenDeploy for TLC.  Files are interchangeable, and so are the ports    *)
(* and the releases but the first.                                             *)
EXTENDS BlueGreenDeploy, TLC

Symmetry == Permutations(Files) \cup Permutations(Ports)
            \cup Permutations(Releases \ {Initial})

===============================================================================
