------------------------------ MODULE MCDataDir ------------------------------
(***************************************************************************)
(* Instances of DataDir for TLC.  The socket and the command share no      *)
(* variable, so a behaviour has the one or the other; beside the command   *)
(* one daemon runs, which is enough to overlap it.                         *)
(***************************************************************************)
EXTENDS DataDir, TLC

CONSTANTS d1, d2, i1, i2

MCDaemons == {d1, d2}
MCInodes == {i1, i2}

VARIABLE side

MCInit == Init /\ side \in {"socket", "command"}

MCNext ==
    /\ UNCHANGED side
    /\ \/ side = "socket" /\ \E d \in Daemons : Process(d) \/ Wire(d)
       \/ side = "command" /\ (Process(d1) \/ AdminStep)

MCSpec == MCInit /\ [][MCNext]_<<vars, side>> /\ Fairness
=============================================================================
