-------------------------------- MODULE MCApi --------------------------------
(***************************************************************************)
(* An instance of Api for TLC.  It starts with every slot taken or only    *)
(* the last one free, one body, both computers bonded and one of them,     *)
(* whichever, in the first slot of the system.  Whatever else can be       *)
(* registered is reached by commands.  Three commands when no write fails, *)
(* two when one may.                                                       *)
(***************************************************************************)
EXTENDS Api

Taken == {s \in Slots : ram[s] # None}

MCInit ==
    /\ ApiInit
    /\ bonded = Peers
    /\ cuts = 0 /\ \/ ops = 0 /\ losses = Losses
                   \/ ops = 1 /\ losses = 0
    /\ Slots \ Taken \subseteq {UserSlots + SystemSlots}
    /\ \A s \in Taken : ram[s].body = CHOOSE body \in Bodies : TRUE
    /\ ram[UserSlots + 1].peer = CHOOSE peer \in Peers : TRUE

MCSpec == MCInit /\ [][ApiNext]_apiVars /\ ApiFairness
==============================================================================
