-------------------------------- MODULE MCParts --------------------------------
(***************************************************************************)
(* One part moves, the others are kept at one of their initial states:     *)
(* which one makes no difference to the part that moves.                   *)
(***************************************************************************)
EXTENDS Parts

(* PartsInit, of these states. *)
MCInit ==
    /\ part \in Part
    /\ Init
    /\ Door!Init
    /\ part # "push auth" =>
           pushEnv = [mode |-> "iam", account |-> "", audience |-> "",
                      ttl |-> "unset", entries |-> "unset", plain |-> TRUE] /\ keysUp
    /\ Front!Init
    /\ part # "ingest auth" =>
           /\ versions[1].text = "old" /\ ~versions[1].newline
           /\ ingestEnv = [max |-> "unset", header |-> "unset"]
    /\ Letter!Init
    /\ part # "envelope" => own /\ policy
    /\ Log!Init
    /\ part # "log" => /\ handlers["root"] = {} /\ handlers["uvicorn"] = {}
                       /\ propagate["uvicorn"]
    /\ Drain!Init
    /\ part # "drain" => emulator /\ ~subscribed

MCSpec == MCInit /\ [][PartsNext]_partsVars /\ PartsFairness
=============================================================================
