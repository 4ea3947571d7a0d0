------------------------------ MODULE LocalDrain ------------------------------
(***************************************************************************)
(* scripts/drain_topic.py: runs of `docker compose run --rm pull`, which   *)
(* create a subscription if need be, pull what is on it, print it and      *)
(* acknowledge it, while the receiver publishes.                           *)
(***************************************************************************)
EXTENDS Integers, FiniteSets

CONSTANTS
    Message,
    Run,         \* runs of the script, at the same time or one by one
    MaxMessages  \* of one pull

VARIABLES
    emulator,    \* is PUBSUB_EMULATOR_HOST set?
    subscribed,  \* does the subscription local-drain exist?
    queue,       \* published messages it has and nobody acknowledged
    leased,      \* those of them that are out on a pull
    published, printed,
    run          \* where each run is, and the batch it has pulled

vars == <<emulator, subscribed, queue, leased, published, printed, run>>

Begun(phase, batch) == [phase |-> phase, batch |-> batch]

Init == /\ emulator \in BOOLEAN
        /\ subscribed \in BOOLEAN
        /\ queue = {} /\ leased = {} /\ published = {} /\ printed = {}
        /\ run = [r \in Run |-> Begun("new", {})]

(* The topic hands a message to the subscriptions that exist. *)
Publish(m) == /\ m \notin published
              /\ published' = published \cup {m}
              /\ queue' = IF subscribed THEN queue \cup {m} ELSE queue
              /\ UNCHANGED <<emulator, subscribed, leased, printed, run>>

Allowed == emulator

Subscribe(r) == /\ run[r].phase = "new" /\ Allowed
                /\ subscribed' = TRUE
                /\ run' = [run EXCEPT ![r] = Begun("subscribed", {})]
                /\ UNCHANGED <<emulator, queue, leased, published, printed>>

(* One pull, of some of what is there, or of nothing: then it says so. *)
Pull(r) ==
    /\ run[r].phase = "subscribed"
    /\ \E batch \in SUBSET (queue \ leased) :
           /\ Cardinality(batch) <= MaxMessages
           /\ leased' = leased \cup batch
           /\ run' = [run EXCEPT ![r] = Begun(IF batch = {} THEN "done" ELSE "pulled", batch)]
    /\ UNCHANGED <<emulator, subscribed, queue, published, printed>>

(* Fault: what is printed was acknowledged before. *)
PulledOrPrinted(r) == run[r].phase = "pulled"

Printed(r) == run[r].phase = "printed"

PrintAll(r) == /\ run[r].phase = "pulled"
               /\ printed' = printed \cup run[r].batch
               /\ run' = [run EXCEPT ![r].phase = "printed"]
               /\ UNCHANGED <<emulator, subscribed, queue, leased, published>>

(* A late acknowledgement counts, too, or is ignored. *)
Acknowledge(r) ==
    /\ Printed(r)
    /\ \E late \in SUBSET (run[r].batch \ leased) :
           queue' = queue \ (run[r].batch \ late)
    /\ leased' = leased \ run[r].batch
    /\ run' = [run EXCEPT ![r] = Begun("done", {})]
    /\ UNCHANGED <<emulator, subscribed, published, printed>>

(* The script is stopped, or the pull or the acknowledgement raises. *)
Stop(r) == /\ run[r].phase # "done"
           /\ run' = [run EXCEPT ![r] = Begun("done", {})]
           /\ UNCHANGED <<emulator, subscribed, queue, leased, published, printed>>

(* The lease of a pull ends: the message is there for the next one. *)
LeaseExpires(m) == /\ m \in leased
                   /\ leased' = leased \ {m}
                   /\ UNCHANGED <<emulator, subscribed, queue, published, printed, run>>

Next == \/ \E m \in Message : Publish(m) \/ LeaseExpires(m)
        \/ \E r \in Run : Subscribe(r) \/ Pull(r) \/ PrintAll(r) \/ Acknowledge(r) \/ Stop(r)

Spec == Init /\ [][Next]_vars
-----------------------------------------------------------------------------
(* A message leaves the subscription only after it was printed: whatever   *)
(* run stops or is late, what nobody has seen is pulled again.             *)
NothingIsDroppedUnseen ==
    [][ queue \ queue' \subseteq printed ]_vars
=============================================================================
