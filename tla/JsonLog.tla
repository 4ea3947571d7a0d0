------------------------------- MODULE JsonLog -------------------------------
(***************************************************************************)
(* Logging of both services (src/common/log.py): the tree of loggers that  *)
(* uvicorn and libraries have set up by the time an entrypoint calls       *)
(* configure_logging, and what becomes of a record afterwards.             *)
(***************************************************************************)
EXTENDS Integers, FiniteSets

CONSTANTS MaxCalls   \* bound of the model: calls of configure_logging

VARIABLES
    handlers,   \* handlers of each logger
    propagate,  \* does each hand its records to its parent?
    calls,      \* calls of configure_logging so far
    record,     \* the latest record logged, and
    lines       \* what was written for it, by which handler of which logger

vars == <<handlers, propagate, calls, record, lines>>

Uvicorn == {"uvicorn", "uvicorn.error", "uvicorn.access"}
Logger  == Uvicorn \cup {"root", "ingest.app"}
Parent(l) == IF l \in Uvicorn \ {"uvicorn"} THEN "uvicorn" ELSE "root"

(* A handler is the plain text of somebody else, or the n-th JSON handler. *)
Plain == 0
Handler == 0 .. MaxCalls

(* Fault: only the reserved names of logging are guarded. *)
NothingOwned == {}

Owned == {"severity", "logger", "message", "exception", "stack"}
Private == {"_private"}

(* Who logged, with which extra=, stack, and exception, or only the text   *)
(* another formatter has made of it; extras with a name that logging       *)
(* itself reserves never become a record.                                  *)
Record == [name : Logger,
           extra : SUBSET {"event_id", "severity", "exception", "_private"},
           exception : {"", "exc_info", "exc_text"}, stack_info : BOOLEAN]
NoRecord == [name |-> "root", extra |-> {},
             exception |-> "", stack_info |-> FALSE]

(* Fault: the fields of a format string, and no other. *)
NoExtras(r) == {}

Extras(r) == r.extra \ (Owned \cup Private)

(* The keys of the object that is written, each with where its value is    *)
(* taken from.                                                             *)
Format(r) ==
    LET keys == {"severity", "logger", "message"} \cup Extras(r)
                \cup (IF r.exception # "" THEN {"exception"} ELSE {})
                \cup (IF r.stack_info THEN {"stack"} ELSE {})
    IN  [k \in keys |-> IF k \in Extras(r) THEN "extra" ELSE "record"]

(* The loggers from l up to the root, and those of them a record reaches:  *)
(* every logger below passes it on.                                        *)
Path(l) == {l, Parent(l), Parent(Parent(l))}

Reached(name) == {l \in Path(name) : \A m \in Path(name) \ Path(l) : propagate[m]}
-----------------------------------------------------------------------------
(* uvicorn configures its loggers before it imports the entrypoint; what   *)
(* is imported first may have put a plain handler on the root.             *)
Init == /\ handlers \in {[l \in Logger |-> CASE l = "root" -> r
                                             [] l \in {"uvicorn", "uvicorn.access"} -> u
                                             [] OTHER -> {}] :
                             r, u \in {{}, {Plain}}}
        /\ propagate \in {[l \in Logger |-> l \notin {"uvicorn", "uvicorn.access"} \/ p] :
                              p \in BOOLEAN}
        /\ calls = 0
        /\ record = NoRecord
        /\ lines = {}

(* Fault: the handlers found on the loggers stay. *)
Added(l) == handlers[l] \cup IF l = "root" THEN {calls + 1} ELSE {}

(* What configure_logging leaves on a logger. *)
Installed(l) == CASE l = "root" -> {calls + 1}
                  [] l \in Uvicorn -> {}
                  [] OTHER -> handlers[l]

ConfigureLogging ==
    /\ calls < MaxCalls
    /\ handlers' = [l \in Logger |-> Installed(l)]
    /\ propagate' = [l \in Logger |-> l \in Uvicorn \/ propagate[l]]
    /\ calls' = calls + 1
    /\ UNCHANGED <<record, lines>>

Log(r) ==
    /\ calls > 0
    /\ record' = r
    /\ lines' = {[at |-> w[1], by |-> w[2], payload |-> Format(r)] :
                     w \in {p \in Logger \X Handler :
                               p[1] \in Reached(r.name) /\ p[2] \in handlers[p[1]]}}
    /\ UNCHANGED <<handlers, propagate, calls>>

Next == ConfigureLogging \/ \E r \in Record : Log(r)

Spec == Init /\ [][Next]_vars
-----------------------------------------------------------------------------
(* Once configured, a record is one line, and that line is JSON: uvicorn's *)
(* records included, whatever handlers were there before and however often *)
(* an entrypoint configures.                                               *)
OneJsonLineEach ==
    record # NoRecord => Cardinality(lines) = 1 /\ \A n \in lines : n.by # Plain

(* No extra= field can stand in for what the formatter says itself, so an  *)
(* ERROR cannot be filed under another severity.                           *)
OwnFieldsStand ==
    \A n \in lines :
        \A k \in {"severity", "exception"} \cap DOMAIN n.payload : n.payload[k] = "record"

(* The event_id that joins the logs of both services is written, and no    *)
(* private attribute is.                                                   *)
EventIdSurvives ==
    \A n \in lines : /\ "event_id" \in record.extra <=> "event_id" \in DOMAIN n.payload
                     /\ "_private" \notin DOMAIN n.payload
=============================================================================
