------------------------------ MODULE DataslotGuard ------------------------------
(***************************************************************************)
(* apf_dataslot_guard.sv: takes one data-slot request from the command      *)
(* handler, judges it against the slot policy and the loaders' readiness,   *)
(* acknowledges it once and waits for the handler to drop it.  The recorded *)
(* save length feeds diagnostics only and is left out.                      *)
(***************************************************************************)
NoRequest == "none"

VARIABLES
    guard_state,     \* "IDLE", "EVALUATE" or "WAIT_RELEASE"
    latched,         \* the request being judged: its direction and slot
    request_ack,     \* one-edge acknowledgement
    request_result   \* "ready", "not_allowed" or "check_later"

guardVars == <<guard_state, latched, request_ack, request_result>>

Results == {"ready", "not_allowed", "check_later"}

GuardTypeOK(Requests) ==
    /\ guard_state \in {"IDLE", "EVALUATE", "WAIT_RELEASE"}
    /\ latched \in Requests \cup {NoRequest}
    /\ request_ack \in BOOLEAN
    /\ request_result \in Results

DataslotGuardInit ==
    /\ guard_state = "IDLE"
    /\ latched = NoRequest
    /\ request_ack = FALSE
    /\ request_result = "ready"

\* The order of the tests is the code's: a request that can never succeed is
\* refused for good before one that may succeed later is put off.
Judge(allowed, bounds_ready, size_valid, loader_ready) ==
    IF ~allowed THEN "not_allowed"
    ELSE IF ~bounds_ready THEN "check_later"
    ELSE IF ~size_valid THEN "not_allowed"
    ELSE IF ~loader_ready THEN "check_later"
    ELSE "ready"

GuardAccept(request) ==
    /\ guard_state = "IDLE"
    /\ IF request # NoRequest
       THEN latched' = request /\ guard_state' = "EVALUATE"
       ELSE UNCHANGED <<latched, guard_state>>
    /\ request_ack' = FALSE
    /\ UNCHANGED request_result

GuardEvaluate(verdict) ==
    /\ guard_state = "EVALUATE"
    /\ request_result' = verdict
    /\ request_ack' = TRUE
    /\ guard_state' = "WAIT_RELEASE"
    /\ UNCHANGED latched

GuardRelease(request) ==
    /\ guard_state = "WAIT_RELEASE"
    /\ guard_state' = IF request = NoRequest THEN "IDLE" ELSE "WAIT_RELEASE"
    /\ request_ack' = FALSE
    /\ UNCHANGED <<latched, request_result>>

\* One clock edge; request is the level the command handler drives and
\* verdict what the policy says of the latched request.
DataslotGuardEdge(request, verdict) ==
    \/ GuardAccept(request)
    \/ GuardEvaluate(verdict)
    \/ GuardRelease(request)
=============================================================================
