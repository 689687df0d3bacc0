---------------------------- MODULE BundledCdc ----------------------------
(***************************************************************************)
(* The toggle handshake that apf_settings_cdc, apf_input_blocked_cdc,      *)
(* apf_scaler_selector, apf_rtc_cdc, apf_save_metadata_cdc and             *)
(* apf_rom_plan_cdc share.  The source freezes a payload and toggles a     *)
(* request; each destination synchronises the request through two          *)
(* registers, captures the payload once and returns the toggle, which the  *)
(* source synchronises through two registers of its own.                   *)
(*                                                                         *)
(* The clocks are independent, so any non-empty set of them may have an    *)
(* edge at one instant.  A register that samples a signal changing at that *)
(* instant takes the old or the new value, and a payload sampled while it  *)
(* changes is Torn.                                                        *)
(***************************************************************************)
EXTENDS Integers

CONSTANTS
    Destinations,   \* capturing clock domains: one, or two for the ROM plan
    Payloads,
    Default,        \* value of every payload register in reset
    Source,         \* the source clock domain
    Torn

ASSUME CdcAssumption ==
    /\ Default \in Payloads
    /\ Torn \notin Payloads
    /\ Source \notin Destinations
    /\ Destinations # {}

VARIABLES
    reset_sync,         \* per domain: edges seen since reset, at most 2
    hold,               \* source: frozen payload
    request_toggle,     \* source
    acknowledge_meta,   \* source, per destination
    acknowledge_sync,
    request_meta,       \* per destination
    request_sync,
    request_seen,
    acknowledge_toggle,
    payload             \* per destination: captured payload

sourceVars == << hold, request_toggle, acknowledge_meta, acknowledge_sync >>
Domains == DOMAIN reset_sync
destinationVars == << request_meta, request_sync, request_seen,
                      acknowledge_toggle, payload >>
handshakeVars == << reset_sync, sourceVars, destinationVars >>

\* A domain leaves reset with the second edge after the common release.
Running(c) == reset_sync[c] = 2

\* Fault: the first answer ends the transfer.
transfer_busy_until_any ==
    \A d \in Destinations : request_toggle # acknowledge_sync[d]

\* The source may not start a transfer until every destination has answered.
transfer_busy == \E d \in Destinations : request_toggle # acknowledge_sync[d]

request_arrived(d) == request_sync[d] # request_seen[d]

CdcInit ==
    /\ reset_sync = [c \in {Source} \union Destinations |-> 0]
    /\ hold = Default
    /\ request_toggle = 0
    /\ acknowledge_meta = [d \in Destinations |-> 0]
    /\ acknowledge_sync = [d \in Destinations |-> 0]
    /\ request_meta = [d \in Destinations |-> 0]
    /\ request_sync = [d \in Destinations |-> 0]
    /\ request_seen = [d \in Destinations |-> 0]
    /\ acknowledge_toggle = [d \in Destinations |-> 0]
    /\ payload = [d \in Destinations |-> Default]

\* Reset is asserted in all domains at once, whatever their clocks do.
CdcReset ==
    /\ reset_sync' = [c \in Domains |-> 0]
    /\ hold' = Default
    /\ request_toggle' = 0
    /\ acknowledge_meta' = [d \in Destinations |-> 0]
    /\ acknowledge_sync' = [d \in Destinations |-> 0]
    /\ request_meta' = [d \in Destinations |-> 0]
    /\ request_sync' = [d \in Destinations |-> 0]
    /\ request_seen' = [d \in Destinations |-> 0]
    /\ acknowledge_toggle' = [d \in Destinations |-> 0]
    /\ payload' = [d \in Destinations |-> Default]

\* The domains whose registers move when the clocks in ticks have an edge.
Active(ticks) == {c \in ticks : Running(c)}

\* The source's edge: sample the answers, and send v if send holds.
SourceEdge(ticks, send, v) ==
    IF Source \notin Active(ticks) THEN UNCHANGED sourceVars
    ELSE /\ acknowledge_meta' \in [Destinations -> {0, 1}]
         /\ \A d \in Destinations :
              acknowledge_meta'[d] \in {acknowledge_toggle[d], acknowledge_toggle'[d]}
         /\ acknowledge_sync' = acknowledge_meta
         /\ hold' = IF send THEN v ELSE hold
         /\ request_toggle' = IF send THEN 1 - request_toggle ELSE request_toggle

\* The destinations' edges: each captures a request that has passed both of its
\* synchroniser registers.
DestinationEdges(ticks, toggle_after, hold_after) ==
    LET ticking == Active(ticks) \ {Source}
        captures == {d \in ticking : request_arrived(d)}
    IN  /\ request_meta' \in [Destinations -> {0, 1}]
        /\ \A d \in Destinations :
             request_meta'[d] \in IF d \in ticking
                                  THEN {request_toggle, toggle_after}
                                  ELSE {request_meta[d]}
        /\ request_sync' = [d \in Destinations |->
             IF d \in ticking THEN request_meta[d] ELSE request_sync[d]]
        /\ request_seen' = [d \in Destinations |->
             IF d \in captures THEN request_sync[d] ELSE request_seen[d]]
        /\ acknowledge_toggle' = [d \in Destinations |->
             IF d \in captures THEN request_sync[d] ELSE acknowledge_toggle[d]]
        /\ payload' = [d \in Destinations |->
             IF d \notin captures THEN payload[d]
             ELSE IF hold_after = hold THEN hold ELSE Torn]

\* Edges of all clocks in ticks at one instant.
ClockEdges(ticks, send, v) ==
    LET sends == send /\ Source \in Active(ticks)
    IN  /\ DestinationEdges(ticks,
                            IF sends THEN 1 - request_toggle ELSE request_toggle,
                            IF sends THEN v ELSE hold)
        /\ SourceEdge(ticks, send, v)
        /\ reset_sync' = [c \in Domains |->
             IF c \in ticks /\ reset_sync[c] < 2 THEN reset_sync[c] + 1
             ELSE reset_sync[c]]

\* The handshake implements the mailbox: a payload is unread where the request
\* toggle has not come back from the destination.
Box == INSTANCE Mailbox WITH
    mail <- hold,
    unread <- {d \in Destinations : request_toggle # acknowledge_toggle[d]},
    delivered <- payload

---------------------------------------------------------------------------
\* Through any interleaving or coincidence of clock edges, metastable samples
\* and resets, each destination sees whole payloads, each once and in order, and
\* the source never overwrites one that is under way (apf_settings_cdc.sv:5-11).
CrossingIsMailbox == Box!Spec
===========================================================================
