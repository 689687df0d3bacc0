---------------------------- MODULE StartupSequencer ----------------------------
(***************************************************************************)
(* apf_startup_sequencer.sv: the Setup -> Idle -> Running life cycle of one *)
(* title.  The power-on (PLL) reset is over when the model starts, so       *)
(* reset_n is high and the Booting status is never seen.                    *)
(* ready_to_run_pulse has no reader in core_top.v (the command handler      *)
(* watches the rising edge of startup_complete) and is left out.            *)
(***************************************************************************)
EXTENDS Naturals

VARIABLES
    state,             \* "SETUP", "IDLE" or "RUNNING"
    startup_complete,
    data_slots_seen,
    rtc_seen,
    host_reset_sync    \* how many stages of the release chain hold a one

sequencerVars == <<state, startup_complete, data_slots_seen, rtc_seen,
                   host_reset_sync>>

SequencerTypeOK ==
    /\ state \in {"SETUP", "IDLE", "RUNNING"}
    /\ startup_complete \in BOOLEAN
    /\ data_slots_seen \in BOOLEAN
    /\ rtc_seen \in BOOLEAN
    /\ host_reset_sync \in 0..3

SequencerInit ==
    /\ state = "SETUP"
    /\ startup_complete = FALSE
    /\ data_slots_seen = FALSE
    /\ rtc_seen = FALSE
    /\ host_reset_sync = 0

\* Reset Exit as the sequencer sees it: through three flip-flops that Reset
\* Enter clears without waiting for a clock.
host_reset_n == host_reset_sync = 3

startup_status_running == state = "RUNNING" /\ host_reset_n

\* The release chain: held clear while the host's reset_n is low, one more
\* stage set at every edge that finds it high.
HostResetEdge(released, released_next) ==
    host_reset_sync' = IF ~released \/ ~released_next THEN 0
                       ELSE IF host_reset_n THEN 3 ELSE host_reset_sync + 1

all_startup_requirements(slots, rtc, loaders, initializers) ==
    /\ data_slots_seen \/ slots
    /\ rtc_seen \/ rtc
    /\ loaders
    /\ initializers

\* A new title: forget everything about the last one.
TitleLoadStart ==
    /\ state' = "SETUP"
    /\ startup_complete' = FALSE
    /\ data_slots_seen' = FALSE
    /\ rtc_seen' = FALSE

\* Setup latches the two notifications and leaves once everything is ready.
SetupEdge(slots, rtc, loaders, initializers) ==
    /\ data_slots_seen' = (data_slots_seen \/ slots)
    /\ rtc_seen' = (rtc_seen \/ rtc)
    /\ IF ~startup_complete
            /\ all_startup_requirements(slots, rtc, loaders, initializers)
       THEN startup_complete' = TRUE /\ state' = "IDLE"
       ELSE UNCHANGED <<startup_complete, state>>

\* Idle and Running follow the synchronized Reset Exit and Reset Enter.
RunEdge ==
    /\ state' = IF host_reset_n THEN "RUNNING" ELSE "IDLE"
    /\ UNCHANGED <<startup_complete, data_slots_seen, rtc_seen>>

SequencerEdge(load, slots, rtc, loaders, initializers) ==
    IF load THEN TitleLoadStart
    ELSE IF state = "SETUP" THEN SetupEdge(slots, rtc, loaders, initializers)
    ELSE RunEdge
=============================================================================
