---------------------------- MODULE CommitCdc -----------------------------
(***************************************************************************)
(* The handshake as a one-shot transfer: apf_rtc_cdc.sv (the RTC epoch),   *)
(* apf_save_metadata_cdc.sv (save size and RTC flag) and                   *)
(* apf_rom_plan_cdc.sv (the cartridge size, broadcast to two domains).     *)
(* A commit that finds the channel busy is rejected, never queued.  The    *)
(* metadata and ROM plan crossings act on a rising commit, the RTC         *)
(* crossing on every cycle of its valid strobe.                            *)
(***************************************************************************)
EXTENDS BundledCdc

CONSTANT MaxAccepted    \* bound: transfers started since reset

ASSUME CommitAssumption == MaxAccepted \in Nat

VARIABLES
    rising,         \* which crossing this is: it commits on a rising edge only
    commit_previous,
    rejected,       \* source: one-cycle strobe
    valid           \* per destination: one-cycle strobe

\* History variables.
VARIABLES
    accepted,       \* transfers started since reset
    strobes         \* per destination: captures since reset

commitVars == << handshakeVars, rising, commit_previous, rejected, valid, accepted,
                 strobes >>

CommitInit ==
    /\ CdcInit
    /\ rising \in BOOLEAN
    /\ commit_previous = FALSE
    /\ rejected = FALSE
    /\ valid = [d \in Destinations |-> FALSE]
    /\ accepted = 0
    /\ strobes = [d \in Destinations |-> 0]

\* Does this source edge see a commit?
Committing(commit) == commit /\ ~(rising /\ commit_previous)

\* Fault: a commit while busy replaces the payload under way.
StartsUnchecked(commit) == Committing(commit)

\* A commit starts a transfer if the channel is idle.
Starts(commit) == Committing(commit) /\ ~transfer_busy

\* One instant: the source presents commit and v on its edge, if it has one.
CommitEdges(ticks, commit, v) ==
    LET source_runs == Source \in Active(ticks)
        captures == {d \in Active(ticks) \ {Source} : request_arrived(d)}
    IN  /\ source_runs /\ Starts(commit) => accepted < MaxAccepted
        /\ ClockEdges(ticks, Starts(commit), v)
        /\ UNCHANGED rising
        /\ commit_previous' = IF source_runs THEN commit ELSE commit_previous
        /\ rejected' = IF source_runs THEN Committing(commit) /\ transfer_busy
                       ELSE rejected
        /\ valid' = [d \in Destinations |->
             IF d \in Active(ticks) THEN d \in captures ELSE valid[d]]
        /\ accepted' = IF source_runs /\ Starts(commit) THEN accepted + 1
                       ELSE accepted
        /\ strobes' = [d \in Destinations |->
             IF d \in captures THEN strobes[d] + 1 ELSE strobes[d]]

\* An edge without the source has no commit to present.
Edges ==
    \E ticks \in SUBSET Domains \ {{}} :
      \E commit \in IF Source \in ticks THEN BOOLEAN ELSE {FALSE} :
        \E v \in IF commit THEN Payloads ELSE {Default} :
          CommitEdges(ticks, commit, v)

CommitReset ==
    /\ CdcReset
    /\ UNCHANGED rising
    /\ commit_previous' = FALSE
    /\ rejected' = FALSE
    /\ valid' = [d \in Destinations |-> FALSE]
    /\ accepted' = 0
    /\ strobes' = [d \in Destinations |-> 0]

CommitNext ==
    \/ Edges
    \/ CommitReset

EdgeOf(c) ==
    \E ticks \in SUBSET Domains :
      /\ c \in ticks
      /\ \E commit \in IF Source \in ticks THEN BOOLEAN ELSE {FALSE} :
           \E v \in IF commit THEN Payloads ELSE {Default} :
             CommitEdges(ticks, commit, v)

---------------------------------------------------------------------------
\* Every accepted commit raises the destination's strobe exactly once: it is
\* never lost, doubled, or still missing when the next one is accepted.
StrobedOnce ==
    \A d \in Destinations : strobes[d] \in {accepted - 1, accepted}
===========================================================================
