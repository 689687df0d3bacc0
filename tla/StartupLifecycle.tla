---------------------------- MODULE StartupLifecycle ----------------------------
(***************************************************************************)
(* Start-up, shutdown and change of title: the command handler              *)
(* (BridgeCommand), the slot guard (DataslotGuard) and the sequencer        *)
(* (StartupSequencer) as core_top.v wires them, with the blocks of          *)
(* core_top.v that track the RTC delivery and publish the save length, the  *)
(* memory-clock side that snapshots the footer and prepares the save, and   *)
(* the console's reset.                                                     *)
(*                                                                         *)
(* Everything clocked by clk_74a moves in one action, Edge.  The other      *)
(* clocks and the synchronizers between them are actions of their own: a    *)
(* synchronized level is a copy that catches up at some later moment.  The  *)
(* acknowledged crossings behave as BundledCdc and CommitCdc describe.      *)
(*                                                                         *)
(* The environment is Pocket's firmware and the Chip32 loader script.       *)
(***************************************************************************)
EXTENDS StartupSequencer, DataslotGuard, BridgeCommand

CONSTANTS
    MaxTitles,         \* bound: titles loaded in one session
    MaxRtc,            \* bound: 0090 commands per title
    ResetsBeforeLoad,  \* Pocket sends Reset Enter before it loads a new title
    PromptAnswer,      \* Pocket answers 0140 before the next title has loaded
    KeepsOrder         \* Pocket sends Reset Exit and the 0080 of a flush only
                       \* after it has answered the title's 0140

ASSUME BoundsAssumption ==
    /\ MaxTitles \in Nat \ {0}
    /\ MaxRtc \in Nat \ {0}

VARIABLES
    \* the Chip32 script and the host's bookkeeping
    script,      \* "none", "open", "stream", "poll", "saves", "upload",
                 \* "done" or "failed"
    title,       \* the title being loaded or played, counted from 1
    rtc_sent,    \* 0090 commands sent for this title
    cart_download,
    \* clk_74a: RTC delivery
    rtc_cdc_busy, rtc_cdc_rejected,
    rtc_transfer_seen_busy, rtc_transfer_delivered, rtc_transfer_failed,
    \* clk_74a: save metadata and the data table
    rom_plan_busy,
    metadata_valid,     \* one-edge pulse of the metadata crossing
    metadata_74a,       \* the title whose save length arrived last
    metadata_ready, publish_pending, publish_step, table_published,
    data_table,         \* the title whose save length slot 11 holds
    \* clk_mem
    download_mem,       \* cart_download of wonderswan.sv, image checks included
    allcomplete_mem,    \* synchronized 008F level
    metadata_pending,   \* snapshot waiting for the crossing (0: none)
    metadata_flight,    \* snapshot in the crossing (0: none)
    metadata_busy,
    init_state,         \* pocket_save_init: "armed", "clearing", "resolved"
    save_loaded,        \* a payload word of this title has been written
    \* synchronized copies in clk_74a, and the console's own view
    metadata_busy_74a, resolved_74a, execution_ready_74a,
    run_sys, download_sys,
    \* history: the title each stage of the 0140 handshake was for
    tag

hostVars == <<script, title, rtc_sent, cart_download>>
rtcVars == <<rtc_cdc_busy, rtc_cdc_rejected, rtc_transfer_seen_busy,
             rtc_transfer_delivered, rtc_transfer_failed>>
publishVars == <<metadata_ready, publish_pending, publish_step,
                 table_published, data_table>>
memVars == <<download_mem, allcomplete_mem, metadata_pending, init_state,
             save_loaded>>
flightVars == <<metadata_flight, metadata_busy>>
arrivalVars == <<metadata_valid, metadata_74a>>
syncVars == <<metadata_busy_74a, resolved_74a, execution_ready_74a,
              run_sys, download_sys>>

vars == <<sequencerVars, guardVars, bridgeVars, hostVars, rtcVars,
          rom_plan_busy, publishVars, memVars, flightVars, arrivalVars,
          syncVars, tag>>

Titles == 1..MaxTitles
Stages == {"started", "queued", "issued", "acked"}

Copies == {"metadata_busy", "resolved", "execution_ready", "run", "download"}

TypeOK ==
    /\ SequencerTypeOK
    /\ GuardTypeOK(SlotCommands)
    /\ BridgeTypeOK
    /\ script \in {"none", "open", "stream", "poll", "saves", "upload",
                   "done", "failed"}
    /\ title \in 0..MaxTitles
    /\ rtc_sent \in 0..MaxRtc
    /\ cart_download \in BOOLEAN
    /\ {rtc_cdc_busy, rtc_cdc_rejected, rtc_transfer_seen_busy,
        rtc_transfer_delivered, rtc_transfer_failed} \subseteq BOOLEAN
    /\ {rom_plan_busy, metadata_valid, metadata_ready, publish_pending,
        table_published} \subseteq BOOLEAN
    /\ publish_step \in 0..2
    /\ {metadata_74a, data_table, metadata_pending, metadata_flight}
            \subseteq 0..MaxTitles
    /\ {download_mem, allcomplete_mem, metadata_busy, save_loaded} \subseteq BOOLEAN
    /\ init_state \in {"armed", "clearing", "resolved"}
    /\ {metadata_busy_74a, resolved_74a, execution_ready_74a, run_sys,
        download_sys} \subseteq BOOLEAN
    /\ tag \in [Stages -> 0..MaxTitles]

\* The save initializer is armed but no title has been loaded.
Init ==
    /\ SequencerInit
    /\ DataslotGuardInit
    /\ BridgeInit
    /\ script = "none" /\ title = 0 /\ rtc_sent = 0 /\ cart_download = FALSE
    /\ rtc_cdc_busy = FALSE /\ rtc_cdc_rejected = FALSE
    /\ rtc_transfer_seen_busy = FALSE /\ rtc_transfer_delivered = FALSE
    /\ rtc_transfer_failed = FALSE
    /\ rom_plan_busy = FALSE
    /\ metadata_valid = FALSE /\ metadata_74a = 0
    /\ metadata_ready = FALSE /\ publish_pending = FALSE /\ publish_step = 0
    /\ table_published = FALSE /\ data_table = 0
    /\ download_mem = FALSE /\ allcomplete_mem = FALSE /\ metadata_pending = 0
    /\ metadata_flight = 0 /\ metadata_busy = FALSE
    /\ init_state = "armed" /\ save_loaded = FALSE
    /\ metadata_busy_74a = FALSE /\ resolved_74a = FALSE /\ execution_ready_74a = FALSE
    /\ run_sys = FALSE /\ download_sys = FALSE
    /\ tag = [s \in Stages |-> 0]

-----------------------------------------------------------------------------
(* clk_74a                                                                   *)

status_running == startup_status_running /\ execution_ready_74a

loaders_ready ==
    /\ metadata_ready
    /\ table_published
    /\ ~metadata_busy_74a
    /\ rtc_transfer_delivered
    /\ ~rtc_transfer_failed

read_loader_ready(quiesced) ==
    /\ startup_complete
    /\ ~reset_n
    /\ ~execution_ready_74a
    /\ quiesced
    /\ table_published
    /\ resolved_74a

\* The slot policy.  fit: a file to be written has a length the slot accepts;
\* for a read, the save memory has been quiet long enough after Reset Enter.
Verdict(fit) ==
    CASE latched = "write_rom" -> Judge(fit, ~rom_plan_busy, TRUE, TRUE)
      [] latched = "write_save" ->
            Judge(~metadata_ready \/ fit, metadata_ready, TRUE, TRUE)
      [] OTHER -> Judge(TRUE, metadata_ready, TRUE, read_loader_ready(fit))

\* The guard's acknowledgement of an accepted cartridge size starts the ROM
\* plan crossing; the crossing ends when its acknowledgement returns.
RomPlanEdge(acks) ==
    rom_plan_busy' =
        \/ /\ request_ack
           /\ request_result = "ready"
           /\ dataslot_request = "write_rom"
        \/ rom_plan_busy /\ "rom_plan" \notin acks

\* apf_rtc_cdc: a notification during a transfer is rejected.
RtcCdcEdge(acks) ==
    /\ rtc_cdc_rejected' = (rtc_valid /\ rtc_cdc_busy)
    /\ rtc_cdc_busy' = IF rtc_cdc_busy THEN "rtc" \notin acks ELSE rtc_valid

\* The plausible slip of looking for the transfer only as it is requested.
RtcTrackEdgeMissesBusy ==
    IF cart_download
    THEN /\ rtc_transfer_seen_busy' = FALSE
         /\ rtc_transfer_delivered' = FALSE
         /\ rtc_transfer_failed' = FALSE
    ELSE /\ rtc_transfer_seen_busy' = rtc_valid
         /\ rtc_transfer_delivered' =
                /\ ~rtc_cdc_rejected
                /\ \/ rtc_transfer_seen_busy /\ ~rtc_cdc_busy
                   \/ rtc_transfer_delivered /\ ~rtc_valid
         /\ rtc_transfer_failed' =
                (rtc_cdc_rejected \/ (rtc_transfer_failed /\ ~rtc_valid))

\* The later assignment wins: a rejection over a delivery, both over the
\* clear that a new 0090 brings.
RtcTrackEdge ==
    IF cart_download
    THEN /\ rtc_transfer_seen_busy' = FALSE
         /\ rtc_transfer_delivered' = FALSE
         /\ rtc_transfer_failed' = FALSE
    ELSE /\ rtc_transfer_seen_busy' =
                (rtc_cdc_busy \/ (rtc_transfer_seen_busy /\ ~rtc_valid))
         /\ rtc_transfer_delivered' =
                /\ ~rtc_cdc_rejected
                /\ \/ rtc_transfer_seen_busy /\ ~rtc_cdc_busy
                   \/ rtc_transfer_delivered /\ ~rtc_valid
         /\ rtc_transfer_failed' =
                (rtc_cdc_rejected \/ (rtc_transfer_failed /\ ~rtc_valid))

\* Writing the table: slot 11 first, then the two fixed console slots.
publishing == publish_pending /\ dataslot_allcomplete

\* The plausible slip of not clearing the old title's readiness.
PublishKeep ==
    /\ publish_pending' = FALSE
    /\ publish_step' = 0
    /\ UNCHANGED <<data_table, metadata_ready, table_published>>

PublishClear ==
    /\ metadata_ready' = FALSE
    /\ publish_pending' = FALSE
    /\ table_published' = FALSE
    /\ publish_step' = 0
    /\ UNCHANGED data_table

\* A table step's assignments come after those of an arriving snapshot.
PublishStep ==
    /\ metadata_ready' = (metadata_ready \/ metadata_valid)
    /\ publish_step' = IF publishing /\ publish_step < 2 THEN publish_step + 1
                       ELSE IF metadata_valid THEN 0 ELSE publish_step
    /\ publish_pending' = /\ publish_pending \/ metadata_valid
                          /\ ~(publishing /\ publish_step = 2)
    /\ table_published' = \/ publishing /\ publish_step = 2
                          \/ table_published /\ ~metadata_valid
    /\ data_table' = IF publishing /\ publish_step = 0 THEN metadata_74a
                     ELSE data_table

PublishEdge == IF cart_download THEN PublishClear ELSE PublishStep

\* History: which title's start-up each stage of the 0140 handshake serves.
TagEdge ==
    tag' = [tag EXCEPT
        !["started"] = IF startup_complete' /\ ~startup_complete
                       THEN title ELSE @,
        !["queued"] = IF setup_done_rises(startup_complete)
                      THEN tag["started"] ELSE @,
        !["issued"] = IF tstate = "READYTORUN" THEN tag["queued"] ELSE @]

\* What may be acknowledged at an edge: the RTC and ROM plan crossings, and
\* the settings crossing that a Reset Exit waits for.
Awaited ==
    {a \in {"rtc", "rom_plan", "settings"} :
        CASE a = "rtc" -> rtc_cdc_busy
          [] a = "rom_plan" -> rom_plan_busy
          [] OTHER -> hstate = "PARSE" /\ host_cmd = "reset_exit"}

Fits == IF guard_state = "EVALUATE" THEN BOOLEAN ELSE {TRUE}

Edge(acks, fit) ==
    /\ BridgeEdge(startup_complete, status_running, "settings" \in acks,
                  request_ack, request_result)
    /\ DataslotGuardEdge(dataslot_request, Verdict(fit))
    /\ SequencerEdge(cart_download, dataslot_allcomplete,
                     rtc_transfer_delivered, loaders_ready, resolved_74a)
    /\ HostResetEdge(reset_n, reset_n')
    /\ RomPlanEdge(acks)
    /\ RtcCdcEdge(acks)
    /\ RtcTrackEdge
    /\ PublishEdge
    /\ metadata_valid' = FALSE
    /\ run_sys' = (run_sys /\ reset_n')
    /\ TagEdge
    /\ UNCHANGED <<hostVars, memVars, flightVars, metadata_74a,
                   metadata_busy_74a, resolved_74a, execution_ready_74a,
                   download_sys>>

-----------------------------------------------------------------------------
(* clk_mem and clk_sys                                                       *)

clkAVars == <<sequencerVars, guardVars, bridgeVars, rtcVars, rom_plan_busy,
              publishVars>>

\* The download level reaches the memory clock: the initializer is re-armed.
MemLoadStarts ==
    /\ cart_download /\ ~download_mem
    /\ download_mem' = TRUE
    /\ init_state' = "armed"
    /\ save_loaded' = FALSE
    /\ UNCHANGED <<clkAVars, hostVars, allcomplete_mem, metadata_pending,
                   flightVars, arrivalVars, syncVars, tag>>

\* The load, image checks included, is over: the footer is snapshotted.
MemLoadEnds ==
    /\ ~cart_download /\ download_mem
    /\ download_mem' = FALSE
    /\ metadata_pending' = title
    /\ UNCHANGED <<clkAVars, hostVars, allcomplete_mem, init_state,
                   save_loaded, flightVars, arrivalVars, syncVars, tag>>

MemSeesComplete ==
    /\ allcomplete_mem' = dataslot_allcomplete
    /\ UNCHANGED <<clkAVars, hostVars, download_mem, metadata_pending,
                   init_state, save_loaded, flightVars, arrivalVars, syncVars,
                   tag>>

\* pocket_save_init leaves a loaded save alone and blanks a missing one.
\* present: the title's footer declares a save.
SaveInitStarts(present) ==
    /\ init_state = "armed" /\ allcomplete_mem /\ ~download_mem
    /\ init_state' = IF save_loaded \/ ~present THEN "resolved" ELSE "clearing"
    /\ UNCHANGED <<clkAVars, hostVars, download_mem, allcomplete_mem,
                   metadata_pending, save_loaded, flightVars, arrivalVars,
                   syncVars, tag>>

SaveInitEnds ==
    /\ init_state = "clearing" /\ ~download_mem
    /\ init_state' = "resolved"
    /\ UNCHANGED <<clkAVars, hostVars, download_mem, allcomplete_mem,
                   metadata_pending, save_loaded, flightVars, arrivalVars,
                   syncVars, tag>>

MetadataSend ==
    /\ metadata_pending # 0 /\ ~metadata_busy
    /\ metadata_flight' = metadata_pending
    /\ metadata_pending' = 0
    /\ metadata_busy' = TRUE
    /\ UNCHANGED <<clkAVars, hostVars, download_mem, allcomplete_mem,
                   init_state, save_loaded, arrivalVars, syncVars, tag>>

MetadataArrive ==
    /\ metadata_flight # 0
    /\ metadata_74a' = metadata_flight
    /\ metadata_valid' = TRUE
    /\ metadata_flight' = 0
    /\ UNCHANGED <<clkAVars, hostVars, memVars, metadata_busy, syncVars, tag>>

MetadataAcknowledge ==
    /\ metadata_busy /\ metadata_flight = 0
    /\ metadata_busy' = FALSE
    /\ UNCHANGED <<clkAVars, hostVars, memVars, metadata_flight, arrivalVars,
                   syncVars, tag>>

\* The console's reset: Reset Enter asserts it at once, everything else is
\* seen through a synchronizer.
executing == reset_n /\ run_sys /\ ~download_sys /\ init_state # "clearing"

\* One synchronized copy catches up with its source.
Synchronize(copy) ==
    /\ metadata_busy_74a' = IF copy = "metadata_busy" THEN metadata_busy
                            ELSE metadata_busy_74a
    /\ resolved_74a' = IF copy = "resolved" THEN init_state = "resolved"
                       ELSE resolved_74a
    /\ execution_ready_74a' = IF copy = "execution_ready" THEN executing
                              ELSE execution_ready_74a
    /\ run_sys' = IF copy = "run" THEN reset_n ELSE run_sys
    /\ download_sys' = IF copy = "download" THEN cart_download \/ download_mem
                       ELSE download_sys
    /\ UNCHANGED <<clkAVars, hostVars, memVars, flightVars, arrivalVars, tag>>

-----------------------------------------------------------------------------
(* The host: chip32.asm and Pocket's firmware                                *)

coreVars == <<sequencerVars, guardVars, reset_n, hstate, host_resultcode,
              dataslot_allcomplete, dataslot_request, rtc_valid,
              status_setup_done_1, status_setup_done_queue, tstate,
              ready_to_run_complete, rtcVars, rom_plan_busy, publishVars,
              flightVars, arrivalVars, syncVars>>

\* Pocket finishes one command before it starts the next.
Write(cmd) == host_cmd' = cmd /\ host_0' = "command"

host_free == host_0 = "ok"

\* The script writes cart_download = 1 and LOADF asks for the cartridge slot.
OpenTitle ==
    /\ host_free
    /\ script \in {"none", "done", "failed"}
    /\ title < MaxTitles
    /\ ResetsBeforeLoad => ~reset_n
    /\ title' = title + 1
    /\ rtc_sent' = 0
    /\ cart_download' = TRUE
    /\ script' = "open"
    /\ Write("write_rom")
    /\ UNCHANGED <<coreVars, memVars, target_0, tag>>

\* LOADF reads the answer to its slot request.
CartridgeAnswered ==
    /\ script = "open" /\ host_free
    /\ \/ /\ host_resultcode = "check_later"
          /\ Write("write_rom")
          /\ UNCHANGED script
       \/ /\ host_resultcode # "check_later"
          /\ script' = IF host_resultcode = "ready" THEN "stream" ELSE "failed"
          /\ UNCHANGED <<host_cmd, host_0>>
    /\ UNCHANGED <<coreVars, memVars, title, rtc_sent, cart_download,
                   target_0, tag>>

\* A cartridge is at least 65536 bytes, so the stream lasts thousands of
\* edges of every clock: whatever was crossing when it began has arrived.
DownloadIsLong ==
    /\ download_mem /\ download_sys
    /\ allcomplete_mem = dataslot_allcomplete
    /\ resolved_74a = (init_state = "resolved")
    /\ metadata_pending = 0 /\ ~metadata_busy /\ ~metadata_valid
    /\ ~rtc_cdc_busy /\ ~rom_plan_busy

\* The last word has arrived: the script writes cart_download = 0.
CloseTitle ==
    /\ script = "stream"
    /\ DownloadIsLong
    /\ PromptAnswer => target_0 # "command" /\ tstate = "IDLE"
                       /\ ~status_setup_done_queue
    /\ cart_download' = FALSE
    /\ script' = "poll"
    /\ UNCHANGED <<coreVars, memVars, title, rtc_sent, host_cmd, host_0,
                   target_0, tag>>

\* The script polls the image status: accepted, or rejected or timed out.
PollImage ==
    /\ script = "poll"
    /\ script' \in {"saves", "failed"}
    /\ UNCHANGED <<coreVars, memVars, title, rtc_sent, cart_download, host_cmd,
                   host_0, target_0, tag>>

\* LOADF of the save slot, or no save file to load.
OfferSave ==
    /\ script = "saves" /\ host_free
    /\ \/ Write("write_save") /\ script' = "upload"
       \/ script' = "done" /\ UNCHANGED <<host_cmd, host_0>>
    /\ UNCHANGED <<coreVars, memVars, title, rtc_sent, cart_download, target_0,
                   tag>>

\* An accepted save is written; a refused one is not, and the script goes on.
SaveAnswered ==
    /\ script = "upload" /\ host_free
    /\ \/ /\ host_resultcode = "check_later"
          /\ Write("write_save")
          /\ UNCHANGED <<script, save_loaded>>
       \/ /\ host_resultcode # "check_later"
          /\ script' = "done"
          /\ save_loaded' = (save_loaded \/ host_resultcode = "ready")
          /\ UNCHANGED <<host_cmd, host_0>>
    /\ UNCHANGED <<coreVars, download_mem, allcomplete_mem, metadata_pending,
                   init_state, title, rtc_sent, cart_download, target_0, tag>>

sendVars == <<coreVars, memVars, script, title, cart_download, target_0, tag>>

SendAllComplete ==
    /\ host_free /\ script = "done" /\ ~dataslot_allcomplete
    /\ Write("all_complete")
    /\ UNCHANGED <<sendVars, rtc_sent>>

SendRtc ==
    /\ host_free /\ script = "done" /\ rtc_sent < MaxRtc
    /\ Write("rtc")
    /\ rtc_sent' = rtc_sent + 1
    /\ UNCHANGED sendVars

\* Pocket has seen this title's Ready to Run.
told_ready == tag["acked"] = title

SendResetExit ==
    /\ host_free /\ script = "done" /\ ~reset_n
    /\ KeepsOrder => told_ready
    /\ Write("reset_exit")
    /\ UNCHANGED <<sendVars, rtc_sent>>

SendResetEnter ==
    /\ host_free /\ reset_n
    /\ script = "done"
    /\ Write("reset_enter")
    /\ UNCHANGED <<sendVars, rtc_sent>>

SendStatus ==
    /\ host_free /\ script = "done"
    /\ Write("status")
    /\ UNCHANGED <<sendVars, rtc_sent>>

\* The flush of the save at shutdown.
SendReadSave ==
    /\ host_free /\ script = "done"
    /\ KeepsOrder => told_ready
    /\ Write("read_save")
    /\ UNCHANGED <<sendVars, rtc_sent>>

\* Pocket answers the 0140 it finds in the target register.
AnswerReadyToRun ==
    /\ target_0 = "command"
    /\ target_0' = "ok"
    /\ tag' = [tag EXCEPT !["acked"] = tag["issued"]]
    /\ UNCHANGED <<coreVars, memVars, hostVars, host_cmd, host_0>>

-----------------------------------------------------------------------------

AnyEdge == \E acks \in SUBSET Awaited, fit \in Fits : Edge(acks, fit)

Next ==
    \/ AnyEdge
    \/ MemLoadStarts \/ MemLoadEnds \/ MemSeesComplete
    \/ \E present \in BOOLEAN : SaveInitStarts(present)
    \/ SaveInitEnds
    \/ MetadataSend \/ MetadataArrive \/ MetadataAcknowledge
    \/ \E copy \in Copies : Synchronize(copy)
    \/ OpenTitle \/ CartridgeAnswered \/ CloseTitle \/ PollImage
    \/ OfferSave \/ SaveAnswered
    \/ SendAllComplete \/ SendRtc \/ SendResetExit \/ SendResetEnter
    \/ SendStatus \/ SendReadSave
    \/ AnswerReadyToRun

Spec == Init /\ [][Next]_vars

\* The clocks run, the crossings and synchronizers complete, the loader script
\* goes on, and Pocket sends 008F and 0090 and answers 0140.
FairSpec ==
    /\ Spec
    /\ WF_vars(\E fit \in Fits : Edge(Awaited, fit))
    /\ WF_vars(MemLoadStarts) /\ WF_vars(MemLoadEnds) /\ WF_vars(MemSeesComplete)
    /\ WF_vars(\E present \in BOOLEAN : SaveInitStarts(present))
    /\ WF_vars(SaveInitEnds)
    /\ WF_vars(MetadataSend) /\ WF_vars(MetadataArrive)
    /\ WF_vars(MetadataAcknowledge)
    /\ \A copy \in Copies : WF_vars(Synchronize(copy))
    /\ WF_vars(CartridgeAnswered) /\ WF_vars(CloseTitle) /\ WF_vars(PollImage)
    /\ WF_vars(OfferSave) /\ WF_vars(SaveAnswered)
    /\ SF_vars(SendAllComplete) /\ SF_vars(SendRtc)
    /\ WF_vars(AnswerReadyToRun)

-----------------------------------------------------------------------------
(* Properties                                                                *)

\* The console runs a title only when that title's start-up is complete, its
\* save length is the one in the data table, and its save is loaded or
\* blanked; a title that is being replaced may run on for the moment the
\* download level takes to reach the console.
RunsOnlyPreparedTitle ==
    executing /\ ~cart_download =>
        /\ startup_complete /\ tag["started"] = title
        /\ table_published /\ data_table = title
        /\ init_state = "resolved"

\* Start-up completes on the facts of the title that is loaded, never on
\* what was left behind by the one before it.
StartupIsForThisTitle ==
    startup_complete /\ ~cart_download =>
        /\ tag["started"] = title
        /\ metadata_ready /\ metadata_74a = title
        /\ table_published /\ data_table = title
        /\ init_state = "resolved"

\* Ready to Run counts as complete only when Pocket has answered the 0140 of
\* the start-up it belongs to: a title never consumes the acknowledgement of
\* the title before it.
AckBelongsToTitle ==
    ready_to_run_complete /\ startup_complete => tag["acked"] = tag["started"]

\* A save that was uploaded for this title is never blanked by the
\* initializer, whatever 008F level the memory clock still sees.
LoadedSaveKept == save_loaded => init_state # "clearing"

\* Once a title is loaded and Pocket has said so, its start-up completes
\* unless the title is replaced.
StartupFinishes ==
    \A t \in Titles : script = "done" /\ title = t ~> startup_complete \/ title # t

=============================================================================
