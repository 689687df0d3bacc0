--------------------------- MODULE StartupProofs ---------------------------
(***************************************************************************)
(* Start-up, shutdown and change of title for any number of titles and     *)
(* RTC notifications: the invariant behind the properties of               *)
(* StartupLifecycle, and their proofs.                                     *)
(***************************************************************************)
EXTENDS StartupLifecycle, TLAPS

---------------------------------------------------------------------------
\* The type invariant

RtcTypes ==
    /\ rtc_cdc_busy \in BOOLEAN /\ rtc_cdc_rejected \in BOOLEAN
    /\ rtc_transfer_seen_busy \in BOOLEAN /\ rtc_transfer_delivered \in BOOLEAN
    /\ rtc_transfer_failed \in BOOLEAN

PublishTypes ==
    /\ rom_plan_busy \in BOOLEAN /\ metadata_ready \in BOOLEAN /\ publish_pending \in BOOLEAN
    /\ table_published \in BOOLEAN
    /\ publish_step \in 0..2 /\ data_table \in 0..MaxTitles

ClkATypes ==
    /\ SequencerTypeOK /\ GuardTypeOK(SlotCommands) /\ BridgeTypeOK
    /\ RtcTypes /\ PublishTypes

MemTypes ==
    /\ download_mem \in BOOLEAN /\ allcomplete_mem \in BOOLEAN /\ save_loaded \in BOOLEAN
    /\ metadata_pending \in 0..MaxTitles
    /\ init_state \in {"armed", "clearing", "resolved"}

FlightTypes == metadata_flight \in 0..MaxTitles /\ metadata_busy \in BOOLEAN

ArrivalTypes == metadata_74a \in 0..MaxTitles /\ metadata_valid \in BOOLEAN

SyncTypes ==
    /\ metadata_busy_74a \in BOOLEAN /\ resolved_74a \in BOOLEAN
    /\ execution_ready_74a \in BOOLEAN /\ run_sys \in BOOLEAN /\ download_sys \in BOOLEAN

HostTypes ==
    /\ script \in {"none", "open", "stream", "poll", "saves", "upload", "done", "failed"}
    /\ title \in 0..MaxTitles /\ rtc_sent \in 0..MaxRtc /\ cart_download \in BOOLEAN

Types ==
    /\ ClkATypes /\ MemTypes /\ FlightTypes /\ ArrivalTypes /\ SyncTypes /\ HostTypes
    /\ tag \in [Stages -> 0..MaxTitles]

LEMMA TypesAreTypeOK == Types <=> TypeOK
  <1>1. Types => TypeOK
    BY DEF Types, ClkATypes, RtcTypes, PublishTypes, MemTypes, FlightTypes, ArrivalTypes, SyncTypes,
           HostTypes, TypeOK
  <1>2. ASSUME TypeOK PROVE Types
    <2>1. RtcTypes
      BY <1>2 DEF TypeOK, RtcTypes
    <2>2. PublishTypes
      BY <1>2 DEF TypeOK, PublishTypes
    <2>3. MemTypes /\ FlightTypes /\ ArrivalTypes /\ SyncTypes /\ HostTypes
      BY <1>2 DEF TypeOK, MemTypes, FlightTypes, ArrivalTypes, SyncTypes, HostTypes
    <2> QED BY <1>2, <2>1, <2>2, <2>3 DEF TypeOK, Types, ClkATypes
  <1> QED BY <1>1, <1>2

LEMMA TypesInitially == Init => Types
  <1> SUFFICES ASSUME Init PROVE Types
    OBVIOUS
  <1>1. SequencerTypeOK /\ GuardTypeOK(SlotCommands) /\ BridgeTypeOK
    <2>1. SequencerTypeOK
      <3>1. SequencerInit
        BY DEF Init
      <3>2. host_reset_sync = 0 /\ 0 \in 0..3
        BY <3>1 DEF SequencerInit
      <3> QED BY <3>1, <3>2 DEF SequencerInit, SequencerTypeOK
    <2>2. GuardTypeOK(SlotCommands)
      BY DEF Init, DataslotGuardInit, GuardTypeOK, Results, NoRequest
    <2>3. BridgeTypeOK
      BY DEF Init, BridgeInit, BridgeTypeOK, Commands, SlotCommands, ResultCodes
    <2> QED BY <2>1, <2>2, <2>3
  <1>2. 0 \in 0..MaxTitles /\ 0 \in 0..MaxRtc
    BY BoundsAssumption
  <1>3. tag \in [Stages -> 0..MaxTitles]
    BY <1>2 DEF Init
  <1>4. RtcTypes /\ PublishTypes
    <2>1. 0 \in 0..2
      OBVIOUS
    <2>2. publish_step \in 0..2 /\ data_table \in 0..MaxTitles
      BY <1>2, <2>1 DEF Init
    <2> QED BY <2>2 DEF Init, RtcTypes, PublishTypes
  <1>5. MemTypes /\ FlightTypes /\ ArrivalTypes /\ SyncTypes /\ HostTypes
    BY <1>2 DEF Init, MemTypes, FlightTypes, ArrivalTypes, SyncTypes, HostTypes
  <1> QED BY <1>1, <1>3, <1>4, <1>5 DEF Types, ClkATypes

LEMMA TypesEdge ==
    ASSUME Types, NEW acks \in SUBSET Awaited, NEW fit \in Fits, Edge(acks, fit)
    PROVE  Types'
  <1>1. SequencerTypeOK'
    <2>1. SequencerEdge(cart_download, dataslot_allcomplete,
                     rtc_transfer_delivered, loaders_ready, resolved_74a)
       /\ HostResetEdge(reset_n, reset_n')
      BY DEF Edge
    <2>2. SequencerTypeOK
      BY DEF Types, ClkATypes
    <2>3. host_reset_sync' \in 0..3
      BY <2>1, <2>2 DEF SequencerTypeOK, HostResetEdge, host_reset_n
    <2>4. state' \in {"SETUP", "IDLE", "RUNNING"}
      BY <2>1, <2>2 DEF SequencerTypeOK, SequencerEdge, TitleLoadStart, SetupEdge, RunEdge
    <2>5. /\ startup_complete' \in BOOLEAN /\ data_slots_seen' \in BOOLEAN
          /\ rtc_seen' \in BOOLEAN
      BY <2>1, <2>2 DEF SequencerTypeOK, SequencerEdge, TitleLoadStart, SetupEdge, RunEdge
    <2> QED BY <2>3, <2>4, <2>5 DEF SequencerTypeOK
  <1>2. GuardTypeOK(SlotCommands)'
    <2>1. DataslotGuardEdge(dataslot_request, Verdict(fit)) /\ GuardTypeOK(SlotCommands)
          /\ dataslot_request \in SlotCommands \cup {"none"}
      BY DEF Edge, Types, ClkATypes, BridgeTypeOK
    <2>2. Verdict(fit) \in Results
      BY DEF Verdict, Judge, Results
    <2> HIDE DEF Verdict
    <2> QED
      BY <2>1, <2>2
      DEF DataslotGuardEdge, GuardAccept, GuardEvaluate, GuardRelease, GuardTypeOK, NoRequest
  <1>3. BridgeTypeOK'
    <2>1. /\ HostIdle \/ HostDone
               \/ HostParse(status_running, "settings" \in acks, request_ack, request_result)
          /\ TargetEdge(startup_complete)
          /\ BridgeTypeOK /\ request_result \in Results /\ startup_complete \in BOOLEAN
      BY DEF Edge, BridgeEdge, Types, ClkATypes, GuardTypeOK, SequencerTypeOK
    <2>2. /\ tstate' \in {"IDLE", "READYTORUN", "WAITRESULT_RTR"}
          /\ target_0' \in {"none", "command", "ok"}
      BY <2>1 DEF TargetEdge, TargetIdle, TargetSend, TargetWait, BridgeTypeOK
    <2>3. /\ status_setup_done_1' \in BOOLEAN /\ status_setup_done_queue' \in BOOLEAN
          /\ ready_to_run_complete' \in BOOLEAN
      BY <2>1 DEF TargetEdge, TargetIdle, TargetSend, TargetWait, BridgeTypeOK, queueRise,
                  ReadyToRun, setup_done_rises
    <2> HIDE DEF TargetEdge
    <2>4. /\ hstate' \in {"IDLE", "PARSE", "DONE"}
          /\ host_cmd' \in Commands /\ host_0' \in {"command", "busy", "ok"}
          /\ dataslot_request' \in SlotCommands \cup {"none"}
      BY <2>1 DEF HostIdle, HostDone, HostParse, RequestStatus, ResetEnter, ResetExit, SlotRequest,
                  AllComplete, RtcData, commandVars, BridgeTypeOK
    <2>5. host_resultcode' \in ResultCodes
      BY <2>1 DEF HostIdle, HostDone, HostParse, RequestStatus, ResetEnter, ResetExit, SlotRequest,
                  AllComplete, RtcData, commandVars, BridgeTypeOK, ResultCodes, Results
    <2>6. reset_n' \in BOOLEAN /\ dataslot_allcomplete' \in BOOLEAN /\ rtc_valid' \in BOOLEAN
      BY <2>1 DEF HostIdle, HostDone, HostParse, RequestStatus, ResetEnter, ResetExit, SlotRequest,
                  AllComplete, RtcData, commandVars, BridgeTypeOK
    <2> QED BY <2>2, <2>3, <2>4, <2>5, <2>6 DEF BridgeTypeOK
  <1>4. RtcTypes'
    <2>1. RtcTypes /\ rtc_valid \in BOOLEAN
      BY DEF Types, ClkATypes, BridgeTypeOK
    <2>2. rtc_cdc_busy' \in BOOLEAN /\ rtc_cdc_rejected' \in BOOLEAN
      BY <2>1 DEF Edge, RtcCdcEdge, RtcTypes
    <2>3. /\ rtc_transfer_seen_busy' \in BOOLEAN /\ rtc_transfer_delivered' \in BOOLEAN
          /\ rtc_transfer_failed' \in BOOLEAN
      BY <2>1 DEF Edge, RtcTrackEdge, RtcTypes
    <2> QED BY <2>2, <2>3 DEF RtcTypes
  <1>5. PublishTypes'
    <2>1. PublishTypes /\ PublishEdge /\ RomPlanEdge(acks) /\ metadata_74a \in 0..MaxTitles
      BY DEF Edge, Types, ClkATypes, ArrivalTypes
    <2>2. publish_step' \in 0..2
      <3>1. publish_step \in 0..2
        BY <2>1 DEF PublishTypes
      <3>2. \/ publish_step' = 0
            \/ publish_step' = publish_step
            \/ publish_step < 2 /\ publish_step' = publish_step + 1
        BY <2>1 DEF PublishEdge, PublishClear, PublishStep
      <3> QED BY <3>1, <3>2
    <2>5. data_table' \in 0..MaxTitles
      BY <2>1 DEF PublishTypes, PublishEdge, PublishClear, PublishStep
    <2>3. rom_plan_busy' \in BOOLEAN
      BY <2>1 DEF RomPlanEdge
    <2>4. metadata_ready' \in BOOLEAN /\ publish_pending' \in BOOLEAN /\ table_published' \in BOOLEAN
      BY <2>1 DEF PublishTypes, PublishEdge, PublishClear, PublishStep
    <2> QED BY <2>2, <2>3, <2>4, <2>5 DEF PublishTypes
  <1>6. tag' \in [Stages -> 0..MaxTitles]
    BY DEF Edge, Types, HostTypes, TagEdge, Stages
  <1>7. MemTypes' /\ FlightTypes' /\ HostTypes'
    BY DEF Edge, Types, hostVars, memVars, flightVars, MemTypes, FlightTypes, HostTypes
  <1>8. ArrivalTypes' /\ SyncTypes'
    BY DEF Edge, Types, ArrivalTypes, SyncTypes
  <1> QED
    BY <1>1, <1>2, <1>3, <1>4, <1>5, <1>6, <1>7, <1>8 DEF Types, ClkATypes

\* What the memory clock and the synchronizers do.
MemStep ==
    \/ MemLoadStarts \/ MemLoadEnds \/ MemSeesComplete
    \/ \E present \in BOOLEAN : SaveInitStarts(present)
    \/ SaveInitEnds
    \/ MetadataSend \/ MetadataArrive \/ MetadataAcknowledge
    \/ \E copy \in Copies : Synchronize(copy)

\* What the loader script and Pocket do.
HostStep ==
    \/ OpenTitle \/ CartridgeAnswered \/ CloseTitle \/ PollImage
    \/ OfferSave \/ SaveAnswered
    \/ SendAllComplete \/ SendRtc \/ SendResetExit \/ SendResetEnter
    \/ SendStatus \/ SendReadSave
    \/ AnswerReadyToRun

LEMMA NextByClock == Next <=> AnyEdge \/ MemStep \/ HostStep
  BY DEF Next, MemStep, HostStep

\* Neither of them moves a register of clk_74a, the command registers apart.
LEMMA MemStepFrame == MemStep => UNCHANGED << clkAVars, hostVars, tag >>
  BY DEF MemStep, MemLoadStarts, MemLoadEnds, MemSeesComplete, SaveInitStarts, SaveInitEnds,
         MetadataSend, MetadataArrive, MetadataAcknowledge, Synchronize

LEMMA HostStepFrame ==
    HostStep => /\ UNCHANGED << coreVars, download_mem, allcomplete_mem, metadata_pending,
                                init_state >>
  BY DEF HostStep, OpenTitle, CartridgeAnswered, CloseTitle, PollImage, OfferSave, SaveAnswered,
         SendAllComplete, SendRtc, SendResetExit, SendResetEnter, SendStatus, SendReadSave,
         AnswerReadyToRun, sendVars, memVars

LEMMA ClkAUnchanged == ClkATypes /\ UNCHANGED clkAVars => ClkATypes'
  <1> SUFFICES ASSUME ClkATypes, UNCHANGED clkAVars PROVE ClkATypes'
    OBVIOUS
  <1>1. SequencerTypeOK' /\ GuardTypeOK(SlotCommands)'
    BY DEF ClkATypes, clkAVars, sequencerVars, guardVars, SequencerTypeOK, GuardTypeOK
  <1>2. BridgeTypeOK'
    BY DEF ClkATypes, clkAVars, bridgeVars, BridgeTypeOK
  <1>3. RtcTypes' /\ PublishTypes'
    BY DEF ClkATypes, clkAVars, rtcVars, publishVars, RtcTypes, PublishTypes
  <1> QED BY <1>1, <1>2, <1>3 DEF ClkATypes

LEMMA TypesStep == Types /\ [Next]_vars => Types'
  <1> SUFFICES ASSUME Types, [Next]_vars PROVE Types'
    OBVIOUS
  <1>1. CASE AnyEdge
    BY <1>1, TypesEdge DEF AnyEdge
  <1>2. CASE MemStep
    <2>1. UNCHANGED << clkAVars, hostVars, tag >>
      BY <1>2, MemStepFrame
    <2>2. ClkATypes' /\ HostTypes' /\ (tag \in [Stages -> 0..MaxTitles])'
      BY <2>1, ClkAUnchanged DEF Types, HostTypes, hostVars
    <2>3. MemTypes' /\ FlightTypes' /\ ArrivalTypes'
      <3>1. MemTypes /\ FlightTypes /\ ArrivalTypes /\ title \in 0..MaxTitles
            /\ dataslot_allcomplete \in BOOLEAN /\ 0 \in 0..MaxTitles
        BY BoundsAssumption DEF Types, HostTypes, ClkATypes, BridgeTypeOK
      <3> USE DEF MemTypes, FlightTypes, ArrivalTypes, memVars, flightVars, arrivalVars
      <3>2. CASE MemLoadStarts \/ MemLoadEnds \/ MemSeesComplete
        BY <3>1, <3>2 DEF MemLoadStarts, MemLoadEnds, MemSeesComplete
      <3>3. CASE SaveInitEnds \/ \E present \in BOOLEAN : SaveInitStarts(present)
        BY <3>1, <3>3 DEF SaveInitStarts, SaveInitEnds
      <3>4. CASE MetadataSend \/ MetadataArrive \/ MetadataAcknowledge
        BY <3>1, <3>4 DEF MetadataSend, MetadataArrive, MetadataAcknowledge
      <3>5. CASE \E copy \in Copies : Synchronize(copy)
        BY <3>1, <3>5 DEF Synchronize
      <3> QED BY <1>2, <3>2, <3>3, <3>4, <3>5 DEF MemStep
    <2>5. SyncTypes'
      BY <1>2 DEF Types, MemStep, MemLoadStarts, MemLoadEnds, MemSeesComplete, SaveInitStarts,
         SaveInitEnds, MetadataSend, MetadataArrive, MetadataAcknowledge, Synchronize, SyncTypes,
         FlightTypes, MemTypes, HostTypes, ClkATypes, BridgeTypeOK, syncVars, executing
    <2> QED BY <2>2, <2>3, <2>5 DEF Types
  <1>3. CASE HostStep
    <2>1. UNCHANGED << coreVars, download_mem, allcomplete_mem, metadata_pending, init_state >>
      BY <1>3, HostStepFrame
    <2>2. FlightTypes' /\ ArrivalTypes' /\ SyncTypes'
      BY <2>1 DEF Types, coreVars, FlightTypes, ArrivalTypes, SyncTypes, flightVars, arrivalVars,
                  syncVars
    <2>3. RtcTypes' /\ PublishTypes' /\ SequencerTypeOK' /\ GuardTypeOK(SlotCommands)'
      BY <2>1 DEF Types, ClkATypes, coreVars, rtcVars, publishVars, RtcTypes, PublishTypes,
                  sequencerVars, guardVars, SequencerTypeOK, GuardTypeOK
    <2>4. host_cmd' \in Commands /\ host_0' \in {"command", "busy", "ok"}
          /\ target_0' \in {"none", "command", "ok"}
      BY <1>3 DEF Types, ClkATypes, BridgeTypeOK, HostStep, OpenTitle, CartridgeAnswered, CloseTitle,
         PollImage, OfferSave, SaveAnswered, SendAllComplete, SendRtc, SendResetExit,
         SendResetEnter, SendStatus, SendReadSave, AnswerReadyToRun, sendVars, Write, Commands,
         SlotCommands
    <2>5. BridgeTypeOK'
      BY <2>1, <2>4 DEF Types, ClkATypes, BridgeTypeOK, coreVars
    <2>6. HostTypes'
      <3>1. /\ script' \in {"none", "open", "stream", "poll", "saves", "upload", "done", "failed"}
            /\ cart_download' \in BOOLEAN
        BY <1>3 DEF Types, HostTypes, HostStep, OpenTitle, CartridgeAnswered,
           CloseTitle, PollImage, OfferSave, SaveAnswered, SendAllComplete, SendRtc, SendResetExit,
           SendResetEnter, SendStatus, SendReadSave, AnswerReadyToRun, sendVars, hostVars
      <3>2. \/ title' = title
            \/ title < MaxTitles /\ title' = title + 1
        BY <1>3 DEF HostStep, OpenTitle, CartridgeAnswered,
           CloseTitle, PollImage, OfferSave, SaveAnswered, SendAllComplete, SendRtc, SendResetExit,
           SendResetEnter, SendStatus, SendReadSave, AnswerReadyToRun, sendVars, hostVars
      <3>3. \/ rtc_sent' = rtc_sent \/ rtc_sent' = 0
            \/ rtc_sent < MaxRtc /\ rtc_sent' = rtc_sent + 1
        BY <1>3 DEF HostStep, OpenTitle, CartridgeAnswered,
           CloseTitle, PollImage, OfferSave, SaveAnswered, SendAllComplete, SendRtc, SendResetExit,
           SendResetEnter, SendStatus, SendReadSave, AnswerReadyToRun, sendVars, hostVars
      <3>4. title \in 0..MaxTitles /\ rtc_sent \in 0..MaxRtc
        BY DEF Types, HostTypes
      <3>5. title' \in 0..MaxTitles /\ rtc_sent' \in 0..MaxRtc
        BY <3>2, <3>3, <3>4, BoundsAssumption
      <3> QED BY <3>1, <3>5 DEF HostTypes
    <2>7. save_loaded' \in BOOLEAN
      BY <1>3 DEF Types, MemTypes, HostStep, OpenTitle, CartridgeAnswered,
         CloseTitle, PollImage, OfferSave, SaveAnswered, SendAllComplete, SendRtc, SendResetExit,
         SendResetEnter, SendStatus, SendReadSave, AnswerReadyToRun, sendVars, memVars
    <2>8. tag' \in [Stages -> 0..MaxTitles]
      BY <1>3 DEF Types, Stages, HostStep, OpenTitle, CartridgeAnswered,
         CloseTitle, PollImage, OfferSave, SaveAnswered, SendAllComplete, SendRtc, SendResetExit,
         SendResetEnter, SendStatus, SendReadSave, AnswerReadyToRun, sendVars
    <2> QED
      BY <2>1, <2>2, <2>3, <2>5, <2>6, <2>7, <2>8 DEF Types, ClkATypes, MemTypes
  <1>4. CASE UNCHANGED vars
    <2>1. UNCHANGED << clkAVars, hostVars, memVars, flightVars, arrivalVars, syncVars, tag >>
      BY <1>4 DEF vars, clkAVars
    <2> QED
      BY <2>1, ClkAUnchanged DEF Types, HostTypes, MemTypes, FlightTypes, ArrivalTypes, SyncTypes,
         hostVars, memVars, flightVars, arrivalVars, syncVars
  <1> QED BY <1>1, <1>2, <1>3, <1>4, NextByClock

\* Every register, level and command word keeps its type: no step of a clock,
\* of the script or of Pocket writes a value another part does not expect.
THEOREM StartupTypes == Spec => []TypeOK
  BY TypesInitially, TypesStep, TypesAreTypeOK, PTL DEF Spec

---------------------------------------------------------------------------
\* The inductive invariant

\* The command registers and the handler agree on whose turn it is.
TurnOK ==
    /\ host_0 = "ok" => hstate = "IDLE"
    /\ host_0 = "command" => hstate # "DONE"

\* Where the script is tells which command is at work and whether the cartridge
\* is being streamed.
ScriptOK ==
    /\ script \in {"none", "stream", "poll", "saves", "failed"} => host_0 = "ok"
    /\ script = "open" => host_cmd = "write_rom"
    /\ script = "upload" => host_cmd = "write_save"
    /\ script \in {"open", "stream"} => cart_download
    /\ script \in {"none", "poll", "saves", "upload", "done"} => ~cart_download

\* The slot request of a new title takes several edges, so the core has
\* forgotten the old title by the time Pocket reads the answer.
load_seen == script = "stream" \/ (script = "open" /\ hstate # "IDLE")
             \/ (script = "open" /\ host_0 # "command")
load_parsed == script = "stream" \/ (script = "open" /\ host_0 # "command")

LoadOK ==
    /\ load_seen => ~startup_complete /\ ~metadata_ready /\ ~publish_pending /\ ~table_published
    /\ load_parsed => ~status_setup_done_1 /\ ~dataslot_allcomplete

\* No 008F level of an older title is left when the save initializer may start.
SaveOK ==
    /\ download_mem => init_state = "armed"
    /\ script \in {"poll", "saves", "upload"} =>
         ~allcomplete_mem /\ ~dataslot_allcomplete /\ init_state = "armed"
    /\ LoadedSaveKept

\* The footer snapshot of a title is in one place at a time, and what has
\* arrived or is published is this title's.
SnapshotOK ==
    /\ metadata_flight # 0 => metadata_busy
    /\ publish_pending => metadata_ready
    /\ table_published => metadata_ready
    /\ ~cart_download =>
         /\ download_mem => metadata_pending = 0
         /\ download_mem \/ metadata_pending # 0 => metadata_flight = 0
         /\ download_mem \/ metadata_pending # 0 \/ metadata_flight # 0 => ~metadata_valid
         /\ download_mem \/ metadata_pending # 0 \/ metadata_flight # 0 \/ metadata_valid =>
              ~metadata_ready
         /\ metadata_pending # 0 => metadata_pending = title
         /\ metadata_flight # 0 => metadata_flight = title
         /\ metadata_valid \/ metadata_ready => metadata_74a = title
         /\ (publish_pending /\ publish_step # 0) \/ table_published => data_table = title

\* A start-up that has completed did so for this title.
StartOK ==
    /\ ready_to_run_complete => status_setup_done_1
    /\ ~cart_download =>
         /\ resolved_74a => init_state = "resolved"
         /\ status_setup_done_1 => startup_complete
         /\ startup_complete => /\ tag["started"] = title
                                /\ table_published /\ init_state = "resolved"

\* The 0140 handshake serves the start-up that is complete, or is at rest.
HandshakeIdle == tstate = "IDLE" /\ ~status_setup_done_queue /\ target_0 # "command"

HandshakeServes ==
    /\ tag["queued"] = tag["started"]
    /\ tstate # "IDLE" => ~status_setup_done_queue
    /\ ready_to_run_complete => tstate = "IDLE" /\ ~status_setup_done_queue
    /\ tstate = "WAITRESULT_RTR" => tag["issued"] = tag["started"]
    /\ tstate = "WAITRESULT_RTR" /\ target_0 # "command" => tag["acked"] = tag["started"]
    /\ tstate = "IDLE" /\ ~status_setup_done_queue => tag["acked"] = tag["started"]
    /\ target_0 = "command" => tstate = "WAITRESULT_RTR"

HandshakeOK ==
    /\ ~startup_complete /\ ~cart_download => HandshakeIdle
    /\ startup_complete /\ ~status_setup_done_1 => HandshakeIdle
    /\ startup_complete /\ status_setup_done_1 => HandshakeServes

\* Reset Exit is granted to a title that has started, and Reset Enter comes
\* before the next one.
RunOK == reset_n => startup_complete /\ ~cart_download

ControlInv == Types /\ TurnOK /\ ScriptOK
TitleInv == ControlInv /\ LoadOK /\ SaveOK /\ SnapshotOK /\ StartOK

---------------------------------------------------------------------------
\* What an edge of clk_74a does to the registers the invariant is about

LEMMA EdgeFrame ==
    ASSUME NEW acks, NEW fit, Edge(acks, fit)
    PROVE  /\ UNCHANGED << script, title, cart_download, download_mem, allcomplete_mem,
                           metadata_pending, init_state, save_loaded, metadata_flight,
                           metadata_busy, metadata_74a, resolved_74a >>
           /\ metadata_valid' = FALSE
           /\ status_setup_done_1' = startup_complete
  BY DEF Edge, hostVars, memVars, flightVars, BridgeEdge, TargetEdge

LEMMA EdgeHandler ==
    ASSUME Types, NEW acks, NEW fit, Edge(acks, fit)
    PROVE  /\ host_cmd' = host_cmd
           /\ \/ /\ hstate = "IDLE" /\ host_0' = host_0
                 /\ hstate' = IF host_0 = "command" THEN "PARSE" ELSE "IDLE"
                 /\ UNCHANGED << reset_n, dataslot_allcomplete >>
              \/ /\ hstate = "PARSE" /\ host_0' = "busy" /\ hstate' \in {"PARSE", "DONE"}
                 /\ (host_cmd \in {"write_rom", "write_save"} => ~dataslot_allcomplete')
                 /\ reset_n' => reset_n
                               \/ (host_cmd = "reset_exit" /\ ready_to_run_complete)
              \/ /\ hstate = "DONE" /\ host_0' = "ok" /\ hstate' = "IDLE"
                 /\ UNCHANGED << reset_n, dataslot_allcomplete >>
  <1>1. \/ HostIdle \/ HostDone
        \/ HostParse(status_running, "settings" \in acks, request_ack, request_result)
    BY DEF Edge, BridgeEdge
  <1>2. CASE HostIdle
    BY <1>2 DEF HostIdle
  <1>3. CASE HostDone
    BY <1>3 DEF HostDone, commandVars
  <1>4. CASE HostParse(status_running, "settings" \in acks, request_ack, request_result)
    <2>1. hstate = "PARSE" /\ host_0' = "busy" /\ host_cmd' = host_cmd
      BY <1>4 DEF HostParse
    <2>2. hstate' \in {"PARSE", "DONE"}
      BY <1>4 DEF HostParse, RequestStatus, ResetEnter, ResetExit, SlotRequest, AllComplete, RtcData
    <2>3. host_cmd \in {"write_rom", "write_save"} => ~dataslot_allcomplete'
      BY <1>4 DEF HostParse, RequestStatus, ResetEnter, ResetExit, SlotRequest, AllComplete, RtcData
    <2>4. reset_n' => reset_n \/ (host_cmd = "reset_exit" /\ ready_to_run_complete)
      BY <1>4 DEF HostParse, RequestStatus, ResetEnter, ResetExit, SlotRequest, AllComplete,
         RtcData, commandVars
    <2> QED BY <2>1, <2>2, <2>3, <2>4
  <1> QED BY <1>1, <1>2, <1>3, <1>4

LEMMA EdgeSequencer ==
    ASSUME Types, NEW acks, NEW fit, Edge(acks, fit)
    PROVE  /\ cart_download => ~startup_complete'
           /\ ~cart_download /\ startup_complete => startup_complete'
           /\ ~cart_download /\ ~startup_complete /\ startup_complete' =>
                loaders_ready /\ resolved_74a
  <1>1. SequencerEdge(cart_download, dataslot_allcomplete, rtc_transfer_delivered, loaders_ready,
                      resolved_74a)
    BY DEF Edge
  <1>2. cart_download \in BOOLEAN /\ startup_complete \in BOOLEAN
    BY DEF Types, ClkATypes, SequencerTypeOK, HostTypes
  <1> QED
    BY <1>1, <1>2 DEF SequencerEdge, TitleLoadStart, SetupEdge, RunEdge,
                      all_startup_requirements

LEMMA EdgePublish ==
    ASSUME Types, NEW acks, NEW fit, Edge(acks, fit)
    PROVE  /\ cart_download => ~metadata_ready' /\ ~publish_pending' /\ ~table_published'
           /\ ~cart_download =>
                /\ metadata_ready' <=> metadata_ready \/ metadata_valid
                /\ publish_pending' => publish_pending \/ metadata_valid
                /\ table_published' => (publish_pending /\ publish_step # 0) \/ table_published
                /\ table_published /\ ~metadata_valid => table_published'
                /\ publish_step' # 0 => publish_step # 0 \/ data_table' = metadata_74a
                /\ publish_step' # 0 /\ metadata_valid => publish_pending
                /\ data_table' # data_table => data_table' = metadata_74a /\ publish_pending
  <1>1. PublishEdge /\ PublishTypes /\ metadata_valid \in BOOLEAN /\ cart_download \in BOOLEAN
    BY DEF Edge, Types, ClkATypes, ArrivalTypes, HostTypes
  <1>2. CASE cart_download
    BY <1>1, <1>2 DEF PublishEdge, PublishClear
  <1>3. CASE ~cart_download
    <2>1. PublishStep
      BY <1>1, <1>3 DEF PublishEdge
    <2>2. /\ metadata_ready' <=> metadata_ready \/ metadata_valid
          /\ publish_pending' => publish_pending \/ metadata_valid
      BY <1>1, <2>1 DEF PublishStep, PublishTypes
    <2>3. /\ table_published' => (publish_pending /\ publish_step # 0) \/ table_published
          /\ table_published /\ ~metadata_valid => table_published'
      BY <1>1, <2>1 DEF PublishStep, PublishTypes, publishing
    <2>4. /\ publish_step' # 0 => publish_step # 0 \/ data_table' = metadata_74a
          /\ publish_step' # 0 /\ metadata_valid => publish_pending
      BY <1>1, <2>1 DEF PublishStep, PublishTypes, publishing
    <2>5. data_table' # data_table => data_table' = metadata_74a /\ publish_pending
      BY <1>1, <2>1 DEF PublishStep, PublishTypes, publishing
    <2> QED BY <1>3, <2>2, <2>3, <2>4, <2>5
  <1> QED BY <1>1, <1>2, <1>3

---------------------------------------------------------------------------
\* The parts of the invariant, one kind of step at a time

LEMMA EdgeInv ==
    ASSUME TitleInv, NEW acks \in SUBSET Awaited, NEW fit \in Fits, Edge(acks, fit)
    PROVE  TitleInv'
  <1> USE DEF TitleInv, ControlInv
  <1>1. Types'
    BY TypesEdge
  <1>2. /\ script \in {"none", "open", "stream", "poll", "saves", "upload", "done", "failed"}
        /\ host_0 \in {"command", "busy", "ok"} /\ hstate \in {"IDLE", "PARSE", "DONE"}
    BY DEF Types, HostTypes, ClkATypes, BridgeTypeOK
  <1>3. /\ cart_download \in BOOLEAN /\ startup_complete \in BOOLEAN
        /\ dataslot_allcomplete \in BOOLEAN /\ metadata_valid \in BOOLEAN
        /\ metadata_ready \in BOOLEAN /\ publish_pending \in BOOLEAN
        /\ table_published \in BOOLEAN /\ resolved_74a \in BOOLEAN
        /\ status_setup_done_1 \in BOOLEAN /\ ready_to_run_complete \in BOOLEAN
    BY DEF Types, HostTypes, ClkATypes, BridgeTypeOK, SequencerTypeOK, ArrivalTypes, PublishTypes,
           SyncTypes
  <1>4. /\ UNCHANGED << script, title, cart_download, download_mem, allcomplete_mem,
                        metadata_pending, init_state, save_loaded, metadata_flight,
                        metadata_busy, metadata_74a, resolved_74a >>
        /\ metadata_valid' = FALSE
        /\ status_setup_done_1' = startup_complete
    BY EdgeFrame
  <1>5. /\ host_cmd' = host_cmd
        /\ \/ /\ hstate = "IDLE" /\ host_0' = host_0
              /\ hstate' = IF host_0 = "command" THEN "PARSE" ELSE "IDLE"
              /\ UNCHANGED << reset_n, dataslot_allcomplete >>
           \/ /\ hstate = "PARSE" /\ host_0' = "busy" /\ hstate' \in {"PARSE", "DONE"}
              /\ (host_cmd \in {"write_rom", "write_save"} => ~dataslot_allcomplete')
           \/ /\ hstate = "DONE" /\ host_0' = "ok" /\ hstate' = "IDLE"
              /\ UNCHANGED << reset_n, dataslot_allcomplete >>
    BY EdgeHandler
  <1>6. ~cart_download =>
           /\ metadata_ready' <=> metadata_ready \/ metadata_valid
           /\ publish_pending' => publish_pending \/ metadata_valid
           /\ table_published' => (publish_pending /\ publish_step # 0) \/ table_published
           /\ table_published /\ ~metadata_valid => table_published'
           /\ publish_step' # 0 => publish_step # 0 \/ data_table' = metadata_74a
           /\ publish_step' # 0 /\ metadata_valid => publish_pending
           /\ data_table' # data_table => data_table' = metadata_74a /\ publish_pending
    <2>1. Types
      OBVIOUS
    <2> HIDE DEF TitleInv, ControlInv
    <2> QED BY <2>1, EdgePublish
  <1>7. TurnOK'
    BY <1>2, <1>5 DEF TurnOK
  <1>8. ScriptOK'
    BY <1>2, <1>4, <1>5 DEF TurnOK, ScriptOK
  <1>9. LoadOK'
    <2>1. load_seen' => cart_download
      BY <1>4 DEF ScriptOK, load_seen
    <2>2. load_seen' => /\ ~startup_complete' /\ ~metadata_ready' /\ ~publish_pending'
                        /\ ~table_published'
      BY <2>1, EdgeSequencer, EdgePublish
    <2>3. load_parsed' => load_seen
      BY <1>2, <1>4, <1>5 DEF load_seen, load_parsed
    <2>4. load_parsed' => ~status_setup_done_1'
      BY <1>4, <2>3 DEF LoadOK
    <2>5. load_parsed' => ~dataslot_allcomplete'
      <3>1. CASE script = "stream"
        BY <1>2, <1>5, <3>1 DEF LoadOK, load_parsed, ScriptOK, TurnOK
      <3>2. CASE script = "open"
        BY <1>2, <1>4, <1>5, <3>2 DEF LoadOK, load_parsed, ScriptOK, TurnOK
      <3> QED BY <1>4, <3>1, <3>2 DEF load_parsed
    <2> QED BY <2>2, <2>4, <2>5 DEF LoadOK
  <1>10. SaveOK'
    <2>1. script \in {"poll", "saves", "upload"} => ~dataslot_allcomplete'
      BY <1>2, <1>5 DEF SaveOK, ScriptOK, TurnOK
    <2> QED BY <1>4, <2>1 DEF SaveOK, LoadedSaveKept
  <1>11. SnapshotOK'
    <2>1. CASE cart_download
      BY <1>4, <2>1, EdgePublish DEF SnapshotOK
    <2>2. CASE ~cart_download
      <3>2. metadata_valid \/ metadata_ready => metadata_74a = title
        BY <2>2 DEF SnapshotOK
      <3>3. table_published' => data_table' = title
        <4>1. (publish_pending /\ publish_step # 0) \/ table_published => data_table = title
          BY <2>2 DEF SnapshotOK
        <4>2. data_table' # data_table => data_table' = title
          BY <1>6, <2>2, <3>2 DEF SnapshotOK
        <4> QED BY <1>6, <2>2, <4>1, <4>2
      <3>4. publish_pending' /\ publish_step' # 0 => data_table' = title
        BY <1>3, <2>2, <1>6, <3>2 DEF SnapshotOK
      <3>5. download_mem \/ metadata_pending # 0 \/ metadata_flight # 0 => ~metadata_ready'
        BY <2>2, <1>6 DEF SnapshotOK
      <3> QED BY <1>4, <2>2, <1>6, <3>2, <3>3, <3>4, <3>5 DEF SnapshotOK
    <2> QED BY <1>3, <2>1, <2>2
  <1>12. StartOK'
    <2>1. ready_to_run_complete' => status_setup_done_1'
      <3>1. ReadyToRun(startup_complete)
        BY DEF Edge, BridgeEdge, TargetEdge
      <3>2. ready_to_run_complete' => startup_complete
        BY <1>3, <3>1 DEF ReadyToRun
      <3> QED BY <1>4, <3>2
    <2>2. ASSUME ~cart_download, startup_complete
          PROVE  startup_complete' /\ table_published' /\ tag'["started"] = tag["started"]
      <3>1. startup_complete'
        BY <2>2, EdgeSequencer
      <3>2. table_published /\ ~metadata_valid
        BY <2>2 DEF StartOK, SnapshotOK
      <3>3. tag'["started"] = tag["started"]
        BY <2>2 DEF Edge, TagEdge, Types, Stages
      <3>4. table_published'
        BY <1>6, <2>2, <3>2
      <3> QED BY <3>1, <3>3, <3>4
    <2>3. ASSUME ~cart_download, ~startup_complete, startup_complete'
          PROVE  resolved_74a /\ table_published' /\ tag'["started"] = title
      <3>1. loaders_ready /\ resolved_74a
        BY <2>3, EdgeSequencer
      <3>2. table_published /\ ~metadata_valid
        BY <2>3, <3>1 DEF loaders_ready, SnapshotOK
      <3>3. tag'["started"] = title
        BY <2>3 DEF Edge, TagEdge, Types, Stages
      <3>4. table_published'
        BY <1>6, <2>3, <3>2
      <3> QED BY <3>1, <3>3, <3>4
    <2> QED BY <1>3, <1>4, <2>1, <2>2, <2>3 DEF StartOK
  <1> QED BY <1>1, <1>7, <1>8, <1>9, <1>10, <1>11, <1>12

LEMMA MemInv == ASSUME TitleInv, MemStep, Types' PROVE TitleInv'
  <1> USE DEF TitleInv, ControlInv
  <1>1. UNCHANGED << clkAVars, hostVars, tag >>
    BY MemStepFrame
  <1>2. /\ UNCHANGED << host_0, host_cmd, hstate, script, cart_download, startup_complete,
                        metadata_ready, publish_pending, table_published, publish_step,
                        data_table, status_setup_done_1, dataslot_allcomplete, title >>
        /\ UNCHANGED << ready_to_run_complete, tag >>
    BY <1>1 DEF clkAVars, hostVars, bridgeVars, sequencerVars, publishVars
  <1>3. TurnOK' /\ ScriptOK' /\ LoadOK'
    BY <1>2 DEF TurnOK, ScriptOK, LoadOK, load_seen, load_parsed
  <1>4. /\ cart_download \in BOOLEAN /\ dataslot_allcomplete \in BOOLEAN
        /\ download_mem \in BOOLEAN /\ metadata_valid \in BOOLEAN /\ resolved_74a \in BOOLEAN
        /\ allcomplete_mem \in BOOLEAN /\ save_loaded \in BOOLEAN
    BY DEF Types, HostTypes, ClkATypes, BridgeTypeOK, MemTypes, ArrivalTypes, SyncTypes
  <1>5. SaveOK' /\ SnapshotOK' /\ StartOK'
    <2> USE DEF memVars, flightVars, arrivalVars, syncVars
    <2>1. CASE MemLoadStarts
      BY <1>2, <1>4, <2>1
      DEF MemLoadStarts, SaveOK, SnapshotOK, StartOK, ScriptOK, LoadedSaveKept
    <2>2. CASE MemLoadEnds
      BY <1>2, <1>4, <2>2
      DEF MemLoadEnds, SaveOK, SnapshotOK, StartOK, ScriptOK, LoadedSaveKept
    <2>3. CASE MemSeesComplete
      BY <1>2, <1>4, <2>3
      DEF MemSeesComplete, SaveOK, SnapshotOK, StartOK, ScriptOK, LoadedSaveKept
    <2>4. CASE SaveInitEnds \/ \E present \in BOOLEAN : SaveInitStarts(present)
      BY <1>2, <1>4, <2>4
      DEF SaveInitStarts, SaveInitEnds, SaveOK, SnapshotOK, StartOK, ScriptOK, LoadedSaveKept
    <2>5. CASE MetadataSend
      BY <1>2, <1>4, <2>5
      DEF MetadataSend, SaveOK, SnapshotOK, StartOK, ScriptOK, LoadedSaveKept
    <2>6. CASE MetadataArrive
      BY <1>2, <1>4, <2>6
      DEF MetadataArrive, SaveOK, SnapshotOK, StartOK, ScriptOK, LoadedSaveKept
    <2>7. CASE MetadataAcknowledge
      BY <1>2, <1>4, <2>7
      DEF MetadataAcknowledge, SaveOK, SnapshotOK, StartOK, ScriptOK, LoadedSaveKept
    <2>8. CASE \E copy \in Copies : Synchronize(copy)
      BY <1>2, <1>4, <2>8
      DEF Synchronize, SaveOK, SnapshotOK, StartOK, ScriptOK, LoadedSaveKept
    <2> QED BY <2>1, <2>2, <2>3, <2>4, <2>5, <2>6, <2>7, <2>8 DEF MemStep
  <1> QED BY <1>3, <1>5

LEMMA HostInv == ASSUME TitleInv, HostStep, Types' PROVE TitleInv'
  <1> USE DEF TitleInv, ControlInv
  <1>1. UNCHANGED << coreVars, download_mem, allcomplete_mem, metadata_pending, init_state >>
    BY HostStepFrame
  <1>2. /\ UNCHANGED << hstate, startup_complete, metadata_ready, publish_pending,
                        table_published, publish_step, data_table, status_setup_done_1,
                        dataslot_allcomplete, ready_to_run_complete, metadata_flight >>
        /\ UNCHANGED << metadata_busy, metadata_valid, metadata_74a, resolved_74a, download_mem,
                        allcomplete_mem, metadata_pending, init_state >>
    BY <1>1 DEF coreVars, publishVars, sequencerVars, flightVars, arrivalVars, syncVars
  <1>3. /\ cart_download \in BOOLEAN /\ dataslot_allcomplete \in BOOLEAN
        /\ download_mem \in BOOLEAN /\ metadata_valid \in BOOLEAN /\ resolved_74a \in BOOLEAN
        /\ allcomplete_mem \in BOOLEAN /\ save_loaded \in BOOLEAN
        /\ hstate \in {"IDLE", "PARSE", "DONE"} /\ host_0 \in {"command", "busy", "ok"}
        /\ script \in {"none", "open", "stream", "poll", "saves", "upload", "done", "failed"}
    BY DEF Types, HostTypes, ClkATypes, BridgeTypeOK, MemTypes, ArrivalTypes, SyncTypes
  <1> USE DEF host_free, Write
  <1>4. CASE OpenTitle
    BY <1>2, <1>3, <1>4 DEF OpenTitle, TurnOK, ScriptOK, LoadOK, load_seen, load_parsed, SaveOK,
       LoadedSaveKept, SnapshotOK, StartOK, memVars
  <1>5. CASE CartridgeAnswered
    BY <1>2, <1>3, <1>5 DEF CartridgeAnswered, TurnOK, ScriptOK, LoadOK, load_seen, load_parsed,
       SaveOK, LoadedSaveKept, SnapshotOK, StartOK, memVars
  <1>6. CASE CloseTitle
    <2>1. /\ ~startup_complete /\ ~metadata_ready /\ ~publish_pending /\ ~table_published
          /\ ~status_setup_done_1 /\ ~dataslot_allcomplete
      BY <1>6 DEF CloseTitle, LoadOK, load_seen, load_parsed
    <2>2. /\ download_mem /\ init_state = "armed" /\ ~resolved_74a /\ ~allcomplete_mem
          /\ metadata_pending = 0 /\ metadata_flight = 0 /\ ~metadata_valid
      BY <1>3, <1>6, <2>1 DEF CloseTitle, DownloadIsLong, SaveOK, SnapshotOK
    <2>3. /\ ~cart_download' /\ script' = "poll" /\ host_0' = "ok"
          /\ UNCHANGED << host_cmd, title, tag, save_loaded >>
      BY <1>6 DEF CloseTitle, ScriptOK, memVars
    <2>4. hstate = "IDLE"
      BY <1>6 DEF CloseTitle, ScriptOK, TurnOK
    <2>5. TurnOK' /\ ScriptOK' /\ LoadOK'
      BY <1>2, <2>3, <2>4 DEF TurnOK, ScriptOK, LoadOK, load_seen, load_parsed
    <2>6. SaveOK' /\ SnapshotOK'
      BY <1>2, <2>1, <2>2, <2>3 DEF SaveOK, LoadedSaveKept, SnapshotOK
    <2>7. StartOK'
      BY <1>2, <2>1, <2>2, <2>3 DEF StartOK
    <2> QED BY <2>5, <2>6, <2>7
  <1>7. CASE PollImage
    BY <1>2, <1>3, <1>7 DEF PollImage, TurnOK, ScriptOK, LoadOK, load_seen, load_parsed, SaveOK,
       LoadedSaveKept, SnapshotOK, StartOK, memVars
  <1>8. CASE OfferSave
    BY <1>2, <1>3, <1>8 DEF OfferSave, TurnOK, ScriptOK, LoadOK, load_seen, load_parsed, SaveOK,
       LoadedSaveKept, SnapshotOK, StartOK, memVars
  <1>9. CASE SaveAnswered
    BY <1>2, <1>3, <1>9 DEF SaveAnswered, TurnOK, ScriptOK, LoadOK, load_seen, load_parsed,
       SaveOK, LoadedSaveKept, SnapshotOK, StartOK
  <1>10. CASE \/ SendAllComplete \/ SendRtc \/ SendResetExit \/ SendResetEnter \/ SendStatus
              \/ SendReadSave
    <2>1. /\ script = "done" /\ host_0 = "ok" /\ host_0' = "command"
          /\ UNCHANGED << script, title, cart_download, tag, save_loaded >>
      BY <1>10 DEF SendAllComplete, SendRtc, SendResetExit, SendResetEnter, SendStatus,
         SendReadSave, sendVars, memVars
    <2> QED
      BY <1>2, <1>3, <2>1 DEF TurnOK, ScriptOK, LoadOK, load_seen, load_parsed, SaveOK,
         LoadedSaveKept, SnapshotOK, StartOK
  <1>11. CASE AnswerReadyToRun
    <2>1. /\ UNCHANGED << script, title, cart_download, save_loaded, host_0, host_cmd >>
          /\ tag'["started"] = tag["started"]
      BY <1>11 DEF AnswerReadyToRun, hostVars, memVars, Types, Stages
    <2> QED
      BY <1>2, <2>1 DEF TurnOK, ScriptOK, LoadOK, load_seen, load_parsed, SaveOK,
         LoadedSaveKept, SnapshotOK, StartOK
  <1> QED
    BY <1>4, <1>5, <1>6, <1>7, <1>8, <1>9, <1>10, <1>11 DEF HostStep

LEMMA TitleInitially == Init => TitleInv
  <1> SUFFICES ASSUME Init PROVE TitleInv
    OBVIOUS
  <1>1. Types
    BY TypesInitially
  <1>2. /\ host_0 = "ok" /\ hstate = "IDLE" /\ ~ready_to_run_complete /\ ~status_setup_done_1
        /\ ~startup_complete
    BY DEF Init, BridgeInit, SequencerInit
  <1>3. TurnOK /\ ScriptOK /\ LoadOK /\ SaveOK
    BY <1>2 DEF Init, TurnOK, ScriptOK, LoadOK, load_seen, load_parsed, SaveOK, LoadedSaveKept
  <1>4. SnapshotOK
    BY DEF Init, SnapshotOK
  <1>5. StartOK
    BY <1>2 DEF Init, StartOK
  <1> QED BY <1>1, <1>3, <1>4, <1>5 DEF TitleInv, ControlInv

LEMMA TitleStep == TitleInv /\ [Next]_vars => TitleInv'
  <1> SUFFICES ASSUME TitleInv, [Next]_vars PROVE TitleInv'
    OBVIOUS
  <1>1. Types'
    BY TypesStep DEF TitleInv, ControlInv
  <1>2. CASE AnyEdge
    BY <1>2, EdgeInv DEF AnyEdge
  <1>3. CASE MemStep
    BY <1>1, <1>3, MemInv
  <1>4. CASE HostStep
    BY <1>1, <1>4, HostInv
  <1>5. CASE UNCHANGED vars
    <2>1. /\ UNCHANGED << host_0, host_cmd, hstate, script, cart_download, startup_complete,
                          metadata_ready, publish_pending, table_published, publish_step,
                          data_table, status_setup_done_1, dataslot_allcomplete, title >>
          /\ UNCHANGED << ready_to_run_complete, tag, metadata_busy, metadata_valid,
                          metadata_74a, resolved_74a, download_mem, allcomplete_mem,
                          metadata_pending, init_state, save_loaded, metadata_flight >>
      BY <1>5 DEF vars, bridgeVars, hostVars, sequencerVars, publishVars, memVars, flightVars,
                  arrivalVars, syncVars
    <2> QED
      BY <1>1, <2>1 DEF TitleInv, ControlInv, TurnOK, ScriptOK, LoadOK, load_seen, load_parsed,
         SaveOK, LoadedSaveKept, SnapshotOK, StartOK
  <1> QED BY <1>2, <1>3, <1>4, <1>5, NextByClock

LEMMA TitleAlways == Spec => []TitleInv
  BY TitleInitially, TitleStep, PTL DEF Spec

\* Start-up completes on the facts of the title that is loaded: the footer
\* snapshot, the save length in the data table and the resolved save are all
\* this title's, whatever is still crossing from the title before it.  It
\* needs nothing of Pocket's order of commands.
THEOREM StartupOfThisTitle == Spec => []StartupIsForThisTitle
  <1>1. TitleInv => StartupIsForThisTitle
    <2> SUFFICES ASSUME TitleInv, startup_complete, ~cart_download
                 PROVE  /\ tag["started"] = title
                        /\ metadata_ready /\ metadata_74a = title
                        /\ table_published /\ data_table = title
                        /\ init_state = "resolved"
      BY DEF StartupIsForThisTitle
    <2>1. tag["started"] = title /\ table_published /\ init_state = "resolved"
      BY DEF TitleInv, StartOK
    <2>2. metadata_ready /\ metadata_74a = title /\ data_table = title
      BY <2>1 DEF TitleInv, SnapshotOK
    <2> QED BY <2>1, <2>2
  <1> QED BY <1>1, TitleAlways, PTL

\* The initializer never blanks a save that was uploaded for this title.
THEOREM UploadedSaveKept == Spec => []LoadedSaveKept
  <1>1. TitleInv => LoadedSaveKept
    BY DEF TitleInv, SaveOK
  <1> QED BY <1>1, TitleAlways, PTL

---------------------------------------------------------------------------
\* The console's reset

LEMMA RunStep ==
    ASSUME ResetsBeforeLoad, TitleInv, TitleInv', RunOK, [Next]_vars
    PROVE  RunOK'
  <1>1. CASE AnyEdge
    <2>1. PICK acks \in SUBSET Awaited, fit \in Fits : Edge(acks, fit)
      BY <1>1 DEF AnyEdge
    <2>2. reset_n' => reset_n \/ (host_cmd = "reset_exit" /\ ready_to_run_complete
                                  /\ hstate = "PARSE")
      BY <2>1, EdgeHandler DEF TitleInv, ControlInv
    <2>3. ASSUME reset_n' PROVE startup_complete /\ ~cart_download
      <3>1. CASE reset_n
        BY <3>1 DEF RunOK
      <3>2. CASE host_cmd = "reset_exit" /\ ready_to_run_complete /\ hstate = "PARSE"
        <4>1. host_0 # "ok"
          BY <3>2 DEF TitleInv, ControlInv, TurnOK
        <4>2. script \in {"none", "open", "stream", "poll", "saves", "upload", "done", "failed"}
          BY DEF TitleInv, ControlInv, Types, HostTypes
        <4>3. ~cart_download
          BY <3>2, <4>1, <4>2 DEF TitleInv, ControlInv, ScriptOK
        <4> QED BY <3>2, <4>3 DEF TitleInv, StartOK
      <3> QED BY <2>2, <2>3, <3>1, <3>2
    <2>4. cart_download' = cart_download
      BY <2>1, EdgeFrame
    <2>5. reset_n' => startup_complete'
      BY <2>1, <2>3, EdgeSequencer DEF TitleInv, ControlInv
    <2> QED BY <2>3, <2>4, <2>5 DEF RunOK
  <1>2. CASE MemStep \/ UNCHANGED vars
    <2>1. UNCHANGED << reset_n, startup_complete, cart_download >>
      BY <1>2, MemStepFrame DEF vars, clkAVars, bridgeVars, sequencerVars, hostVars
    <2> QED BY <2>1 DEF RunOK
  <1>3. CASE HostStep
    <2>1. UNCHANGED << reset_n, startup_complete >>
      BY <1>3, HostStepFrame DEF coreVars, sequencerVars
    <2>2. reset_n => ~cart_download' \/ cart_download
      BY <1>3 DEF HostStep, OpenTitle, CartridgeAnswered, CloseTitle, PollImage, OfferSave,
         SaveAnswered, SendAllComplete, SendRtc, SendResetExit, SendResetEnter, SendStatus,
         SendReadSave, AnswerReadyToRun, sendVars, hostVars
    <2> QED BY <2>1, <2>2 DEF RunOK
  <1> QED BY <1>1, <1>2, <1>3, NextByClock

\* With Reset Enter sent before every load, the console executes only a title
\* whose own start-up is complete: its save length is in the data table and its
\* save is loaded or blanked (core_top.v, wonderswan.sv: the reset release).
THEOREM RunsPreparedTitle ==
    ASSUME ResetsBeforeLoad
    PROVE  Spec => []RunsOnlyPreparedTitle
  <1>1. Init => RunOK
    BY DEF Init, BridgeInit, RunOK
  <1>2. TitleInv /\ TitleInv' /\ RunOK /\ [Next]_vars => RunOK'
    BY RunStep
  <1>3. TitleInv /\ RunOK => RunsOnlyPreparedTitle
    <2> SUFFICES ASSUME TitleInv, RunOK, executing, ~cart_download
                 PROVE  /\ startup_complete /\ tag["started"] = title
                        /\ table_published /\ data_table = title
                        /\ init_state = "resolved"
      BY DEF RunsOnlyPreparedTitle
    <2>1. startup_complete
      BY DEF RunOK, executing
    <2>2. tag["started"] = title /\ table_published /\ init_state = "resolved"
      BY <2>1 DEF TitleInv, StartOK
    <2> QED BY <2>1, <2>2 DEF TitleInv, SnapshotOK
  <1> QED BY <1>1, <1>2, <1>3, TitleAlways, PTL DEF Spec

---------------------------------------------------------------------------
\* The 0140 handshake

LEMMA HandshakeStep ==
    ASSUME PromptAnswer, TitleInv, TitleInv', HandshakeOK, [Next]_vars
    PROVE  HandshakeOK'
  <1>0. /\ cart_download \in BOOLEAN /\ startup_complete \in BOOLEAN
        /\ status_setup_done_1 \in BOOLEAN /\ ready_to_run_complete \in BOOLEAN
        /\ status_setup_done_queue \in BOOLEAN /\ target_0 \in {"none", "command", "ok"}
        /\ tstate \in {"IDLE", "READYTORUN", "WAITRESULT_RTR"}
        /\ tag \in [Stages -> 0..MaxTitles]
        /\ ready_to_run_complete => status_setup_done_1
    BY DEF TitleInv, ControlInv, Types, HostTypes, ClkATypes, BridgeTypeOK, SequencerTypeOK, StartOK
  <1>1. CASE AnyEdge
    <2>1. PICK acks \in SUBSET Awaited, fit \in Fits : Edge(acks, fit)
      BY <1>1 DEF AnyEdge
    <2>2. /\ cart_download' = cart_download /\ status_setup_done_1' = startup_complete
          /\ cart_download => ~startup_complete'
          /\ ~cart_download /\ startup_complete => startup_complete'
      BY <2>1, EdgeFrame, EdgeSequencer DEF TitleInv, ControlInv
    <2>3. /\ ReadyToRun(startup_complete)
          /\ TargetIdle(startup_complete) \/ TargetSend(startup_complete)
               \/ TargetWait(startup_complete)
          /\ TagEdge
      BY <2>1 DEF Edge, BridgeEdge, TargetEdge
    <2>4. CASE ~startup_complete /\ ~cart_download
      <3>1. HandshakeIdle /\ ~setup_done_rises(startup_complete)
        BY <2>4 DEF HandshakeOK, setup_done_rises
      <3>2. HandshakeIdle'
        BY <1>0, <2>3, <3>1 DEF HandshakeIdle, TargetIdle, TargetSend, TargetWait
      <3> QED BY <2>2, <2>4, <3>2 DEF HandshakeOK
    <2>5. CASE cart_download
      BY <2>2, <2>5 DEF HandshakeOK
    <2>6. CASE startup_complete /\ ~cart_download
      <3>1. /\ startup_complete' /\ status_setup_done_1'
            /\ tag'["started"] = tag["started"] /\ tag'["acked"] = tag["acked"]
            /\ tag'["issued"] = IF tstate = "READYTORUN" THEN tag["queued"] ELSE tag["issued"]
            /\ tag'["queued"] = IF ~status_setup_done_1 THEN tag["started"] ELSE tag["queued"]
        BY <1>0, <2>2, <2>3, <2>6 DEF TagEdge, Stages, setup_done_rises
      <3>2. CASE ~status_setup_done_1
        <4>1. tstate = "IDLE" /\ ~status_setup_done_queue /\ target_0 # "command"
              /\ ~ready_to_run_complete
          BY <1>0, <2>6, <3>2 DEF HandshakeOK, HandshakeIdle
        <4>2. /\ tstate' = "IDLE" /\ status_setup_done_queue' /\ target_0' = target_0
              /\ ~ready_to_run_complete'
          BY <1>0, <2>3, <2>6, <3>2, <4>1
          DEF TargetIdle, TargetSend, TargetWait, ReadyToRun, setup_done_rises
        <4> QED BY <3>1, <3>2, <4>1, <4>2 DEF HandshakeOK, HandshakeServes
      <3>3. CASE status_setup_done_1
        <4>1. HandshakeServes /\ ~setup_done_rises(startup_complete)
          BY <2>6, <3>3 DEF HandshakeOK, setup_done_rises
        <4>2. CASE TargetIdle(startup_complete)
          BY <1>0, <2>3, <3>1, <3>3, <4>1, <4>2
          DEF TargetIdle, ReadyToRun, HandshakeOK, HandshakeServes
        <4>3. CASE TargetSend(startup_complete)
          BY <1>0, <2>3, <3>1, <3>3, <4>1, <4>3
          DEF TargetSend, ReadyToRun, HandshakeOK, HandshakeServes, queueRise
        <4>4. CASE TargetWait(startup_complete)
          BY <1>0, <2>3, <3>1, <3>3, <4>1, <4>4
          DEF TargetWait, ReadyToRun, HandshakeOK, HandshakeServes, queueRise
        <4> QED BY <2>3, <4>2, <4>3, <4>4
      <3> QED BY <3>2, <3>3
    <2> QED BY <2>4, <2>5, <2>6
  <1>2. CASE MemStep \/ UNCHANGED vars
    <2>1. UNCHANGED << startup_complete, cart_download, status_setup_done_1, tstate, target_0,
                       status_setup_done_queue, ready_to_run_complete, tag >>
      BY <1>2, MemStepFrame DEF vars, clkAVars, bridgeVars, sequencerVars, hostVars
    <2> QED BY <2>1 DEF HandshakeOK, HandshakeIdle, HandshakeServes
  <1>3. CASE HostStep
    <2>1. UNCHANGED << startup_complete, status_setup_done_1, tstate, status_setup_done_queue,
                       ready_to_run_complete >>
      BY <1>3, HostStepFrame DEF coreVars, sequencerVars
    <2>2. CASE AnswerReadyToRun
      <3>1. /\ target_0 = "command" /\ target_0' = "ok" /\ cart_download' = cart_download
            /\ tag' = [tag EXCEPT !["acked"] = tag["issued"]]
        BY <2>2 DEF AnswerReadyToRun, hostVars
      <3>2. /\ tag'["started"] = tag["started"] /\ tag'["acked"] = tag["issued"]
            /\ tag'["queued"] = tag["queued"] /\ tag'["issued"] = tag["issued"]
        BY <1>0, <3>1 DEF Stages
      <3> QED BY <2>1, <3>1, <3>2 DEF HandshakeOK, HandshakeIdle, HandshakeServes
    <2>3. CASE CloseTitle
      <3>1. /\ ~startup_complete /\ ~status_setup_done_1 /\ UNCHANGED << target_0, tag >>
            /\ target_0 # "command" /\ tstate = "IDLE" /\ ~status_setup_done_queue
        BY <2>3 DEF CloseTitle, TitleInv, LoadOK, load_seen, load_parsed
      <3> QED BY <2>1, <3>1 DEF HandshakeOK, HandshakeIdle
    <2>4. CASE ~AnswerReadyToRun /\ ~CloseTitle
      <3>1. UNCHANGED << target_0, tag >> /\ (~cart_download' => ~cart_download)
        BY <1>3, <2>4 DEF HostStep, OpenTitle, CartridgeAnswered, PollImage, OfferSave,
           SaveAnswered, SendAllComplete, SendRtc, SendResetExit, SendResetEnter, SendStatus,
           SendReadSave, sendVars
      <3> QED BY <2>1, <3>1 DEF HandshakeOK, HandshakeIdle, HandshakeServes
    <2> QED BY <2>2, <2>3, <2>4
  <1> QED BY <1>1, <1>2, <1>3, NextByClock

\* If Pocket answers 0140 before the next title has loaded, Ready to Run is
\* complete only on the answer to the start-up it belongs to
\* (core_bridge_cmd.v: ready_to_run_complete, status_setup_done_queue).
THEOREM AckIsForThisTitle ==
    ASSUME PromptAnswer
    PROVE  Spec => []AckBelongsToTitle
  <1>1. Init => HandshakeOK
    BY DEF Init, BridgeInit, SequencerInit, HandshakeOK, HandshakeIdle
  <1>2. TitleInv /\ TitleInv' /\ HandshakeOK /\ [Next]_vars => HandshakeOK'
    BY HandshakeStep
  <1>3. TitleInv /\ HandshakeOK => AckBelongsToTitle
    BY DEF TitleInv, StartOK, HandshakeOK, HandshakeServes, AckBelongsToTitle
  <1> QED BY <1>1, <1>2, <1>3, TitleAlways, PTL DEF Spec
===========================================================================
