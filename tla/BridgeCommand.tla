------------------------------ MODULE BridgeCommand ------------------------------
(***************************************************************************)
(* core_bridge_cmd.v: the handler of host commands (one at a time, no       *)
(* queue) and of the one target command this core sends, 0140 Ready to Run. *)
(* The commands modelled are the ones of the start-up and shutdown          *)
(* protocol; 008A, 00A0/00A4 and the 00B* notifications touch no state of   *)
(* this module.  host_cmd_start is the word "command" in host_0, and        *)
(* host_cmd_startval is host_cmd: the host writes a command only while the  *)
(* handler is idle, so neither copy is ever apart from the other.           *)
(***************************************************************************)
EXTENDS Naturals

VARIABLES
    reset_n,                 \* Reset Enter / Reset Exit level
    hstate,                  \* "IDLE", "PARSE" or "DONE"
    host_cmd,                \* the command being worked on
    host_0,                  \* command register: "command", "busy" or "ok"
    host_resultcode,         \* the answer beside an "ok"
    dataslot_allcomplete,    \* level: set by 008F, cleared by 0080 and 0082
    dataslot_request,        \* level: the slot request put to the guard
    rtc_valid,               \* one-edge pulse of 0090
    status_setup_done_1,     \* status_setup_done one edge ago
    status_setup_done_queue, \* a 0140 waits to be sent
    tstate,                  \* "IDLE", "READYTORUN" or "WAITRESULT_RTR"
    target_0,                \* target register: "none", "command" or "ok"
    ready_to_run_complete

bridgeVars == <<reset_n, hstate, host_cmd, host_0, host_resultcode,
                dataslot_allcomplete, dataslot_request, rtc_valid,
                status_setup_done_1, status_setup_done_queue, tstate,
                target_0, ready_to_run_complete>>

\* 0080 reads the save slot; 0082 writes the cartridge or the save slot.
SlotCommands == {"read_save", "write_rom", "write_save"}

Commands == SlotCommands \cup
            {"status", "reset_enter", "reset_exit", "all_complete", "rtc"}

\* Request Status codes 2, 3, 4 and the results of a slot request.
ResultCodes == {"none", "setup", "idle", "running",
                "ready", "not_allowed", "check_later"}

BridgeTypeOK ==
    /\ reset_n \in BOOLEAN
    /\ hstate \in {"IDLE", "PARSE", "DONE"}
    /\ host_cmd \in Commands
    /\ host_0 \in {"command", "busy", "ok"}
    /\ host_resultcode \in ResultCodes
    /\ dataslot_allcomplete \in BOOLEAN
    /\ dataslot_request \in SlotCommands \cup {"none"}
    /\ rtc_valid \in BOOLEAN
    /\ status_setup_done_1 \in BOOLEAN
    /\ status_setup_done_queue \in BOOLEAN
    /\ tstate \in {"IDLE", "READYTORUN", "WAITRESULT_RTR"}
    /\ target_0 \in {"none", "command", "ok"}
    /\ ready_to_run_complete \in BOOLEAN

BridgeInit ==
    /\ reset_n = FALSE
    /\ hstate = "IDLE"
    /\ host_cmd = "status"
    /\ host_0 = "ok"
    /\ host_resultcode = "none"
    /\ dataslot_allcomplete = FALSE
    /\ dataslot_request = "none"
    /\ rtc_valid = FALSE
    /\ status_setup_done_1 = FALSE
    /\ status_setup_done_queue = FALSE
    /\ tstate = "IDLE"
    /\ target_0 = "none"
    /\ ready_to_run_complete = FALSE

-----------------------------------------------------------------------------
(* Host commands.  reset_n, dataslot_allcomplete, dataslot_request,          *)
(* host_resultcode and the pulse are what a command can change.              *)

commandVars == <<reset_n, dataslot_allcomplete, dataslot_request,
                 host_resultcode>>

RequestStatus(running) ==
    /\ host_cmd = "status"
    /\ host_resultcode' = IF running THEN "running"
                          ELSE IF ready_to_run_complete THEN "idle" ELSE "setup"
    /\ hstate' = "DONE"
    /\ UNCHANGED <<reset_n, dataslot_allcomplete, dataslot_request>>

ResetEnter ==
    /\ host_cmd = "reset_enter"
    /\ reset_n' = FALSE
    /\ hstate' = "DONE"
    /\ UNCHANGED <<dataslot_allcomplete, dataslot_request, host_resultcode>>

\* The plausible slip of answering Reset Exit without the 0140 handshake.
ResetExitAtOnce(exit_ready) ==
    /\ host_cmd = "reset_exit"
    /\ IF exit_ready
       THEN reset_n' = TRUE /\ hstate' = "DONE"
       ELSE UNCHANGED <<reset_n, hstate>>
    /\ UNCHANGED <<dataslot_allcomplete, dataslot_request, host_resultcode>>

\* Reset Exit stays busy until 0140 is answered and the settings are across.
ResetExit(exit_ready) ==
    /\ host_cmd = "reset_exit"
    /\ IF ready_to_run_complete /\ exit_ready
       THEN reset_n' = TRUE /\ hstate' = "DONE"
       ELSE UNCHANGED <<reset_n, hstate>>
    /\ UNCHANGED <<dataslot_allcomplete, dataslot_request, host_resultcode>>

\* The plausible slip of leaving the old title's 008F standing.
SlotRequestKeepsComplete(ack, result) ==
    /\ host_cmd \in SlotCommands
    /\ dataslot_request' = host_cmd
    /\ IF ack THEN host_resultcode' = result /\ hstate' = "DONE"
              ELSE UNCHANGED <<host_resultcode, hstate>>
    /\ UNCHANGED <<reset_n, dataslot_allcomplete>>

\* 0080 and 0082: hold the request until the guard acknowledges it.
SlotRequest(ack, result) ==
    /\ host_cmd \in SlotCommands
    /\ dataslot_allcomplete' = FALSE
    /\ dataslot_request' = host_cmd
    /\ IF ack THEN host_resultcode' = result /\ hstate' = "DONE"
              ELSE UNCHANGED <<host_resultcode, hstate>>
    /\ UNCHANGED reset_n

AllComplete ==
    /\ host_cmd = "all_complete"
    /\ dataslot_allcomplete' = TRUE
    /\ hstate' = "DONE"
    /\ UNCHANGED <<reset_n, dataslot_request, host_resultcode>>

RtcData ==
    /\ host_cmd = "rtc"
    /\ hstate' = "DONE"
    /\ UNCHANGED commandVars

HostParse(running, exit_ready, ack, result) ==
    /\ hstate = "PARSE"
    /\ host_0' = "busy"
    /\ \/ RequestStatus(running)
       \/ ResetEnter
       \/ ResetExit(exit_ready)
       \/ SlotRequest(ack, result)
       \/ AllComplete
       \/ RtcData
    /\ rtc_valid' = (host_cmd = "rtc")
    /\ UNCHANGED host_cmd

HostIdle ==
    /\ hstate = "IDLE"
    /\ dataslot_request' = "none"
    /\ hstate' = IF host_0 = "command" THEN "PARSE" ELSE "IDLE"
    /\ rtc_valid' = FALSE
    /\ UNCHANGED <<reset_n, dataslot_allcomplete, host_resultcode, host_0,
                   host_cmd>>

HostDone ==
    /\ hstate = "DONE"
    /\ host_0' = "ok"
    /\ hstate' = "IDLE"
    /\ rtc_valid' = FALSE
    /\ UNCHANGED commandVars
    /\ UNCHANGED host_cmd

-----------------------------------------------------------------------------
(* The 0140 target command.  An assignment later in the block wins: the      *)
(* answer to 0140 is written after the two clears at the top of it.          *)

setup_done_rises(setup_done) == setup_done /\ ~status_setup_done_1

\* The plausible slip of keeping the acknowledgement when a title is replaced.
ReadyToRunKept(setup_done) ==
    ready_to_run_complete' =
        IF tstate = "WAITRESULT_RTR" /\ target_0 = "ok" THEN setup_done
        ELSE ready_to_run_complete

ReadyToRun(setup_done) ==
    ready_to_run_complete' =
        IF tstate = "WAITRESULT_RTR" /\ target_0 = "ok" THEN setup_done
        ELSE /\ ready_to_run_complete
             /\ ~setup_done_rises(setup_done)
             /\ setup_done

TargetIdle(setup_done) ==
    /\ tstate = "IDLE"
    /\ IF status_setup_done_queue
       THEN status_setup_done_queue' = FALSE /\ tstate' = "READYTORUN"
       ELSE /\ status_setup_done_queue' = setup_done_rises(setup_done)
            /\ UNCHANGED tstate
    /\ UNCHANGED target_0

queueRise(setup_done) ==
    status_setup_done_queue' = (status_setup_done_queue
                                \/ setup_done_rises(setup_done))

TargetSend(setup_done) ==
    /\ tstate = "READYTORUN"
    /\ target_0' = "command"
    /\ tstate' = "WAITRESULT_RTR"
    /\ queueRise(setup_done)

TargetWait(setup_done) ==
    /\ tstate = "WAITRESULT_RTR"
    /\ tstate' = IF target_0 = "ok" THEN "IDLE" ELSE "WAITRESULT_RTR"
    /\ queueRise(setup_done)
    /\ UNCHANGED target_0

TargetEdge(setup_done) ==
    /\ status_setup_done_1' = setup_done
    /\ ReadyToRun(setup_done)
    /\ \/ TargetIdle(setup_done)
       \/ TargetSend(setup_done)
       \/ TargetWait(setup_done)

\* One clk_74a edge of the whole handler.
BridgeEdge(setup_done, running, exit_ready, ack, result) ==
    /\ \/ HostIdle
       \/ HostParse(running, exit_ready, ack, result)
       \/ HostDone
    /\ TargetEdge(setup_done)
=============================================================================
