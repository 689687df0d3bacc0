-------------------------- MODULE ScalerSelector --------------------------
(***************************************************************************)
(* apf_scaler_selector.sv: the level tracker that carries the commanded    *)
(* scaler slot to the video clock, followed by a latch that exposes the    *)
(* newest captured slot at the start of a scanout frame only.              *)
(***************************************************************************)
EXTENDS LevelCdc

CONSTANT Video      \* the capturing domain with the frame latch

ASSUME VideoAssumption == Video \in Destinations

VARIABLES
    pending_valid_video,    \* a captured slot is not exposed yet
    scaler_slot_video       \* the slot the end-of-line word carries

selectorVars == << levelVars, pending_valid_video, scaler_slot_video >>

SelectorInit ==
    /\ LevelInit
    /\ pending_valid_video = FALSE
    /\ scaler_slot_video = Default

\* Fault: a frame start clears the update that arrives with it.
FrameLatchDropsArrival(ticks, frame_start_video) ==
    IF Video \notin Active(ticks)
    THEN UNCHANGED << pending_valid_video, scaler_slot_video >>
    ELSE IF frame_start_video /\ pending_valid_video
    THEN /\ scaler_slot_video' = payload[Video]
         /\ pending_valid_video' = FALSE
    ELSE /\ pending_valid_video' = (pending_valid_video \/ request_arrived(Video))
         /\ UNCHANGED scaler_slot_video

\* The video clock's edge.  An update that arrives with the frame start waits
\* for the next frame.
FrameLatch(ticks, frame_start_video) ==
    \/ /\ Video \notin Active(ticks)
       /\ UNCHANGED << pending_valid_video, scaler_slot_video >>
    \/ /\ Video \in Active(ticks)
       /\ request_arrived(Video)
       /\ pending_valid_video' = TRUE
       /\ UNCHANGED scaler_slot_video
    \/ /\ Video \in Active(ticks)
       /\ ~request_arrived(Video)
       /\ frame_start_video /\ pending_valid_video
       /\ scaler_slot_video' = payload[Video]
       /\ pending_valid_video' = FALSE
    \/ /\ Video \in Active(ticks)
       /\ ~request_arrived(Video)
       /\ ~(frame_start_video /\ pending_valid_video)
       /\ UNCHANGED << pending_valid_video, scaler_slot_video >>

SelectorEdges(ticks, frame_start_video) ==
    /\ LevelEdges(ticks)
    /\ FrameLatch(ticks, frame_start_video)
    /\ UNCHANGED level

Command ==
    /\ SetLevel
    /\ UNCHANGED << pending_valid_video, scaler_slot_video >>

Tick ==
    \E ticks \in SUBSET Domains \ {{}} : SelectorEdges(ticks, FALSE)

FrameStart ==
    \E ticks \in SUBSET Domains : Video \in ticks /\ SelectorEdges(ticks, TRUE)

SelectorReset ==
    /\ LevelReset
    /\ pending_valid_video' = FALSE
    /\ scaler_slot_video' = Default

SelectorNext ==
    \/ Command
    \/ Tick
    \/ FrameStart
    \/ SelectorReset

\* Both clocks run, and the raster keeps starting frames.
TickOf(c) ==
    \E ticks \in SUBSET Domains : c \in ticks /\ SelectorEdges(ticks, FALSE)

---------------------------------------------------------------------------
\* A commanded slot that stays is emitted.
CommandEmitted ==
    \A s \in Payloads :
      <>[](level = s /\ \A c \in Domains : Running(c))
        => <>[](scaler_slot_video = s)
===========================================================================
