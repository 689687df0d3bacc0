------------------------- MODULE OrientationGuard -------------------------
(***************************************************************************)
(* apf_orientation_transition_guard.sv: which Analogue scaler slot to      *)
(* command, and when pixels may be shown.  A slot commanded during one     *)
(* scanout frame is applied by the host at the next frame, so a frame that *)
(* needs another slot is held back (protected) for one scanout frame.      *)
(***************************************************************************)
EXTENDS Integers

VARIABLES
    protect_pending,        \* the pending bank is reserved for command_slot
    command_slot,           \* slot commanded during the current frame
    expected_applied_slot,  \* slot the host should apply to the current frame
    presentation_slot,      \* slot the shown pixels were released for
    frame_blank             \* the current frame is black

guardVars == << protect_pending, command_slot, expected_applied_slot,
                presentation_slot, frame_blank >>

SLOT_LANDSCAPE == 0
SLOT_PORTRAIT == 1
SLOT_LANDSCAPE_180 == 2
Slots == {SLOT_LANDSCAPE, SLOT_PORTRAIT, SLOT_LANDSCAPE_180}

GuardTypeOK ==
    /\ protect_pending \in BOOLEAN
    /\ command_slot \in Slots
    /\ expected_applied_slot \in Slots
    /\ presentation_slot \in Slots
    /\ frame_blank \in BOOLEAN

\* The setting forces landscape (1) or portrait (2) or follows the console;
\* portrait wins over the 180 degree option.
desired_slot(intrinsic_vertical, orientation_setting, flip_landscape) ==
    LET effective_vertical == \/ orientation_setting = 2
                              \/ orientation_setting # 1 /\ intrinsic_vertical
    IN  IF effective_vertical THEN SLOT_PORTRAIT
        ELSE IF flip_landscape THEN SLOT_LANDSCAPE_180 ELSE SLOT_LANDSCAPE

GuardInit ==
    /\ protect_pending = FALSE
    /\ command_slot = SLOT_LANDSCAPE
    /\ expected_applied_slot = SLOT_LANDSCAPE
    /\ presentation_slot = SLOT_LANDSCAPE
    /\ frame_blank = TRUE

GuardReset ==
    /\ protect_pending' = FALSE
    /\ command_slot' = SLOT_LANDSCAPE
    /\ expected_applied_slot' = SLOT_LANDSCAPE
    /\ presentation_slot' = SLOT_LANDSCAPE
    /\ frame_blank' = TRUE

\* A completed frame offered at a boundary needs another slot than the one
\* that takes effect now.
defer_candidate(buffered_mode, candidate_valid, candidate_target_slot) ==
    /\ buffered_mode
    /\ ~protect_pending
    /\ candidate_valid
    /\ candidate_target_slot # command_slot

\* Fault: the live orientation is not watched between boundaries.
blank_until_boundary(buffered_mode, current_frame_valid, producer_target_slot) ==
    frame_blank

\* Direct pixels, and the live bank shown while the history primes, go black as
\* soon as the console's orientation leaves the applied slot.
blank_presentation(buffered_mode, current_frame_valid, producer_target_slot) ==
    \/ frame_blank
    \/ /\ ~buffered_mode \/ ~current_frame_valid
       /\ producer_target_slot # expected_applied_slot

\* Show the incoming frame under the slot that was commanded for it.
Present ==
    /\ presentation_slot' = command_slot
    /\ frame_blank' = FALSE

Blank ==
    /\ frame_blank' = TRUE
    /\ UNCHANGED presentation_slot

\* Repeat the history if there is one.
RepeatHistory(current_frame_valid) ==
    IF current_frame_valid THEN Present ELSE Blank

BufferedBoundary(current_frame_valid, current_target_slot, candidate_valid, candidate_target_slot) ==
    \/ /\ protect_pending /\ candidate_valid
       /\ Present
       /\ protect_pending' = FALSE
       /\ UNCHANGED command_slot
    \/ /\ protect_pending /\ ~candidate_valid
       /\ Blank
       /\ UNCHANGED << protect_pending, command_slot >>
    \/ /\ ~protect_pending /\ candidate_valid
       /\ candidate_target_slot = command_slot
       /\ Present
       /\ UNCHANGED << protect_pending, command_slot >>
    \/ /\ ~protect_pending /\ candidate_valid
       /\ candidate_target_slot # command_slot
       /\ RepeatHistory(current_frame_valid)
       /\ protect_pending' = TRUE
       /\ command_slot' = candidate_target_slot
    \/ /\ ~protect_pending /\ ~candidate_valid
       /\ RepeatHistory(current_frame_valid)
       /\ command_slot' = current_target_slot
       /\ UNCHANGED protect_pending

\* Fault: the needed slot is never commanded.
DirectBoundaryUncommanded(producer_target_slot) ==
    /\ protect_pending' = FALSE
    /\ IF producer_target_slot = command_slot THEN Present ELSE Blank
    /\ UNCHANGED command_slot

DirectBoundary(producer_target_slot) ==
    /\ protect_pending' = FALSE
    /\ \/ /\ producer_target_slot = command_slot
          /\ Present
          /\ UNCHANGED command_slot
       \/ /\ producer_target_slot # command_slot
          /\ Blank
          /\ command_slot' = producer_target_slot

\* The guard's clock edge at a scanout boundary; it holds on every other edge.
GuardBoundary(buffered_mode, current_frame_valid, current_target_slot, producer_target_slot, candidate_valid, candidate_target_slot) ==
    /\ expected_applied_slot' = command_slot
    /\ \/ /\ buffered_mode
          /\ BufferedBoundary(current_frame_valid, current_target_slot,
                              candidate_valid, candidate_target_slot)
       \/ /\ ~buffered_mode
          /\ DirectBoundary(producer_target_slot)
===========================================================================
