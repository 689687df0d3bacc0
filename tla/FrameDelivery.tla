-------------------------- MODULE FrameDelivery ---------------------------
(***************************************************************************)
(* How console frames reach the Pocket's screen: the frame bank arbiter,   *)
(* the orientation stored beside each bank (apf_frame_orientation.sv), the *)
(* scaler slot guard and the settings that wonderswan.sv applies only at a *)
(* scanout boundary.  The console draws about 75 frames a second, scanout  *)
(* shows about 60, the console may be paused in the middle of a frame or   *)
(* run fast, and the player may change settings at any time, so producer   *)
(* steps, scanout boundaries and settings interleave freely and a          *)
(* completion may fall on the very edge of a boundary.                     *)
(***************************************************************************)
EXTENDS FrameBankArbiter, OrientationGuard

CONSTANTS
    OrientationSettings,    \* values of configured_orientation
    FlipSettings,           \* values of landscape_180
    MaxFrames               \* bound: frames drawn plus resets

ASSUME SettingsAssumption ==
    /\ OrientationSettings \subseteq 0 .. 3
    /\ OrientationSettings # {}
    /\ FlipSettings \subseteq BOOLEAN
    /\ FlipSettings # {}
    /\ MaxFrames \in Nat

VARIABLES
    bank_orientation,           \* orientation stored with each bank
    direct_orientation,         \* orientation latched for direct scanout
    buffervideo,                \* buffering, as applied at the last boundary
    allow_direct_while_priming,
    vertical,                   \* the console's live orientation
    configured_orientation,     \* settings, as the player has them now
    landscape_180,
    requested_buffervideo

\* History variables: they observe and influence nothing.
VARIABLES
    frames,         \* frames completed or abandoned so far
    top_drawn,      \* the upper half of frame frames + 1 has been drawn
    content,        \* which frame drew each half of a bank; the orientation
                    \* the console had when it completed the lower half
    host_slot,      \* the slot the host applies to the current scanout frame
    settled,        \* boundaries since the display settings last changed
    cut_frame,      \* frame in progress when buffering was last switched on
    title_start,    \* frames at the last reset
    kept_buffered   \* buffering has been on ever since the last reset

settingVars == << configured_orientation, landscape_180, requested_buffervideo >>
appliedVars == << buffervideo, allow_direct_while_priming >>
drawingVars == << frames, top_drawn, content >>
vars == << arbiterVars, guardVars, bank_orientation, direct_orientation,
           appliedVars, vertical, settingVars, drawingVars,
           host_slot, settled, cut_frame, title_start, kept_buffered >>

TypeOK ==
    /\ ArbiterTypeOK
    /\ GuardTypeOK
    /\ bank_orientation \in [Banks -> BOOLEAN]
    /\ direct_orientation \in BOOLEAN
    /\ buffervideo \in BOOLEAN
    /\ allow_direct_while_priming \in BOOLEAN
    /\ vertical \in BOOLEAN
    /\ configured_orientation \in OrientationSettings
    /\ landscape_180 \in FlipSettings
    /\ requested_buffervideo \in BOOLEAN
    /\ frames \in 0 .. MaxFrames
    /\ top_drawn \in BOOLEAN
    /\ content \in [Banks -> [top : 0 .. MaxFrames, bottom : 0 .. MaxFrames,
                              vertical : BOOLEAN]]
    /\ host_slot \in Slots
    /\ settled \in 0 .. 3
    /\ cut_frame \in 0 .. MaxFrames
    /\ title_start \in 0 .. MaxFrames
    /\ kept_buffered \in BOOLEAN

---------------------------------------------------------------------------
(* Combinational signals of wonderswan.sv and apf_frame_orientation.sv.    *)

write_bank == IF buffervideo THEN write_bank_state ELSE 0

use_buffered_history == buffervideo /\ history_valid_count # 0

presented_orientation ==
    IF use_buffered_history THEN bank_orientation[history_newest]
    ELSE direct_orientation

\* The completed frames that are shown or will be.
Offered == History \union (IF pending_valid THEN {pending_bank} ELSE {})

pending_valid_out == buffervideo /\ pending_valid

candidate_valid(done) ==
    IF protect_pending THEN pending_valid_out ELSE done \/ pending_valid_out

\* Fault: the bank's label is read one edge before it is written.
candidate_orientation_stored(done) ==
    IF protect_pending \/ ~done THEN bank_orientation[pending_bank]
    ELSE bank_orientation[write_bank]

\* A frame that completes on this very edge brings its own orientation along.
candidate_orientation(done) ==
    IF ~protect_pending /\ done THEN vertical ELSE bank_orientation[pending_bank]

TargetSlot(orientation) ==
    desired_slot(orientation, configured_orientation, landscape_180)

\* Fault: bank zero is passed on while the first buffered frame is prepared,
\* after a reset too.
direct_or_blank_always == TRUE

\* Without a history bank zero is passed on, or black while the history of a
\* new title primes.
direct_or_blank == ~buffervideo \/ allow_direct_while_priming

\* The banks whose pixels reach the blend filter.
BlendSource ==
    IF use_buffered_history THEN History
    ELSE IF direct_or_blank THEN {0} ELSE {}

Blanked ==
    \/ blank_presentation(buffervideo, use_buffered_history, TargetSlot(vertical))
    \/ BlendSource = {}

---------------------------------------------------------------------------
Init ==
    /\ ArbiterInit
    /\ GuardInit
    /\ bank_orientation = [b \in Banks |-> FALSE]
    /\ direct_orientation = FALSE
    /\ allow_direct_while_priming = FALSE
    /\ vertical = FALSE
    /\ configured_orientation \in OrientationSettings
    /\ landscape_180 \in FlipSettings
    /\ requested_buffervideo \in BOOLEAN
    /\ buffervideo = requested_buffervideo
    /\ frames = 0
    /\ top_drawn = FALSE
    /\ content = [b \in Banks |-> [top |-> 0, bottom |-> 0,
                                 vertical |-> FALSE]]
    /\ host_slot = SLOT_LANDSCAPE
    /\ settled = 0
    /\ cut_frame = 0
    /\ title_start = 0
    /\ kept_buffered = requested_buffervideo

\* apf_frame_orientation's clock edge.
OrientationEdge(done, boundary) ==
    /\ direct_orientation' = IF boundary THEN vertical ELSE direct_orientation
    /\ bank_orientation' =
         IF done THEN [bank_orientation EXCEPT ![write_bank] = vertical]
         ELSE bank_orientation

\* The applied settings change at a boundary only.
ApplySettings ==
    /\ buffervideo' = requested_buffervideo
    /\ allow_direct_while_priming' =
         IF ~buffervideo /\ requested_buffervideo THEN TRUE
         ELSE IF ~requested_buffervideo \/ history_valid_count # 0 THEN FALSE
         ELSE allow_direct_while_priming

\* The arbiter clears on the clock after buffering is switched off and stays
\* cleared; nothing reads it in between, so the clear is taken with the switch.
ArbiterStep(done, boundary) ==
    IF boundary /\ ~requested_buffervideo THEN ArbiterReset
    ELSE IF ~buffervideo THEN UNCHANGED arbiterVars
    ELSE ArbiterEdge(done, boundary,
                     /\ boundary
                     /\ defer_candidate(buffervideo, candidate_valid(done),
                                        TargetSlot(candidate_orientation(done))),
                     protect_pending)

\* The console draws the upper half of a frame.
DrawTop ==
    /\ ~top_drawn
    /\ frames < MaxFrames
    /\ content' = [content EXCEPT ![write_bank].top = frames + 1]
    /\ top_drawn' = TRUE
    /\ UNCHANGED << arbiterVars, guardVars, bank_orientation,
                    direct_orientation, appliedVars, vertical, settingVars,
                    frames, host_slot, settled, cut_frame, title_start,
                    kept_buffered >>

\* The lower half, whose last pixel is the completion strobe.
DrawBottom ==
    /\ top_drawn
    /\ content' = [content EXCEPT ![write_bank].bottom = frames + 1,
                                  ![write_bank].vertical = vertical]
    /\ top_drawn' = FALSE
    /\ frames' = frames + 1

\* The edge at which scanout begins its next frame: the host applies the slot
\* that the outgoing frame commanded.
BoundaryEdge(done) ==
    /\ ArbiterStep(done, TRUE)
    /\ OrientationEdge(done, TRUE)
    /\ GuardBoundary(buffervideo, use_buffered_history,
                     TargetSlot(presented_orientation), TargetSlot(vertical),
                     candidate_valid(done),
                     TargetSlot(candidate_orientation(done)))
    /\ ApplySettings
    /\ host_slot' = command_slot
    /\ settled' = IF settled < 3 THEN settled + 1 ELSE 3
    /\ cut_frame' =
         IF ~buffervideo /\ requested_buffervideo
         THEN IF top_drawn' THEN frames + 1 ELSE 0
         ELSE cut_frame
    /\ kept_buffered' = (kept_buffered /\ requested_buffervideo)
    /\ UNCHANGED << vertical, settingVars, title_start >>

FrameDone ==
    /\ DrawBottom
    /\ ArbiterStep(TRUE, FALSE)
    /\ OrientationEdge(TRUE, FALSE)
    /\ UNCHANGED << guardVars, appliedVars, vertical, settingVars, host_slot,
                    settled, cut_frame, title_start, kept_buffered >>

FrameBoundary ==
    /\ UNCHANGED drawingVars
    /\ BoundaryEdge(FALSE)

FrameDoneAtBoundary ==
    /\ DrawBottom
    /\ BoundaryEdge(TRUE)

\* The game rotates the picture (LCD icon register).
Rotate ==
    /\ vertical' = ~vertical
    /\ UNCHANGED << arbiterVars, guardVars, bank_orientation,
                    direct_orientation, appliedVars, settingVars, drawingVars,
                    host_slot, settled, cut_frame, title_start, kept_buffered >>

\* The player changes the display settings.
SetDisplay ==
    /\ configured_orientation' \in OrientationSettings
    /\ landscape_180' \in FlipSettings
    /\ << configured_orientation, landscape_180 >>'
         # << configured_orientation, landscape_180 >>
    /\ settled' = 0
    /\ UNCHANGED << arbiterVars, guardVars, bank_orientation,
                    direct_orientation, appliedVars, vertical,
                    requested_buffervideo, drawingVars, host_slot, cut_frame,
                    title_start, kept_buffered >>

\* The player switches tear-free buffering on or off.
SetBuffering ==
    /\ requested_buffervideo' = ~requested_buffervideo
    /\ UNCHANGED << arbiterVars, guardVars, bank_orientation,
                    direct_orientation, appliedVars, vertical,
                    configured_orientation, landscape_180, drawingVars,
                    host_slot, settled, cut_frame, title_start, kept_buffered >>

\* Reset Enter and Exit: pixels and settings survive, everything else does not.
\* A frame in progress is abandoned.
Reset ==
    /\ frames < MaxFrames
    /\ ArbiterReset
    /\ GuardReset
    /\ bank_orientation' = [b \in Banks |-> FALSE]
    /\ vertical' = FALSE
    /\ direct_orientation' = FALSE
    /\ buffervideo' = requested_buffervideo
    /\ allow_direct_while_priming' = FALSE
    /\ frames' = frames + 1
    /\ top_drawn' = FALSE
    /\ cut_frame' = 0
    /\ title_start' = frames + 1
    /\ kept_buffered' = requested_buffervideo
    /\ UNCHANGED << settingVars, content, host_slot, settled >>

Next ==
    \/ DrawTop
    \/ FrameDone
    \/ FrameBoundary
    \/ FrameDoneAtBoundary
    \/ Rotate
    \/ SetDisplay
    \/ SetBuffering
    \/ Reset

Spec == Init /\ [][Next]_vars

\* Scanout is driven by a free-running pixel clock: boundaries keep coming
\* whatever the console does.
ScanoutFairness == WF_vars(FrameBoundary \/ FrameDoneAtBoundary)

FairSpec == Spec /\ ScanoutFairness
---------------------------------------------------------------------------
(* Properties.                                                             *)

\* While buffering, the producer's bank, the pending bank and the banks of the
\* history are pairwise different: nobody draws into a frame that is shown or
\* about to be shown (the ownership roles of apf_framebank_arbiter.sv:5-8).
BanksDistinct ==
    buffervideo =>
      /\ write_bank_state \notin History
      /\ pending_valid => pending_bank \notin History \union {write_bank_state}
      /\ history_valid_count >= 2 => history_newest # history_previous
      /\ history_valid_count >= 3 =>
           history_oldest \notin {history_newest, history_previous}

\* "A visible bank is never overwritten" (apf_framebank_arbiter.sv:8): no step
\* changes the pixels of a bank scanout reads, the edge of a coincident
\* completion and boundary included.
VisibleBankUntouched ==
    [][use_buffered_history => \A b \in History : content'[b] = content[b]]_vars

\* Scanout never shows an older frame after a newer one: what waits is newer
\* than what is shown, and the blend history is in the order of drawing.
FramesInOrder ==
    LET Frame(b) == content[b].bottom
    IN  buffervideo =>
          /\ history_valid_count >= 2 =>
               Frame(history_newest) > Frame(history_previous)
          /\ history_valid_count >= 3 =>
               Frame(history_previous) > Frame(history_oldest)
          /\ pending_valid /\ history_valid_count >= 1 =>
               Frame(pending_bank) > Frame(history_newest)

\* A frame in the history is whole: both halves are of one frame.  The frame
\* that was being drawn when buffering was switched on is the exception.
HistoryComplete ==
    use_buffered_history =>
      \A b \in History : \/ content[b].top = content[b].bottom
                         \/ content[b].bottom = cut_frame

\* Both halves of the bank were drawn since the last reset.
Fresh(b) == content[b].top > title_start /\ content[b].bottom > title_start

\* Pixels survive a reset (wonderswan.sv:785-788).  Buffering never queues one
\* of the title before, and none reaches the blend filter once the new title
\* has completed a frame, through any later switch of mode; with buffering left
\* on since the reset none reaches it at all.  What remains is direct scanout
\* before the first frame, which passes bank zero on as it was.  The guard's
\* black frames are not relied on.
OnlyThisTitle ==
    /\ buffervideo => \A b \in Offered : Fresh(b)
    /\ kept_buffered \/ frames > title_start => \A b \in BlendSource : Fresh(b)

\* The "ownership contract failure" branch of the guard is unreachable: a
\* protected candidate is still pending when its slot arrives.
ProtectedIsPending == buffervideo /\ protect_pending => pending_valid

\* What is shown is shown under the slot it was released for: the host's slot,
\* the guard's expectation and the released slot agree on every visible frame.
HostFollowsGuard ==
    ~Blanked => host_slot = expected_applied_slot /\ host_slot = presentation_slot

\* Once the display settings have been left alone for three boundaries, every
\* buffered frame on screen has the host slot its own orientation asks for, no
\* matter how often the game rotates and how far scanout lags.
SlotMatchesFrame ==
    use_buffered_history /\ ~Blanked /\ settled = 3 =>
      host_slot = TargetSlot(content[history_newest].vertical)

\* Direct pixels are black from the instant the live orientation or the setting
\* leaves the applied slot (apf_orientation_transition_guard.sv:12-14).
DirectNeverMisoriented ==
    ~use_buffered_history /\ ~Blanked => host_slot = TargetSlot(vertical)

\* A completed frame is not starved by slot changes, settings or newer frames:
\* it or a newer one is shown, unless buffering or the title ends.
PendingDelivered ==
    \A f \in 1 .. MaxFrames :
      buffervideo /\ pending_valid /\ content[pending_bank].bottom = f
        ~> \/ ~buffervideo
           \/ title_start >= f
           \/ use_buffered_history /\ content[history_newest].bottom >= f

\* Direct scanout that has gone black comes back once the game and the player
\* stop changing the orientation.
DirectRecovers ==
    \A s \in Slots :
      <>[](~buffervideo /\ TargetSlot(vertical) = s) => <>[]~Blanked
===========================================================================
