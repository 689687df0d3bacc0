----------------------------- MODULE VideoProofs ----------------------------
(***************************************************************************)
(* Safety of frame delivery for any number of banks from five up, any      *)
(* settings and any number of frames; and of the bundled-data crossings    *)
(* that bring the ROM plan and the display settings to their clocks, for   *)
(* any number of capturing domains, any payloads and any number of         *)
(* transfers: the shared handshake is a mailbox, whether it carries        *)
(* commits or follows a level, and each commit is strobed once.            *)
(***************************************************************************)
EXTENDS FrameDelivery, ClockCrossings, TLAPS

\* apf_framebank_arbiter.sv:33-56: with five banks and at most four of them
\* excluded the search always finds a bank, and one that is not excluded.
LEMMA FreeBankExists ==
    ASSUME NEW p, NEW q, NEW r, NEW s,
           NEW X, X \subseteq {p, q, r, s}
    PROVE  /\ choose_free_bank(X) \in Banks
           /\ choose_free_bank(X) \notin X
<1> DEFINE free == Banks \ X
           Least(b) == b \in free /\ \A c \in free : b <= c
<1>1. /\ Banks \subseteq Nat
      /\ {0, 1, 2, 3, 4} \subseteq Banks
  BY NumBanksAssumption DEF Banks
<1>2. \E k \in {0, 1, 2, 3, 4} : k \in free
  BY <1>1
<1>3. \E b \in free : \A c \in free : b <= c
  <2>1. CASE 0 \in free
    BY <1>1, <2>1
  <2>2. CASE 0 \notin free /\ 1 \in free
    BY <1>1, <2>2
  <2>3. CASE 0 \notin free /\ 1 \notin free /\ 2 \in free
    BY <1>1, <2>3
  <2>4. CASE 0 \notin free /\ 1 \notin free /\ 2 \notin free /\ 3 \in free
    BY <1>1, <2>4
  <2>5. CASE /\ 0 \notin free /\ 1 \notin free /\ 2 \notin free /\ 3 \notin free
             /\ 4 \in free
    BY <1>1, <2>5
  <2>6. QED
    BY <1>2, <2>1, <2>2, <2>3, <2>4, <2>5
<1>4. free # {}
  BY <1>2
<1>5. choose_free_bank(X) = CHOOSE b \in free : \A c \in free : b <= c
  BY <1>4 DEF choose_free_bank
<1>6. choose_free_bank(X) \in free
  BY <1>3, <1>5
<1>7. QED
  BY <1>6

\* What one clock edge does to the banks, whatever the strobes: the arbiter is
\* cleared or holds, or it takes one of its three transfers.
LEMMA ArbiterCases ==
    ASSUME NEW done \in BOOLEAN, NEW boundary \in BOOLEAN,
           TypeOK, ArbiterStep(done, boundary)
    PROVE  \/ ArbiterReset
           \/ UNCHANGED arbiterVars
           \/ /\ buffervideo /\ done
              /\ PublishPending
           \/ /\ buffervideo /\ boundary /\ pending_valid
              /\ PushHistory(pending_bank)
              /\ pending_valid' = FALSE
              /\ UNCHANGED << write_bank_state, pending_bank >>
           \/ /\ buffervideo /\ done /\ boundary
              /\ PromoteWriter
  BY DEF ArbiterStep, ArbiterEdge, PromotePending, TypeOK

\* While buffering is off the arbiter is held in its reset state.
Cleared ==
    ~buffervideo => /\ write_bank_state = 0
                    /\ pending_valid = FALSE
                    /\ history_valid_count = 0

\* The banks the two searches exclude.
LEMMA FreeForPublish ==
    LET X == {write_bank_state} \union History
    IN  choose_free_bank(X) \in Banks /\ choose_free_bank(X) \notin X
<1> DEFINE X == {write_bank_state} \union History
<1>1. X \subseteq {write_bank_state, history_newest, history_previous,
                   history_oldest}
  BY DEF History, HistoryPrefix
<1> HIDE DEF X
<1>2. choose_free_bank(X) \in Banks /\ choose_free_bank(X) \notin X
  BY <1>1, FreeBankExists
<1>3. QED
  BY <1>2 DEF X

LEMMA FreeForPromote ==
    LET X == {write_bank_state}
               \union HistoryPrefix(IF history_valid_count >= 2 THEN 2
                                    ELSE history_valid_count)
    IN  choose_free_bank(X) \in Banks /\ choose_free_bank(X) \notin X
<1> DEFINE X == {write_bank_state}
                  \union HistoryPrefix(IF history_valid_count >= 2 THEN 2
                                       ELSE history_valid_count)
<1>1. X \subseteq {write_bank_state, history_newest, history_previous,
                   history_oldest}
  BY DEF HistoryPrefix
<1> HIDE DEF X
<1>2. choose_free_bank(X) \in Banks /\ choose_free_bank(X) \notin X
  BY <1>1, FreeBankExists
<1>3. QED
  BY <1>2 DEF X

\* The arbiter's registers keep their types on every edge.
LEMMA ArbiterTyped ==
    ASSUME NEW done \in BOOLEAN, NEW boundary \in BOOLEAN,
           TypeOK, ArbiterStep(done, boundary)
    PROVE  ArbiterTypeOK'
<1>0. ArbiterTypeOK /\ 0 \in Banks
  BY NumBanksAssumption DEF TypeOK, Banks
<1>1. pending_valid' \in BOOLEAN
  BY <1>0, ArbiterCases, Zenon
     DEF ArbiterReset, arbiterVars, PublishPending, PromoteWriter, ArbiterTypeOK
<1> USE NumBanksAssumption DEF ArbiterTypeOK, Banks
<1>2. CASE ArbiterReset
  BY <1>0, <1>1, <1>2 DEF ArbiterReset
<1>3. CASE UNCHANGED arbiterVars
  BY <1>0, <1>3 DEF arbiterVars
<1>4. CASE PublishPending
  BY <1>0, <1>1, <1>4, FreeForPublish DEF PublishPending, UnchangedHistory
<1>5. CASE /\ PushHistory(pending_bank)
           /\ pending_valid' = FALSE
           /\ UNCHANGED << write_bank_state, pending_bank >>
  BY <1>0, <1>1, <1>5 DEF PushHistory
<1>6. CASE PromoteWriter
  BY <1>0, <1>1, <1>6, FreeForPromote DEF PromoteWriter, PushHistory
<1>7. QED
  BY <1>2, <1>3, <1>4, <1>5, <1>6, ArbiterCases

LEMMA TargetSlotTyped ==
    \A o : TargetSlot(o) \in Slots
  BY DEF TargetSlot, desired_slot, Slots

\* The guard's registers keep their types at a boundary.
LEMMA GuardTyped ==
    ASSUME TypeOK, NEW done \in BOOLEAN, BoundaryEdge(done)
    PROVE  GuardTypeOK' /\ host_slot' \in Slots
<1>1. GuardTypeOK
  BY DEF TypeOK
<1>2. command_slot' \in Slots
  BY <1>1, TargetSlotTyped
     DEF GuardTypeOK, BoundaryEdge, GuardBoundary, BufferedBoundary,
         DirectBoundary
<1>3. /\ expected_applied_slot' \in Slots
      /\ host_slot' \in Slots
      /\ presentation_slot' \in Slots
  BY <1>1
     DEF GuardTypeOK, BoundaryEdge, GuardBoundary, BufferedBoundary,
         DirectBoundary, Present, Blank, RepeatHistory
<1>4. protect_pending' \in BOOLEAN /\ frame_blank' \in BOOLEAN
  BY <1>1, Zenon
     DEF GuardTypeOK, BoundaryEdge, GuardBoundary, BufferedBoundary,
         DirectBoundary, Present, Blank, RepeatHistory
<1>5. QED
  BY <1>2, <1>3, <1>4, Zenon DEF GuardTypeOK

\* The type invariant on a boundary edge, apart from what the console draws.
LEMMA BoundaryTyped ==
    ASSUME TypeOK, NEW done \in BOOLEAN, BoundaryEdge(done),
           top_drawn' \in BOOLEAN, top_drawn' => top_drawn /\ frames < MaxFrames
    PROVE  /\ ArbiterTypeOK'
           /\ GuardTypeOK'
           /\ bank_orientation' \in [Banks -> BOOLEAN]
           /\ direct_orientation' \in BOOLEAN
           /\ buffervideo' \in BOOLEAN
           /\ allow_direct_while_priming' \in BOOLEAN
           /\ vertical' \in BOOLEAN
           /\ configured_orientation' \in OrientationSettings
           /\ landscape_180' \in FlipSettings
           /\ requested_buffervideo' \in BOOLEAN
           /\ host_slot' \in Slots
           /\ settled' \in 0 .. 3
           /\ cut_frame' \in 0 .. MaxFrames
           /\ title_start' \in 0 .. MaxFrames
           /\ kept_buffered' \in BOOLEAN
<1>1. ArbiterTypeOK'
  BY ArbiterTyped DEF BoundaryEdge
<1>2. GuardTypeOK' /\ host_slot' \in Slots
  BY GuardTyped
<1>3. /\ bank_orientation' \in [Banks -> BOOLEAN]
      /\ direct_orientation' \in BOOLEAN
  BY DEF BoundaryEdge, OrientationEdge, TypeOK
<1>4. /\ buffervideo' \in BOOLEAN
      /\ allow_direct_while_priming' \in BOOLEAN
  BY Zenon DEF BoundaryEdge, ApplySettings, TypeOK
<1>5. /\ vertical' \in BOOLEAN
      /\ configured_orientation' \in OrientationSettings
      /\ landscape_180' \in FlipSettings
      /\ requested_buffervideo' \in BOOLEAN
      /\ title_start' \in 0 .. MaxFrames
  BY DEF BoundaryEdge, TypeOK, settingVars
<1>6. settled' \in 0 .. 3
  BY DEF BoundaryEdge, TypeOK
<1>7. cut_frame' \in 0 .. MaxFrames
  BY SettingsAssumption DEF BoundaryEdge, TypeOK
<1>8. kept_buffered' \in BOOLEAN
  BY Zenon DEF BoundaryEdge, TypeOK
<1>9. QED
  BY <1>1, <1>2, <1>3, <1>4, <1>5, <1>6, <1>7, <1>8

\* A frame in progress is below the bound, so its number is one too.
DrawingBound == top_drawn => frames < MaxFrames

\* The bank the producer draws into is a bank.
LEMMA WriteBankTyped ==
    ASSUME TypeOK PROVE write_bank \in Banks
  BY NumBanksAssumption DEF TypeOK, ArbiterTypeOK, write_bank, Banks

LEMMA DrawBottomTyped ==
    ASSUME TypeOK, DrawingBound, DrawBottom
    PROVE  /\ frames' \in 0 .. MaxFrames
           /\ top_drawn' \in BOOLEAN
           /\ content' \in [Banks -> [top : 0 .. MaxFrames,
                                      bottom : 0 .. MaxFrames,
                                      vertical : BOOLEAN]]
<1>1. frames + 1 \in 0 .. MaxFrames
  BY SettingsAssumption DEF TypeOK, DrawingBound, DrawBottom
<1>2. content' \in [Banks -> [top : 0 .. MaxFrames, bottom : 0 .. MaxFrames,
                              vertical : BOOLEAN]]
  BY <1>1 DEF TypeOK, DrawBottom
<1>3. top_drawn' \in BOOLEAN
  BY Zenon DEF DrawBottom
<1>4. QED
  BY <1>1, <1>2, <1>3 DEF DrawBottom

LEMMA TypeInit ==
    ASSUME Init PROVE TypeOK /\ DrawingBound
<1>1. ArbiterTypeOK
  <2>1. pending_valid \in BOOLEAN
    BY Zenon DEF Init, ArbiterInit
  <2>2. QED
    BY <2>1, NumBanksAssumption DEF Init, ArbiterInit, ArbiterTypeOK, Banks
<1>2. GuardTypeOK
  <2>1. protect_pending \in BOOLEAN /\ frame_blank \in BOOLEAN
    BY Zenon DEF Init, GuardInit
  <2>2. QED
    BY <2>1 DEF Init, GuardInit, GuardTypeOK, Slots
<1>3. /\ direct_orientation \in BOOLEAN
      /\ allow_direct_while_priming \in BOOLEAN
      /\ vertical \in BOOLEAN
      /\ buffervideo \in BOOLEAN
      /\ top_drawn \in BOOLEAN
      /\ kept_buffered \in BOOLEAN
  BY Zenon DEF Init
<1>4. content \in [Banks -> [top : 0 .. MaxFrames, bottom : 0 .. MaxFrames,
                             vertical : BOOLEAN]]
  BY SettingsAssumption DEF Init
<1>5. bank_orientation \in [Banks -> BOOLEAN]
  BY DEF Init
<1>6. DrawingBound
  BY Zenon DEF Init, DrawingBound
<1>7. QED
  BY <1>1, <1>2, <1>3, <1>4, <1>5, <1>6, SettingsAssumption
     DEF Init, TypeOK, Slots

LEMMA TypeStep ==
    ASSUME TypeOK, DrawingBound, [Next]_vars
    PROVE  TypeOK' /\ DrawingBound'
<1> USE SettingsAssumption
<1>1. CASE DrawTop
  <2>1. frames + 1 \in 0 .. MaxFrames
    BY <1>1 DEF TypeOK, DrawTop
  <2>2. content' \in [Banks -> [top : 0 .. MaxFrames, bottom : 0 .. MaxFrames,
                                vertical : BOOLEAN]]
    BY <1>1, <2>1 DEF TypeOK, DrawTop
  <2>3. top_drawn' \in BOOLEAN
    BY <1>1, Zenon DEF DrawTop
  <2>4. DrawingBound'
    BY <1>1 DEF DrawingBound, DrawTop
  <2>5. UNCHANGED << arbiterVars, guardVars, bank_orientation,
                     direct_orientation, appliedVars, vertical, settingVars,
                     frames, host_slot, settled, cut_frame, title_start, kept_buffered >>
    BY <1>1 DEF DrawTop
  <2>6. QED
    BY <2>2, <2>3, <2>4, <2>5
       DEF TypeOK, arbiterVars, guardVars, appliedVars, settingVars,
           ArbiterTypeOK, GuardTypeOK, Banks, Slots
<1>2. CASE FrameDone
  <2>1. ArbiterTypeOK'
    BY <1>2, ArbiterTyped DEF FrameDone
  <2>2. bank_orientation' \in [Banks -> BOOLEAN] /\ direct_orientation' \in BOOLEAN
    BY <1>2 DEF FrameDone, OrientationEdge, TypeOK
  <2>3. /\ frames' \in 0 .. MaxFrames
        /\ top_drawn' \in BOOLEAN
        /\ content' \in [Banks -> [top : 0 .. MaxFrames,
                                   bottom : 0 .. MaxFrames,
                                   vertical : BOOLEAN]]
    BY <1>2, DrawBottomTyped DEF FrameDone
  <2>4. ~top_drawn'
    BY <1>2, Zenon DEF FrameDone, DrawBottom
  <2>5. QED
    BY <1>2, <2>1, <2>2, <2>3, <2>4
       DEF TypeOK, DrawingBound, FrameDone, guardVars, appliedVars,
           settingVars, GuardTypeOK, Banks, Slots
<1>3. CASE FrameBoundary
  <2>1. /\ frames' = frames /\ top_drawn' = top_drawn /\ content' = content
        /\ BoundaryEdge(FALSE)
    BY <1>3 DEF FrameBoundary, drawingVars
  <2>2. top_drawn' \in BOOLEAN /\ (top_drawn' => top_drawn /\ frames < MaxFrames)
    BY <2>1 DEF TypeOK, DrawingBound
  <2>3. /\ frames' \in 0 .. MaxFrames
        /\ content' \in [Banks -> [top : 0 .. MaxFrames,
                                   bottom : 0 .. MaxFrames,
                                   vertical : BOOLEAN]]
    BY <2>1 DEF TypeOK
  <2>4. DrawingBound'
    BY <2>1, <2>2 DEF DrawingBound
  <2>5. QED
    BY <2>1, <2>2, <2>3, <2>4, BoundaryTyped DEF TypeOK, Banks, Slots
<1>4. CASE FrameDoneAtBoundary
  <2>1. ~top_drawn'
    BY <1>4, Zenon DEF FrameDoneAtBoundary, DrawBottom
  <2>2. /\ frames' \in 0 .. MaxFrames
        /\ top_drawn' \in BOOLEAN
        /\ content' \in [Banks -> [top : 0 .. MaxFrames,
                                   bottom : 0 .. MaxFrames,
                                   vertical : BOOLEAN]]
    BY <1>4, DrawBottomTyped DEF FrameDoneAtBoundary
  <2>3. QED
    BY <1>4, <2>1, <2>2, BoundaryTyped
       DEF TypeOK, DrawingBound, FrameDoneAtBoundary, Banks, Slots
<1>5. CASE Rotate
  BY <1>5 DEF TypeOK, DrawingBound, Rotate, arbiterVars, guardVars, appliedVars,
              settingVars, drawingVars, ArbiterTypeOK, GuardTypeOK, Banks, Slots
<1>6. CASE SetDisplay
  BY <1>6 DEF TypeOK, DrawingBound, SetDisplay, arbiterVars, guardVars,
              appliedVars, drawingVars, ArbiterTypeOK, GuardTypeOK, Banks, Slots
<1>7. CASE SetBuffering
  BY <1>7 DEF TypeOK, DrawingBound, SetBuffering, arbiterVars, guardVars,
              appliedVars, drawingVars, ArbiterTypeOK, GuardTypeOK, Banks, Slots
<1>8. CASE Reset
  <2>1. ArbiterTypeOK'
    <3>1. pending_valid' \in BOOLEAN
      BY <1>8, Zenon DEF Reset, ArbiterReset
    <3>2. QED
      BY <1>8, <3>1, NumBanksAssumption DEF Reset, ArbiterReset, ArbiterTypeOK, Banks
  <2>2. GuardTypeOK'
    <3>1. protect_pending' \in BOOLEAN /\ frame_blank' \in BOOLEAN
      BY <1>8, Zenon DEF Reset, GuardReset
    <3>2. QED
      BY <1>8, <3>1 DEF Reset, GuardReset, GuardTypeOK, Slots
  <2>3. /\ vertical' \in BOOLEAN
        /\ direct_orientation' \in BOOLEAN
        /\ allow_direct_while_priming' \in BOOLEAN
        /\ top_drawn' \in BOOLEAN
        /\ ~top_drawn'
    BY <1>8, Zenon DEF Reset
  <2>4. bank_orientation' \in [Banks -> BOOLEAN]
    BY <1>8 DEF Reset
  <2>5. frames + 1 \in 0 .. MaxFrames
    BY <1>8 DEF Reset, TypeOK
  <2>6. QED
    BY <1>8, <2>1, <2>2, <2>3, <2>4, <2>5
       DEF TypeOK, DrawingBound, Reset, settingVars, Banks, Slots
<1>9. CASE UNCHANGED vars
  BY <1>9 DEF TypeOK, DrawingBound, vars, arbiterVars, guardVars, appliedVars,
              settingVars, drawingVars, ArbiterTypeOK, GuardTypeOK, Banks, Slots
<1>10. QED
  BY <1>1, <1>2, <1>3, <1>4, <1>5, <1>6, <1>7, <1>8, <1>9 DEF Next

\* Every reachable state is well typed, for any number of banks and frames.
THEOREM TypeCorrect == Spec => []TypeOK
<1>1. Init => TypeOK /\ DrawingBound
  BY TypeInit
<1>2. TypeOK /\ DrawingBound /\ [Next]_vars => TypeOK' /\ DrawingBound'
  BY TypeStep
<1>3. QED
  BY <1>1, <1>2, PTL DEF Spec

---------------------------------------------------------------------------
(* Ownership of the banks.                                                 *)

\* BanksDistinct without its premise: it also holds while the arbiter is
\* cleared, which makes it inductive across a change of buffering.
Distinct ==
    /\ write_bank_state \notin History
    /\ pending_valid => pending_bank \notin History \union {write_bank_state}
    /\ history_valid_count >= 2 => history_newest # history_previous
    /\ history_valid_count >= 3 =>
         history_oldest \notin {history_newest, history_previous}

LEMMA DistinctEdge ==
    ASSUME NEW done \in BOOLEAN, NEW boundary \in BOOLEAN,
           TypeOK, Distinct, ArbiterStep(done, boundary)
    PROVE  Distinct'
<1> USE DEF Distinct, History, HistoryPrefix
<1>0. history_valid_count \in 0 .. 3 /\ pending_valid \in BOOLEAN
  BY DEF TypeOK, ArbiterTypeOK
<1>1. CASE ArbiterReset
  <2>1. ~pending_valid' /\ history_valid_count' = 0
    BY <1>1, Zenon DEF ArbiterReset
  <2>2. QED
    BY <2>1
<1>2. CASE UNCHANGED arbiterVars
  BY <1>2 DEF arbiterVars
<1>3. CASE PublishPending
  <2>1. /\ pending_bank' = write_bank_state
        /\ write_bank_state' =
             IF pending_valid THEN pending_bank
             ELSE choose_free_bank({write_bank_state} \union History)
        /\ history_newest' = history_newest
        /\ history_previous' = history_previous
        /\ history_oldest' = history_oldest
        /\ history_valid_count' = history_valid_count
    BY <1>3 DEF PublishPending, UnchangedHistory
  <2>2. write_bank_state' \notin {write_bank_state} \union History
    <3>1. CASE pending_valid
      BY <3>1, <2>1
    <3>2. CASE ~pending_valid
      BY <3>2, <2>1, FreeForPublish
    <3>3. QED
      BY <3>1, <3>2
  <2>3. QED
    BY <1>0, <2>1, <2>2
<1>4. CASE /\ pending_valid
           /\ PushHistory(pending_bank)
           /\ pending_valid' = FALSE
           /\ UNCHANGED << write_bank_state, pending_bank >>
  <2>1. ~pending_valid'
    BY <1>4, Zenon
  <2>2. /\ pending_valid
        /\ PushHistory(pending_bank)
        /\ write_bank_state' = write_bank_state
    BY <1>4
  <2>3. QED
    BY <1>0, <2>1, <2>2 DEF PushHistory
<1>5. CASE PromoteWriter
  <2>1. ~pending_valid'
    BY <1>5, Zenon DEF PromoteWriter
  <2>2. PushHistory(write_bank_state)
    BY <1>5 DEF PromoteWriter
  <2>3. /\ write_bank_state' # write_bank_state
        /\ history_valid_count >= 1 => write_bank_state' # history_newest
        /\ history_valid_count >= 2 => write_bank_state' # history_previous
    <3>1. CASE pending_valid
      BY <1>0, <3>1, <1>5 DEF PromoteWriter
    <3>2. CASE ~pending_valid
      BY <1>0, <3>2, <1>5, FreeForPromote DEF PromoteWriter
    <3>3. QED
      BY <3>1, <3>2
  <2>4. QED
    BY <1>0, <2>1, <2>2, <2>3 DEF PushHistory
<1>6. QED
  BY <1>1, <1>2, <1>3, <1>4, <1>5, ArbiterCases

\* What a step of the system means to the arbiter: nothing, a reset that leaves
\* it cleared, or one clock edge.
LEMMA ArbiterInSystem ==
    ASSUME [Next]_vars
    PROVE  \/ UNCHANGED << arbiterVars, buffervideo >>
           \/ ArbiterReset
           \/ ArbiterStep(TRUE, FALSE) /\ UNCHANGED buffervideo
           \/ \E done \in BOOLEAN : /\ ArbiterStep(done, TRUE)
                                    /\ buffervideo' = requested_buffervideo
<1>1. CASE DrawTop
  BY <1>1 DEF DrawTop, appliedVars
<1>2. CASE FrameDone
  BY <1>2 DEF FrameDone, appliedVars
<1>3. CASE FrameBoundary
  BY <1>3 DEF FrameBoundary, BoundaryEdge, ApplySettings
<1>4. CASE FrameDoneAtBoundary
  BY <1>4 DEF FrameDoneAtBoundary, BoundaryEdge, ApplySettings
<1>5. CASE Rotate \/ SetDisplay \/ SetBuffering
  BY <1>5 DEF Rotate, SetDisplay, SetBuffering, appliedVars
<1>6. CASE Reset
  BY <1>6 DEF Reset
<1>7. CASE UNCHANGED vars
  BY <1>7 DEF vars, appliedVars
<1>8. QED
  BY <1>1, <1>2, <1>3, <1>4, <1>5, <1>6, <1>7 DEF Next

Ownership == TypeOK /\ DrawingBound /\ Distinct /\ Cleared

LEMMA OwnershipInit ==
    ASSUME Init PROVE Ownership
<1>1. /\ history_valid_count = 0
      /\ write_bank_state = 0
      /\ pending_valid = FALSE
  BY Zenon DEF Init, ArbiterInit
<1>2. Distinct
  <2>1. ~pending_valid
    BY <1>1, Zenon
  <2>2. QED
    BY <1>1, <2>1 DEF Distinct, History, HistoryPrefix
<1>3. Cleared
  BY <1>1, Zenon DEF Cleared
<1>4. QED
  BY <1>2, <1>3, TypeInit DEF Ownership

LEMMA OwnershipStep ==
    ASSUME Ownership, [Next]_vars PROVE Ownership'
<1> USE DEF Ownership
<1>1. TypeOK' /\ DrawingBound'
  BY TypeStep
<1>2. CASE UNCHANGED << arbiterVars, buffervideo >>
  <2>1. Distinct'
    BY <1>2 DEF Distinct, History, HistoryPrefix, arbiterVars
  <2>2. Cleared'
    BY <1>2, Zenon DEF Cleared, arbiterVars
  <2>3. QED
    BY <1>1, <2>1, <2>2
<1>3. CASE ArbiterReset
  <2>1. ~pending_valid' /\ history_valid_count' = 0
    BY <1>3, Zenon DEF ArbiterReset
  <2>2. Distinct'
    BY <2>1 DEF Distinct, History, HistoryPrefix
  <2>3. Cleared'
    BY <1>3, Zenon DEF Cleared, ArbiterReset
  <2>4. QED
    BY <1>1, <2>2, <2>3
<1>4. CASE ArbiterStep(TRUE, FALSE) /\ UNCHANGED buffervideo
  <2>1. Distinct'
    BY <1>4, DistinctEdge
  <2>2. Cleared'
    BY <1>4, Zenon DEF Cleared, ArbiterStep, arbiterVars
  <2>3. QED
    BY <1>1, <2>1, <2>2
<1>5. CASE \E done \in BOOLEAN : /\ ArbiterStep(done, TRUE)
                                 /\ buffervideo' = requested_buffervideo
  <2>1. Distinct'
    BY <1>5, DistinctEdge
  <2>2. Cleared'
    <3>1. ~buffervideo' => ArbiterReset
      BY <1>5 DEF ArbiterStep
    <3>2. QED
      BY <3>1, Zenon DEF Cleared, ArbiterReset
  <2>3. QED
    BY <1>1, <2>1, <2>2
<1>6. QED
  BY <1>2, <1>3, <1>4, <1>5, ArbiterInSystem

\* For any number of banks from five up, the producer never holds a bank that
\* scanout shows or is about to show.
THEOREM OwnershipSafe == Spec => []BanksDistinct
<1>1. Init => Ownership
  BY OwnershipInit
<1>2. Ownership /\ [Next]_vars => Ownership'
  BY OwnershipStep
<1>3. Ownership => BanksDistinct
  BY DEF Ownership, Distinct, BanksDistinct
<1>4. QED
  BY <1>1, <1>2, <1>3, PTL DEF Spec

\* What a step draws: nothing, or a half of a frame into the producer's bank.
LEMMA DrawnInSystem ==
    ASSUME [Next]_vars
    PROVE  \/ content' = content
           \/ DrawTop
           \/ DrawBottom
  BY DEF Next, vars, drawingVars, FrameDone, FrameBoundary, FrameDoneAtBoundary,
         Rotate, SetDisplay, SetBuffering, Reset

LEMMA OfferedUntouched ==
    ASSUME Ownership, [Next]_vars, buffervideo, NEW b \in Offered
    PROVE  content'[b] = content[b]
<1>1. b # write_bank
  BY DEF Ownership, Distinct, Offered, write_bank, TypeOK, ArbiterTypeOK
<1>2. b \in Banks
  BY DEF Ownership, TypeOK, ArbiterTypeOK, Offered, History, HistoryPrefix
<1>3. QED
  BY <1>1, <1>2, DrawnInSystem
     DEF DrawTop, DrawBottom, Ownership, TypeOK

\* No step overwrites the pixels of a bank that scanout reads.
THEOREM VisibleNeverOverwritten == Spec => VisibleBankUntouched
<1>1. Init => Ownership
  BY OwnershipInit
<1>2. Ownership /\ [Next]_vars => Ownership'
  BY OwnershipStep
<1>3. Ownership /\ [Next]_vars =>
        [use_buffered_history => \A b \in History : content'[b] = content[b]]_vars
  BY OfferedUntouched DEF Offered, use_buffered_history
<1>4. QED
  BY <1>1, <1>2, <1>3, PTL DEF Spec, VisibleBankUntouched

---------------------------------------------------------------------------
(* The frames in the banks.                                                *)

\* A bank holds one whole frame, or the frame that buffering cut.
Whole(pixels, cut) == pixels.top = pixels.bottom \/ pixels.bottom = cut

\* No bank holds a frame from the future.
Drawn ==
    /\ \A b \in Banks : content[b].bottom <= frames
    /\ title_start <= frames

\* The upper half of the frame in progress is where its lower half will go,
\* unless buffering was switched on in between.
UpperHalf ==
    buffervideo /\ top_drawn =>
      \/ content[write_bank_state].top = frames + 1
      \/ cut_frame = frames + 1

OfferedWhole ==
    \A b \in Offered : /\ Whole(content[b], cut_frame)
                       /\ Fresh(b)

\* The new title draws its first frame into bank zero in either mode, and from
\* then on whatever it draws into has an upper half of its own.
FreshDrawing ==
    /\ top_drawn => content[0].top > title_start
    /\ frames > title_start => Fresh(0)
    /\ frames = title_start /\ buffervideo => write_bank_state = 0
    /\ buffervideo /\ top_drawn => content[write_bank_state].top > title_start

\* Buffering that was never left neither was entered.
KeptBuffered == kept_buffered => buffervideo /\ ~allow_direct_while_priming

\* FramesInOrder without its premise, as for Distinct.
Ordered ==
    /\ history_valid_count >= 2 =>
         content[history_newest].bottom > content[history_previous].bottom
    /\ history_valid_count >= 3 =>
         content[history_previous].bottom > content[history_oldest].bottom
    /\ pending_valid /\ history_valid_count >= 1 =>
         content[pending_bank].bottom > content[history_newest].bottom

FrameFacts ==
    /\ Ownership
    /\ Drawn
    /\ UpperHalf
    /\ FreshDrawing
    /\ KeptBuffered
    /\ OfferedWhole
    /\ Ordered

\* Only the writer joins the frames on offer, and only when it is complete.
LEMMA OfferedEdge ==
    ASSUME NEW done \in BOOLEAN, NEW boundary \in BOOLEAN,
           TypeOK, ArbiterStep(done, boundary)
    PROVE  /\ Offered' \subseteq Offered \union {write_bank_state}
           /\ ~done => Offered' \subseteq Offered
           /\ ~done /\ ~ArbiterReset => write_bank_state' = write_bank_state
<1> USE DEF Offered, History, HistoryPrefix
<1>0. history_valid_count \in 0 .. 3 /\ pending_valid \in BOOLEAN
  BY DEF TypeOK, ArbiterTypeOK
<1>1. CASE ArbiterReset
  <2>1. ~pending_valid' /\ history_valid_count' = 0
    BY <1>1, Zenon DEF ArbiterReset
  <2>2. QED
    BY <1>1, <2>1
<1>2. CASE UNCHANGED arbiterVars
  BY <1>2 DEF arbiterVars
<1>3. CASE done /\ PublishPending
  BY <1>0, <1>3 DEF PublishPending, UnchangedHistory
<1>4. CASE /\ pending_valid
           /\ PushHistory(pending_bank)
           /\ pending_valid' = FALSE
           /\ UNCHANGED << write_bank_state, pending_bank >>
  <2>1. ~pending_valid'
    BY <1>4, Zenon
  <2>2. /\ pending_valid
        /\ PushHistory(pending_bank)
        /\ write_bank_state' = write_bank_state
    BY <1>4
  <2>3. QED
    BY <1>0, <2>1, <2>2 DEF PushHistory
<1>5. CASE done /\ PromoteWriter
  <2>1. ~pending_valid'
    BY <1>5, Zenon DEF PromoteWriter
  <2>2. done /\ PushHistory(write_bank_state)
    BY <1>5 DEF PromoteWriter
  <2>3. QED
    BY <1>0, <2>1, <2>2 DEF PushHistory
<1>6. QED
  BY <1>1, <1>2, <1>3, <1>4, <1>5, ArbiterCases

\* Nothing is on offer while buffering is off.
LEMMA NothingOffered ==
    ASSUME Ownership, ~buffervideo PROVE Offered = {}
<1>1. ~pending_valid /\ history_valid_count = 0
  BY Zenon DEF Ownership, Cleared
<1>2. QED
  BY <1>1 DEF Offered, History, HistoryPrefix

LEMMA DrawnStep ==
    ASSUME Ownership, Drawn, [Next]_vars PROVE Drawn'
<1> USE DEF Drawn
<1>1. /\ frames \in Nat /\ title_start \in Nat
      /\ content \in [Banks -> [top : Nat, bottom : Nat, vertical : BOOLEAN]]
      /\ write_bank \in Banks
  BY WriteBankTyped, SettingsAssumption DEF Ownership, TypeOK
<1>2. CASE DrawTop
  BY <1>1, <1>2 DEF DrawTop, Banks
<1>3. CASE FrameDone \/ FrameDoneAtBoundary
  <2>1. /\ content' = [content EXCEPT ![write_bank].bottom = frames + 1,
                                      ![write_bank].vertical = vertical]
        /\ frames' = frames + 1
        /\ title_start' = title_start
    BY <1>3 DEF FrameDone, FrameDoneAtBoundary, BoundaryEdge, DrawBottom
  <2>2. QED
    BY <1>1, <2>1 DEF Banks
<1>4. CASE FrameBoundary
  BY <1>1, <1>4 DEF FrameBoundary, BoundaryEdge, drawingVars, Banks
<1>5. CASE Rotate \/ SetDisplay \/ SetBuffering
  BY <1>1, <1>5 DEF Rotate, SetDisplay, SetBuffering, drawingVars, Banks
<1>6. CASE Reset
  <2>1. content' = content /\ frames' = frames + 1 /\ title_start' = frames + 1
    BY <1>6 DEF Reset
  <2>2. QED
    BY <1>1, <2>1 DEF Banks
<1>7. CASE UNCHANGED vars
  BY <1>1, <1>7 DEF vars, drawingVars, Banks
<1>8. QED
  BY <1>2, <1>3, <1>4, <1>5, <1>6, <1>7 DEF Next

LEMMA UpperHalfStep ==
    ASSUME Ownership, UpperHalf, [Next]_vars PROVE UpperHalf'
<1> USE DEF UpperHalf
<1>0. /\ buffervideo \in BOOLEAN /\ top_drawn \in BOOLEAN
      /\ write_bank_state \in Banks
      /\ content \in [Banks -> [top : 0 .. MaxFrames, bottom : 0 .. MaxFrames,
                                vertical : BOOLEAN]]
  BY DEF Ownership, TypeOK, ArbiterTypeOK
<1>1. CASE DrawTop
  <2>1. /\ content' = [content EXCEPT ![write_bank].top = frames + 1]
        /\ frames' = frames
        /\ write_bank_state' = write_bank_state
        /\ buffervideo' = buffervideo
    BY <1>1 DEF DrawTop, arbiterVars, appliedVars
  <2>2. QED
    BY <1>0, <2>1 DEF write_bank
<1>2. CASE FrameDone \/ FrameDoneAtBoundary \/ Reset
  <2>1. ~top_drawn'
    BY <1>2, Zenon DEF FrameDone, FrameDoneAtBoundary, DrawBottom, Reset
  <2>2. QED
    BY <2>1
<1>3. CASE FrameBoundary
  <2>1. /\ frames' = frames /\ top_drawn' = top_drawn /\ content' = content
        /\ ArbiterStep(FALSE, TRUE)
        /\ buffervideo' = requested_buffervideo
        /\ cut_frame' = IF ~buffervideo /\ requested_buffervideo
                        THEN IF top_drawn' THEN frames + 1 ELSE 0
                        ELSE cut_frame
    BY <1>3 DEF FrameBoundary, BoundaryEdge, ApplySettings, drawingVars
  <2>2. CASE buffervideo /\ requested_buffervideo
    <3>1. write_bank_state' = write_bank_state
      BY <2>1, <2>2 DEF ArbiterStep, ArbiterEdge, PromotePending, arbiterVars
    <3>2. QED
      BY <2>1, <2>2, <3>1
  <2>3. CASE ~buffervideo \/ ~requested_buffervideo
    BY <2>1, <2>3
  <2>4. QED
    BY <2>2, <2>3
<1>4. CASE Rotate \/ SetDisplay \/ SetBuffering
  BY <1>4 DEF Rotate, SetDisplay, SetBuffering, drawingVars, arbiterVars,
              appliedVars
<1>5. CASE UNCHANGED vars
  BY <1>5 DEF vars, drawingVars, arbiterVars, appliedVars
<1>6. QED
  BY <1>1, <1>2, <1>3, <1>4, <1>5 DEF Next

LEMMA FreshDrawingStep ==
    ASSUME Ownership, Drawn, FreshDrawing, [Next]_vars PROVE FreshDrawing'
<1> USE DEF FreshDrawing, Fresh
<1>0. /\ buffervideo \in BOOLEAN /\ top_drawn \in BOOLEAN
      /\ write_bank_state \in Banks /\ write_bank \in Banks /\ 0 \in Banks
      /\ content \in [Banks -> [top : Nat, bottom : Nat, vertical : BOOLEAN]]
      /\ frames \in Nat /\ title_start \in Nat /\ title_start <= frames
  BY WriteBankTyped, SettingsAssumption, NumBanksAssumption
     DEF Ownership, TypeOK, ArbiterTypeOK, Drawn, Banks
<1>1. CASE DrawTop
  <2>1. /\ content' = [content EXCEPT ![write_bank].top = frames + 1]
        /\ frames' = frames /\ title_start' = title_start
        /\ write_bank_state' = write_bank_state
        /\ buffervideo' = buffervideo
    BY <1>1 DEF DrawTop, arbiterVars, appliedVars
  <2>2. /\ content'[write_bank].top = frames + 1
        /\ \A b \in Banks : content'[b].bottom = content[b].bottom
        /\ \A b \in Banks \ {write_bank} : content'[b].top = content[b].top
    BY <1>0, <2>1
  <2>3. frames = title_start => write_bank = 0
    BY <1>0 DEF write_bank
  <2>4. content'[0].top > title_start
    <3>1. CASE write_bank = 0
      BY <1>0, <2>2, <3>1
    <3>2. CASE write_bank # 0
      BY <1>0, <2>2, <2>3, <3>2
    <3>3. QED
      BY <3>1, <3>2
  <2>5. QED
    BY <1>0, <2>1, <2>2, <2>4 DEF write_bank
<1>2. CASE FrameDone \/ FrameDoneAtBoundary
  <2>1. /\ content' = [content EXCEPT ![write_bank].bottom = frames + 1,
                                      ![write_bank].vertical = vertical]
        /\ frames' = frames + 1
        /\ title_start' = title_start
        /\ top_drawn
    BY <1>2 DEF FrameDone, FrameDoneAtBoundary, BoundaryEdge, DrawBottom
  <2>2. ~top_drawn'
    BY <1>2, Zenon DEF FrameDone, FrameDoneAtBoundary, DrawBottom
  <2>3. /\ content'[write_bank].bottom = frames + 1
        /\ \A b \in Banks : content'[b].top = content[b].top
        /\ \A b \in Banks \ {write_bank} : content'[b].bottom = content[b].bottom
    BY <1>0, <2>1
  <2>4. frames = title_start => write_bank = 0
    BY <1>0 DEF write_bank
  <2>5. content'[0].bottom > title_start
    <3>1. CASE write_bank = 0
      BY <1>0, <2>3, <3>1
    <3>2. CASE write_bank # 0
      BY <1>0, <2>3, <2>4, <3>2
    <3>3. QED
      BY <3>1, <3>2
  <2>6. QED
    BY <1>0, <2>1, <2>2, <2>3, <2>5
<1>3. CASE FrameBoundary
  <2>1. /\ frames' = frames /\ top_drawn' = top_drawn /\ content' = content
        /\ title_start' = title_start
        /\ ArbiterStep(FALSE, TRUE)
        /\ buffervideo' = requested_buffervideo
    BY <1>3 DEF FrameBoundary, BoundaryEdge, ApplySettings, drawingVars
  <2>2. write_bank_state' \in {0, write_bank_state}
    BY <2>1, OfferedEdge DEF Ownership, ArbiterReset
  <2>3. ~buffervideo => write_bank_state = 0
    BY DEF Ownership, Cleared
  <2>4. QED
    BY <1>0, <2>1, <2>2, <2>3
<1>4. CASE Reset
  <2>1. /\ frames' = frames + 1 /\ title_start' = frames + 1
        /\ write_bank_state' = 0
    BY <1>4 DEF Reset, ArbiterReset
  <2>2. ~top_drawn'
    BY <1>4, Zenon DEF Reset
  <2>3. QED
    BY <1>0, <2>1, <2>2
<1>5. CASE Rotate \/ SetDisplay \/ SetBuffering \/ UNCHANGED vars
  BY <1>5 DEF Rotate, SetDisplay, SetBuffering, vars, drawingVars, arbiterVars,
              appliedVars
<1>6. QED
  BY <1>1, <1>2, <1>3, <1>4, <1>5 DEF Next

LEMMA KeptBufferedStep ==
    ASSUME KeptBuffered, [Next]_vars PROVE KeptBuffered'
<1> USE DEF KeptBuffered
<1>1. CASE FrameBoundary \/ FrameDoneAtBoundary
  <2>1. /\ ApplySettings
        /\ kept_buffered' = (kept_buffered /\ requested_buffervideo)
    BY <1>1, Zenon DEF FrameBoundary, FrameDoneAtBoundary, BoundaryEdge
  <2>2. /\ buffervideo' = requested_buffervideo
        /\ allow_direct_while_priming' =
             IF ~buffervideo /\ requested_buffervideo THEN TRUE
             ELSE IF ~requested_buffervideo \/ history_valid_count # 0 THEN FALSE
             ELSE allow_direct_while_priming
    BY <2>1, Zenon DEF ApplySettings
  <2>3. SUFFICES ASSUME kept_buffered' PROVE buffervideo' /\ ~allow_direct_while_priming'
    BY Zenon
  <2>4. kept_buffered /\ requested_buffervideo
    BY <2>1, <2>3, Zenon
  <2>5. buffervideo /\ ~allow_direct_while_priming
    BY <2>4, Zenon
  <2>6. buffervideo'
    BY <2>2, <2>4, Zenon
  <2>7. CASE history_valid_count # 0
    BY <2>2, <2>4, <2>5, <2>6, <2>7, Zenon
  <2>8. CASE ~(history_valid_count # 0)
    BY <2>2, <2>4, <2>5, <2>6, <2>8, Zenon
  <2>9. QED
    BY <2>7, <2>8, Zenon
<1>2. CASE Reset
  BY <1>2, Zenon DEF Reset
<1>3. CASE DrawTop \/ FrameDone \/ Rotate \/ SetDisplay \/ SetBuffering \/ UNCHANGED vars
  <2>1. UNCHANGED << buffervideo, allow_direct_while_priming, kept_buffered >>
    BY <1>3 DEF DrawTop, FrameDone, Rotate, SetDisplay, SetBuffering, vars, appliedVars
  <2>2. QED
    BY <2>1, Zenon
<1>4. QED
  BY <1>1, <1>2, <1>3 DEF Next

\* The bank the console completes on this edge is whole and new.
LEMMA CompletedWhole ==
    ASSUME FrameFacts, buffervideo, DrawBottom,
           cut_frame' = cut_frame, title_start' = title_start
    PROVE  /\ Whole(content'[write_bank_state], cut_frame')
           /\ content'[write_bank_state].bottom > title_start
           /\ content'[write_bank_state].top > title_start
<1>1. /\ write_bank = write_bank_state /\ write_bank_state \in Banks
      /\ content \in [Banks -> [top : 0 .. MaxFrames, bottom : 0 .. MaxFrames,
                                vertical : BOOLEAN]]
      /\ frames \in Nat /\ title_start \in Nat /\ title_start <= frames
  BY SettingsAssumption
     DEF FrameFacts, Ownership, TypeOK, ArbiterTypeOK, write_bank, Drawn
<1>2. /\ content'[write_bank_state].bottom = frames + 1
      /\ content'[write_bank_state].top = content[write_bank_state].top
  BY <1>1 DEF DrawBottom
<1>3. \/ content[write_bank_state].top = frames + 1
      \/ cut_frame = frames + 1
  BY DEF FrameFacts, UpperHalf, DrawBottom
<1>4. content[write_bank_state].top > title_start
  BY DEF FrameFacts, FreshDrawing, DrawBottom
<1>5. QED
  BY <1>1, <1>2, <1>3, <1>4 DEF Whole

\* How a step changes what is on offer: a reset or a switch to direct output
\* empties it; otherwise it keeps its marks and gains at most the frame that
\* completes on this edge.
LEMMA OfferedInSystem ==
    ASSUME Ownership, [Next]_vars
    PROVE  \/ Offered' = {}
           \/ /\ Offered' \subseteq Offered
              /\ Offered = {} \/ cut_frame' = cut_frame
              /\ title_start' = title_start
           \/ /\ Offered' \subseteq Offered \union {write_bank_state}
              /\ buffervideo
              /\ DrawBottom
              /\ cut_frame' = cut_frame
              /\ title_start' = title_start
<1>0. TypeOK /\ buffervideo \in BOOLEAN
  BY DEF Ownership, TypeOK
<1>1. CASE DrawTop \/ Rotate \/ SetDisplay \/ SetBuffering \/ UNCHANGED vars
  BY <1>1 DEF DrawTop, Rotate, SetDisplay, SetBuffering, vars, arbiterVars,
              Offered, History, HistoryPrefix
<1>2. CASE FrameDone
  <2>1. /\ ArbiterStep(TRUE, FALSE) /\ DrawBottom
        /\ cut_frame' = cut_frame /\ title_start' = title_start
    BY <1>2 DEF FrameDone
  <2>2. CASE buffervideo
    BY <1>0, <2>1, <2>2, OfferedEdge
  <2>3. CASE ~buffervideo
    BY <2>1, <2>3
       DEF ArbiterStep, arbiterVars, Offered, History, HistoryPrefix
  <2>4. QED
    BY <2>2, <2>3
<1>3. CASE FrameBoundary
  <2>1. /\ ArbiterStep(FALSE, TRUE)
        /\ title_start' = title_start
        /\ ~buffervideo \/ cut_frame' = cut_frame
    BY <1>3 DEF FrameBoundary, BoundaryEdge
  <2>2. Offered' \subseteq Offered
    BY <1>0, <2>1, OfferedEdge
  <2>3. QED
    BY <2>1, <2>2, NothingOffered
<1>4. CASE FrameDoneAtBoundary
  <2>1. /\ ArbiterStep(TRUE, TRUE) /\ DrawBottom
        /\ title_start' = title_start
        /\ ~buffervideo \/ cut_frame' = cut_frame
    BY <1>4 DEF FrameDoneAtBoundary, BoundaryEdge
  <2>2. CASE buffervideo
    BY <1>0, <2>1, <2>2, OfferedEdge
  <2>3. CASE ~buffervideo
    <3>1. ArbiterReset \/ UNCHANGED arbiterVars
      BY <2>1, <2>3 DEF ArbiterStep
    <3>2. CASE ArbiterReset
      <4>1. ~pending_valid' /\ history_valid_count' = 0
        BY <3>2, Zenon DEF ArbiterReset
      <4>2. QED
        BY <4>1 DEF Offered, History, HistoryPrefix
    <3>3. CASE UNCHANGED arbiterVars
      <4>1. Offered' = Offered
        BY <3>3 DEF arbiterVars, Offered, History, HistoryPrefix
      <4>2. QED
        BY <4>1, <2>3, NothingOffered
    <3>4. QED
      BY <3>1, <3>2, <3>3
  <2>4. QED
    BY <2>2, <2>3
<1>5. CASE Reset
  <2>1. ~pending_valid' /\ history_valid_count' = 0
    BY <1>5, Zenon DEF Reset, ArbiterReset
  <2>2. QED
    BY <2>1 DEF Offered, History, HistoryPrefix
<1>6. QED
  BY <1>1, <1>2, <1>3, <1>4, <1>5 DEF Next

LEMMA OfferedWholeStep ==
    ASSUME FrameFacts, [Next]_vars PROVE OfferedWhole'
<1> USE DEF FrameFacts
<1>1. SUFFICES ASSUME NEW b \in Offered'
               PROVE  /\ Whole(content'[b], cut_frame')
                      /\ content'[b].top > title_start'
                      /\ content'[b].bottom > title_start'
  BY DEF OfferedWhole, Fresh
<1>2. CASE b \in Offered /\ cut_frame' = cut_frame /\ title_start' = title_start
  <2>1. buffervideo
    BY <1>2, NothingOffered DEF Ownership, TypeOK
  <2>2. content'[b] = content[b]
    BY <1>2, <2>1, OfferedUntouched
  <2>3. QED
    BY <1>2, <2>2 DEF OfferedWhole, Fresh
<1>3. CASE /\ b = write_bank_state /\ buffervideo /\ DrawBottom
           /\ cut_frame' = cut_frame /\ title_start' = title_start
  BY <1>3, CompletedWhole DEF FrameFacts
<1>4. QED
  BY <1>2, <1>3, OfferedInSystem

LEMMA OrderedEdge ==
    ASSUME FrameFacts, [Next]_vars,
           NEW done \in BOOLEAN, NEW boundary \in BOOLEAN,
           ArbiterStep(done, boundary), done => DrawBottom
    PROVE  Ordered'
<1> USE DEF Ordered
<1>0. /\ history_valid_count \in 0 .. 3 /\ pending_valid \in BOOLEAN
      /\ TypeOK /\ Ownership /\ frames \in Nat
      /\ content \in [Banks -> [top : 0 .. MaxFrames, bottom : 0 .. MaxFrames,
                                vertical : BOOLEAN]]
      /\ {write_bank_state, pending_bank, history_newest, history_previous,
          history_oldest} \subseteq Banks
      /\ \A b \in Banks : content[b].bottom \in Nat /\ content[b].bottom <= frames
  BY SettingsAssumption DEF FrameFacts, Ownership, TypeOK, ArbiterTypeOK, Drawn
<1>1. CASE ArbiterReset
  <2>1. ~pending_valid' /\ history_valid_count' = 0
    BY <1>1, Zenon DEF ArbiterReset
  <2>2. QED
    BY <2>1
<1>2. CASE UNCHANGED arbiterVars
  <2>1. CASE buffervideo
    <3>1. /\ history_valid_count >= 1 =>
               content'[history_newest] = content[history_newest]
          /\ history_valid_count >= 2 =>
               content'[history_previous] = content[history_previous]
          /\ history_valid_count >= 3 =>
               content'[history_oldest] = content[history_oldest]
          /\ pending_valid => content'[pending_bank] = content[pending_bank]
      BY <1>0, <2>1, OfferedUntouched DEF Offered, History, HistoryPrefix
    <3>2. QED
      BY <1>0, <1>2, <3>1 DEF arbiterVars, FrameFacts
  <2>2. CASE ~buffervideo
    <3>1. ~pending_valid /\ history_valid_count = 0
      BY <1>0, <2>2, Zenon DEF Ownership, Cleared
    <3>2. QED
      BY <1>2, <3>1 DEF arbiterVars
  <2>3. QED
    BY <2>1, <2>2
<1>3. CASE buffervideo /\ ~ArbiterReset /\ ~(UNCHANGED arbiterVars)
  <2>1. /\ history_valid_count >= 1 =>
             content'[history_newest] = content[history_newest]
        /\ history_valid_count >= 2 =>
             content'[history_previous] = content[history_previous]
        /\ history_valid_count >= 3 =>
             content'[history_oldest] = content[history_oldest]
        /\ pending_valid => content'[pending_bank] = content[pending_bank]
    BY <1>0, <1>3, OfferedUntouched DEF Offered, History, HistoryPrefix
  <2>2. done => content'[write_bank_state].bottom = frames + 1
    BY <1>0, <1>3 DEF DrawBottom, write_bank
  <2>3. CASE done /\ PublishPending
    <3>1. /\ pending_bank' = write_bank_state
          /\ history_newest' = history_newest
          /\ history_previous' = history_previous
          /\ history_oldest' = history_oldest
          /\ history_valid_count' = history_valid_count
      BY <2>3 DEF PublishPending, UnchangedHistory
    <3>2. QED
      BY <1>0, <2>1, <2>2, <2>3, <3>1 DEF FrameFacts
  <2>4. CASE /\ pending_valid
             /\ PushHistory(pending_bank)
             /\ pending_valid' = FALSE
             /\ UNCHANGED << write_bank_state, pending_bank >>
    <3>1. ~pending_valid'
      BY <2>4, Zenon
    <3>2. pending_valid /\ PushHistory(pending_bank)
      BY <2>4
    <3>3. QED
      BY <1>0, <2>1, <3>1, <3>2 DEF PushHistory, FrameFacts
  <2>5. CASE done /\ PromoteWriter
    <3>1. ~pending_valid'
      BY <2>5, Zenon DEF PromoteWriter
    <3>2. done /\ PushHistory(write_bank_state)
      BY <2>5 DEF PromoteWriter
    <3>3. QED
      BY <1>0, <2>1, <2>2, <3>1, <3>2 DEF PushHistory, FrameFacts
  <2>6. QED
    BY <1>0, <1>3, <2>3, <2>4, <2>5, ArbiterCases
<1>4. QED
  BY <1>0, <1>1, <1>2, <1>3, ArbiterCases

LEMMA OrderedStep ==
    ASSUME FrameFacts, [Next]_vars PROVE Ordered'
<1>1. CASE FrameDone
  BY <1>1, OrderedEdge DEF FrameDone
<1>2. CASE FrameBoundary
  BY <1>2, OrderedEdge DEF FrameBoundary, BoundaryEdge
<1>3. CASE FrameDoneAtBoundary
  BY <1>3, OrderedEdge DEF FrameDoneAtBoundary, BoundaryEdge
<1>4. CASE Reset
  <2>1. ~pending_valid' /\ history_valid_count' = 0
    BY <1>4, Zenon DEF Reset, ArbiterReset
  <2>2. QED
    BY <2>1 DEF Ordered
<1>5. CASE DrawTop
  <2>1. /\ UNCHANGED arbiterVars
        /\ content \in [Banks -> [top : 0 .. MaxFrames, bottom : 0 .. MaxFrames,
                                  vertical : BOOLEAN]]
        /\ {pending_bank, history_newest, history_previous, history_oldest}
             \subseteq Banks
    BY <1>5 DEF DrawTop, FrameFacts, Ownership, TypeOK, ArbiterTypeOK
  <2>2. \A b \in Banks : content'[b].bottom = content[b].bottom
    BY <1>5, <2>1 DEF DrawTop
  <2>3. QED
    BY <2>1, <2>2 DEF Ordered, FrameFacts, arbiterVars
<1>6. CASE Rotate \/ SetDisplay \/ SetBuffering \/ UNCHANGED vars
  BY <1>6 DEF Rotate, SetDisplay, SetBuffering, vars, arbiterVars, drawingVars,
              Ordered, FrameFacts
<1>7. QED
  BY <1>1, <1>2, <1>3, <1>4, <1>5, <1>6 DEF Next

LEMMA FrameFactsInit ==
    ASSUME Init PROVE FrameFacts
<1>1. Ownership
  BY OwnershipInit
<1>2. ~pending_valid /\ history_valid_count = 0 /\ ~top_drawn
  BY Zenon DEF Init, ArbiterInit
<1>3. Drawn
  BY DEF Init, Drawn
<1>4. UpperHalf /\ OfferedWhole /\ Ordered
  BY <1>2 DEF UpperHalf, OfferedWhole, Ordered, Offered, History, HistoryPrefix
<1>5. FreshDrawing
  BY <1>2 DEF Init, ArbiterInit, FreshDrawing
<1>6. KeptBuffered
  BY Zenon DEF Init, KeptBuffered
<1>7. QED
  BY <1>1, <1>3, <1>4, <1>5, <1>6 DEF FrameFacts

LEMMA FrameFactsStep ==
    ASSUME FrameFacts, [Next]_vars PROVE FrameFacts'
  BY OwnershipStep, DrawnStep, UpperHalfStep, FreshDrawingStep, KeptBufferedStep,
     OfferedWholeStep, OrderedStep
     DEF FrameFacts

\* Every frame scanout shows is whole, except the one that was cut when
\* buffering was switched on.
THEOREM WholeFramesShown == Spec => []HistoryComplete
<1>1. Init => FrameFacts
  BY FrameFactsInit
<1>2. FrameFacts /\ [Next]_vars => FrameFacts'
  BY FrameFactsStep
<1>3. FrameFacts => HistoryComplete
  BY DEF FrameFacts, OfferedWhole, Whole, HistoryComplete, Offered
<1>4. QED
  BY <1>1, <1>2, <1>3, PTL DEF Spec

\* Scanout never shows an older frame after a newer one.
THEOREM FramesShownInOrder == Spec => []FramesInOrder
<1>1. Init => FrameFacts
  BY FrameFactsInit
<1>2. FrameFacts /\ [Next]_vars => FrameFacts'
  BY FrameFactsStep
<1>3. FrameFacts => FramesInOrder
  BY DEF FrameFacts, Ordered, FramesInOrder
<1>4. QED
  BY <1>1, <1>2, <1>3, PTL DEF Spec

\* After a reset buffering queues no frame of the title before; and none
\* reaches the blend filter when buffering is left on, or in any mode once the
\* new title has completed a frame.
THEOREM TitlesKeptApart == Spec => []OnlyThisTitle
<1>1. Init => FrameFacts
  BY FrameFactsInit
<1>2. FrameFacts /\ [Next]_vars => FrameFacts'
  BY FrameFactsStep
<1>3. FrameFacts => OnlyThisTitle
  <2>1. SUFFICES ASSUME FrameFacts PROVE OnlyThisTitle
    OBVIOUS
  <2>2. \A b \in Offered : Fresh(b)
    BY <2>1 DEF FrameFacts, OfferedWhole
  <2>3. use_buffered_history => BlendSource \subseteq Offered
    BY DEF BlendSource, Offered
  <2>4. ASSUME ~use_buffered_history, kept_buffered PROVE BlendSource = {}
    BY <2>1, <2>4
       DEF BlendSource, direct_or_blank, FrameFacts, KeptBuffered
  <2>5. ~use_buffered_history => BlendSource \subseteq {0}
    BY DEF BlendSource
  <2>6. frames > title_start => Fresh(0)
    BY <2>1 DEF FrameFacts, FreshDrawing
  <2>7. QED
    BY <2>2, <2>3, <2>4, <2>5, <2>6 DEF OnlyThisTitle
<1>4. QED
  BY <1>1, <1>2, <1>3, PTL DEF Spec

---------------------------------------------------------------------------
(* Frames and scaler slots.                                                *)

\* The stored orientation is that of the pixels in the bank.
Labelled == \A b \in Offered : bank_orientation[b] = content[b].vertical

\* A frame that is not blank is shown under the slot commanded for it.
Released ==
    ~frame_blank => host_slot = expected_applied_slot /\ host_slot = presentation_slot

\* Three boundaries carry a setting through: first it reserves the protected
\* candidate's slot, then it is commanded for the newest frame, then applied.
Reserved ==
    buffervideo /\ protect_pending /\ settled >= 1 =>
      command_slot = TargetSlot(bank_orientation[pending_bank])

Commanded ==
    use_buffered_history /\ ~protect_pending /\ settled >= 2 =>
      command_slot = TargetSlot(bank_orientation[history_newest])

Applied ==
    use_buffered_history /\ ~frame_blank /\ settled >= 3 =>
      host_slot = TargetSlot(bank_orientation[history_newest])

SlotFacts ==
    /\ Ownership
    /\ Labelled
    /\ Released
    /\ ProtectedIsPending
    /\ Reserved
    /\ Commanded
    /\ Applied

\* A boundary in buffered mode that stays buffered, seen by arbiter and guard
\* together.
BufferedOutcome(done) ==
    \/ /\ protect_pending /\ pending_valid
       /\ history_newest' = pending_bank
       /\ ~protect_pending' /\ command_slot' = command_slot
       /\ ~pending_valid'
    \/ /\ ~protect_pending
       /\ done \/ pending_valid
       /\ history_newest' = IF done THEN write_bank_state ELSE pending_bank
       /\ TargetSlot(candidate_orientation(done)) = command_slot
       /\ ~protect_pending' /\ command_slot' = command_slot
       /\ ~pending_valid'
    \/ /\ ~protect_pending
       /\ done \/ pending_valid
       /\ UnchangedHistory
       /\ pending_bank' = IF done THEN write_bank_state ELSE pending_bank
       /\ pending_valid'
       /\ command_slot' = TargetSlot(candidate_orientation(done))
       /\ protect_pending'
    \/ /\ ~protect_pending /\ ~pending_valid /\ ~done
       /\ UNCHANGED arbiterVars
       /\ ~protect_pending'
       /\ command_slot' = TargetSlot(presented_orientation)

LEMMA BufferedCases ==
    ASSUME SlotFacts, NEW done \in BOOLEAN, BoundaryEdge(done),
           buffervideo, requested_buffervideo
    PROVE  BufferedOutcome(done)
<1>0. /\ protect_pending \in BOOLEAN /\ pending_valid \in BOOLEAN
      /\ protect_pending => pending_valid
  BY DEF SlotFacts, Ownership, TypeOK, GuardTypeOK, ArbiterTypeOK,
         ProtectedIsPending
<1>1. BufferedBoundary(use_buffered_history, TargetSlot(presented_orientation),
                       candidate_valid(done),
                       TargetSlot(candidate_orientation(done)))
  BY DEF BoundaryEdge, GuardBoundary
<1>2. ArbiterEdge(done, TRUE,
                  /\ TRUE
                  /\ defer_candidate(buffervideo, candidate_valid(done),
                                     TargetSlot(candidate_orientation(done))),
                  protect_pending)
  BY Zenon DEF BoundaryEdge, ArbiterStep
<1>3. CASE protect_pending
  <2>1. candidate_valid(done)
    BY <1>0, <1>3 DEF candidate_valid, pending_valid_out
  <2>2. command_slot' = command_slot /\ protect_pending' = FALSE
    BY <1>1, <1>3, <2>1, Zenon DEF BufferedBoundary
  <2>3. history_newest' = pending_bank /\ pending_valid' = FALSE
    BY <1>0, <1>2, <1>3, Zenon DEF ArbiterEdge, PromotePending, PushHistory
  <2>4. ~protect_pending' /\ ~pending_valid'
    BY <2>2, <2>3, Zenon
  <2>5. QED
    BY <1>0, <1>3, <2>2, <2>3, <2>4, Zenon DEF BufferedOutcome
<1>4. CASE ~protect_pending /\ (done \/ pending_valid)
  <2>1. candidate_valid(done)
    BY <1>4 DEF candidate_valid, pending_valid_out
  <2>2. CASE TargetSlot(candidate_orientation(done)) = command_slot
    <3>1. ~defer_candidate(buffervideo, candidate_valid(done),
                           TargetSlot(candidate_orientation(done)))
      BY <2>2 DEF defer_candidate
    <3>2. history_newest' = IF done THEN write_bank_state ELSE pending_bank
      BY <1>2, <1>4, <3>1 DEF ArbiterEdge, PromotePending, PromoteWriter, PushHistory
    <3>3. pending_valid' = FALSE
      BY <1>2, <1>4, <3>1, Zenon
         DEF ArbiterEdge, PromotePending, PromoteWriter, PushHistory
    <3>4. command_slot' = command_slot /\ protect_pending' = protect_pending
      BY <1>1, <1>4, <2>1, <2>2 DEF BufferedBoundary
    <3>5. ~protect_pending' /\ ~pending_valid'
      BY <1>4, <3>3, <3>4, Zenon
    <3>6. QED
      BY <1>4, <2>2, <3>2, <3>4, <3>5, Zenon DEF BufferedOutcome
  <2>3. CASE TargetSlot(candidate_orientation(done)) # command_slot
    <3>1. defer_candidate(buffervideo, candidate_valid(done),
                          TargetSlot(candidate_orientation(done)))
      BY <1>4, <2>1, <2>3 DEF defer_candidate
    <3>2. /\ UnchangedHistory
          /\ pending_bank' = IF done THEN write_bank_state ELSE pending_bank
      BY <1>2, <1>4, <3>1
         DEF ArbiterEdge, PublishPending, UnchangedHistory, arbiterVars
    <3>3. pending_valid'
      BY <1>2, <1>4, <3>1, Zenon DEF ArbiterEdge, PublishPending, arbiterVars
    <3>4. command_slot' = TargetSlot(candidate_orientation(done))
      BY <1>1, <1>4, <2>1, <2>3 DEF BufferedBoundary
    <3>5. protect_pending'
      BY <1>1, <1>4, <2>1, <2>3, Zenon DEF BufferedBoundary
    <3>6. QED
      BY <1>4, <3>2, <3>3, <3>4, <3>5, Zenon DEF BufferedOutcome
  <2>4. QED
    BY <2>2, <2>3
<1>5. CASE ~protect_pending /\ ~pending_valid /\ ~done
  <2>1. ~candidate_valid(done)
    BY <1>5 DEF candidate_valid, pending_valid_out
  <2>2. /\ command_slot' = TargetSlot(presented_orientation)
        /\ protect_pending' = protect_pending
    BY <1>1, <1>5, <2>1 DEF BufferedBoundary
  <2>3. UNCHANGED arbiterVars
    BY <1>2, <1>5, <2>1 DEF ArbiterEdge, PromotePending, defer_candidate
  <2>4. QED
    BY <1>5, <2>2, <2>3, Zenon DEF BufferedOutcome
<1>6. QED
  BY <1>0, <1>3, <1>4, <1>5

\* A boundary leaves the settings alone, so a slot means the same after it.
LEMMA BoundaryKeepsTargets ==
    ASSUME NEW done \in BOOLEAN, BoundaryEdge(done)
    PROVE  /\ configured_orientation' = configured_orientation
           /\ landscape_180' = landscape_180
  BY DEF BoundaryEdge, settingVars

LEMMA ReleasedStep ==
    ASSUME SlotFacts, [Next]_vars PROVE Released'
<1> USE DEF Released
<1>1. ASSUME NEW done \in BOOLEAN, BoundaryEdge(done) PROVE Released'
  <2>1. host_slot' = command_slot /\ expected_applied_slot' = command_slot
    BY <1>1 DEF BoundaryEdge, GuardBoundary
  <2>2. presentation_slot' = command_slot \/ frame_blank' = TRUE
    BY <1>1, Zenon
       DEF BoundaryEdge, GuardBoundary, BufferedBoundary, DirectBoundary,
           Present, Blank, RepeatHistory
  <2>3. QED
    BY <2>1, <2>2
<1>2. CASE FrameBoundary \/ FrameDoneAtBoundary
  BY <1>1, <1>2 DEF FrameBoundary, FrameDoneAtBoundary
<1>3. CASE Reset
  <2>1. frame_blank' = TRUE
    BY <1>3 DEF Reset, GuardReset
  <2>2. QED
    BY <2>1
<1>4. CASE DrawTop \/ FrameDone \/ Rotate \/ SetDisplay \/ SetBuffering
             \/ UNCHANGED vars
  <2>1. UNCHANGED << guardVars, host_slot >>
    BY <1>4 DEF DrawTop, FrameDone, Rotate, SetDisplay, SetBuffering, vars
  <2>2. QED
    BY <2>1 DEF SlotFacts, guardVars
<1>5. QED
  BY <1>2, <1>3, <1>4 DEF Next

\* The orientation is stored on the same edge as the last pixel.
LEMMA LabelledStep ==
    ASSUME SlotFacts, [Next]_vars PROVE Labelled'
<1>0. /\ Ownership
      /\ write_bank \in Banks
      /\ bank_orientation \in [Banks -> BOOLEAN]
      /\ content \in [Banks -> [top : 0 .. MaxFrames, bottom : 0 .. MaxFrames,
                                vertical : BOOLEAN]]
  BY WriteBankTyped DEF SlotFacts, Ownership, TypeOK
<1>1. SUFFICES ASSUME NEW b \in Offered'
               PROVE  bank_orientation'[b] = content'[b].vertical
  BY DEF Labelled
<1>2. ASSUME NEW boundary \in BOOLEAN, DrawBottom, OrientationEdge(TRUE, boundary),
             buffervideo, b \in Offered \union {write_bank_state}
      PROVE  bank_orientation'[b] = content'[b].vertical
  <2>1. write_bank = write_bank_state /\ b \in Banks
    BY <1>2 DEF write_bank, SlotFacts, Ownership, TypeOK, ArbiterTypeOK, Offered,
                History, HistoryPrefix
  <2>2. /\ bank_orientation' = [bank_orientation EXCEPT ![write_bank] = vertical]
        /\ content' = [content EXCEPT ![write_bank].bottom = frames + 1,
                                      ![write_bank].vertical = vertical]
    BY <1>2 DEF DrawBottom, OrientationEdge
  <2>3. b # write_bank_state => bank_orientation[b] = content[b].vertical
    BY <1>2 DEF SlotFacts, Labelled
  <2>4. QED
    BY <1>0, <2>1, <2>2, <2>3
<1>3. CASE FrameDone
  <2>1. /\ DrawBottom /\ OrientationEdge(TRUE, FALSE)
        /\ ArbiterStep(TRUE, FALSE)
    BY <1>3 DEF FrameDone
  <2>2. CASE buffervideo
    BY <1>0, <1>2, <2>1, <2>2, OfferedEdge DEF Ownership
  <2>3. CASE ~buffervideo
    <3>1. Offered' = Offered
      BY <2>1, <2>3 DEF ArbiterStep, arbiterVars, Offered, History, HistoryPrefix
    <3>2. QED
      BY <1>0, <1>1, <2>3, <3>1, NothingOffered
  <2>4. QED
    BY <2>2, <2>3
<1>4. CASE FrameDoneAtBoundary
  <2>1. /\ DrawBottom /\ OrientationEdge(TRUE, TRUE)
        /\ ArbiterStep(TRUE, TRUE)
    BY <1>4 DEF FrameDoneAtBoundary, BoundaryEdge
  <2>2. CASE buffervideo
    BY <1>0, <1>2, <2>1, <2>2, OfferedEdge DEF Ownership
  <2>3. CASE ~buffervideo
    <3>1. Offered' = {}
      <4>1. ArbiterReset \/ UNCHANGED arbiterVars
        BY <2>1, <2>3 DEF ArbiterStep
      <4>2. ~pending_valid /\ history_valid_count = 0
        BY <1>0, <2>3, Zenon DEF Ownership, Cleared
      <4>3. ~pending_valid' /\ history_valid_count' = 0
        <5>1. CASE ArbiterReset
          BY <5>1, Zenon DEF ArbiterReset
        <5>2. CASE UNCHANGED arbiterVars
          BY <4>2, <5>2 DEF arbiterVars
        <5>3. QED
          BY <4>1, <5>1, <5>2
      <4>4. QED
        BY <4>3 DEF Offered, History, HistoryPrefix
    <3>2. QED
      BY <1>1, <3>1
  <2>4. QED
    BY <2>2, <2>3
<1>5. CASE FrameBoundary
  <2>1. /\ bank_orientation' = bank_orientation /\ content' = content
        /\ ArbiterStep(FALSE, TRUE)
    BY <1>5 DEF FrameBoundary, BoundaryEdge, OrientationEdge, drawingVars
  <2>2. b \in Offered
    BY <1>0, <1>1, <2>1, OfferedEdge DEF Ownership
  <2>3. QED
    BY <2>1, <2>2 DEF SlotFacts, Labelled
<1>6. CASE Reset
  <2>1. ~pending_valid' /\ history_valid_count' = 0
    BY <1>6, Zenon DEF Reset, ArbiterReset
  <2>2. Offered' = {}
    BY <2>1 DEF Offered, History, HistoryPrefix
  <2>3. QED
    BY <1>1, <2>2
<1>7. CASE DrawTop
  <2>1. /\ Offered' = Offered /\ bank_orientation' = bank_orientation
        /\ content' = [content EXCEPT ![write_bank].top = frames + 1]
    BY <1>7 DEF DrawTop, arbiterVars, Offered, History, HistoryPrefix
  <2>2. b \in Banks
    BY <1>1, <2>1 DEF SlotFacts, Ownership, TypeOK, ArbiterTypeOK, Offered,
                      History, HistoryPrefix
  <2>3. QED
    BY <1>0, <1>1, <2>1, <2>2 DEF SlotFacts, Labelled
<1>8. CASE Rotate \/ SetDisplay \/ SetBuffering \/ UNCHANGED vars
  <2>1. /\ Offered' = Offered /\ bank_orientation' = bank_orientation
        /\ content' = content
    BY <1>8 DEF Rotate, SetDisplay, SetBuffering, vars, drawingVars, arbiterVars,
                Offered, History, HistoryPrefix
  <2>2. QED
    BY <1>1, <2>1 DEF SlotFacts, Labelled
<1>9. QED
  BY <1>3, <1>4, <1>5, <1>6, <1>7, <1>8 DEF Next

\* The guard's promise that a protected frame is still pending, and the three
\* stages of a slot, at a boundary in buffered mode that stays buffered.
LEMMA SlotsAtBufferedBoundary ==
    ASSUME SlotFacts, NEW done \in BOOLEAN, BoundaryEdge(done),
           buffervideo, requested_buffervideo
    PROVE  ProtectedIsPending' /\ Reserved' /\ Commanded' /\ Applied'
<1>0. /\ settled \in 0 .. 3 /\ protect_pending \in BOOLEAN
      /\ bank_orientation \in [Banks -> BOOLEAN]
      /\ {write_bank_state, pending_bank, history_newest} \subseteq Banks
      /\ history_valid_count \in 0 .. 3 /\ pending_valid \in BOOLEAN
      /\ Distinct
  BY DEF SlotFacts, Ownership, TypeOK, GuardTypeOK, ArbiterTypeOK
<1>1. /\ buffervideo' /\ host_slot' = command_slot
      /\ settled' = IF settled < 3 THEN settled + 1 ELSE 3
      /\ bank_orientation' =
           IF done THEN [bank_orientation EXCEPT ![write_bank_state] = vertical]
           ELSE bank_orientation
  BY DEF BoundaryEdge, ApplySettings, OrientationEdge, write_bank
<1>2. /\ pending_valid => bank_orientation'[pending_bank] = bank_orientation[pending_bank]
      /\ history_valid_count >= 1 =>
           bank_orientation'[history_newest] = bank_orientation[history_newest]
      /\ done => bank_orientation'[write_bank_state] = vertical
  BY <1>0, <1>1 DEF Distinct, History, HistoryPrefix
<1>3. /\ configured_orientation' = configured_orientation
      /\ landscape_180' = landscape_180
  BY BoundaryKeepsTargets
<1> USE DEF TargetSlot
<1>4. CASE /\ protect_pending /\ pending_valid
           /\ history_newest' = pending_bank
           /\ ~protect_pending' /\ command_slot' = command_slot
  <2>1. settled >= 1 => command_slot = TargetSlot(bank_orientation[pending_bank])
    BY <1>4 DEF SlotFacts, Reserved
  <2>2. QED
    BY <1>0, <1>1, <1>2, <1>3, <1>4, <2>1
       DEF ProtectedIsPending, Reserved, Commanded, Applied
<1>5. CASE /\ ~protect_pending
           /\ done \/ pending_valid
           /\ history_newest' = IF done THEN write_bank_state ELSE pending_bank
           /\ TargetSlot(candidate_orientation(done)) = command_slot
           /\ ~protect_pending' /\ command_slot' = command_slot
  <2>1. candidate_orientation(done) = bank_orientation'[history_newest']
    BY <1>0, <1>2, <1>5 DEF candidate_orientation
  <2>2. QED
    BY <1>0, <1>1, <1>3, <1>5, <2>1
       DEF ProtectedIsPending, Reserved, Commanded, Applied
<1>6. CASE /\ ~protect_pending
           /\ done \/ pending_valid
           /\ UnchangedHistory
           /\ pending_bank' = IF done THEN write_bank_state ELSE pending_bank
           /\ pending_valid'
           /\ command_slot' = TargetSlot(candidate_orientation(done))
           /\ protect_pending'
  <2>1. candidate_orientation(done) = bank_orientation'[pending_bank']
    BY <1>0, <1>2, <1>6 DEF candidate_orientation
  <2>2. ProtectedIsPending' /\ Reserved' /\ Commanded'
    BY <1>0, <1>3, <1>6, <2>1 DEF ProtectedIsPending, Reserved, Commanded
  <2>3. Applied'
    <3>1. use_buffered_history' => use_buffered_history /\ history_valid_count >= 1
      BY <1>0, <1>6 DEF use_buffered_history, UnchangedHistory
    <3>2. history_newest' = history_newest
      BY <1>6 DEF UnchangedHistory
    <3>3. use_buffered_history /\ settled >= 2 =>
            command_slot = TargetSlot(bank_orientation[history_newest])
      BY <1>6 DEF SlotFacts, Commanded
    <3>4. QED
      BY <1>0, <1>1, <1>2, <1>3, <3>1, <3>2, <3>3 DEF Applied
  <2>4. QED
    BY <2>2, <2>3
<1>7. CASE /\ ~protect_pending /\ ~pending_valid /\ ~done
           /\ UNCHANGED arbiterVars
           /\ ~protect_pending'
           /\ command_slot' = TargetSlot(presented_orientation)
  <2>1. /\ use_buffered_history' => use_buffered_history /\ history_valid_count >= 1
        /\ history_newest' = history_newest
    BY <1>0, <1>7 DEF use_buffered_history, arbiterVars
  <2>2. use_buffered_history /\ settled >= 2 =>
          command_slot = TargetSlot(bank_orientation[history_newest])
    BY <1>7 DEF SlotFacts, Commanded
  <2>3. use_buffered_history =>
          command_slot' = TargetSlot(bank_orientation[history_newest])
    BY <1>7 DEF presented_orientation
  <2>4. QED
    BY <1>0, <1>1, <1>2, <1>3, <1>7, <2>1, <2>2, <2>3
       DEF ProtectedIsPending, Reserved, Commanded, Applied
<1>8. QED
  <2>1. BufferedOutcome(done)
    BY BufferedCases
  <2>2. QED
    BY <1>4, <1>5, <1>6, <1>7, <2>1 DEF BufferedOutcome

\* The same at any other step: nothing is shown from the history any more, or
\* the slots and the frames they belong to stay as they are.
LEMMA SlotsElsewhere ==
    ASSUME SlotFacts, [Next]_vars,
           ~ \E done \in BOOLEAN : /\ BoundaryEdge(done)
                                   /\ buffervideo /\ requested_buffervideo
    PROVE  ProtectedIsPending' /\ Reserved' /\ Commanded' /\ Applied'
<1> USE DEF ProtectedIsPending, Reserved, Commanded, Applied,
            use_buffered_history
<1>0. /\ Ownership /\ Distinct /\ Cleared
      /\ protect_pending \in BOOLEAN /\ pending_valid \in BOOLEAN
      /\ buffervideo \in BOOLEAN /\ requested_buffervideo \in BOOLEAN
      /\ history_valid_count \in 0 .. 3 /\ settled \in 0 .. 3
      /\ bank_orientation \in [Banks -> BOOLEAN]
      /\ {write_bank_state, pending_bank, history_newest} \subseteq Banks
      /\ ProtectedIsPending /\ Reserved /\ Commanded /\ Applied
  BY DEF SlotFacts, Ownership, TypeOK, GuardTypeOK, ArbiterTypeOK
<1>1. ASSUME NEW done \in BOOLEAN, BoundaryEdge(done)
      PROVE  ProtectedIsPending' /\ Reserved' /\ Commanded' /\ Applied'
  <2>1. buffervideo' = requested_buffervideo
    BY <1>1 DEF BoundaryEdge, ApplySettings
  <2>2. CASE ~requested_buffervideo
    BY <2>1, <2>2
  <2>3. CASE ~buffervideo /\ requested_buffervideo
    <3>1. protect_pending' = FALSE
      BY <1>1, <2>3, Zenon DEF BoundaryEdge, GuardBoundary, DirectBoundary
    <3>2. history_valid_count' = history_valid_count
      BY <1>1, <2>3 DEF BoundaryEdge, ArbiterStep, arbiterVars
    <3>3. history_valid_count = 0
      BY <1>0, <2>3, Zenon DEF Cleared
    <3>4. ~protect_pending'
      BY <3>1, Zenon
    <3>5. QED
      BY <3>2, <3>3, <3>4
  <2>4. QED
    BY <1>0, <1>1, <2>2, <2>3
<1>2. CASE FrameBoundary \/ FrameDoneAtBoundary
  BY <1>1, <1>2 DEF FrameBoundary, FrameDoneAtBoundary
<1>3. CASE Reset
  <2>1. /\ ~protect_pending'
        /\ history_valid_count' = 0
    BY <1>3, Zenon DEF Reset, ArbiterReset, GuardReset
  <2>2. QED
    BY <2>1
<1>4. CASE FrameDone
  <2>1. /\ UNCHANGED << protect_pending, command_slot, frame_blank, host_slot,
                        buffervideo, settled, configured_orientation,
                        landscape_180 >>
        /\ bank_orientation' = [bank_orientation EXCEPT ![write_bank] = vertical]
        /\ ArbiterStep(TRUE, FALSE)
    BY <1>4 DEF FrameDone, guardVars, appliedVars, settingVars, OrientationEdge
  <2>2. CASE ~buffervideo
    BY <2>1, <2>2
  <2>3. CASE buffervideo
    <3>1. /\ history_newest' = history_newest
          /\ history_valid_count' = history_valid_count
      BY <2>1, <2>3 DEF ArbiterStep, ArbiterEdge, PublishPending,
                        UnchangedHistory, arbiterVars
    <3>2. protect_pending => pending_bank' = pending_bank /\ pending_valid' = pending_valid
      BY <2>1, <2>3 DEF ArbiterStep, ArbiterEdge, arbiterVars
    <3>3. /\ pending_valid =>
               bank_orientation'[pending_bank] = bank_orientation[pending_bank]
          /\ history_valid_count >= 1 =>
               bank_orientation'[history_newest] = bank_orientation[history_newest]
      BY <1>0, <2>1, <2>3 DEF Distinct, History, HistoryPrefix, write_bank
    <3>4. QED
      BY <1>0, <2>1, <2>3, <3>1, <3>2, <3>3 DEF TargetSlot
  <2>4. QED
    BY <2>2, <2>3
<1>5. CASE SetDisplay
  <2>1. /\ UNCHANGED << protect_pending, pending_valid, buffervideo >>
        /\ settled' = 0
    BY <1>5 DEF SetDisplay, guardVars, arbiterVars, appliedVars
  <2>2. QED
    BY <1>0, <2>1
<1>6. CASE DrawTop \/ Rotate \/ SetBuffering \/ UNCHANGED vars
  <2>1. UNCHANGED << arbiterVars, guardVars, bank_orientation, buffervideo,
                     configured_orientation, landscape_180, host_slot, settled >>
    BY <1>6 DEF DrawTop, Rotate, SetBuffering, vars, appliedVars, settingVars
  <2>2. QED
    BY <1>0, <2>1 DEF arbiterVars, guardVars, TargetSlot
<1>7. QED
  BY <1>2, <1>3, <1>4, <1>5, <1>6 DEF Next

LEMMA SlotFactsInit ==
    ASSUME Init PROVE SlotFacts
<1>1. /\ ~pending_valid /\ history_valid_count = 0 /\ ~protect_pending
      /\ frame_blank = TRUE
  BY Zenon DEF Init, ArbiterInit, GuardInit
<1>2. QED
  BY <1>1, OwnershipInit
     DEF SlotFacts, Labelled, Released, ProtectedIsPending, Reserved, Commanded,
         Applied, use_buffered_history, Offered, History, HistoryPrefix

LEMMA SlotFactsStep ==
    ASSUME SlotFacts, [Next]_vars PROVE SlotFacts'
<1>1. Ownership' /\ Labelled' /\ Released'
  BY OwnershipStep, LabelledStep, ReleasedStep DEF SlotFacts
<1>2. ProtectedIsPending' /\ Reserved' /\ Commanded' /\ Applied'
  BY SlotsAtBufferedBoundary, SlotsElsewhere
<1>3. QED
  BY <1>1, <1>2 DEF SlotFacts

\* The guard's fail-closed branch for a lost candidate can never be taken.
THEOREM ProtectionHolds == Spec => []ProtectedIsPending
<1>1. Init => SlotFacts
  BY SlotFactsInit
<1>2. SlotFacts /\ [Next]_vars => SlotFacts'
  BY SlotFactsStep
<1>3. SlotFacts => ProtectedIsPending
  BY DEF SlotFacts
<1>4. QED
  BY <1>1, <1>2, <1>3, PTL DEF Spec

\* A frame and the scaler slot it is shown under belong together, for any
\* number of banks, any settings and any interleaving.
THEOREM SlotsMatchFrames == Spec => []SlotMatchesFrame
<1>1. Init => SlotFacts
  BY SlotFactsInit
<1>2. SlotFacts /\ [Next]_vars => SlotFacts'
  BY SlotFactsStep
<1>3. SlotFacts => SlotMatchesFrame
  <2>1. SUFFICES ASSUME SlotFacts, use_buffered_history, ~Blanked, settled = 3
                 PROVE  host_slot = TargetSlot(content[history_newest].vertical)
    BY DEF SlotMatchesFrame
  <2>2. history_newest \in Offered /\ ~frame_blank
    BY <2>1 DEF Offered, History, HistoryPrefix, use_buffered_history, Blanked,
                blank_presentation, SlotFacts, Ownership, TypeOK, ArbiterTypeOK
  <2>3. QED
    BY <2>1, <2>2 DEF SlotFacts, Labelled, Applied
<1>4. QED
  BY <1>1, <1>2, <1>3, PTL DEF Spec

\* The host, the guard and the released pixels agree on every visible frame.
THEOREM HostAgrees == Spec => []HostFollowsGuard
<1>1. Init => SlotFacts
  BY SlotFactsInit
<1>2. SlotFacts /\ [Next]_vars => SlotFacts'
  BY SlotFactsStep
<1>3. SlotFacts => HostFollowsGuard
  BY DEF SlotFacts, Released, HostFollowsGuard, Blanked, blank_presentation
<1>4. QED
  BY <1>1, <1>2, <1>3, PTL DEF Spec

\* Direct pixels are seen under the slot of the console's live orientation or
\* not at all: the released slot is the host's, and the guard blacks the frame
\* out on the instant the two part.
THEOREM DirectIsOriented == Spec => []DirectNeverMisoriented
<1>1. Init => SlotFacts
  BY SlotFactsInit
<1>2. SlotFacts /\ [Next]_vars => SlotFacts'
  BY SlotFactsStep
<1>3. SlotFacts => DirectNeverMisoriented
  <2>1. SUFFICES ASSUME SlotFacts, ~use_buffered_history, ~Blanked
                 PROVE  host_slot = TargetSlot(vertical)
    BY DEF DirectNeverMisoriented
  <2>2. ~frame_blank /\ TargetSlot(vertical) = expected_applied_slot
    BY <2>1 DEF Blanked, blank_presentation
  <2>3. QED
    BY <2>1, <2>2 DEF SlotFacts, Released
<1>4. QED
  BY <1>1, <1>2, <1>3, PTL DEF Spec

---------------------------------------------------------------------------
\* The invariant of the shared handshake

Bit == {0, 1}

HandshakeTypes ==
    /\ reset_sync \in [{Source} \union Destinations -> 0 .. 2]
    /\ hold \in Payloads
    /\ request_toggle \in Bit
    /\ acknowledge_meta \in [Destinations -> Bit]
    /\ acknowledge_sync \in [Destinations -> Bit]
    /\ request_meta \in [Destinations -> Bit]
    /\ request_sync \in [Destinations -> Bit]
    /\ request_seen \in [Destinations -> Bit]
    /\ acknowledge_toggle \in [Destinations -> Bit]
    /\ payload \in [Destinations -> Payloads]

\* The request goes round source, synchroniser, destination, synchroniser and
\* back; it has got so far and no further, so what follows a register that
\* still holds the old toggle holds it too.
Wave(d) ==
    /\ request_meta[d] # request_toggle => request_sync[d] = request_meta[d]
    /\ request_sync[d] # request_toggle => request_seen[d] = request_sync[d]
    /\ acknowledge_toggle[d] = request_seen[d]
    /\ acknowledge_toggle[d] # request_toggle => acknowledge_meta[d] = acknowledge_toggle[d]
    /\ acknowledge_meta[d] # request_toggle => acknowledge_sync[d] = acknowledge_meta[d]

Handshake == HandshakeTypes /\ \A d \in Destinations : Wave(d)

---------------------------------------------------------------------------
\* What one instant does to the handshake

\* A capture finds the request under way, so the source is waiting for it.
LEMMA CaptureWhileBusy ==
    ASSUME Handshake, NEW d \in Destinations, request_arrived(d)
    PROVE  /\ request_sync[d] = request_toggle
           /\ acknowledge_toggle[d] # request_toggle
           /\ transfer_busy
  BY DEF Handshake, HandshakeTypes, Wave, request_arrived, transfer_busy, Bit

\* An idle channel has come to rest at the source's toggle.
LEMMA AtRest ==
    ASSUME Handshake, ~transfer_busy, NEW d \in Destinations
    PROVE  /\ acknowledge_sync[d] = request_toggle /\ acknowledge_meta[d] = request_toggle
           /\ acknowledge_toggle[d] = request_toggle /\ request_seen[d] = request_toggle
           /\ request_sync[d] = request_toggle /\ request_meta[d] = request_toggle
  BY DEF Handshake, HandshakeTypes, Wave, transfer_busy, Bit

LEMMA InitHandshake == CdcInit => Handshake /\ Box!Init
  <1> SUFFICES ASSUME CdcInit PROVE Handshake /\ Box!Init
    OBVIOUS
  <1>1. Handshake
    BY CdcAssumption DEF CdcInit, Handshake, HandshakeTypes, Wave, Bit
  <1>2. Box!Init
    BY DEF CdcInit, Box!Init
  <1> QED BY <1>1, <1>2

LEMMA ResetHandshake == Handshake /\ CdcReset => Handshake' /\ Box!Discard
  <1> SUFFICES ASSUME Handshake, CdcReset PROVE Handshake' /\ Box!Discard
    OBVIOUS
  <1>1. Domains = {Source} \union Destinations
    BY DEF Handshake, HandshakeTypes, Domains
  <1>2. Handshake'
    BY <1>1, CdcAssumption DEF CdcReset, Handshake, HandshakeTypes, Wave, Bit
  <1>3. Box!Discard
    BY DEF CdcReset, Box!Discard
  <1> QED BY <1>2, <1>3

\* The clocks in ticks have an edge; the source sends only when idle.
LEMMA EdgesHandshake ==
    ASSUME Handshake, NEW ticks \in SUBSET Domains, NEW send \in BOOLEAN, NEW v,
           send => ~transfer_busy /\ v \in Payloads,
           ClockEdges(ticks, send, v)
    PROVE  LET sends == send /\ Source \in Active(ticks)
               captures == {d \in Active(ticks) \ {Source} : request_arrived(d)}
           IN  /\ Handshake'
               /\ sends => Box!Post(v)
               /\ ~sends => Box!Read(captures) /\ captures \subseteq
                              {d \in Destinations : request_toggle # acknowledge_toggle[d]}
  <1> DEFINE sends == send /\ Source \in Active(ticks)
             ticking == Active(ticks) \ {Source}
             captures == {d \in ticking : request_arrived(d)}
             toggle_after == IF sends THEN 1 - request_toggle ELSE request_toggle
             hold_after == IF sends THEN v ELSE hold
  <1>1. /\ Domains = {Source} \union Destinations
        /\ ticking \subseteq Destinations /\ Source \notin ticking
    BY CdcAssumption DEF Handshake, HandshakeTypes, Domains, Active
  <1>2. /\ DestinationEdges(ticks, toggle_after, hold_after)
        /\ SourceEdge(ticks, send, v)
        /\ reset_sync' = [c \in Domains |->
             IF c \in ticks /\ reset_sync[c] < 2 THEN reset_sync[c] + 1 ELSE reset_sync[c]]
    BY DEF ClockEdges
  <1>3. /\ request_meta' \in [Destinations -> Bit]
        /\ \A d \in Destinations :
             request_meta'[d] \in IF d \in ticking THEN {request_toggle, toggle_after}
                                  ELSE {request_meta[d]}
        /\ request_sync' = [d \in Destinations |->
             IF d \in ticking THEN request_meta[d] ELSE request_sync[d]]
        /\ request_seen' = [d \in Destinations |->
             IF d \in captures THEN request_sync[d] ELSE request_seen[d]]
        /\ acknowledge_toggle' = [d \in Destinations |->
             IF d \in captures THEN request_sync[d] ELSE acknowledge_toggle[d]]
        /\ payload' = [d \in Destinations |->
             IF d \notin captures THEN payload[d]
             ELSE IF hold_after = hold THEN hold ELSE Torn]
    BY <1>2 DEF DestinationEdges, Bit
  <1>4. request_toggle' = toggle_after /\ hold' = hold_after
    BY <1>2 DEF SourceEdge, sourceVars
  <1>5. /\ acknowledge_meta' \in [Destinations -> Bit]
        /\ acknowledge_sync' \in [Destinations -> Bit]
        /\ \/ UNCHANGED <<acknowledge_meta, acknowledge_sync>>
           \/ /\ acknowledge_sync' = acknowledge_meta
              /\ \A d \in Destinations : 
                   acknowledge_meta'[d] \in {acknowledge_toggle[d], acknowledge_toggle'[d]}
    BY <1>2 DEF SourceEdge, sourceVars, Handshake, HandshakeTypes, Bit
  <1> HIDE DEF ticking, captures, sends, toggle_after, hold_after
  <1>6. captures \subseteq ticking
    BY DEF captures
  <1>7. \A d \in captures : /\ request_sync[d] = request_toggle
                            /\ acknowledge_toggle[d] # request_toggle
                            /\ transfer_busy
    BY <1>1, <1>6, CaptureWhileBusy DEF captures
  <1>8. sends => captures = {} /\ ~transfer_busy /\ v \in Payloads
    BY <1>7 DEF sends
  <1>9. toggle_after \in Bit /\ (toggle_after # request_toggle => sends) /\ hold_after \in Payloads
    BY <1>8 DEF toggle_after, hold_after, Handshake, HandshakeTypes, Bit
  <1>10. captures # {} => hold_after = hold /\ toggle_after = request_toggle
    BY <1>8 DEF toggle_after, hold_after
  <1>11. HandshakeTypes'
    <2>1. reset_sync' \in [{Source} \union Destinations -> 0 .. 2]
      BY <1>1, <1>2 DEF Handshake, HandshakeTypes
    <2>2. payload' \in [Destinations -> Payloads]
      BY <1>3, <1>10 DEF Handshake, HandshakeTypes
    <2>3. /\ request_sync' \in [Destinations -> Bit] /\ request_seen' \in [Destinations -> Bit]
          /\ acknowledge_toggle' \in [Destinations -> Bit]
      BY <1>3 DEF Handshake, HandshakeTypes
    <2> QED BY <1>3, <1>4, <1>5, <1>9, <2>1, <2>2, <2>3 DEF HandshakeTypes
  <1>12. ASSUME NEW d \in Destinations PROVE Wave(d)'
    <2>1. /\ request_meta[d] \in Bit /\ request_sync[d] \in Bit /\ request_seen[d] \in Bit
          /\ acknowledge_toggle[d] \in Bit /\ acknowledge_meta[d] \in Bit
          /\ acknowledge_sync[d] \in Bit /\ request_toggle \in Bit /\ Wave(d)
      BY DEF Handshake, HandshakeTypes
    <2>2. CASE sends
      <3>1. /\ acknowledge_sync[d] = request_toggle /\ acknowledge_meta[d] = request_toggle
            /\ acknowledge_toggle[d] = request_toggle /\ request_seen[d] = request_toggle
            /\ request_sync[d] = request_toggle /\ request_meta[d] = request_toggle
        BY <1>8, <2>2, AtRest
      <3>2. /\ request_sync'[d] = request_toggle /\ request_seen'[d] = request_toggle
            /\ acknowledge_toggle'[d] = request_toggle
        BY <1>3, <1>8, <2>2, <3>1
      <3>3. acknowledge_meta'[d] = request_toggle /\ acknowledge_sync'[d] = request_toggle
        BY <1>5, <3>1, <3>2
      <3>4. request_meta'[d] \in {request_toggle, request_toggle'}
        BY <1>3, <1>4, <3>1
      <3> QED BY <3>2, <3>3, <3>4 DEF Wave
    <2>3. CASE ~sends
      <3>1. request_toggle' = request_toggle
        BY <1>4, <1>9, <2>3
      <3>2. CASE d \in captures
        <4>1. /\ request_sync[d] = request_toggle /\ acknowledge_toggle[d] # request_toggle
              /\ d \in ticking
          BY <1>6, <1>7, <3>2
        <4>2. /\ request_meta[d] = request_toggle
              /\ acknowledge_meta[d] = acknowledge_toggle[d]
              /\ acknowledge_sync[d] = acknowledge_toggle[d]
          BY <2>1, <4>1 DEF Wave, Bit
        <4>3. /\ request_meta'[d] = request_toggle /\ request_sync'[d] = request_toggle
              /\ request_seen'[d] = request_toggle /\ acknowledge_toggle'[d] = request_toggle
          BY <1>3, <1>4, <3>1, <3>2, <4>1, <4>2
        <4>4. acknowledge_sync'[d] = acknowledge_toggle[d]
          BY <1>5, <4>2
        <4>5. acknowledge_meta'[d] \in {acknowledge_toggle[d], request_toggle}
          BY <1>5, <4>2, <4>3
        <4> QED BY <2>1, <3>1, <4>1, <4>3, <4>4, <4>5 DEF Wave, Bit
      <3>3. CASE d \notin captures
        <4>1. /\ request_seen'[d] = request_seen[d]
              /\ acknowledge_toggle'[d] = acknowledge_toggle[d]
          BY <1>3, <3>3
        <4>2. \/ acknowledge_meta'[d] = acknowledge_meta[d] /\ acknowledge_sync'[d] = acknowledge_sync[d]
              \/ acknowledge_meta'[d] = acknowledge_toggle[d] /\ acknowledge_sync'[d] = acknowledge_meta[d]
          BY <1>5, <4>1
        <4>3. CASE d \in ticking
          <5>1. /\ request_meta'[d] = request_toggle /\ request_sync'[d] = request_meta[d]
                /\ request_sync[d] = request_seen[d]
            BY <1>3, <1>4, <3>1, <3>3, <4>3 DEF captures, request_arrived
          <5> QED BY <2>1, <3>1, <4>1, <4>2, <5>1 DEF Wave, Bit
        <4>4. CASE d \notin ticking
          <5>1. request_meta'[d] = request_meta[d] /\ request_sync'[d] = request_sync[d]
            BY <1>3, <4>4
          <5> QED BY <2>1, <3>1, <4>1, <4>2, <5>1 DEF Wave, Bit
        <4> QED BY <4>3, <4>4
      <3> QED BY <3>2, <3>3
    <2> QED BY <2>2, <2>3
  <1>13. ASSUME sends PROVE Box!Post(v)
    <2>1. \A d \in Destinations : /\ acknowledge_toggle[d] = request_toggle
                                  /\ acknowledge_toggle'[d] = request_toggle
      BY <1>3, <1>8, <1>13, AtRest
    <2>2. request_toggle' # request_toggle /\ hold' = v
      BY <1>4, <1>13 DEF toggle_after, hold_after, Handshake, HandshakeTypes, Bit
    <2>3. payload' = payload
      BY <1>3, <1>8, <1>13 DEF Handshake, HandshakeTypes
    <2> QED BY <2>1, <2>2, <2>3 DEF Box!Post
  <1>14. ASSUME ~sends PROVE Box!Read(captures)
    <2>1. request_toggle' = request_toggle /\ hold' = hold
      BY <1>4, <1>14 DEF toggle_after, hold_after
    <2>2. \A d \in Destinations :
             acknowledge_toggle'[d] = IF d \in captures THEN request_toggle ELSE acknowledge_toggle[d]
      BY <1>3, <1>7
    <2>3. payload' = [d \in Destinations |-> IF d \in captures THEN hold ELSE payload[d]]
      BY <1>3, <1>10
    <2> QED BY <2>1, <2>2, <2>3 DEF Box!Read
  <1>15. captures \subseteq {d \in Destinations : request_toggle # acknowledge_toggle[d]}
    BY <1>1, <1>6, <1>7
  <1> QED
    BY <1>11, <1>12, <1>13, <1>14, <1>15 DEF Handshake, sends, captures, ticking

---------------------------------------------------------------------------
\* The commit crossings

\* A destination is one strobe behind exactly while a transfer is on its way.
Strobes ==
    /\ accepted \in Nat
    /\ strobes = [d \in Destinations |->
         IF request_toggle # acknowledge_toggle[d] THEN accepted - 1 ELSE accepted]

CommitInv == Handshake /\ Strobes

LEMMA CommitInitially == CommitInit => CommitInv /\ Box!Init
  <1> SUFFICES ASSUME CommitInit PROVE CommitInv /\ Box!Init
    OBVIOUS
  <1>1. Handshake /\ Box!Init
    BY InitHandshake DEF CommitInit
  <1>2. Strobes
    BY DEF CommitInit, CdcInit, Strobes
  <1> QED BY <1>1, <1>2 DEF CommitInv

\* A step of a commit crossing is a step of the mailbox.
LEMMA CommitStep ==
    CommitInv /\ [CommitNext]_commitVars => CommitInv' /\ [Box!Next]_(Box!mailboxVars)
  <1> SUFFICES ASSUME CommitInv, [CommitNext]_commitVars
               PROVE  CommitInv' /\ [Box!Next]_(Box!mailboxVars)
    OBVIOUS
  <1>1. CASE CommitReset
    <2>1. Handshake' /\ Box!Discard
      BY <1>1, ResetHandshake DEF CommitReset, CommitInv
    <2>2. Strobes'
      BY <1>1 DEF CommitReset, CdcReset, Strobes
    <2> QED BY <2>1, <2>2 DEF CommitInv, Box!Next
  <1>2. ASSUME NEW ticks \in SUBSET Domains, NEW commit \in BOOLEAN, NEW v \in Payloads,
               CommitEdges(ticks, commit, v)
        PROVE  CommitInv' /\ [Box!Next]_(Box!mailboxVars)
    <2> PICK send \in BOOLEAN : send = Starts(commit)
      BY DEF Starts, Committing
    <2> DEFINE sends == send /\ Source \in Active(ticks)
               captures == {d \in Active(ticks) \ {Source} : request_arrived(d)}
               unread == {d \in Destinations : request_toggle # acknowledge_toggle[d]}
    <2>1. (send => ~transfer_busy) /\ ClockEdges(ticks, send, v)
      BY <1>2 DEF Starts, CommitEdges
    <2>2. /\ Handshake'
          /\ sends => Box!Post(v)
          /\ ~sends => Box!Read(captures) /\ captures \subseteq unread
      BY <2>1, EdgesHandshake DEF CommitInv
    <2>3. /\ accepted' = IF sends THEN accepted + 1 ELSE accepted
          /\ strobes' = [d \in Destinations |->
               IF d \in captures THEN strobes[d] + 1 ELSE strobes[d]]
      BY <1>2 DEF CommitEdges
    <2> HIDE DEF sends, captures
    <2>4. CASE sends
      <3>1. Box!Post(v)
        BY <2>2, <2>4
      <3>2. captures = {} /\ \A d \in Destinations : acknowledge_toggle[d] = request_toggle
        <4>1. ~transfer_busy
          BY <2>1, <2>4 DEF sends
        <4> QED
          BY <4>1, AtRest, CaptureWhileBusy DEF CommitInv, captures, Active, Handshake,
             HandshakeTypes, Domains
      <3>3. \A d \in Destinations : acknowledge_toggle'[d] # request_toggle'
        BY <3>1 DEF Box!Post
      <3>4. Strobes'
        BY <2>3, <2>4, <3>2, <3>3 DEF CommitInv, Strobes
      <3> QED BY <2>2, <3>1, <3>4 DEF CommitInv, Box!Next
    <2>5. CASE ~sends
      <3>1. Box!Read(captures) /\ captures \subseteq unread
        BY <2>2, <2>5
      <3>2. \A d \in Destinations :
              (request_toggle' # acknowledge_toggle'[d]) <=> (d \in unread /\ d \notin captures)
        BY <3>1 DEF Box!Read
      <3>3. Strobes'
        BY <2>3, <2>5, <3>1, <3>2 DEF CommitInv, Strobes
      <3>4. PICK readers \in SUBSET unread : readers = captures
        BY <3>1
      <3>5. Box!Next
        BY <3>1, <3>4 DEF Box!Next, Box!Read
      <3> QED BY <2>2, <3>3, <3>5 DEF CommitInv
    <2> QED BY <2>4, <2>5
  <1>3. CASE Edges
    <2>1. PICK ticks \in SUBSET Domains, commit \in BOOLEAN :
               \E v \in Payloads : CommitEdges(ticks, commit, v)
      BY <1>3, CdcAssumption DEF Edges
    <2> QED BY <1>2, <2>1
  <1>4. CASE UNCHANGED commitVars
    <2>1. /\ UNCHANGED << reset_sync, hold, request_toggle, acknowledge_meta, acknowledge_sync,
                          request_meta, request_sync, request_seen, acknowledge_toggle >>
          /\ UNCHANGED << payload, accepted, strobes >>
      BY <1>4 DEF commitVars, handshakeVars, sourceVars, destinationVars
    <2> QED BY <2>1 DEF CommitInv, Strobes, Handshake, HandshakeTypes, Wave, Box!mailboxVars
  <1> QED BY <1>1, <1>3, <1>4 DEF CommitNext

---------------------------------------------------------------------------
\* The level crossings and the scaler selector

SelectorInv == Handshake /\ level \in Payloads

LEMMA SelectorStep ==
    SelectorInv /\ [SelectorNext]_selectorVars
      => SelectorInv' /\ [Box!Next]_(Box!mailboxVars)
  <1> SUFFICES ASSUME SelectorInv, [SelectorNext]_selectorVars
               PROVE  SelectorInv' /\ [Box!Next]_(Box!mailboxVars)
    OBVIOUS
  <1>1. CASE SelectorReset
    <2>1. Handshake' /\ Box!Discard /\ level' = level
      BY <1>1, ResetHandshake DEF SelectorReset, LevelReset, SelectorInv
    <2> QED BY <2>1 DEF SelectorInv, Box!Next
  <1>2. ASSUME NEW ticks \in SUBSET Domains, LevelEdges(ticks), level' = level
        PROVE  SelectorInv' /\ [Box!Next]_(Box!mailboxVars)
    <2> PICK v : v = level
      OBVIOUS
    <2> PICK send \in BOOLEAN : send = (~transfer_busy /\ level # hold)
      OBVIOUS
    <2> DEFINE sends == send /\ Source \in Active(ticks)
               captures == {d \in Active(ticks) \ {Source} : request_arrived(d)}
               unread == {d \in Destinations : request_toggle # acknowledge_toggle[d]}
    <2>1. (send => ~transfer_busy /\ v \in Payloads) /\ ClockEdges(ticks, send, v)
      BY <1>2 DEF LevelEdges, SelectorInv
    <2>2. /\ Handshake'
          /\ sends => Box!Post(v)
          /\ ~sends => Box!Read(captures) /\ captures \subseteq unread
      BY <2>1, EdgesHandshake DEF SelectorInv
    <2> HIDE DEF sends, captures
    <2>3. sends => v \in Payloads
      BY <2>1 DEF sends
    <2>4. ASSUME sends PROVE Box!Next
      BY <2>2, <2>3, <2>4 DEF Box!Next
    <2>5. ASSUME ~sends PROVE Box!Next
      <3>1. PICK readers \in SUBSET unread : readers = captures
        BY <2>2, <2>5
      <3> QED BY <2>2, <2>5, <3>1 DEF Box!Next, Box!Read
    <2>6. Box!Next
      BY <2>4, <2>5
    <2> QED BY <1>2, <2>2, <2>6 DEF SelectorInv
  <1>3. CASE UNCHANGED handshakeVars /\ level' \in Payloads
    <2>1. /\ UNCHANGED << reset_sync, hold, request_toggle, acknowledge_meta, acknowledge_sync,
                          request_meta, request_sync, request_seen, acknowledge_toggle >>
          /\ UNCHANGED payload
      BY <1>3 DEF handshakeVars, sourceVars, destinationVars
    <2> QED
      BY <1>3, <2>1 DEF SelectorInv, Handshake, HandshakeTypes, Wave, Box!mailboxVars
  <1>4. CASE Command
    BY <1>3, <1>4 DEF Command, SetLevel
  <1>5. CASE Tick \/ FrameStart
    BY <1>2, <1>5 DEF Tick, FrameStart, SelectorEdges
  <1>6. CASE UNCHANGED selectorVars
    BY <1>3, <1>6 DEF selectorVars, levelVars, SelectorInv
  <1> QED BY <1>1, <1>4, <1>5, <1>6 DEF SelectorNext

---------------------------------------------------------------------------
\* Either crossing

CrossingInv ==
    /\ discipline \in {"commit", "level"}
    /\ Handshake
    /\ level \in Payloads
    /\ IF discipline = "commit" THEN Strobes
       ELSE accepted = 0 /\ strobes = [d \in Destinations |-> 0]

LEMMA CrossingInitially == CrossingInit => CrossingInv /\ Box!Init
  <1> SUFFICES ASSUME CrossingInit PROVE CrossingInv /\ Box!Init
    OBVIOUS
  <1>1. CommitInv /\ Box!Init
    BY CommitInitially DEF CrossingInit
  <1>2. level \in Payloads /\ accepted = 0 /\ strobes = [d \in Destinations |-> 0]
    BY DEF CrossingInit, SelectorInit, LevelInit, CommitInit
  <1> QED BY <1>1, <1>2 DEF CrossingInit, CommitInv, CrossingInv

LEMMA CrossingStep ==
    CrossingInv /\ [CrossingNext]_crossingVars => CrossingInv' /\ [Box!Next]_(Box!mailboxVars)
  <1> SUFFICES ASSUME CrossingInv, [CrossingNext]_crossingVars
               PROVE  CrossingInv' /\ [Box!Next]_(Box!mailboxVars)
    OBVIOUS
  <1>1. CASE ByCommit(CommitNext)
    <2>1. CommitInv' /\ [Box!Next]_(Box!mailboxVars)
      BY <1>1, CommitStep DEF ByCommit, CrossingInv, CommitInv
    <2> QED BY <1>1, <2>1 DEF ByCommit, levelOnlyVars, CrossingInv, CommitInv
  <1>2. CASE ByLevel(SelectorNext)
    <2>1. SelectorInv' /\ [Box!Next]_(Box!mailboxVars)
      BY <1>2, SelectorStep DEF ByLevel, CrossingInv, SelectorInv
    <2> QED BY <1>2, <2>1 DEF ByLevel, commitOnlyVars, CrossingInv, SelectorInv
  <1>3. CASE UNCHANGED crossingVars
    <2>1. UNCHANGED << discipline, commitVars, level >>
      BY <1>3 DEF crossingVars, commitVars, commitOnlyVars, levelOnlyVars
    <2>2. UNCHANGED << accepted, strobes >> /\ UNCHANGED handshakeVars
      BY <2>1 DEF commitVars
    <2>3. SelectorInv' /\ [Box!Next]_(Box!mailboxVars)
      BY <1>3, SelectorStep
         DEF crossingVars, levelOnlyVars, selectorVars, levelVars, CrossingInv, SelectorInv
    <2>4. discipline = "commit" => CommitInv'
      BY <2>1, CommitStep DEF CrossingInv, CommitInv
    <2> QED BY <2>1, <2>2, <2>3, <2>4 DEF CrossingInv, SelectorInv, CommitInv
  <1> QED BY <1>1, <1>2, <1>3 DEF CrossingNext

\* Whatever the clocks, the metastable samples and the resets do, a crossing
\* (apf_rtc_cdc.sv, apf_save_metadata_cdc.sv and apf_rom_plan_cdc.sv, or
\* apf_scaler_selector.sv and, without its frame latch, apf_settings_cdc.sv and
\* apf_input_blocked_cdc.sv) delivers whole payloads, each once to every
\* destination and in order, and replaces none that one has not captured.
THEOREM CrossingsAreMailboxes == CrossingSpec => CrossingIsMailbox
  <1>1. CrossingInit => CrossingInv /\ Box!Init
    BY CrossingInitially
  <1>2. CrossingInv /\ [CrossingNext]_crossingVars => CrossingInv' /\ [Box!Next]_(Box!mailboxVars)
    BY CrossingStep
  <1> QED BY <1>1, <1>2, PTL DEF CrossingSpec, CrossingIsMailbox, Box!Spec

\* An accepted commit raises every destination's strobe exactly once: it is not
\* lost, not doubled, and not still missing when the next one is accepted.
THEOREM CommitsStrobeOnce == CrossingSpec => []StrobedOnce
  <1>1. CrossingInv => StrobedOnce
    BY DEF CrossingInv, Strobes, StrobedOnce
  <1>2. CrossingInit => CrossingInv
    BY CrossingInitially
  <1>3. CrossingInv /\ [CrossingNext]_crossingVars => CrossingInv'
    BY CrossingStep
  <1> QED BY <1>1, <1>2, <1>3, PTL DEF CrossingSpec
===========================================================================
