------------------------- MODULE FrameBankArbiter -------------------------
(***************************************************************************)
(* Ownership of the console's frame banks: apf_framebank_arbiter.sv.  One  *)
(* bank belongs to the producer, one completed frame may be pending, and   *)
(* up to three completed frames are the history that scanout reads.        *)
(* Everything changes on one clock edge, which sees four strobes.          *)
(***************************************************************************)
EXTENDS Integers

CONSTANT NumBanks           \* 5 in the RTL

ASSUME NumBanksAssumption == NumBanks \in Nat /\ NumBanks >= 5

VARIABLES
    write_bank_state,       \* bank the producer draws into while buffering
    pending_bank,           \* completed frame not shown yet
    pending_valid,
    history_newest,         \* immutable frames owned by scanout
    history_previous,
    history_oldest,
    history_valid_count     \* how many of the three are meaningful

arbiterVars == << write_bank_state, pending_bank, pending_valid,
                  history_newest, history_previous, history_oldest,
                  history_valid_count >>

Banks == 0 .. NumBanks - 1

ArbiterTypeOK ==
    /\ write_bank_state \in Banks
    /\ pending_bank \in Banks
    /\ pending_valid \in BOOLEAN
    /\ history_newest \in Banks
    /\ history_previous \in Banks
    /\ history_oldest \in Banks
    /\ history_valid_count \in 0 .. 3

\* The banks the first n entries of the history own.
HistoryPrefix(n) ==
    (IF n >= 1 THEN {history_newest} ELSE {})
      \union (IF n >= 2 THEN {history_previous} ELSE {})
      \union (IF n >= 3 THEN {history_oldest} ELSE {})

History == HistoryPrefix(history_valid_count)

\* The lowest bank outside excluded, or 0 when there is none.
choose_free_bank(excluded) ==
    LET free == Banks \ excluded
    IN  IF free = {} THEN 0
        ELSE CHOOSE b \in free : \A c \in free : b <= c

ArbiterInit ==
    /\ write_bank_state = 0
    /\ pending_bank = 0
    /\ pending_valid = FALSE
    /\ history_newest = 0
    /\ history_previous = 0
    /\ history_oldest = 0
    /\ history_valid_count = 0

ArbiterReset ==
    /\ write_bank_state' = 0
    /\ pending_bank' = 0
    /\ pending_valid' = FALSE
    /\ history_newest' = 0
    /\ history_previous' = 0
    /\ history_oldest' = 0
    /\ history_valid_count' = 0

\* A completed frame becomes the newest history entry and ages the others.
PushHistory(bank) ==
    /\ history_newest' = bank
    /\ history_previous' = IF history_valid_count >= 1
                           THEN history_newest ELSE history_previous
    /\ history_oldest' = IF history_valid_count >= 2
                         THEN history_previous ELSE history_oldest
    /\ history_valid_count' = IF history_valid_count < 3
                              THEN history_valid_count + 1 ELSE 3

UnchangedHistory ==
    UNCHANGED << history_newest, history_previous, history_oldest,
                 history_valid_count >>

\* Fault: the producer keeps drawing into the frame it published.
PublishPendingKeepsWriter ==
    /\ pending_bank' = write_bank_state
    /\ pending_valid' = TRUE
    /\ write_bank_state' =
         IF pending_valid THEN write_bank_state
         ELSE choose_free_bank({write_bank_state} \union History)
    /\ UnchangedHistory

\* The producer completed a frame and nothing is shown on this edge: the
\* writer becomes pending.  A frame that was already pending is superseded and
\* its bank is drawn over next.
PublishPending ==
    /\ pending_bank' = write_bank_state
    /\ pending_valid' = TRUE
    /\ write_bank_state' =
         IF pending_valid THEN pending_bank
         ELSE choose_free_bank({write_bank_state} \union History)
    /\ UnchangedHistory

\* Fault: only the first frame is ever promoted.
PromotePendingOnce ==
    /\ IF pending_valid /\ history_valid_count = 0 THEN PushHistory(pending_bank)
       ELSE UnchangedHistory
    /\ pending_valid' = FALSE
    /\ UNCHANGED << write_bank_state, pending_bank >>

\* Scanout starts its next frame and takes the pending one, if there is one.
PromotePending ==
    \/ /\ pending_valid
       /\ PushHistory(pending_bank)
       /\ pending_valid' = FALSE
       /\ UNCHANGED << write_bank_state, pending_bank >>
    \/ /\ ~pending_valid
       /\ UNCHANGED arbiterVars

\* Fault: the older pending frame stays pending.
PromoteWriterKeepsPending ==
    /\ PushHistory(write_bank_state)
    /\ write_bank_state' =
         choose_free_bank({write_bank_state, pending_bank, history_newest,
                           history_previous})
    /\ UNCHANGED << pending_bank, pending_valid >>

\* Fault: the search forgets the second newest frame.
PromoteWriterForgetsPrevious ==
    /\ PushHistory(write_bank_state)
    /\ write_bank_state' =
         IF pending_valid THEN pending_bank
         ELSE choose_free_bank({write_bank_state, history_newest})
    /\ pending_valid' = FALSE
    /\ UNCHANGED pending_bank

\* Completion and boundary on one edge: the writer is shown directly and an
\* older pending frame is dropped.  The oldest history bank leaves with it.
PromoteWriter ==
    /\ PushHistory(write_bank_state)
    /\ write_bank_state' =
         IF pending_valid THEN pending_bank
         ELSE choose_free_bank({write_bank_state}
                \union HistoryPrefix(IF history_valid_count >= 2 THEN 2
                                     ELSE history_valid_count))
    /\ pending_valid' = FALSE
    /\ UNCHANGED pending_bank

\* One clock edge of an enabled arbiter outside reset.
ArbiterEdge(producer_frame_done, consumer_frame_boundary, defer_candidate, protect_pending) ==
    \/ /\ protect_pending           \* completions are dropped meanwhile
       /\ IF consumer_frame_boundary THEN PromotePending
          ELSE UNCHANGED arbiterVars
    \/ /\ ~protect_pending
       /\ defer_candidate /\ consumer_frame_boundary
       /\ IF producer_frame_done THEN PublishPending
          ELSE UNCHANGED arbiterVars
    \/ /\ ~protect_pending
       /\ ~(defer_candidate /\ consumer_frame_boundary)
       /\ \/ producer_frame_done /\ ~consumer_frame_boundary /\ PublishPending
          \/ ~producer_frame_done /\ consumer_frame_boundary /\ PromotePending
          \/ producer_frame_done /\ consumer_frame_boundary /\ PromoteWriter
          \/ /\ ~producer_frame_done /\ ~consumer_frame_boundary
             /\ UNCHANGED arbiterVars
===========================================================================
