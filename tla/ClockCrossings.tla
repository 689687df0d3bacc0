-------------------------- MODULE ClockCrossings --------------------------
(***************************************************************************)
(* The crossings of the core by what they do with the shared handshake:    *)
(* the commit crossings of CommitCdc (the ROM plan and the save metadata   *)
(* commit on a rising edge, the RTC epoch on every cycle of its strobe)    *)
(* and the scaler selector, a level tracker followed by a frame latch.     *)
(* Two crossings share no register, so a behaviour is one crossing, and    *)
(* the registers of the other discipline stay as reset leaves them.        *)
(***************************************************************************)
EXTENDS CommitCdc, ScalerSelector

VARIABLE discipline     \* of the crossing: "commit" or "level"

commitOnlyVars == << rising, commit_previous, rejected, valid, accepted, strobes >>
levelOnlyVars == << level, pending_valid_video, scaler_slot_video >>
crossingVars == << discipline, handshakeVars, commitOnlyVars, levelOnlyVars >>

CrossingInit ==
    /\ discipline \in {"commit", "level"}
    /\ CommitInit /\ (discipline = "level" => rising)
    /\ SelectorInit /\ (discipline = "commit" => level = Default)

ByCommit(step) == discipline = "commit" /\ step /\ UNCHANGED << discipline, levelOnlyVars >>
ByLevel(step) == discipline = "level" /\ step /\ UNCHANGED << discipline, commitOnlyVars >>

CrossingNext ==
    \/ ByCommit(CommitNext)
    \/ ByLevel(SelectorNext)

CrossingSpec == CrossingInit /\ [][CrossingNext]_crossingVars

\* Every clock keeps running, and the raster keeps starting frames.
FairCrossingSpec ==
    /\ CrossingSpec
    /\ \A c \in {Source} \union Destinations :
         /\ WF_crossingVars(ByCommit(EdgeOf(c)))
         /\ WF_crossingVars(ByLevel(TickOf(c)))
    /\ WF_crossingVars(ByLevel(FrameStart))
===========================================================================
