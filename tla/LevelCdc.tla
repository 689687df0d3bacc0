----------------------------- MODULE LevelCdc -----------------------------
(***************************************************************************)
(* The handshake as a level tracker: apf_settings_cdc.sv and               *)
(* apf_input_blocked_cdc.sv.  Whenever the channel is idle and the level   *)
(* differs from what was last sent, the newest level is sent; levels that  *)
(* come and go while the channel is busy are skipped.                      *)
(***************************************************************************)
EXTENDS BundledCdc

VARIABLE level      \* settings_source, or the canonical controller payload

levelVars == << handshakeVars, level >>

LevelInit ==
    /\ CdcInit
    /\ level \in Payloads

\* A level changes between two source edges.
SetLevel ==
    /\ level' \in Payloads \ {level}
    /\ UNCHANGED handshakeVars

LevelEdges(ticks) == ClockEdges(ticks, ~transfer_busy /\ level # hold, level)

\* The PLL drops out; the level itself lives in the bridge and stays.
LevelReset ==
    /\ CdcReset
    /\ UNCHANGED level
===========================================================================
