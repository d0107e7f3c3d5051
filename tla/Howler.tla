-------------------------------- MODULE Howler --------------------------------
(***************************************************************************)
(* howler.js: alarms from inside the reasoning loop.                       *)
(*                                                                         *)
(* A trace prefix is abstracted to nothing, for no check of a drift alarm  *)
(* reads it.  A missing threshold is NoThreshold: in JavaScript a score    *)
(* compared with undefined is never >= it.                                 *)
(***************************************************************************)
EXTENDS Upstream

CONSTANT NoThreshold

\* signHowlerDrift: the drift score against the threshold the caller sends.
Disposition(score, threshold) ==
    IF threshold # NoThreshold /\ score >= threshold THEN "freeze" ELSE "continue"

SignHowlerDrift(score, threshold, run, key, suite, now) ==
    SignUpstreamReceipt("howler.drift",
        [drift_score_bp |-> score, drift_threshold_bp |-> threshold,
         disposition |-> Disposition(score, threshold)],
        0, run, key, suite, now)
================================================================================
