------------------------------- MODULE MCLedgers -------------------------------
(***************************************************************************)
(* The modules of the service that are about histories, for TLC: refusal   *)
(* policies, contexts, reused results and the rate of requests.            *)
(* They share nothing, so a behaviour takes one of them, its lane, and     *)
(* leaves the others alone: the states are those of each, side by side.    *)
(***************************************************************************)
EXTENDS MCRefusalLedger, ContextLedger, ToolReuse, RateLimit

VARIABLE lane

LedgersInit ==
    /\ lane \in {"refusal", "context", "reuse", "rate"}
    /\ Init
    /\ LedgerInit
    /\ ReuseInit
    /\ RateInit

RefusalLane ==
    /\ lane = "refusal" /\ Next
    /\ UNCHANGED <<lane, ledgerVars, reuseVars, rateVars>>

ContextLane ==
    /\ lane = "context" /\ LedgerNext
    /\ UNCHANGED <<lane, vars, reuseVars, rateVars>>

ReuseLane ==
    /\ lane = "reuse" /\ ReuseNext
    /\ UNCHANGED <<lane, vars, ledgerVars, rateVars>>

RateLane ==
    /\ lane = "rate" /\ RateNext
    /\ UNCHANGED <<lane, vars, ledgerVars, reuseVars>>

LedgersNext ==
    RefusalLane \/ ContextLane \/ ReuseLane \/ RateLane

LedgersSpec ==
    LedgersInit
    /\ [][LedgersNext]_<<lane, vars, ledgerVars, reuseVars, rateVars>>

--------------------------------------------------------------------------------
(* What agents and callers send.                                               *)

Disclosure(original, result) == [original_hash |-> original, result_hash |-> result]

\* Nothing, a loss and a replacement.
SmallDisclosures ==
    {{}, {Disclosure("a", NoSpan)}, {Disclosure("a", "b")}}

Call(tool, hash, result, deterministic, holder) ==
    [tool_id |-> tool, tool_hash |-> hash, input_hash |-> "i", result_digest |-> result,
     deterministic |-> deterministic, holder |-> holder]

\* One tool whose results differ, another whose hash is the first one's name, and the
\* other one by its own name, deterministic or not.
SmallCalls ==
    {Call("t", NoDigest, "r", TRUE, "x"), Call("t", NoDigest, "q", TRUE, "y"),
     Call("u", "dt", "r", TRUE, "y"), Call("u", NoDigest, "r", FALSE, "x"),
     Call("u", NoDigest, "r", TRUE, "y")}

SmallNames == "t" :> "dt" @@ "u" :> "du"
================================================================================
