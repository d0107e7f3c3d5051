------------------------------ MODULE MCProducts ------------------------------
(***************************************************************************)
(* The boot of the signer and the products it signs, for TLC.  They share  *)
(* nothing but the key, so a behaviour takes one of them, its lane, and    *)
(* leaves the others alone: the states are those of each, side by side.    *)
(***************************************************************************)
EXTENDS MCQpufBoot, Receipts, Settlement, AgenticRun, Consensus, Monitors, Typed, Egress

VARIABLE lane

ProductsInit ==
    /\ lane \in {"boot", "receipts", "settlement", "dag", "agentic", "consensus",
                 "monitors", "typed", "egress"}
    /\ Init
    /\ ReceiptsInit
    /\ SettlementInit
    /\ DagInit
    /\ AgenticInit
    /\ ConsensusInit
    /\ MonitorsInit
    /\ TypedInit
    /\ EgressInit

BootLane ==
    /\ lane = "boot" /\ Next
    /\ UNCHANGED <<lane, receiptsVars, settlementVars, dagVars, agenticVars,
                   consensusVars, monitorsVars, typedVars, egressVars>>

ReceiptsLane ==
    /\ lane = "receipts" /\ ReceiptsNext
    /\ UNCHANGED <<lane, vars, settlementVars, dagVars, agenticVars, consensusVars,
                   monitorsVars, typedVars, egressVars>>

SettlementLane ==
    /\ lane = "settlement" /\ SettlementNext
    /\ UNCHANGED <<lane, vars, receiptsVars, dagVars, agenticVars, consensusVars,
                   monitorsVars, typedVars, egressVars>>

DagLane ==
    /\ lane = "dag" /\ DagNext
    /\ UNCHANGED <<lane, vars, receiptsVars, settlementVars, agenticVars, consensusVars,
                   monitorsVars, typedVars, egressVars>>

AgenticLane ==
    /\ lane = "agentic" /\ AgenticNext
    /\ UNCHANGED <<lane, vars, receiptsVars, settlementVars, dagVars, consensusVars,
                   monitorsVars, typedVars, egressVars>>

ConsensusLane ==
    /\ lane = "consensus" /\ ConsensusNext
    /\ UNCHANGED <<lane, vars, receiptsVars, settlementVars, dagVars, agenticVars,
                   monitorsVars, typedVars, egressVars>>

MonitorsLane ==
    /\ lane = "monitors" /\ MonitorsNext
    /\ UNCHANGED <<lane, vars, receiptsVars, settlementVars, dagVars, agenticVars,
                   consensusVars, typedVars, egressVars>>

TypedLane ==
    /\ lane = "typed" /\ TypedNext
    /\ UNCHANGED <<lane, vars, receiptsVars, settlementVars, dagVars, agenticVars,
                   consensusVars, monitorsVars, egressVars>>

EgressLane ==
    /\ lane = "egress" /\ EgressNext
    /\ UNCHANGED <<lane, vars, receiptsVars, settlementVars, dagVars, agenticVars,
                   consensusVars, monitorsVars, typedVars>>

ProductsNext ==
    \/ BootLane \/ ReceiptsLane \/ SettlementLane \/ DagLane
    \/ AgenticLane \/ ConsensusLane \/ MonitorsLane \/ TypedLane \/ EgressLane

ProductsSpec ==
    ProductsInit
    /\ [][ProductsNext]_<<lane, vars, receiptsVars, settlementVars, dagVars,
                          agenticVars, consensusVars, monitorsVars, typedVars,
                          egressVars>>

--------------------------------------------------------------------------------
(* What callers send.                                                          *)

\* An unsupported claim that says it is strong, and two supported ones.
SmallClaims ==
    {[claim_hash |-> "a", support |-> Undefined, strength |-> 2],
     [claim_hash |-> "a", support |-> "a", strength |-> 2],
     [claim_hash |-> "b", support |-> "a", strength |-> 1]}

\* Bonds whose promises are tight and loose; the second penalty and the third
\* ceiling do not fit IntMax.
SmallTerms ==
    {[latency_ceiling_ms |-> 1, uptime_floor_ppm |-> 3, slow_tolerance_ppm |-> 2,
      penalty_micro_usd |-> 3],
     [latency_ceiling_ms |-> 1, uptime_floor_ppm |-> 0, slow_tolerance_ppm |-> 3,
      penalty_micro_usd |-> 9],
     [latency_ceiling_ms |-> 5, uptime_floor_ppm |-> 3, slow_tolerance_ppm |-> 2,
      penalty_micro_usd |-> 3]}

Call(latency, served) == [observed_latency_ms |-> latency, served |-> served]

\* Calls in time and late, and one given up after a time that does not fit IntMax.
SmallMeasured == {Call(1, TRUE), Call(2, TRUE), Call(6, FALSE)}

DagStep(id, seq, parents, io) ==
    [step_id |-> id, seq |-> seq, parents |-> parents, io |-> io]

\* Diamonds, a step reported with two outputs, cycles, a dangling parent, and steps
\* whose seq says another order than their parents.
SmallReports ==
    {DagStep(1, 0, {}, "x"), DagStep(1, 0, {}, "y"), DagStep(1, 0, {3}, "x"),
     DagStep(2, 1, {1}, "x"), DagStep(2, 1, {1, 3}, "x"), DagStep(2, 1, {5}, "x"),
     DagStep(3, 2, {}, "x"), DagStep(3, 2, {1}, "x"), DagStep(3, 2, {2}, "x"),
     DagStep(4, 0, {2, 3}, "x")}

Scope(tools, destructive) ==
    [scope_id |-> "s", tools |-> tools, destructive_tools |-> destructive]

\* One scope as it is widened, made destructive and narrowed, and one that is refused.
SmallScopes ==
    {Scope("read" :> "h1", {}), Scope("read" :> "h1" @@ "drop" :> "h1", {}),
     Scope("read" :> "h1" @@ "drop" :> "h2", {"drop"}), Scope("drop" :> "h2", {"read"})}

Act(id, parents, kind, action, target, hash) ==
    [step_id |-> id, seq |-> 0, parents |-> parents, kind |-> kind, action |-> action,
     tool_target |-> target, tool_hash |-> hash, scope_ref |-> "s", input |-> "i",
     output |-> "o", listed |-> <<>>, input_digest |-> Undefined,
     output_digest |-> Undefined]

Read(id) == Act(id, {}, "tool_call", "read", "t", NoHash)

\* An action of its sender's making.
Made(tool, destructive) ==
    [action |-> tool, tool_target |-> "t", tool_hash |-> NoHash, scope_ref |-> "s",
     destructive |-> destructive, arsc_tier |-> "sink"]

\* Calls of both tools, one without a target, and a step that is none and says it did
\* one; calls with digests of their own, of another input, of the output as it was sent
\* and of one with another action; and one with a number for an id.
SmallActs ==
    {Read(1), Act(1, {}, "tool_call", "read", Undefined, NoHash),
     Act(2, {}, "tool_call", "drop", "t", NoHash), Act(2, {1}, "tool_call", "drop", "t", "h1"),
     [Act(2, {}, "reason", "drop", "t", "h1") EXCEPT !.listed = Made("drop", TRUE)],
     [Read(1) EXCEPT !.input_digest = "j"],
     [Read(1) EXCEPT !.output_digest = [output |-> "o", agentic_action |-> <<>>]],
     [Read(2) EXCEPT !.output_digest =
         [output |-> "o", agentic_action |-> Made("drop", FALSE)]],
     Read(3)}

Answer(model, digest, score, id) ==
    [panel_id |-> id, model_id |-> model, output_digest |-> digest, score |-> score]

\* Two models that differ, one of them asked twice, one with a score that wraps, and
\* members without a name or a panel.
SmallMembers ==
    {Answer("m", 1, 1, "p"), Answer("m", 2, 1, "p"), Answer("n", 1, 1, "p"),
     Answer("n", 2, 5, Undefined), Answer(Undefined, 2, 1, "p")}

SmallParams == {[quorum_n |-> 2, judge_pick |-> "m"]}

ServedBy(model, weights, config, endpoint) ==
    [model_id |-> model, weights_sha3 |-> weights, config_hash |-> config,
     endpoint |-> endpoint]

\* One model, another endpoint, other weights, another configuration, another model.
SmallServed ==
    {ServedBy("m", "w", "c", "e"), ServedBy("m", "w", "c", "f"),
     ServedBy("n", "w", "c", "e"),
     ServedBy("m", "w", "d", "e"), ServedBy("n", "v", "c", "e")}

\* Signals in either place, at, above and below 0 and the trigger.
SmallFlags ==
    {[place |-> "signals", trigger_bp |-> Undefined,
      given |-> "grounding_anomaly" :> 9000 @@ "identity_flicker" :> 0],
     [place |-> "flat", trigger_bp |-> Undefined, given |-> "cross_run_divergence" :> 2000],
     [place |-> "flat", trigger_bp |-> 1, given |-> "chain_irregularity" :> 2000],
     [place |-> "signals", trigger_bp |-> 0, given |-> "chain_irregularity" :> -5],
     [place |-> "signals", trigger_bp |-> 10000, given |-> <<>>]}

Fragment(id, type, sounds_like, text) ==
    [id |-> id, type |-> type, sounds_like |-> sounds_like, text |-> text]

\* Typed and untyped fragments, and ids that meet those given to unnamed ones.
SmallItems ==
    {Fragment(Undefined, Undefined, "reasoning", "a"),
     Fragment(Undefined, "system", "tool_call", "a"),
     Fragment(2, "prose", "final", "b"), Fragment(3, "retrieval", "final", "b")}

SmallSignTypes == {{}, {"system"}, {"final", "summary"}, {"summary"}}

SmallCaps == "pii" :> 2 @@ "code" :> 3

\* As declared, one left out and the other raised, and none.
SmallCapsSent == {SmallCaps, "pii" :> 9, <<>>}
================================================================================
