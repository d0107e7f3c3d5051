------------------------------- MODULE Monitors -------------------------------
(***************************************************************************)
(* mir.js and gitm.js: which models served a session, and the flag raised  *)
(* when the signals about it do not fit.                                   *)
(*                                                                         *)
(* Steps are served one after the other and the customer notes each.  The  *)
(* provider has a lineage sealed, of the steps it served or with one left  *)
(* out.  The customer verifies it, and has it cross-checked with other     *)
(* signals; what arrives there may have been touched up on the way.        *)
(*                                                                         *)
(* Scores are integers in basis points; a float in a request stands for    *)
(* its basis points.  What is sent fits the 32 bits the code keeps of it.  *)
(***************************************************************************)
EXTENDS Sealed

CONSTANTS
    Served,         \* what a step may say: the three identity fields and the endpoint
    ExpectedAsked,  \* the models a customer may say he bought, Undefined for none
    FlagAsked,      \* what else a cross-check is asked with
    MaxServed       \* bound

ASSUME MonitorsAssumption ==
    /\ \A s \in Served :
          s = [model_id |-> s.model_id, weights_sha3 |-> s.weights_sha3,
               config_hash |-> s.config_hash, endpoint |-> s.endpoint]
    /\ \A f \in FlagAsked :
          /\ f.place \in {"signals", "flat"}
          /\ f.trigger_bp \in Int \cup {Undefined}
          /\ \A g \in DOMAIN f.given : f.given[g] \in Int
    /\ MaxServed \in Nat

VARIABLES
    session,    \* the steps as the customer noted them
    lineage,    \* the MiR receipt, <<>> before it is sealed
    sealedOf,   \* the steps and the expected model it was sealed with
    flag,       \* the GiTM receipt, <<>> before it is raised
    flagAsked   \* the request it was raised by

monitorsVars == <<session, lineage, sealedOf, flag, flagAsked>>

MonitorsInit ==
    /\ session = <<>>
    /\ lineage = <<>>
    /\ sealedOf = <<>>
    /\ flag = <<>>
    /\ flagAsked = <<>>

Clamp(x) == IF x < 0 THEN 0 ELSE IF x > 10000 THEN 10000 ELSE x

--------------------------------------------------------------------------------
(* mir.js                                                                      *)

IdentityFields == {"model_id", "weights_sha3", "config_hash"}

ChangedFields(a, b) == {f \in IdentityFields : a[f] # b[f]}

StepRoot(step) ==
    MerkleRoot(<<step.model_id, step.weights_sha3, step.config_hash, step.endpoint>>)

Mismatched(steps, expected) ==
    IF expected = Undefined THEN {}
    ELSE {i \in DOMAIN steps : steps[i].model_id # expected}

\* The score of the carried events: 2500 each, 1500 more when the weights changed,
\* 2000 for every step that was not the expected model.
Flicker(relineage, mismatched) ==
    Clamp(2500 * Cardinality(DOMAIN relineage)
          + 1500 * Cardinality({i \in DOMAIN relineage : "weights_sha3" \in relineage[i]})
          + 2000 * Cardinality(mismatched))

\* computeLineage; relineage maps the index of a step that differs from the one
\* before it to the fields that changed.
ComputeLineage(steps, expected) ==
    LET Changed(i) == ChangedFields(steps[i - 1], steps[i])
        relineage == [i \in {j \in 2 .. Len(steps) : Changed(j) # {}} |-> Changed(i)]
        mismatched == Mismatched(steps, expected)
        roots == [i \in DOMAIN steps |-> StepRoot(steps[i])]
    IN  [step_count |-> Len(steps), per_step_roots |-> roots,
         identity_root |-> MerkleRoot(roots), relineage |-> relineage,
         mismatched_steps |-> mismatched,
         identity_flicker_bp |-> Flicker(relineage, mismatched),
         stable |-> DOMAIN relineage = {} /\ mismatched = {}]

SignMir(steps, expected) ==
    LET found == ComputeLineage(steps, expected)
        base == [expected_model |-> expected, identity_root |-> found.identity_root,
                 identity_flicker_bp |-> found.identity_flicker_bp,
                 stable |-> found.stable, lineage_digest |-> Canonicalize(found)]
    IN  Seal([base |-> base, lineage |-> found], base, base.lineage_digest)

\* What verifyMir checks without the steps.
LineageHolds(env) ==
    LET l == env.lineage
    IN  /\ l.per_step_roots # <<>>
        /\ MerkleRoot(l.per_step_roots) = l.identity_root
        /\ l.identity_root = env.base.identity_root
        /\ Flicker(l.relineage, l.mismatched_steps) = l.identity_flicker_bp
        /\ l.identity_flicker_bp = env.base.identity_flicker_bp
        /\ (DOMAIN l.relineage = {} /\ l.mismatched_steps = {}) = l.stable
        /\ l.stable = env.base.stable
        /\ Canonicalize(l) = env.base.lineage_digest
        /\ SealHolds(env, env.base, env.base.lineage_digest)

\* (Slip: only the steps the verifier has are compared.)
VerifyMirUncounted(env, steps) ==
    /\ LineageHolds(env)
    /\ \A i \in DOMAIN steps \cap DOMAIN env.lineage.per_step_roots :
          StepRoot(steps[i]) = env.lineage.per_step_roots[i]

\* verifyMir; an empty list of steps is compared with nothing.
VerifyMir(env, steps) ==
    /\ LineageHolds(env)
    /\ steps # <<>> =>
          env.lineage.per_step_roots = [i \in DOMAIN steps |-> StepRoot(steps[i])]

--------------------------------------------------------------------------------
(* gitm.js                                                                     *)

GlitchTypes == {"grounding_anomaly", "identity_flicker", "chain_irregularity",
                "cross_run_divergence", "under_attested_high_stakes"}

\* normalizeSignals: a signal that is missing is 0.
NormalizeSignals(given) ==
    [g \in GlitchTypes |-> IF g \in DOMAIN given THEN Clamp(given[g]) ELSE 0]

TriggerBp(asked) == IF asked = Undefined THEN 2000 ELSE asked

\* (Slip: a signal must exceed the trigger, as the comment at gitm.js:118 has it.)
ActiveAbove(signals, trigger) == {g \in GlitchTypes : signals[g] > trigger}

\* A signal that meets the trigger is active.
Active(signals, trigger) == {g \in GlitchTypes : signals[g] >= trigger}

\* The mean of the active signals, rounded.
Severity(signals, active) ==
    LET n == Cardinality(active)
        sum == FoldSet(LAMBDA g, s : s + signals[g], 0, active)
    IN  IF n = 0 THEN 0 ELSE (2 * sum + n) \div (2 * n)

RecommendedReruns(severity) ==
    IF severity >= 8000 THEN 5 ELSE IF severity >= 6000 THEN 4 ELSE 3

ComputeGitm(signals, trigger) ==
    LET active == Active(signals, trigger)
        severity == Severity(signals, active)
    IN  [triggered |-> active # {}, glitch_types |-> active, severity_bp |-> severity,
         trigger_bp |-> trigger, signals |-> signals,
         reruns |-> IF active = {} THEN 0 ELSE RecommendedReruns(severity)]

SignGitm(given, trigger) ==
    LET decision == ComputeGitm(NormalizeSignals(given), TriggerBp(trigger))
        base == [triggered |-> decision.triggered, severity_bp |-> decision.severity_bp,
                 decision_digest |-> Canonicalize(decision)]
    IN  Seal([base |-> base, decision |-> decision], base, base.decision_digest)

VerifyGitm(env) ==
    /\ env.decision = ComputeGitm(env.decision.signals, env.decision.trigger_bp)
    /\ env.base.severity_bp = env.decision.severity_bp
    /\ env.base.triggered = env.decision.triggered
    /\ env.base.decision_digest = Canonicalize(env.decision)
    /\ SealHolds(env, env.base, env.base.decision_digest)

--------------------------------------------------------------------------------

ServeStep ==
    /\ lineage = <<>>
    /\ Len(session) < MaxServed
    /\ \E step \in Served : session' = Append(session, step)
    /\ UNCHANGED <<lineage, sealedOf, flag, flagAsked>>

SealLineage ==
    /\ lineage = <<>>
    /\ \E steps \in {session} \cup {RemoveAt(session, i) : i \in DOMAIN session},
          expected \in ExpectedAsked :
          /\ steps # <<>>
          /\ sealedOf' = [steps |-> steps, expected |-> expected]
          /\ lineage' = SignMir(steps, expected)
    /\ UNCHANGED <<session, flag, flagAsked>>

\* The receipt as it was sealed, or with a lower score or an event taken out.
LineagesHanded ==
    {lineage}
    \cup {[lineage EXCEPT !.base.identity_flicker_bp = bp,
                          !.lineage.identity_flicker_bp = bp] : bp \in {0, 2000, 2500}}
    \cup {[lineage EXCEPT !.lineage.relineage = [j \in DOMAIN @ \ {i} |-> @[j]],
                          !.lineage.identity_flicker_bp = 0,
                          !.base.identity_flicker_bp = 0] : i \in DOMAIN lineage.lineage.relineage}

WithFlicker(given, bp) ==
    [g \in DOMAIN given \cup {"identity_flicker"} |->
        IF g = "identity_flicker" THEN bp ELSE given[g]]

\* POST /sigr/gitm with a MiR receipt: it must verify, and its score takes the place
\* of what the caller says.  Signals that are not under "signals" are dropped when
\* there is a receipt (server.js:683).
CrossCheckLineage ==
    /\ lineage # <<>>
    /\ flag = <<>>
    /\ \E f \in FlagAsked, env \in LineagesHanded :
          /\ VerifyMir(env, <<>>)
          /\ flagAsked' = [given |-> f.given, place |-> f.place,
                           trigger_bp |-> f.trigger_bp, with_lineage |-> TRUE]
          /\ flag' = SignGitm(
                WithFlicker(IF f.place = "signals" THEN f.given ELSE <<>>,
                            env.base.identity_flicker_bp), f.trigger_bp)
    /\ UNCHANGED <<session, lineage, sealedOf>>

\* POST /sigr/gitm without one.
CrossCheck ==
    /\ lineage # <<>>
    /\ flag = <<>>
    /\ \E f \in FlagAsked :
          /\ f.place = "flat" =>
                DOMAIN f.given \cap {"grounding_anomaly", "cross_run_divergence"} # {}
          /\ flagAsked' = [given |-> f.given, place |-> f.place,
                           trigger_bp |-> f.trigger_bp, with_lineage |-> FALSE]
          /\ flag' = SignGitm(f.given, f.trigger_bp)
    /\ UNCHANGED <<session, lineage, sealedOf>>

MonitorsNext == ServeStep \/ SealLineage \/ CrossCheckLineage \/ CrossCheck

MonitorsSpec == MonitorsInit /\ [][MonitorsNext]_monitorsVars

--------------------------------------------------------------------------------

\* "A cheaper model swapped in behind the API" (mir.js:14) is not hidden, however
\* short the swap and whatever the other signals say: a flag raised with the session's
\* lineage names identity_flicker and asks for at least 3 runs as soon as any two
\* steps were served by different models or one by another than expected, at the
\* default trigger and below.  One stable model never raises it, whatever its
\* endpoints, unless the trigger is 0.
SwapRaisesTheFlag ==
    flag # <<>> /\ flagAsked.with_lineage =>
        LET swapped ==
                \/ \E i, j \in DOMAIN sealedOf.steps :
                      ChangedFields(sealedOf.steps[i], sealedOf.steps[j]) # {}
                \/ sealedOf.expected # Undefined
                   /\ \E i \in DOMAIN sealedOf.steps :
                         sealedOf.steps[i].model_id # sealedOf.expected
            trigger == TriggerBp(flagAsked.trigger_bp)
        IN  /\ swapped /\ trigger <= 2000 =>
                  "identity_flicker" \in flag.decision.glitch_types /\ flag.decision.reruns >= 3
            /\ ~ swapped /\ trigger > 0 =>
                  "identity_flicker" \notin flag.decision.glitch_types

\* Who compares a lineage with the steps he was served learns whether it is theirs:
\* it verifies exactly when no step was left out, and then it says of them what they
\* were; a step left out next to an equal one is noticed too.  Every flag verifies,
\* and says of each signal it was asked with under "signals", or without a lineage,
\* whether it met the trigger.
FindingsAreOfTheSession ==
    /\ lineage # <<>> =>
          /\ VerifyMir(lineage, session) <=> sealedOf.steps = session
          /\ VerifyMir(lineage, session) =>
                lineage.lineage.stable
                    <=> /\ \A i \in DOMAIN session : ChangedFields(session[i], session[1]) = {}
                        /\ sealedOf.expected \in {Undefined, session[1].model_id}
    /\ flag # <<>> =>
          /\ VerifyGitm(flag)
          /\ \A g \in (GlitchTypes \cap DOMAIN flagAsked.given) \ {"identity_flicker"} :
                ~ flagAsked.with_lineage \/ flagAsked.place = "signals" =>
                    (g \in flag.decision.glitch_types
                        <=> Clamp(flagAsked.given[g]) >= TriggerBp(flagAsked.trigger_bp))
================================================================================
