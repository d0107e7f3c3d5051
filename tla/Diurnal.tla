------------------------------- MODULE Diurnal -------------------------------
(***************************************************************************)
(* diurnal.js: k attestors out of a set must countersign an action in a    *)
(* regime; k comes from the risk manifold.                                 *)
(*                                                                         *)
(* A manifold is a function from [regime, action_class] to k that need not *)
(* be defined everywhere.  Its digest is the manifold itself.  Regions,    *)
(* timestamps the caller supplies and total_n are left out: nothing reads  *)
(* them.                                                                   *)
(***************************************************************************)
EXTENDS Upstream, FiniteSets

\* computeRequiredK: a row or a class the manifold does not have requires 1.
ComputeRequiredK(manifold, regime, class) ==
    IF <<regime, class>> \in DOMAIN manifold THEN manifold[<<regime, class>>] ELSE 1

SignDiurnalRegime(regime, class, manifold, kids, id, run, key, suite, now) ==
    SignUpstreamReceipt("diurnal.regime",
        [regime |-> regime, action_class |-> class, risk_manifold_digest |-> manifold,
         required_k |-> ComputeRequiredK(manifold, regime, class),
         attestor_kid_set |-> kids],
        id, run, key, suite, now)

SignDiurnalAttestation(regime_ref, kid, class, run, key, suite, now) ==
    SignUpstreamReceipt("diurnal.attestation",
        [regime_ref |-> regime_ref, attestor_kid |-> kid, action_class |-> class],
        0, run, key, suite, now)

\* The attestors that verifyDiurnalThresholdSatisfied counts.  Receipts that do
\* not verify, name another regime receipt or an unlisted attestor are skipped.
DistinctAttestors(regime, attestations, key, now, allow_expired) ==
    {a.payload.attestor_kid : a \in
        {a \in attestations :
            /\ VerifyUpstreamReceipt(a, "diurnal.attestation", key, "sha-256",
                                     now, allow_expired) = "ok"
            /\ a.payload.regime_ref = regime.receipt_id
            /\ a.payload.attestor_kid \in regime.payload.attestor_kid_set}}

\* (Slip: receipts are counted, not attestors.)
ThresholdCountsReceipts(regime, attestations, key, now, allow_expired) ==
    /\ VerifyUpstreamReceipt(regime, "diurnal.regime", key, "sha-256",
                             now, allow_expired) = "ok"
    /\ Cardinality({a \in attestations :
            /\ VerifyUpstreamReceipt(a, "diurnal.attestation", key, "sha-256",
                                     now, allow_expired) = "ok"
            /\ a.payload.regime_ref = regime.receipt_id})
          >= regime.payload.required_k

VerifyDiurnalThresholdSatisfied(regime, attestations, key, now, allow_expired) ==
    /\ VerifyUpstreamReceipt(regime, "diurnal.regime", key, "sha-256",
                             now, allow_expired) = "ok"
    /\ Cardinality(DistinctAttestors(regime, attestations, key, now, allow_expired))
          >= regime.payload.required_k
================================================================================
