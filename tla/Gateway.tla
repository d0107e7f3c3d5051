------------------------------- MODULE Gateway -------------------------------
(***************************************************************************)
(* The pre-effect gate: what stands between an agent and an effect.        *)
(*                                                                         *)
(* Howler signs drift alarms about a run while it goes on, an operator     *)
(* enters it into a regime, attestors countersign that regime, and before  *)
(* an effect the run's gateway makes two calls: POST /sigr/upstream/gate   *)
(* with the receipts, and POST /sigr/diurnal/regime/verify with the regime *)
(* and its attestations.  Each call is one atomic handler; between the     *)
(* calls, and between the answer and the effect, time passes and receipts  *)
(* are signed.  The gateway itself is not in this repository: it presents  *)
(* receipts of its own run, asks for fresh ones (no allow_expired) and     *)
(* gives up when its calls took longer than MaxLatency.                    *)
(*                                                                         *)
(* The service may come back from a restart with another key (SeedBoot     *)
(* says when); receipts signed before are refused from then on.            *)
(***************************************************************************)
EXTENDS Diurnal, Howler

CONSTANTS
    Run, Kid, Regime, Class,
    Manifold,       \* the risk manifold in force
    Score,          \* drift scores
    Threshold,      \* the threshold that is sent with every score
    Key,            \* signing keys of the service, over its restarts
    MaxLatency,     \* how long a gateway waits for its answers
    MaxClock, MaxReceipts   \* bounds on time and on receipts

ASSUME GatewayAssumption ==
    /\ ReceiptType = {"howler.drift", "diurnal.regime", "diurnal.attestation"}
    /\ Manifold \in [Regime \X Class -> Nat]
    /\ {MaxLatency, MaxClock, MaxReceipts} \subseteq Nat

VARIABLES
    now,        \* the service's clock
    key,        \* the key it signs and verifies with
    issued,     \* every receipt it signed
    call        \* the gateway's calls for one effect

vars == <<now, key, issued, call>>

Idle == [phase |-> "idle"]

Init ==
    /\ now = 0
    /\ key \in Key
    /\ issued = {}
    /\ call = Idle

OfType(type) == {e \in issued : e.receipt_type = type}

Tick ==
    /\ now < MaxClock
    /\ now' = now + 1
    /\ UNCHANGED <<key, issued, call>>

\* The service restarts and finds no seed, or another one.
Rekey ==
    /\ key' \in Key \ {key}
    /\ UNCHANGED <<now, issued, call>>

Sign(e) ==
    /\ Cardinality(issued) < MaxReceipts
    /\ issued' = issued \cup {e}
    /\ UNCHANGED <<now, key, call>>

\* The monitor reports on the run.
Watch(r, score) == Sign(SignHowlerDrift(score, Threshold, r, key, "sha-256", now))

\* The run enters a regime; receipt ids are never used twice.
Declare(r, regime, class) ==
    Sign(SignDiurnalRegime(regime, class, Manifold, Kid,
                           1 + Cardinality(OfType("diurnal.regime")), r, key,
                           "sha-256", now))

\* An attestor countersigns what it was shown.
Countersign(kid, g) ==
    Sign(SignDiurnalAttestation(g.receipt_id, kid, g.payload.action_class,
                                g.run_id, key, "sha-256", now))

\* POST /sigr/upstream/gate, answered "allow".  (A refusal changes nothing.)
GateAllows(d, g) ==
    /\ call = Idle
    /\ d.run_id = g.run_id
    /\ GateOnReceipts(<<[type |-> "howler.drift", receipt |-> d],
                        [type |-> "diurnal.regime", receipt |-> g]>>,
                      key, "sha-256", now, FALSE)
    /\ call' = [phase |-> "gated", since |-> now, drift |-> d, regime |-> g]
    /\ UNCHANGED <<now, key, issued>>

\* POST /sigr/diurnal/regime/verify, answered with the threshold satisfied.
ThresholdMet(attestations) ==
    /\ call.phase = "gated"
    /\ VerifyDiurnalThresholdSatisfied(call.regime, attestations, key, now, FALSE)
    /\ call' = [call EXCEPT !.phase = "bonded"]
    /\ UNCHANGED <<now, key, issued>>

\* Both answers are in, in time: the effect may land now.
MayLand == call.phase = "bonded" /\ now <= call.since + MaxLatency

\* It does ...
Land ==
    /\ MayLand
    /\ call' = Idle
    /\ UNCHANGED <<now, key, issued>>

\* ... or the gateway gives up: too late, or refused.
GiveUp ==
    /\ call # Idle
    /\ call' = Idle
    /\ UNCHANGED <<now, key, issued>>

Next ==
    \/ Tick
    \/ Rekey
    \/ \E r \in Run, score \in Score : Watch(r, score)
    \/ \E r \in Run, regime \in Regime, class \in Class : Declare(r, regime, class)
    \/ \E kid \in Kid, g \in OfType("diurnal.regime") : Countersign(kid, g)
    \/ \E d, g \in issued : GateAllows(d, g)
    \/ \E A \in SUBSET OfType("diurnal.attestation") : ThresholdMet(A)
    \/ Land
    \/ GiveUp

Spec == Init /\ [][Next]_vars

--------------------------------------------------------------------------------

\* Receipts are of a known type and expire when their type says; a call rests
\* on receipts that were signed.
TypeOK ==
    /\ now \in Nat
    /\ key \in Key
    /\ \A e \in issued :
          /\ e.receipt_type \in ReceiptType
          /\ e.run_id \in Run
          /\ e.issued_at \in Nat
          /\ e.issued_at <= now
          /\ e.expires_at = e.issued_at + Ttl[e.receipt_type]
    /\ \/ call = Idle
       \/ call \in [phase : {"gated", "bonded"}, since : 0 .. now,
                   drift : issued, regime : issued]

Age(e) == now - e.issued_at

\* howler.js:43-45: "no fresh valid howler.drift receipt within the declared
\* cadence window -> Carnac Gateway refuses execution."  However the answers
\* are delayed, no effect lands on a run whose monitor went silent for longer
\* than the freshness of its receipts and the gateway's own patience.
SilentMonitorStops ==
    MayLand =>
        \E d \in OfType("howler.drift") :
            /\ d.run_id = call.regime.run_id
            /\ Age(d) <= Ttl["howler.drift"] + MaxLatency

\* diurnal.js:28-30: "at least k distinct attestors have countersigned within
\* the freshness window".  When an effect lands, k attestors, all different,
\* countersigned the very regime it lands in, and did so lately.
ThresholdIsLive ==
    MayLand =>
        \E K \in SUBSET Kid :
            /\ Cardinality(K) >= Manifold[<<call.regime.payload.regime,
                                            call.regime.payload.action_class>>]
            /\ \A kid \in K :
                  \E a \in OfType("diurnal.attestation") :
                      /\ a.payload.attestor_kid = kid
                      /\ a.payload.regime_ref = call.regime.receipt_id
                      /\ Age(a) <= Ttl["diurnal.attestation"] + MaxLatency

\* howler.js:53-55: "a fail-closed downstream gate refuses execution when the
\* applicable alarm receipt set is not fresh, valid, or below threshold".
EffectIsBelowThreshold == MayLand => call.drift.payload.disposition = "continue"
================================================================================
