---------------------------- MODULE GatewayProofs ----------------------------
(***************************************************************************)
(* Theorems about Gateway, for any runs, attestors, risk manifold, keys    *)
(* and freshness, without the bounds TLC needs.                            *)
(*                                                                         *)
(* A receipt is judged once, when a call is answered; the invariant keeps  *)
(* of that judgement what later steps cannot take back: the receipt was    *)
(* signed, its type, and that it expires no sooner than the call began.    *)
(***************************************************************************)
EXTENDS Gateway, TLAPS

\* A regime receipt requires what the manifold says and lists the attestors.
RegimesFollowManifold ==
    \A g \in OfType("diurnal.regime") :
        /\ g.payload.required_k =
              Manifold[<<g.payload.regime, g.payload.action_class>>]
        /\ g.payload.attestor_kid_set = Kid

\* What an allow leaves behind.
GateWitness ==
    call # Idle =>
        /\ call.drift \in OfType("howler.drift")
        /\ call.regime \in OfType("diurnal.regime")
        /\ call.drift.run_id = call.regime.run_id
        /\ call.since <= call.drift.expires_at

\* What a satisfied threshold leaves behind.
Countersigned(kid) ==
    \E a \in OfType("diurnal.attestation") :
        /\ a.payload.attestor_kid = kid
        /\ a.payload.regime_ref = call.regime.receipt_id
        /\ call.since <= a.expires_at

QuorumWitness ==
    call.phase = "bonded" =>
        \E K \in SUBSET Kid :
            /\ Cardinality(K) >= call.regime.payload.required_k
            /\ \A kid \in K : Countersigned(kid)

IInv == TypeOK /\ RegimesFollowManifold /\ GateWitness /\ QuorumWitness

--------------------------------------------------------------------------------

\* A receipt that verifies as fresh has the type asked for and has not expired.
LEMMA VerifiedIsFresh ==
    ASSUME NEW e, NEW type, NEW k, NEW s, NEW t,
           VerifyUpstreamReceipt(e, type, k, s, t, FALSE) = "ok",
           t \in Int, e.expires_at \in Int
    PROVE  e.receipt_type = type /\ t <= e.expires_at
<1>1. e.receipt_type = type
  BY DEF VerifyUpstreamReceipt
<1>2. ~(t > e.expires_at)
  BY DEF VerifyUpstreamReceipt
<1> QED
  BY <1>1, <1>2

\* What signing puts in a receipt.
LEMMA SignedReceipt ==
    ASSUME NEW type, NEW payload, NEW id, NEW r, NEW k, NEW s, NEW t
    PROVE  LET e == SignUpstreamReceipt(type, payload, id, r, k, s, t)
           IN  /\ e.receipt_type = type
               /\ e.run_id = r
               /\ e.issued_at = t
               /\ e.expires_at = t + Ttl[type]
               /\ e.payload = payload
BY DEF SignUpstreamReceipt

\* The part of the type invariant that speaks of one receipt.
Receipt(e) ==
    /\ e.receipt_type \in ReceiptType
    /\ e.run_id \in Run
    /\ e.issued_at \in Nat
    /\ e.issued_at <= now
    /\ e.expires_at = e.issued_at + Ttl[e.receipt_type]

\* Signing a receipt that is right keeps the invariant.
LEMMA SignPreserves ==
    ASSUME IInv, NEW e, Receipt(e), Sign(e),
           e.receipt_type = "diurnal.regime" =>
              /\ e.payload.required_k =
                    Manifold[<<e.payload.regime, e.payload.action_class>>]
              /\ e.payload.attestor_kid_set = Kid
    PROVE  IInv'
<1>1. issued' = issued \cup {e} /\ now' = now /\ key' = key /\ call' = call
  BY DEF Sign
<1>2. TypeOK'
  BY <1>1 DEF IInv, TypeOK, Receipt, Idle
<1>3. RegimesFollowManifold'
  BY <1>1 DEF IInv, RegimesFollowManifold, OfType
<1>4. GateWitness'
  BY <1>1 DEF IInv, GateWitness, OfType, Idle
<1>5. QuorumWitness'
  BY <1>1 DEF IInv, QuorumWitness, Countersigned, OfType
<1> QED
  BY <1>2, <1>3, <1>4, <1>5 DEF IInv

LEMMA Initially == Init => IInv
BY DEF Init, IInv, TypeOK, RegimesFollowManifold, GateWitness, QuorumWitness,
       OfType, Idle

LEMMA GateAllowsPreserves ==
    ASSUME IInv, NEW d \in issued, NEW g \in issued, GateAllows(d, g)
    PROVE  IInv'
<1> DEFINE required == <<[type |-> "howler.drift", receipt |-> d],
                         [type |-> "diurnal.regime", receipt |-> g]>>
<1>1. /\ d.run_id = g.run_id
      /\ GateRefusals(required, key, "sha-256", now, FALSE) = {}
      /\ call' = [phase |-> "gated", since |-> now, drift |-> d, regime |-> g]
      /\ now' = now /\ key' = key /\ issued' = issued
  BY DEF GateAllows, GateOnReceipts
<1>2. /\ VerifyUpstreamReceipt(d, "howler.drift", key, "sha-256", now, FALSE) = "ok"
      /\ VerifyUpstreamReceipt(g, "diurnal.regime", key, "sha-256", now, FALSE) = "ok"
  <2>1. DOMAIN required = {1, 2} /\ required[1].receipt = d /\ required[2].receipt = g
        /\ required[1].type = "howler.drift" /\ required[2].type = "diurnal.regime"
    OBVIOUS
  <2> HIDE DEF required
  <2> QED
    BY <1>1, <2>1 DEF GateRefusals
<1>3. now \in Int /\ d.expires_at \in Int /\ g.expires_at \in Int
  BY UpstreamAssumption DEF IInv, TypeOK
<1>4. /\ d.receipt_type = "howler.drift"
      /\ g.receipt_type = "diurnal.regime"
      /\ now <= d.expires_at
  BY <1>2, <1>3, VerifiedIsFresh, Zenon
<1>5. TypeOK'
  BY <1>1, <1>3 DEF IInv, TypeOK
<1>6. RegimesFollowManifold'
  BY <1>1 DEF IInv, RegimesFollowManifold, OfType
<1>7. GateWitness'
  BY <1>1, <1>4 DEF GateWitness, OfType
<1>8. QuorumWitness'
  BY <1>1 DEF QuorumWitness
<1> QED
  BY <1>5, <1>6, <1>7, <1>8 DEF IInv

LEMMA ThresholdMetPreserves ==
    ASSUME IInv, NEW A \in SUBSET OfType("diurnal.attestation"), ThresholdMet(A)
    PROVE  IInv'
<1> DEFINE K == DistinctAttestors(call.regime, A, key, now, FALSE)
<1>1. /\ call.phase = "gated"
      /\ Cardinality(K) >= call.regime.payload.required_k
      /\ call' = [call EXCEPT !.phase = "bonded"]
      /\ now' = now /\ key' = key /\ issued' = issued
  BY DEF ThresholdMet, VerifyDiurnalThresholdSatisfied
<1>2. /\ call # Idle
      /\ call \in [phase : {"gated", "bonded"}, since : 0 .. now,
                   drift : issued, regime : issued]
  BY <1>1 DEF IInv, TypeOK, Idle
<1>3. /\ call' \in [phase : {"gated", "bonded"}, since : 0 .. now,
                    drift : issued, regime : issued]
      /\ call'.since = call.since
      /\ call'.drift = call.drift
      /\ call'.regime = call.regime
  BY <1>1, <1>2
<1>4. TypeOK'
  BY <1>1, <1>3 DEF IInv, TypeOK
<1>5. RegimesFollowManifold'
  BY <1>1 DEF IInv, RegimesFollowManifold, OfType
<1>6. GateWitness'
  BY <1>1, <1>2, <1>3 DEF IInv, GateWitness, OfType
<1>7. QuorumWitness'
  <2>1. K \subseteq Kid
    BY <1>2 DEF IInv, GateWitness, RegimesFollowManifold, DistinctAttestors
  <2>2. ASSUME NEW kid \in K PROVE Countersigned(kid)
    <3>1. PICK a \in A :
             /\ VerifyUpstreamReceipt(a, "diurnal.attestation", key, "sha-256",
                                      now, FALSE) = "ok"
             /\ a.payload.regime_ref = call.regime.receipt_id
             /\ a.payload.attestor_kid = kid
      BY <2>2 DEF DistinctAttestors
    <3>2. a \in issued /\ a.receipt_type = "diurnal.attestation"
      BY DEF OfType
    <3>3. now \in Int /\ a.expires_at \in Int /\ call.since \in 0 .. now
      BY <1>2, <3>2, UpstreamAssumption DEF IInv, TypeOK
    <3>4. now <= a.expires_at
      BY <3>1, <3>3, VerifiedIsFresh, Zenon
    <3>5. call.since <= a.expires_at
      BY <3>3, <3>4
    <3> QED
      BY <3>1, <3>5 DEF Countersigned
  <2>3. \A kid \in K : Countersigned(kid)'
    BY <2>2, <1>1, <1>3 DEF Countersigned, OfType
  <2> HIDE DEF K
  <2> QED
    BY <1>1, <1>3, <2>1, <2>3 DEF QuorumWitness
<1> QED
  BY <1>4, <1>5, <1>6, <1>7 DEF IInv

LEMMA WatchPreserves ==
    ASSUME IInv, NEW r \in Run, NEW score \in Score, Watch(r, score) PROVE IInv'
<1> DEFINE e == SignHowlerDrift(score, Threshold, r, key, "sha-256", now)
<1>1. /\ e.receipt_type = "howler.drift" /\ e.run_id = r
      /\ e.issued_at = now /\ e.expires_at = now + Ttl["howler.drift"]
  BY SignedReceipt DEF SignHowlerDrift
<1>2. Sign(e)
  BY DEF Watch
<1> HIDE DEF e
<1>3. Receipt(e)
  BY <1>1, GatewayAssumption DEF Receipt, IInv, TypeOK
<1> QED
  BY <1>1, <1>2, <1>3, SignPreserves

LEMMA DeclarePreserves ==
    ASSUME IInv, NEW r \in Run, NEW regime \in Regime, NEW class \in Class,
           Declare(r, regime, class)
    PROVE  IInv'
<1> DEFINE id == 1 + Cardinality(OfType("diurnal.regime"))
           e == SignDiurnalRegime(regime, class, Manifold, Kid, id, r, key,
                                  "sha-256", now)
           p == [regime |-> regime, action_class |-> class,
                 risk_manifold_digest |-> Manifold,
                 required_k |-> ComputeRequiredK(Manifold, regime, class),
                 attestor_kid_set |-> Kid]
<1>1. /\ e.receipt_type = "diurnal.regime" /\ e.run_id = r /\ e.payload = p
      /\ e.issued_at = now /\ e.expires_at = now + Ttl["diurnal.regime"]
  BY SignedReceipt DEF SignDiurnalRegime
<1>2. Sign(e)
  BY DEF Declare
<1>3. ComputeRequiredK(Manifold, regime, class) = Manifold[<<regime, class>>]
  BY GatewayAssumption DEF ComputeRequiredK
<1>4. /\ p.required_k = Manifold[<<p.regime, p.action_class>>]
      /\ p.attestor_kid_set = Kid
  BY <1>3
<1> HIDE DEF e, p
<1>5. Receipt(e)
  BY <1>1, GatewayAssumption DEF Receipt, IInv, TypeOK
<1> QED
  BY <1>1, <1>2, <1>4, <1>5, SignPreserves

LEMMA CountersignPreserves ==
    ASSUME IInv, NEW kid \in Kid, NEW g \in OfType("diurnal.regime"),
           Countersign(kid, g)
    PROVE  IInv'
<1> DEFINE e == SignDiurnalAttestation(g.receipt_id, kid, g.payload.action_class,
                                       g.run_id, key, "sha-256", now)
<1>1. /\ e.receipt_type = "diurnal.attestation" /\ e.run_id = g.run_id
      /\ e.issued_at = now /\ e.expires_at = now + Ttl["diurnal.attestation"]
  BY SignedReceipt DEF SignDiurnalAttestation
<1>2. Sign(e)
  BY DEF Countersign
<1>3. g.run_id \in Run
  BY DEF OfType, IInv, TypeOK
<1> HIDE DEF e
<1>4. Receipt(e)
  BY <1>1, <1>3, GatewayAssumption DEF Receipt, IInv, TypeOK
<1> QED
  BY <1>1, <1>2, <1>4, SignPreserves

\* Time, a new key and the end of a call take nothing back.
LEMMA TickPreserves == IInv /\ Tick => IInv'
<1> SUFFICES ASSUME IInv, Tick PROVE IInv'
  OBVIOUS
<1>1. now' = now + 1 /\ key' = key /\ issued' = issued /\ call' = call
  BY DEF Tick
<1>2. TypeOK'
  <2>1. now \in Nat /\ now' \in Nat /\ now <= now'
    BY <1>1 DEF IInv, TypeOK
  <2>2. \A e \in issued : e.issued_at \in Nat /\ e.issued_at <= now'
    BY <1>1, <2>1 DEF IInv, TypeOK
  <2>3. 0 .. now \subseteq 0 .. now'
    BY <2>1
  <2>4. \/ call = Idle
        \/ call \in [phase : {"gated", "bonded"}, since : 0 .. now',
                     drift : issued, regime : issued]
    BY <2>3 DEF IInv, TypeOK
  <2> QED
    BY <1>1, <2>1, <2>2, <2>4 DEF IInv, TypeOK, Idle
<1>3. RegimesFollowManifold' /\ GateWitness' /\ QuorumWitness'
  BY <1>1 DEF IInv, RegimesFollowManifold, GateWitness, QuorumWitness,
              Countersigned, OfType, Idle
<1> QED
  BY <1>2, <1>3 DEF IInv

LEMMA RekeyPreserves == IInv /\ Rekey => IInv'
BY DEF Rekey, IInv, TypeOK, RegimesFollowManifold, GateWitness, QuorumWitness,
       Countersigned, OfType, Idle

LEMMA CallEndPreserves == IInv /\ (Land \/ GiveUp) => IInv'
BY DEF Land, GiveUp, IInv, TypeOK, RegimesFollowManifold, GateWitness,
       QuorumWitness, OfType, Idle

LEMMA StepPreserves == IInv /\ [Next]_vars => IInv'
<1> SUFFICES ASSUME IInv, [Next]_vars PROVE IInv'
  OBVIOUS
<1>1. CASE UNCHANGED vars
  BY <1>1 DEF vars, IInv, TypeOK, RegimesFollowManifold, GateWitness,
              QuorumWitness, Countersigned, OfType, Idle
<1>2. CASE Next
  BY <1>2, TickPreserves, RekeyPreserves, CallEndPreserves, WatchPreserves,
     DeclarePreserves, CountersignPreserves, GateAllowsPreserves,
     ThresholdMetPreserves DEF Next
<1> QED
  BY <1>1, <1>2

LEMMA Invariance == Spec => []IInv
BY Initially, StepPreserves, PTL DEF Spec

--------------------------------------------------------------------------------

\* Every receipt is of a known type, was issued by now and expires as its type
\* says, and a call rests on receipts that were signed.
THEOREM GatewayTypeCorrect == Spec => []TypeOK
<1>1. IInv => TypeOK
  BY DEF IInv
<1> QED
  BY <1>1, Invariance, PTL

\* A drift receipt that passed the gate expired no sooner than the call began,
\* so it is no older than its freshness and the patience of the gateway.
THEOREM SilentMonitorStopsEffects == Spec => []SilentMonitorStops
<1>1. IInv => SilentMonitorStops
  <2> SUFFICES ASSUME IInv, MayLand PROVE SilentMonitorStops
    BY DEF SilentMonitorStops
  <2>1. /\ call # Idle /\ now <= call.since + MaxLatency
    BY DEF MayLand, Idle
  <2>2. /\ call.drift \in OfType("howler.drift")
        /\ call.drift.run_id = call.regime.run_id
        /\ call.since <= call.drift.expires_at
    BY <2>1 DEF IInv, GateWitness
  <2>3. /\ call.drift.issued_at \in Nat
        /\ call.drift.expires_at = call.drift.issued_at + Ttl["howler.drift"]
    BY <2>2 DEF OfType, IInv, TypeOK
  <2>4. /\ now \in Nat /\ call.since \in Nat
        /\ Ttl["howler.drift"] \in Nat /\ MaxLatency \in Nat
    BY <2>1, UpstreamAssumption, GatewayAssumption DEF IInv, TypeOK
  <2>5. Age(call.drift) <= Ttl["howler.drift"] + MaxLatency
    BY <2>1, <2>2, <2>3, <2>4 DEF Age
  <2> QED
    BY <2>2, <2>5 DEF SilentMonitorStops
<1> QED
  BY <1>1, Invariance, PTL

\* Whatever was signed twice, for other regimes or in between the calls, an
\* effect rests on as many different attestors as the manifold asks for, each
\* with a countersignature no older than its freshness and the patience.
THEOREM ThresholdIsLiveAtEffects == Spec => []ThresholdIsLive
<1>1. IInv => ThresholdIsLive
  <2> SUFFICES ASSUME IInv, MayLand PROVE ThresholdIsLive
    BY DEF ThresholdIsLive
  <2>1. /\ call # Idle /\ call.phase = "bonded"
        /\ now <= call.since + MaxLatency
    BY DEF MayLand, Idle
  <2>2. PICK K \in SUBSET Kid :
           /\ Cardinality(K) >= call.regime.payload.required_k
           /\ \A kid \in K : Countersigned(kid)
    BY <2>1 DEF IInv, QuorumWitness
  <2>3. call.regime.payload.required_k =
            Manifold[<<call.regime.payload.regime,
                       call.regime.payload.action_class>>]
    BY <2>1 DEF IInv, GateWitness, RegimesFollowManifold
  <2>4. /\ now \in Nat /\ call.since \in Nat
        /\ Ttl["diurnal.attestation"] \in Nat /\ MaxLatency \in Nat
    BY <2>1, UpstreamAssumption, GatewayAssumption DEF IInv, TypeOK
  <2>5. ASSUME NEW kid \in K
        PROVE  \E a \in OfType("diurnal.attestation") :
                  /\ a.payload.attestor_kid = kid
                  /\ a.payload.regime_ref = call.regime.receipt_id
                  /\ Age(a) <= Ttl["diurnal.attestation"] + MaxLatency
    <3>1. PICK a \in OfType("diurnal.attestation") :
             /\ a.payload.attestor_kid = kid
             /\ a.payload.regime_ref = call.regime.receipt_id
             /\ call.since <= a.expires_at
      BY <2>2 DEF Countersigned
    <3>2. /\ a.issued_at \in Nat
          /\ a.expires_at = a.issued_at + Ttl["diurnal.attestation"]
      BY DEF OfType, IInv, TypeOK
    <3>3. Age(a) <= Ttl["diurnal.attestation"] + MaxLatency
      BY <2>1, <2>4, <3>1, <3>2 DEF Age
    <3> QED
      BY <3>1, <3>3
  <2> QED
    BY <2>2, <2>3, <2>5 DEF ThresholdIsLive
<1> QED
  BY <1>1, Invariance, PTL
================================================================================
