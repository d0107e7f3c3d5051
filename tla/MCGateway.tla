------------------------------ MODULE MCGateway ------------------------------
(* Gateway for TLC: freshness in ticks, and the part of DEFAULT_RISK_MANIFOLD *)
(* that the chosen regimes and action classes select.                         *)
EXTENDS Gateway, TLC

CONSTANTS DriftTtl, RegimeTtl, AttestationTtl

GatewayTypes == {"howler.drift", "diurnal.regime", "diurnal.attestation"}

GatewayTtl ==
    "howler.drift" :> DriftTtl @@ "diurnal.regime" :> RegimeTtl
        @@ "diurnal.attestation" :> AttestationTtl

DefaultRiskManifold ==
    <<"business_hours", "tool_call">> :> 1 @@ <<"after_hours", "tool_call">> :> 2

ChosenManifold == [x \in Regime \X Class |-> DefaultRiskManifold[x]]

Symmetry == Permutations(Kid)
================================================================================
