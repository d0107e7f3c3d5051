------------------------------- MODULE Upstream -------------------------------
(***************************************************************************)
(* upstream.js: the envelope that the seven pre-effect primitives share.   *)
(*                                                                         *)
(* Hashes are injective, so a digest is the tuple of what was hashed,      *)
(* tagged with its suite, and a signature is the key with the exact        *)
(* content it covers.  The leaves of payload_root carry distinct field     *)
(* names, so the Merkle tree over them is injective too.  The constant     *)
(* fields of the format (version, sig_alg) and the tests of their presence *)
(* are left out; tenant_id travels like run_id and no check reads it.      *)
(***************************************************************************)
EXTENDS Integers

CONSTANTS
    ReceiptType,    \* the receipt types in use
    Ttl,            \* DEFAULT_TTL, in ticks of the clock
    Leeway          \* how early a receipt may be seen (5 s in the code)

ASSUME UpstreamAssumption ==
    /\ Ttl \in [ReceiptType -> Nat]
    /\ Leeway \in Nat

PayloadRoot(payload, suite) == <<suite, payload>>

\* envelopeToSign: every field of the envelope but sig.
EnvelopeToSign(env) ==
    [receipt_type |-> env.receipt_type, receipt_id |-> env.receipt_id,
     run_id |-> env.run_id, issued_at |-> env.issued_at,
     expires_at |-> env.expires_at, payload_root |-> env.payload_root,
     payload |-> env.payload]

\* (Slip: expires_at is the freshness, not the time it ends.)
SignRelativeExpiry(type, payload, id, run, key, suite, now) ==
    LET body == [receipt_type |-> type, receipt_id |-> id, run_id |-> run,
                 issued_at |-> now, expires_at |-> Ttl[type],
                 payload_root |-> PayloadRoot(payload, suite),
                 payload |-> payload]
    IN  [receipt_type |-> type, receipt_id |-> id, run_id |-> run,
         issued_at |-> now, expires_at |-> Ttl[type],
         payload_root |-> PayloadRoot(payload, suite),
         payload |-> payload,
         sig |-> [key |-> key, over |-> body]]

\* signUpstreamReceipt with the freshness of the type, as every HTTP route
\* calls it.  The suite shows only in payload_root: no field names it.
SignUpstreamReceipt(type, payload, id, run, key, suite, now) ==
    LET body == [receipt_type |-> type, receipt_id |-> id, run_id |-> run,
                 issued_at |-> now, expires_at |-> now + Ttl[type],
                 payload_root |-> PayloadRoot(payload, suite),
                 payload |-> payload]
    IN  [receipt_type |-> type, receipt_id |-> id, run_id |-> run,
         issued_at |-> now, expires_at |-> now + Ttl[type],
         payload_root |-> PayloadRoot(payload, suite),
         payload |-> payload,
         sig |-> [key |-> key, over |-> body]]

Verdict ==
    {"ok", "type_mismatch", "payload_root_mismatch", "bad_signature",
     "not_yet_valid", "expired"}

\* (Slip: the end of the freshness is not looked at.)
VerifyWithoutExpiry(env, type, key, suite, now, allow_expired) ==
    IF env.receipt_type # type THEN "type_mismatch"
    ELSE IF PayloadRoot(env.payload, suite) # env.payload_root
    THEN "payload_root_mismatch"
    ELSE IF env.sig # [key |-> key, over |-> EnvelopeToSign(env)]
    THEN "bad_signature"
    ELSE IF allow_expired \/ now >= env.issued_at - Leeway THEN "ok"
    ELSE "not_yet_valid"

\* verifyUpstreamReceipt: the first check that fails names the reason.
VerifyUpstreamReceipt(env, type, key, suite, now, allow_expired) ==
    IF env.receipt_type # type THEN "type_mismatch"
    ELSE IF PayloadRoot(env.payload, suite) # env.payload_root
    THEN "payload_root_mismatch"
    ELSE IF env.sig # [key |-> key, over |-> EnvelopeToSign(env)]
    THEN "bad_signature"
    ELSE IF allow_expired THEN "ok"
    ELSE IF now < env.issued_at - Leeway THEN "not_yet_valid"
    ELSE IF now > env.expires_at THEN "expired"
    ELSE "ok"

\* gateOnReceipts: the refusals of a sequence of [type, receipt] pairs.
GateRefusals(required, key, suite, now, allow_expired) ==
    {i \in DOMAIN required :
        VerifyUpstreamReceipt(required[i].receipt, required[i].type,
                              key, suite, now, allow_expired) # "ok"}

GateOnReceipts(required, key, suite, now, allow_expired) ==
    GateRefusals(required, key, suite, now, allow_expired) = {}
================================================================================
