------------------------------- MODULE Receipts -------------------------------
(***************************************************************************)
(* The receipts that stand for one object: bill.js (a request's cost),     *)
(* bond.js (terms and measurements), manifest.js, cachesign.js, gca.js and *)
(* reward.js, with their routes in server.js.                              *)
(*                                                                         *)
(* A receipt is signed over the object that was sent, travels as JSON, is  *)
(* kept somewhere and may come back with an edit.  Fields that a builder   *)
(* always fills in are left out, but for those a verifier derives again.   *)
(***************************************************************************)
EXTENDS Sealed

CONSTANTS
    Text,               \* names, hashes and blocks
    Optional,           \* what a field holds that may be left out
    Claim,              \* claims as they are sent
    Amount,             \* what a sender may write as a number
    MaxStrength,        \* 10000 basis points in the code
    MaxList, MaxEdits   \* bounds

ASSUME ReceiptsAssumption ==
    /\ Undefined \notin Text
    /\ Optional \subseteq Text \cup {Undefined}
    /\ Amount \subseteq Int
    /\ {MaxStrength, MaxList, MaxEdits} \subseteq Nat \ {0}

VARIABLES
    sealed,     \* the receipt as signed, <<>> before that
    asked,      \* what it was asked for
    held,       \* the receipt as it was received, or as it is kept since
    edits

receiptsVars == <<sealed, asked, held, edits>>

ReceiptsInit ==
    /\ sealed = <<>>
    /\ asked = <<>>
    /\ held = <<>>
    /\ edits = 0

--------------------------------------------------------------------------------
(* bill.js and bond.js: the object is carried, and hashed as it is carried.    *)

LineTotal(m) == m.input_tokens * m.price_input_micro_usd

\* Output and cached tokens are counted as input tokens are.
BuildCostManifest(req) ==
    LET m == [request_id |-> req.request_id, model_id |-> req.model_id,
              input_tokens |-> Int32(req.input_tokens),
              price_input_micro_usd |-> Int32(req.price_input_micro_usd),
              line_total_micro_usd |-> 0]
    IN  [m EXCEPT !.line_total_micro_usd = LineTotal(m)]

BuildBondTerms(terms) ==
    [bond_id |-> terms.bond_id, window_start |-> terms.window_start,
     window_end |-> terms.window_end,
     penalty_micro_usd |-> Int32(terms.penalty_micro_usd)]

BuildMeasurement(m) ==
    [bond_id |-> m.bond_id, request_id |-> m.request_id,
     observed_latency_ms |-> Int32(m.observed_latency_ms)]

SignCarried(object, body) ==
    LET base == [object |-> object]
    IN  Seal([base |-> base, carried |-> body, digest |-> Canonicalize(body)],
             base, Canonicalize(body))

VerifyCarried(e) ==
    /\ Canonicalize(e.carried) = e.digest
    /\ SealHolds(e, e.base, Canonicalize(e.carried))

SignBillReceipt(req) == SignCarried("bill", BuildCostManifest(req))
SignBond(terms) == SignCarried("bond", BuildBondTerms(terms))
SignMeasurement(m) == SignCarried("measurement", BuildMeasurement(m))

VerifyBillReceipt(e) ==
    /\ LineTotal(e.carried) = e.carried.line_total_micro_usd
    /\ VerifyCarried(e)

VerifyBond(e) == VerifyCarried(e)
VerifyMeasurement(e) == VerifyCarried(e)

--------------------------------------------------------------------------------
(* The others list their fields by name and carry a list whose root they sign. *)

SignListed(base, carried, digest) ==
    Seal([base |-> base, carried |-> carried], base, digest)

ManifestRoot(identity) == identity

\* A handle without the prefix is the caller's own.
Nullifier(root) == <<"null_", root>>

SignManifest(m) ==
    LET root == ManifestRoot(m.identity)
    IN  SignListed([identity |-> m.identity, manifest_root |-> root,
                    nullifier |-> IF m.nullifier = Undefined THEN Nullifier(root)
                                  ELSE m.nullifier], <<>>, root)

\* (Slip: the caller's own handles are checked too.)
VerifyManifestAnyHandle(e) ==
    /\ ManifestRoot(e.base.identity) = e.base.manifest_root
    /\ e.base.nullifier = Nullifier(e.base.manifest_root)
    /\ SealHolds(e, e.base, e.base.manifest_root)

VerifyManifest(e) ==
    /\ ManifestRoot(e.base.identity) = e.base.manifest_root
    /\ e.base.nullifier[1] = "null_" =>
           e.base.nullifier = Nullifier(e.base.manifest_root)
    /\ SealHolds(e, e.base, e.base.manifest_root)

\* Blocks are leaves together with their place, so their order counts.
PrefixCommitment(prefix_hash, block_ids, token_span) ==
    MerkleRoot(<<<<"prefix", 0, prefix_hash>>>>
               \o [i \in DOMAIN block_ids |-> <<"block", i, block_ids[i]>>]
               \o IF token_span = Undefined THEN <<>>
                  ELSE <<<<"span", 0, token_span>>>>)

\* null stands for what is not given.
SignCacheEntry(entry) ==
    LET root == PrefixCommitment(entry.prefix_hash, entry.block_ids, entry.token_span)
        base == [prefix_hash |-> entry.prefix_hash, prefix_root |-> root,
                 block_count |-> Len(entry.block_ids),
                 token_span |-> entry.token_span,
                 parent_cache_receipt |-> entry.parent_cache_receipt]
    IN  SignListed(base, [block_ids |-> entry.block_ids],
                   <<root, entry.parent_cache_receipt>>)

VerifyCacheEntry(e) ==
    /\ PrefixCommitment(e.base.prefix_hash, e.carried.block_ids,
                        e.base.token_span) = e.base.prefix_root
    /\ SealHolds(e, e.base, <<e.base.prefix_root, e.base.parent_cache_receipt>>)

\* Whatever strength is sent for it, a claim without support has none.
NormalizeStrength(claim) ==
    LET bp == Int32(claim.strength)
    IN  IF claim.support = Undefined \/ bp < 0 THEN 0
        ELSE IF bp > MaxStrength THEN MaxStrength
        ELSE bp

NormalizeClaim(claim) ==
    [claim_hash |-> claim.claim_hash, support |-> claim.support,
     support_strength_bp |-> NormalizeStrength(claim)]

UnsupportedCount(claims) ==
    Cardinality({i \in DOMAIN claims : claims[i].support = Undefined})

\* Population variance, rounded.
SupportVariance(claims) ==
    LET n == Len(claims)
        strength(i) == claims[i].support_strength_bp
        total == TotalOf([i \in DOMAIN claims |-> strength(i)])
        squares == TotalOf([i \in DOMAIN claims |->
                      (n * strength(i) - total) * (n * strength(i) - total)])
    IN  (2 * squares + n * n * n) \div (2 * n * n * n)

SignGca(gca) ==
    LET claims == [i \in DOMAIN gca.claims |-> NormalizeClaim(gca.claims[i])]
        base == [claim_count |-> Len(claims),
                 unsupported_count |-> UnsupportedCount(claims),
                 support_variance |-> SupportVariance(claims),
                 claims_root |-> MerkleRoot(Sorted(claims))]
    IN  SignListed(base, [claims |-> claims], base.claims_root)

\* (Slip: the claims are not counted.)
VerifyGcaUncounted(e) ==
    LET claims == e.carried.claims
    IN  /\ claims # <<>>
        /\ MerkleRoot(Sorted(claims)) = e.base.claims_root
        /\ UnsupportedCount(claims) = e.base.unsupported_count
        /\ SupportVariance(claims) = e.base.support_variance
        /\ SealHolds(e, e.base, e.base.claims_root)

VerifyGca(e) ==
    LET claims == e.carried.claims
    IN  /\ claims # <<>>
        /\ MerkleRoot(Sorted(claims)) = e.base.claims_root
        /\ Len(claims) = e.base.claim_count
        /\ UnsupportedCount(claims) = e.base.unsupported_count
        /\ SupportVariance(claims) = e.base.support_variance
        /\ SealHolds(e, e.base, e.base.claims_root)

\* A root that is sent is taken as it is, and then no steps are carried.
ResolveTrajectoryRoot(r) ==
    IF r.trajectory_root # Undefined THEN r.trajectory_root
    ELSE MerkleRoot(Sorted(r.step_receipt_digests))

StepsCarried(r) ==
    IF r.trajectory_root # Undefined THEN <<>>
    ELSE [steps |-> Sorted(r.step_receipt_digests)]

SignReward(r) ==
    LET root == ResolveTrajectoryRoot(r)
    IN  SignListed([reward |-> r.reward, trajectory_root |-> root], StepsCarried(r), root)

CarriesSteps(e) == "steps" \in DOMAIN e.carried

VerifyReward(e) ==
    /\ CarriesSteps(e) => MerkleRoot(Sorted(e.carried.steps)) = e.base.trajectory_root
    /\ SealHolds(e, e.base, e.base.trajectory_root)

--------------------------------------------------------------------------------
(* What each route lets through to its sign function.                          *)

Lists(S) == BoundedSeq(S, MaxList)
Fields == {"model_id", "weights_sha3", "config_hash", "endpoint"}

BillRequests ==
    [request_id : Optional, model_id : Optional, input_tokens : Amount,
     price_input_micro_usd : Amount]
BondTerms ==
    [bond_id : Text, window_start : Optional, window_end : Optional,
     penalty_micro_usd : Amount]
Measurements == [bond_id : Text, request_id : Optional, observed_latency_ms : Amount]
Manifests ==
    [identity : [Fields -> Text],
     nullifier : {Undefined} \cup ({"own"} \X Text)
        \cup {Nullifier([f \in Fields |-> x]) : x \in Text}]
CacheEntries ==
    [prefix_hash : Text, block_ids : Lists(Text), token_span : Optional,
     parent_cache_receipt : Optional]
GcaRequests == [claims : Lists(Claim) \ {<<>>}]
\* A reward for steps, or for a root that was made of steps elsewhere.
RewardRequests ==
    {r \in [reward : Amount, step_receipt_digests : Lists(Text),
            trajectory_root :
                {Undefined} \cup {MerkleRoot(list) : list \in Lists(Text) \ {<<>>}}] :
        r.trajectory_root # Undefined \/ r.step_receipt_digests # <<>>}

\* A list and a handle always have a value.
ASSUME ValuesAssumption ==
    /\ Undefined \notin Lists(Text) \cup Lists({NormalizeClaim(claim) : claim \in Claim})
    /\ Undefined \notin {Nullifier(identity) : identity \in [Fields -> Text]}

Product ==
    {"bill", "bond", "measurement", "manifest", "cachesign", "gca", "reward"}

Requests ==
    [bill |-> BillRequests, bond |-> BondTerms, measurement |-> Measurements,
     manifest |-> Manifests, cachesign |-> CacheEntries, gca |-> GcaRequests,
     reward |-> RewardRequests]

SignReceipt(product, request) ==
    CASE product = "bill" -> SignBillReceipt(request)
      [] product = "bond" -> SignBond(request)
      [] product = "measurement" -> SignMeasurement(request)
      [] product = "manifest" -> SignManifest(request)
      [] product = "cachesign" -> SignCacheEntry(request)
      [] product = "gca" -> SignGca(request)
      [] product = "reward" -> SignReward(request)

\* Every receipt the service may have signed.
Signable ==
    [product \in Product |->
        {SignReceipt(product, request) : request \in Requests[product]}]

VerifyReceipt(product, e) ==
    CASE product = "bill" -> VerifyBillReceipt(e)
      [] product = "bond" -> VerifyBond(e)
      [] product = "measurement" -> VerifyMeasurement(e)
      [] product = "manifest" -> VerifyManifest(e)
      [] product = "cachesign" -> VerifyCacheEntry(e)
      [] product = "gca" -> VerifyGca(e)
      [] product = "reward" -> VerifyReward(e)

--------------------------------------------------------------------------------

SignRequest(product) ==
    /\ sealed = <<>>
    /\ \E request \in Requests[product] :
          /\ sealed' = SignReceipt(product, request)
          /\ asked' = [product |-> product, request |-> request]
    /\ UNCHANGED <<held, edits>>

\* The answer arrives.  The fields of base always have a value: null is one.
Receive ==
    /\ sealed # <<>>
    /\ held = <<>>
    /\ held' = [sealed EXCEPT !.carried = Wire(@)]
    /\ UNCHANGED <<sealed, asked, edits>>

SwapAt(s, i, j) == [s EXCEPT ![i] = s[j], ![j] = s[i]]

\* A list with a member lost or repeated, or two of them exchanged.
ListEdits(s) ==
    {RemoveAt(s, i) : i \in DOMAIN s} \cup {Append(s, s[i]) : i \in DOMAIN s}
        \cup {SwapAt(s, i, j) : i, j \in DOMAIN s}

\* One field is replaced by that of another receipt of the same product.  Two of the
\* roots are always derived again from what they stand for.
EditField ==
    \E other \in Signable[asked.product], part \in {"base", "carried"} :
        \E f \in (DOMAIN held[part] \cap DOMAIN other[part])
                    \ {"claims", "steps", "block_ids", "claims_root", "prefix_root"} :
            held' = [held EXCEPT ![part][f] = other[part][f]]

EditList ==
    \E f \in DOMAIN held.carried \cap {"claims", "steps", "block_ids"} :
        \E s \in ListEdits(held.carried[f]) : held' = [held EXCEPT !.carried[f] = s]

\* A reward's steps are exchanged for those another reward carries, or dropped.
EditSteps ==
    /\ asked.product = "reward"
    /\ \E other \in Signable["reward"] :
          held' = [held EXCEPT !.carried = Wire(other.carried)]

Edit ==
    /\ held # <<>>
    /\ edits < MaxEdits
    /\ EditField \/ EditList \/ EditSteps
    /\ edits' = edits + 1
    /\ UNCHANGED <<sealed, asked>>

ReceiptsNext == (\E product \in Product : SignRequest(product)) \/ Receive \/ Edit

ReceiptsSpec == ReceiptsInit /\ [][ReceiptsNext]_receiptsVars

--------------------------------------------------------------------------------

\* The fields a builder copies although the route does not ask for them, and the
\* handles that a manifest's verifier takes for its own.
Verifiable(product, request) ==
    CASE product = "bill" -> Undefined \notin {request.request_id, request.model_id}
      [] product = "bond" -> Undefined \notin {request.window_start, request.window_end}
      [] product = "measurement" -> request.request_id # Undefined
      [] product = "manifest" ->
             request.nullifier \notin
                 {Nullifier(i) : i \in [Fields -> Text] \ {request.identity}}
      [] OTHER -> TRUE

\* upstream.js:71-81 tells of receipts that are refused although nobody touched
\* them, because a field that was left out is hashed and does not travel.  The
\* products of typed.js' discipline have the same fault, and only it and the
\* reserved handles: whoever sends what a builder copies can verify what he gets.
ReceiptsSurviveTheWire ==
    held # <<>> /\ edits = 0 =>
        (VerifyReceipt(asked.product, held)
            <=> Verifiable(asked.product, asked.request))

\* A receipt that verifies says what was signed: an edit, or two that make up for
\* each other, are found.  The claims of a GCA receipt may come in another order.
\* The steps of a reward need not be carried at all (reward.js:144), so their loss is
\* not found, and they are not counted; but those that are carried are the ones its
\* root was made of, wherever it was made.
EditsAreNoticed ==
    held # <<>> /\ VerifyReceipt(asked.product, held) =>
        /\ held.base = sealed.base
        /\ CASE asked.product = "gca" ->
                    ToBag(held.carried.claims) = ToBag(sealed.carried.claims)
             [] asked.product = "reward" ->
                    CarriesSteps(held) =>
                        \A steps \in Lists(Text) :
                            MerkleRoot(Sorted(steps)) = sealed.base.trajectory_root
                                => ToSet(held.carried.steps) = ToSet(steps)
             [] OTHER -> held.carried = sealed.carried
================================================================================
