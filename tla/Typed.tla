-------------------------------- MODULE Typed --------------------------------
(***************************************************************************)
(* typed.js with POST /sign, /sign-qpuf and /verify: a text in fragments,  *)
(* of which those of the chosen types are attested.                        *)
(*                                                                         *)
(* The caller gets an envelope and the canonical fragments.  Both reach a  *)
(* verifier: the fragments in any order, one of them maybe missing, twice  *)
(* or with another text; the envelope as it is, or with another temporal   *)
(* proof, mode, suite, or another fragment marked as attested (these marks *)
(* are not signed: typed.js:204).                                          *)
(***************************************************************************)
EXTENDS Sealed

CONSTANTS
    Item,               \* fragments a caller may send
    SignTypesAsked,     \* sets of types he may ask for
    Suite, Time,        \* hash suites; temporal proofs
    MaxItems            \* bound

FragmentTypes == {"reasoning", "tool_call", "retrieval", "final", "system", "decomposition"}

ASSUME TypedAssumption ==
    /\ \A it \in Item : it.sounds_like \in FragmentTypes
    /\ MaxItems \in Nat

VARIABLES
    typed,      \* the envelope, <<>> before it is signed
    canon,      \* the canonical fragments that go with it
    brought     \* what the verifier is brought: envelope and fragments

typedVars == <<typed, canon, brought>>

TypedInit ==
    /\ typed = <<>>
    /\ canon = <<>>
    /\ brought = <<>>

--------------------------------------------------------------------------------

\* classifyFragment; sounds_like is what its patterns make of the text.
ClassifyFragment(it) == IF it.type \in FragmentTypes THEN it.type ELSE it.sounds_like

\* buildFragments: a fragment without an id is named after its place.
BuildFragments(items) ==
    [i \in DOMAIN items |->
        [fragment_id |-> IF items[i].id = Undefined THEN i ELSE items[i].id,
         fragment_type |-> ClassifyFragment(items[i]),
         text_hash |-> items[i].text, index |-> i]]

DefaultSignTypes == {"reasoning", "tool_call", "final", "decomposition"}

\* What the routes make of sign_types: an empty list asks for the default, a list of
\* unknown types for nothing.
SignTypes(asked) == IF asked = {} THEN DefaultSignTypes ELSE asked \cap FragmentTypes

\* linearRoot or merkleRoot; that of two digests is the hash of one after the other in
\* either.
AggRoot(mode, suite, digests) ==
    LET as == IF Len(digests) = 2 THEN "linear" ELSE mode
    IN  [suite |-> suite, mode |-> as,
         of |-> IF as = "merkle" THEN MerkleRoot(digests) ELSE digests]

\* The payload: base, root, policy and, when there is one, the temporal proof.
TypedPayload(suite, root, policy, temporal) ==
    <<suite, root, policy, IF temporal = Undefined THEN <<>> ELSE <<suite, temporal>>>>

Attested(fragments, ids) ==
    Kept(fragments, {i \in DOMAIN fragments : fragments[i].fragment_id \in ids})

OfTypes(fragments, types) ==
    Kept(fragments, {i \in DOMAIN fragments : fragments[i].fragment_type \in types})

SignTyped(fragments, types, mode, suite, temporal) ==
    LET digests == Sorted(OfTypes(fragments, types))
        root == AggRoot(mode, suite, digests)
        policy == <<suite, types>>
    IN  [hash_suite |-> suite, agg_mode |-> mode, agg_root |-> root,
         policy_digest |-> policy, temporal |-> temporal,
         fragments |-> [i \in DOMAIN fragments |->
            [fragment_id |-> fragments[i].fragment_id,
             attested |-> fragments[i].fragment_type \in types]],
         signature |-> TypedPayload(suite, root, policy, temporal)]

AttestedIds(env) ==
    {env.fragments[i].fragment_id : i \in {j \in DOMAIN env.fragments : env.fragments[j].attested}}

\* (Slip: the digests are taken in the order they come in.)
VerifyTypedUnsorted(env, fragments) ==
    LET digests == Attested(fragments, AttestedIds(env))
        root == AggRoot(env.agg_mode, env.hash_suite, digests)
    IN  /\ root = env.agg_root
        /\ env.signature = TypedPayload(env.hash_suite, root, env.policy_digest, env.temporal)

\* verifyTyped: which fragments are attested is read from the envelope, by their ids.
VerifyTyped(env, fragments) ==
    LET digests == Sorted(Attested(fragments, AttestedIds(env)))
        root == AggRoot(env.agg_mode, env.hash_suite, digests)
    IN  /\ root = env.agg_root
        /\ env.signature = TypedPayload(env.hash_suite, root, env.policy_digest, env.temporal)

--------------------------------------------------------------------------------

\* POST /sign and POST /sign-qpuf; only the latter takes a suite and a temporal proof.
SignText ==
    /\ typed = <<>>
    /\ \E items \in BoundedSeq(Item, MaxItems), asked \in SignTypesAsked,
          mode \in {"linear", "merkle"}, suite \in Suite, temporal \in Time \cup {Undefined} :
          /\ items # <<>>
          /\ canon' = BuildFragments(items)
          /\ typed' = SignTyped(BuildFragments(items), SignTypes(asked), mode, suite, temporal)
    /\ UNCHANGED brought

EnvelopesBrought ==
    {typed}
    \cup {[typed EXCEPT !.temporal = t] : t \in Time \cup {Undefined}}
    \cup {[typed EXCEPT !.agg_mode = m] : m \in {"linear", "merkle"}}
    \cup {[typed EXCEPT !.hash_suite = s] : s \in Suite}
    \cup {[typed EXCEPT !.fragments[i].attested = ~ @] : i \in DOMAIN typed.fragments}

FragmentsBrought ==
    {[i \in DOMAIN canon |-> canon[p[i]]] : p \in [DOMAIN canon -> DOMAIN canon]}
    \cup {RemoveAt(canon, i) : i \in DOMAIN canon}
    \cup {Append(canon, canon[i]) : i \in DOMAIN canon}
    \cup {[canon EXCEPT ![i].text_hash = it.text] : i \in DOMAIN canon, it \in Item}

BringTyped ==
    /\ typed # <<>>
    /\ brought = <<>>
    /\ \/ \E fragments \in FragmentsBrought :
             brought' = [envelope |-> typed, fragments |-> fragments]
       \/ \E env \in EnvelopesBrought : brought' = [envelope |-> env, fragments |-> canon]
    /\ UNCHANGED <<typed, canon>>

TypedNext == SignText \/ BringTyped

TypedSpec == TypedInit /\ [][TypedNext]_typedVars

--------------------------------------------------------------------------------

IsAttested(f) == f.fragment_type \in typed.policy_digest[2]

\* A verifier who accepts has every attested fragment as it was signed, under the
\* temporal proof it was signed with, and in linear mode each exactly once (in merkle
\* mode the last one may come twice).  And he does accept what was signed, whatever
\* the order: except where a fragment that is not attested has the id of one that is.
\* Such a receipt nobody can verify, although the service has just signed it
\* (typed.js:256 looks for ids, typed.js:151 for types).
TypedVerdictIsRight ==
    brought # <<>> =>
        LET had == Attested(brought.fragments, AttestedIds(brought.envelope))
            signed == OfTypes(canon, typed.policy_digest[2])
            ids == {f.fragment_id : f \in ToSet(signed)}
        IN  /\ VerifyTyped(brought.envelope, brought.fragments) =>
                  /\ ToSet(had) = ToSet(signed)
                  /\ typed.agg_mode = "linear" => ToBag(had) = ToBag(signed)
                  /\ brought.envelope.temporal = typed.temporal
            /\ brought.envelope = typed /\ ToBag(brought.fragments) = ToBag(canon) =>
                  (VerifyTyped(typed, brought.fragments)
                      <=> \A f \in ToSet(canon) : f.fragment_id \in ids => IsAttested(f))
================================================================================
