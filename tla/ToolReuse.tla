------------------------------ MODULE ToolReuse ------------------------------
(***************************************************************************)
(* toolreuse.js: the result of a deterministic tool call is proven once    *)
(* and reused for every later call with the same tool and the same inputs. *)
(*                                                                         *)
(* The caller of resolveToolCall owns the index of anchors and the set of  *)
(* revocations.  Agents report what their calls returned, and two calls    *)
(* with one identity may return different results.  An anchor may be       *)
(* damaged where it is kept.  One hash suite is used, and the digests of   *)
(* inputs and results stand for them.                                      *)
(***************************************************************************)
EXTENDS Integers, Sequences

CONSTANTS
    ToolId, Digest, Holder,
    NameDigest,     \* the digest of {tool_id}, which stands in for a tool_hash
    ReuseCall,      \* the calls agents make
    ColdUs, ChainUs,    \* the costs a savings proof is made of
    NoDigest,
    MaxLog          \* bound on the log

Calls == [tool_id : ToolId, tool_hash : Digest \cup {NoDigest}, input_hash : Digest,
          result_digest : Digest, deterministic : BOOLEAN, holder : Holder]

ASSUME ReuseAssumption ==
    /\ NameDigest \in [ToolId -> Digest]
    /\ ReuseCall \subseteq Calls
    /\ ColdUs \in Int /\ ChainUs \in Int
    /\ NoDigest \notin Digest
    /\ MaxLog \in Nat

VARIABLES
    anchorIndex,    \* the anchor kept for an identity, NoDigest when there is none
    revokedIds,     \* the identities revoked
    reuseLog        \* what happened, in order

reuseVars == <<anchorIndex, revokedIds, reuseLog>>

--------------------------------------------------------------------------------

\* toolCallIdentity: the name of the tool does not count when there is a hash.
ToolCallIdentity(call) ==
    <<IF call.tool_hash = NoDigest THEN NameDigest[call.tool_id] ELSE call.tool_hash,
      call.input_hash>>

Identities == Digest \X Digest

AnchorBase == [identity_key : Identities, result_digest : Digest, holder : Holder]

Anchors == [base : AnchorBase, signature : AnchorBase]

\* mintToolAnchor of a deterministic call.
MintToolAnchor(call) ==
    LET base == [identity_key |-> ToolCallIdentity(call),
                 result_digest |-> call.result_digest, holder |-> call.holder]
    IN  [base |-> base, signature |-> base]

VerifyToolAnchor(anchor) == anchor.signature = anchor.base

SavedUs == IF ColdUs > ChainUs THEN ColdUs - ChainUs ELSE 0

\* (Slip: the result is not compared again.)
MayChainAnyResult(call) ==
    /\ anchorIndex[ToolCallIdentity(call)] # NoDigest
    /\ ToolCallIdentity(call) \notin revokedIds
    /\ VerifyToolAnchor(anchorIndex[ToolCallIdentity(call)])

\* The conditions under which resolveToolCall reuses an anchor.
MayChain(call) ==
    /\ anchorIndex[ToolCallIdentity(call)] # NoDigest
    /\ ToolCallIdentity(call) \notin revokedIds
    /\ VerifyToolAnchor(anchorIndex[ToolCallIdentity(call)])
    /\ call.result_digest = anchorIndex[ToolCallIdentity(call)].base.result_digest

Event(outcome, id, result, holder, saved) ==
    [outcome |-> outcome, identity_key |-> id, result_digest |-> result,
     holder |-> holder, saved_us |-> saved]

--------------------------------------------------------------------------------

ReuseInit ==
    /\ anchorIndex = [id \in Identities |-> NoDigest]
    /\ revokedIds = {}
    /\ reuseLog = <<>>

\* A call of a tool that is not declared deterministic leaves no trace.
ResolveNondeterministic(call) ==
    /\ ~ call.deterministic
    /\ reuseLog' = Append(reuseLog,
            Event("cold_nondeterministic", ToolCallIdentity(call),
                  call.result_digest, call.holder, 0))
    /\ UNCHANGED <<anchorIndex, revokedIds>>

\* The savings proof names the holder of the anchor.
Chain(call) ==
    /\ call.deterministic
    /\ MayChain(call)
    /\ reuseLog' = Append(reuseLog,
            Event("chain", ToolCallIdentity(call), call.result_digest,
                  anchorIndex[ToolCallIdentity(call)].base.holder, SavedUs))
    /\ UNCHANGED <<anchorIndex, revokedIds>>

\* Miss, revocation, damage or another result: the anchor is made anew and kept,
\* whatever was kept before; a revocation stays.
ColdMint(call) ==
    /\ call.deterministic
    /\ ~ MayChain(call)
    /\ anchorIndex' = [anchorIndex EXCEPT ![ToolCallIdentity(call)] = MintToolAnchor(call)]
    /\ reuseLog' = Append(reuseLog,
            Event("cold_mint", ToolCallIdentity(call), call.result_digest, call.holder, 0))
    /\ UNCHANGED revokedIds

ResolveToolCall(call) == ResolveNondeterministic(call) \/ Chain(call) \/ ColdMint(call)

Revoke(id) ==
    /\ revokedIds' = revokedIds \cup {id}
    /\ reuseLog' = Append(reuseLog, Event("revoked", id, NoDigest, NoDigest, 0))
    /\ UNCHANGED anchorIndex

\* What is kept changes under its signature.
Damage(id) ==
    /\ anchorIndex[id] # NoDigest
    /\ \E base \in {MintToolAnchor(call).base : call \in ReuseCall} :
          anchorIndex' = [anchorIndex EXCEPT ![id].base = base]
    /\ UNCHANGED <<revokedIds, reuseLog>>

UsedIds == {ToolCallIdentity(call) : call \in ReuseCall}

ReuseNext ==
    /\ Len(reuseLog) < MaxLog
    /\ \/ \E call \in ReuseCall : ResolveToolCall(call)
       \/ \E id \in UsedIds : Revoke(id) \/ Damage(id)

ReuseSpec == ReuseInit /\ [][ReuseNext]_reuseVars

--------------------------------------------------------------------------------

Of(n, outcome, id) == reuseLog[n].outcome = outcome /\ reuseLog[n].identity_key = id

\* "Identical, never similar" (toolreuse.js:17), over time: a result that is reused
\* was proven by an earlier call with this identity that returned this very result,
\* no later call with the identity has been proven since, its holder is the one the
\* savings are credited to, and the identity had never been revoked.
ReuseIsOfTheLatestProof ==
    \A n \in DOMAIN reuseLog : reuseLog[n].outcome = "chain" =>
        LET id == reuseLog[n].identity_key
        IN  /\ \A m \in 1 .. n - 1 : ~ Of(m, "revoked", id)
            /\ \E m \in 1 .. n - 1 :
                  /\ Of(m, "cold_mint", id)
                  /\ reuseLog[m].result_digest = reuseLog[n].result_digest
                  /\ reuseLog[m].holder = reuseLog[n].holder
                  /\ \A k \in m + 1 .. n - 1 : ~ Of(k, "cold_mint", id)
================================================================================
