------------------------------ MODULE AgenticRun ------------------------------
(***************************************************************************)
(* toolscope.js and agentic.js: a run whose actions are gated by scopes.   *)
(*                                                                         *)
(* Scopes are issued one after the other, a later one maybe with the id of *)
(* an earlier one.  A run is gated against the scopes that come with it,   *)
(* its actions are folded into the outputs of their steps, and it is       *)
(* sealed as a chain.  The actions travel beside the chain, unsigned.  A   *)
(* verifier gates them again, against the scopes he is given.              *)
(***************************************************************************)
EXTENDS ReceiptDag

CONSTANTS
    Tool, ToolHash,
    ReadLike,           \* the tools whose names begin like a read
    ScopeAsked,         \* scopes that are asked for
    AgentStep,          \* steps with what they say of their action
    NumberId,           \* the ids that are sent as numbers, not as strings
    NoHash,
    MaxScopes, MaxAgentSteps    \* bounds

ASSUME AgenticAssumption ==
    /\ ReadLike \subseteq Tool
    /\ NoHash \notin Tool \cup ToolHash
    /\ Undefined \notin Tool \cup ToolHash \cup {NoHash} /\ Undefined \notin BOOLEAN
    /\ Undefined \notin {"rise", "sink", "float"}
    /\ \A scope \in ScopeAsked : /\ IsFiniteSet(DOMAIN scope.tools) /\ DOMAIN scope.tools \subseteq Tool
                               /\ scope.tools \in [DOMAIN scope.tools -> ToolHash]
    /\ \A step \in AgentStep : /\ step.step_id \in Nat /\ step.seq \in Nat
                              /\ IsFiniteSet(step.parents)
                              /\ Wire(step.listed) = step.listed
    /\ MaxScopes \in Nat /\ MaxAgentSteps \in Nat

VARIABLES
    scopes,         \* the scope receipts issued, in order
    sent, given,    \* the run that was sent and the scopes sent with it
    agentic,        \* the receipt, <<>> before the run is sealed
    presented       \* what the verifier is given: the receipt and the scopes

agenticVars == <<scopes, sent, given, agentic, presented>>

AgenticInit ==
    /\ scopes = <<>>
    /\ sent = <<>>
    /\ given = <<>>
    /\ agentic = <<>>
    /\ presented = <<>>

--------------------------------------------------------------------------------
(* toolscope.js.  A scope's tools are a function from their ids to hashes.     *)

\* computeScopeRoot and the tool records it is made of.
ScopeRoot(tools) ==
    MerkleRoot(Sorted(SetToSeq({<<t, tools[t]>> : t \in DOMAIN tools})))

CanScope(scope) ==
    DOMAIN scope.tools # {} /\ scope.destructive_tools \subseteq DOMAIN scope.tools

SignToolScope(scope) ==
    LET base == [scope_id |-> scope.scope_id,
                 tool_count |-> Cardinality(DOMAIN scope.tools),
                 destructive_tools |-> scope.destructive_tools,
                 scope_root |-> ScopeRoot(scope.tools)]
    IN  Seal([base |-> base, tools |-> scope.tools], base, base.scope_root)

VerifyToolScope(env) ==
    /\ Cardinality(DOMAIN env.tools) = env.base.tool_count
    /\ ScopeRoot(env.tools) = env.base.scope_root
    /\ env.base.destructive_tools \subseteq DOMAIN env.tools
    /\ SealHolds(env, env.base, env.base.scope_root)

ScopeAllows(env, tool, hash) ==
    tool \in DOMAIN env.tools /\ (hash = NoHash \/ hash = env.tools[tool])

IsDestructive(env, tool) == tool \in env.base.destructive_tools

--------------------------------------------------------------------------------
(* agentic.js                                                                  *)

ArscTier(tool, destructive) ==
    CASE destructive -> "rise"
      [] ~ destructive /\ tool \in ReadLike -> "sink"
      [] OTHER -> "float"

CanResolve(envs) == \A i \in DOMAIN envs : VerifyToolScope(envs[i])

HasScope(envs, id) == \E i \in DOMAIN envs : envs[i].base.scope_id = id

\* resolveScopes: byId.set, so the last scope with an id is kept.
ScopeOf(envs, id) ==
    envs[CHOOSE i \in DOMAIN envs : envs[i].base.scope_id = id
            /\ \A j \in DOMAIN envs : envs[j].base.scope_id = id => j <= i]

IsAction(step) ==
    step.kind = "tool_call" /\ (step.action # Undefined \/ step.tool_target # Undefined)

\* (Slip: the scope is found and not asked.)
GateWithoutAsking(step, envs) == IsAction(step) => HasScope(envs, step.scope_ref)

\* gateAndAnnotate throws when a step fails this.
Gate(step, envs) ==
    IsAction(step) =>
        /\ step.scope_ref # Undefined
        /\ HasScope(envs, step.scope_ref)
        /\ ScopeAllows(ScopeOf(envs, step.scope_ref), step.action, step.tool_hash)

ActionMeta(step, envs) ==
    LET destructive == IsDestructive(ScopeOf(envs, step.scope_ref), step.action)
    IN  [action |-> step.action, tool_target |-> step.tool_target,
         tool_hash |-> step.tool_hash, scope_ref |-> step.scope_ref,
         destructive |-> destructive, arsc_tier |-> ArscTier(step.action, destructive)]

\* A step's output with the action that is folded into it.  That of a step which is no
\* action passes as it was sent, and may have an action of its sender's making.
OutputOf(step, envs) ==
    [output |-> step.output,
     agentic_action |-> IF IsAction(step) THEN ActionMeta(step, envs) ELSE step.listed]

\* recomputeIoDigest
IoDigest(input, output) ==
    [input_digest |-> input, output_digest |-> Canonicalize(output)]

\* buildStepCommit: a digest that comes with a step is taken for its own.
SealedInput(step) == IF step.input_digest # Undefined THEN step.input_digest ELSE step.input

SealedOutput(step, envs) ==
    IF step.output_digest # Undefined THEN step.output_digest
    ELSE Canonicalize(OutputOf(step, envs))

Annotate(step, envs) ==
    [step_id |-> step.step_id, seq |-> step.seq, parents |-> step.parents,
     io |-> IoDigest(SealedInput(step), SealedOutput(step, envs))]

Annotated(list, envs) == [i \in DOMAIN list |-> Annotate(list[i], envs)]

CanSealAgentic(list, envs) ==
    /\ CanResolve(envs)
    /\ \A i \in DOMAIN list : Gate(list[i], envs)
    /\ Sealable(Annotated(list, envs))

\* Whatever has an action in its output is listed, gated or not.
IsListed(step) == IsAction(step) \/ step.listed # <<>>

\* The sidecar holds the last action with a step's id.
Sidecar(list, envs) ==
    LET acts == Kept(list, {i \in DOMAIN list : IsListed(list[i])})
    IN  [id \in Ids(acts) |->
            LET output == OutputOf(ById(acts, id), envs)
            IN  [meta |-> output.agentic_action, input |-> ById(acts, id).input,
                 output |-> output]]

WithActions(chain, actions) ==
    [base |-> chain.base, steps |-> chain.steps, payload_digest |-> chain.payload_digest,
     envelope_signature |-> chain.envelope_signature, agentic_actions |-> actions]

SignAgenticRun(list, envs) ==
    WithActions(SignChain(Annotated(list, envs)), Sidecar(list, envs))

\* The record an entry of the sidecar is bound to: the last one with the id.  The keys
\* of an object are strings, so a step whose id is a number is not found.
Bound(e, id, entry) ==
    /\ id \in Ids(Records(e)) \ NumberId
    /\ ById(Records(e), id).io_digest = IoDigest(entry.input, entry.output)
    /\ entry.output.agentic_action = entry.meta

Regated(meta, envs) ==
    /\ HasScope(envs, meta.scope_ref)
    /\ ScopeAllows(ScopeOf(envs, meta.scope_ref), meta.action, meta.tool_hash)

SaysDestructive(meta, envs) ==
    IsDestructive(ScopeOf(envs, meta.scope_ref), meta.action) = meta.destructive

\* (Slip: a tool that has become destructive is let through.)
VerifyIgnoringDestructive(e, envs) ==
    /\ VerifyChain(e)
    /\ CanResolve(envs)
    /\ \A id \in DOMAIN e.agentic_actions :
          /\ Bound(e, id, e.agentic_actions[id])
          /\ Regated(e.agentic_actions[id].meta, envs)

\* verifyAgenticRun: only what the sidecar holds is gated again.
VerifyAgenticRun(e, envs) ==
    /\ VerifyChain(e)
    /\ CanResolve(envs)
    /\ \A id \in DOMAIN e.agentic_actions :
          LET entry == e.agentic_actions[id]
          IN  /\ Bound(e, id, entry)
              /\ Regated(entry.meta, envs)
              /\ SaysDestructive(entry.meta, envs)

--------------------------------------------------------------------------------

IssueScope ==
    /\ Len(scopes) < MaxScopes
    /\ \E scope \in ScopeAsked :
          /\ CanScope(scope)
          /\ scopes' = Append(scopes, SignToolScope(scope))
    /\ UNCHANGED <<sent, given, agentic, presented>>

\* Scopes come in any order, some of them not at all.
Bundles == {[i \in 1 .. n |-> scopes[f[i]]] :
                n \in 0 .. Len(scopes), f \in Bijection(DOMAIN scopes, DOMAIN scopes)}

SealAgenticRun ==
    /\ agentic = <<>>
    /\ \E list \in BoundedSeq(AgentStep, MaxAgentSteps), envs \in Bundles :
          /\ list # <<>>
          /\ CanSealAgentic(list, envs)
          /\ sent' = list
          /\ given' = envs
          /\ agentic' = SignAgenticRun(list, envs)
    /\ UNCHANGED <<scopes, presented>>

\* The receipt as it arrives: fields without a value are gone.
ArrivedOutput(output) ==
    [output |-> output.output, agentic_action |-> Wire(output.agentic_action)]

ArrivedEntry(entry) ==
    [meta |-> Wire(entry.meta), input |-> entry.input, output |-> ArrivedOutput(entry.output)]

Arrived ==
    [agentic EXCEPT !.agentic_actions = [id \in DOMAIN @ |-> ArrivedEntry(@[id])]]

\* One tool more, or another hash for a tool.
Granted(tools, t, h) == [x \in DOMAIN tools \cup {t} |-> IF x = t THEN h ELSE tools[x]]

\* Another tool where an entry is gated by it, or in both places where it has it.
Renamed(entry, t) ==
    {[entry EXCEPT !.meta.action = t],
     [entry EXCEPT !.meta.action = t, !.output.agentic_action.action = t]}

WithEntry(acts, id, entry) ==
    [x \in DOMAIN acts \cup {id} |-> IF x = id THEN entry ELSE acts[x]]

\* A verifier is given the receipt, or one whose sidecar misses an action, has another
\* tool in one, or has one under another step's id too; and any scopes, or one that
\* grants more than it did.
Present ==
    /\ agentic # <<>>
    /\ presented = <<>>
    /\ \E envs \in Bundles :
          \/ presented' = [receipt |-> Arrived, scopes |-> envs]
          \/ \E i \in DOMAIN envs, t \in Tool, h \in ToolHash :
                presented' = [receipt |-> Arrived,
                              scopes |-> [envs EXCEPT ![i].tools = Granted(@, t, h)]]
          \/ \E id \in DOMAIN Arrived.agentic_actions :
                \/ presented' = [scopes |-> envs, receipt |->
                        [Arrived EXCEPT !.agentic_actions =
                            [x \in DOMAIN @ \ {id} |-> @[x]]]]
                \/ \E t \in Tool : \E entry \in Renamed(Arrived.agentic_actions[id], t) :
                      presented' = [scopes |-> envs, receipt |->
                        [Arrived EXCEPT !.agentic_actions = WithEntry(@, id, entry)]]
                \/ \E other \in Ids(sent) :
                      presented' = [scopes |-> envs, receipt |->
                        [Arrived EXCEPT !.agentic_actions = WithEntry(@, other, @[id])]]
    /\ UNCHANGED <<scopes, sent, given, agentic>>

AgenticNext == IssueScope \/ SealAgenticRun \/ Present

AgenticSpec == AgenticInit /\ [][AgenticNext]_agenticVars

--------------------------------------------------------------------------------

\* An accepted run did only what it was allowed to do when it was sealed and is
\* allowed to do by the scopes the verifier holds, although these may have been
\* narrowed since and an action may have become destructive.  This is about the
\* actions listed beside the run, and steps whose id is not used twice: nothing
\* misses an entry (agentic.js:198).  An action is listed as it was sealed, but it
\* need not have been gated then: a step that is no action may say it did one, and
\* the digest that comes with a step may be of another output than the one gated.
\* Such an action is only in the scopes the verifier holds.
AcceptedActionsAreInScope ==
    presented # <<>> /\ VerifyAgenticRun(presented.receipt, presented.scopes)
            /\ DistinctIds(sent) =>
        \A id \in DOMAIN presented.receipt.agentic_actions :
            LET step == ById(sent, id)
                meta == presented.receipt.agentic_actions[id].meta
                then == ScopeOf(given, meta.scope_ref)
                now_ == ScopeOf(presented.scopes, meta.scope_ref)
            IN  /\ id \in Ids(sent)
                /\ meta = SealedOutput(step, given).agentic_action
                /\ now_ \in ToSet(scopes)
                /\ meta.action \in DOMAIN now_.tools
                /\ meta.tool_hash \in {NoHash, now_.tools[meta.action]}
                /\ IsAction(step) /\ step.output_digest = Undefined =>
                      /\ then \in ToSet(scopes)
                      /\ meta.action = step.action /\ step.action \in DOMAIN then.tools
                      /\ (step.action \in then.base.destructive_tools)
                             <=> (step.action \in now_.base.destructive_tools)

\* An entry that fits the record of its step when it arrives.
Confirmable(step, envs) ==
    /\ step.step_id \notin NumberId
    /\ step.input_digest \in {Undefined, step.input}
    /\ IF step.output_digest = Undefined
       THEN IsAction(step) => step.tool_target # Undefined
       ELSE step.output_digest = ArrivedOutput(OutputOf(step, envs))
    /\ ~ IsAction(step) =>
           Regated(step.listed, envs) /\ SaysDestructive(step.listed, envs)

\* upstream.js:71-81 again.  A run nobody touched is confirmed by the scopes it was
\* sealed with exactly when every listed action comes with a string for its step's id
\* (agentic.js:154,182), says its target, which is hashed with the output and does not
\* travel if it is left out, and has no digest of its own or one that is of what
\* arrives: the verifier hashes that and never asks for a digest (agentic.js:46-52).  An
\* action its sender made up must be one the scopes allow.
ActionsSurviveTheWire ==
    agentic # <<>> /\ DistinctIds(sent) =>
        (VerifyAgenticRun(Arrived, given)
            <=> \A i \in DOMAIN sent : IsListed(sent[i]) => Confirmable(sent[i], given))
================================================================================
