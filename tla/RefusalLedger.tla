---------------------------- MODULE RefusalLedger ----------------------------
(***************************************************************************)
(* refusal.js: the mutation history of a refusal policy.                   *)
(*                                                                         *)
(* The service keeps no ledger.  It signs the mutation it is sent over the *)
(* history it is sent, and tells whether a mutation receipt fits a history *)
(* it is sent.  Operators change one policy in a store of their own and    *)
(* then ask for a receipt over the receipts they hold: they may be several *)
(* at once, an answer may be lost and the request repeated or given up,    *)
(* and they copy longer logs from each other.  Auditors are shown receipts *)
(* in any order and keep those that fit what they kept before.             *)
(*                                                                         *)
(* Policy states are their own digests.  authorization_ref travels like    *)
(* operator_kid and policy_id like run_id; they are left out.              *)
(***************************************************************************)
EXTENDS Upstream, Sequences, FiniteSets

CONSTANTS
    Operator, Auditor,
    Policy,             \* states of the refusal policy
    NoRequest,
    ServiceKey,
    MaxClock, MaxVersion, MaxFault, MaxReceipts     \* bounds

ASSUME RefusalAssumption ==
    /\ ReceiptType = {"refusal.mutation"}
    /\ {MaxClock, MaxVersion, MaxFault, MaxReceipts} \subseteq Nat

VARIABLES
    now,        \* the service's clock
    store,      \* the policy in force and how often it was changed
    pending,    \* the change each operator has no receipt for, or NoRequest
    log,        \* the receipts each operator holds
    signed,     \* every receipt the service signed
    history,    \* the receipts each auditor accepted
    faults      \* answers lost, requests given up and auditors set back

vars == <<now, store, pending, log, signed, history, faults>>

Init ==
    /\ now = 0
    /\ \E s \in Policy : store = [version |-> 0, state |-> s]
    /\ pending = [o \in Operator |-> NoRequest]
    /\ log = [o \in Operator |-> <<>>]
    /\ signed = {}
    /\ history = [a \in Auditor |-> <<>>]
    /\ faults = 0

--------------------------------------------------------------------------------

Leaf(m) == [seq |-> m.ledger_seq, prior |-> m.prior_policy_digest,
            next |-> m.new_policy_digest, op |-> m.operator_kid]

\* (Slip: the accumulator is not hashed in.)
RootOfLast(mutations) == <<Leaf(mutations[Len(mutations)])>>

\* inclusionRoot: leaves are hashed onto an accumulator of zeros one by one,
\* so the root is as good as their sequence.
InclusionRoot(mutations) == [i \in DOMAIN mutations |-> Leaf(mutations[i])]

Payloads(receipts) == [i \in DOMAIN receipts |-> receipts[i].payload]

Mutation(o, req) ==
    [ledger_seq |-> req.ledger_seq, operator_kid |-> o,
     prior_policy_digest |-> req.prior_state, new_policy_digest |-> req.new_state]

\* (Slip: the root covers the history before the mutation.)
SignRootOfPrior(o, req, prior_mutations) ==
    LET m == Mutation(o, req)
    IN  SignUpstreamReceipt("refusal.mutation",
            [ledger_seq |-> m.ledger_seq, operator_kid |-> m.operator_kid,
             prior_policy_digest |-> m.prior_policy_digest,
             new_policy_digest |-> m.new_policy_digest,
             inclusion_root |-> InclusionRoot(prior_mutations)],
            0, 0, ServiceKey, "sha-256", now)

\* signPolicyMutation: neither the number nor the prior state is compared with
\* the history; the number must be at least 1.
SignPolicyMutation(o, req, prior_mutations) ==
    LET m == Mutation(o, req)
    IN  SignUpstreamReceipt("refusal.mutation",
            [ledger_seq |-> m.ledger_seq, operator_kid |-> m.operator_kid,
             prior_policy_digest |-> m.prior_policy_digest,
             new_policy_digest |-> m.new_policy_digest,
             inclusion_root |-> InclusionRoot(Append(prior_mutations, m))],
            0, 0, ServiceKey, "sha-256", now)

\* (Slip: the mutation itself is not put at the end of the history.)
VerifyAgainstPrior(e, prior_mutations) ==
    LET base == VerifyUpstreamReceipt(e, "refusal.mutation", ServiceKey,
                                      "sha-256", now, FALSE)
    IN  IF base # "ok" THEN base
        ELSE IF InclusionRoot(prior_mutations) # e.payload.inclusion_root
        THEN "inclusion_root_mismatch"
        ELSE "ok"

\* The verify route, with prior_mutations: the receipt must be fresh.
VerifyPolicyMutationInHistory(e, prior_mutations) ==
    LET base == VerifyUpstreamReceipt(e, "refusal.mutation", ServiceKey,
                                      "sha-256", now, FALSE)
    IN  IF base # "ok" THEN base
        ELSE IF InclusionRoot(Append(prior_mutations, e.payload))
                  # e.payload.inclusion_root
        THEN "inclusion_root_mismatch"
        ELSE "ok"

--------------------------------------------------------------------------------

Tick ==
    /\ now < MaxClock
    /\ now' = now + 1
    /\ UNCHANGED <<store, pending, log, signed, history, faults>>

\* An operator changes the policy; a receipt is yet to be had.
Change(o, s) ==
    /\ pending[o] = NoRequest
    /\ s # store.state
    /\ store.version < MaxVersion
    /\ store' = [version |-> store.version + 1, state |-> s]
    /\ pending' = [pending EXCEPT ![o] =
           [ledger_seq |-> store.version + 1,
            prior_state |-> store.state, new_state |-> s]]
    /\ UNCHANGED <<now, log, signed, history, faults>>

Sign(o) ==
    /\ pending[o] # NoRequest
    /\ pending[o].ledger_seq >= 1
    /\ Cardinality(signed) < MaxReceipts
    /\ signed' = signed \cup {SignPolicyMutation(o, pending[o], Payloads(log[o]))}

\* The sign route answers with the receipt.
Submit(o) ==
    /\ Sign(o)
    /\ log' = [log EXCEPT ![o] =
           Append(@, SignPolicyMutation(o, pending[o], Payloads(@)))]
    /\ pending' = [pending EXCEPT ![o] = NoRequest]
    /\ UNCHANGED <<now, store, history, faults>>

\* The answer is lost; the operator may ask again.
SubmitUnanswered(o) ==
    /\ Sign(o)
    /\ faults < MaxFault
    /\ faults' = faults + 1
    /\ UNCHANGED <<now, store, pending, log, history>>

\* The operator goes on without a receipt for its change.
GiveUp(o) ==
    /\ pending[o] # NoRequest
    /\ faults < MaxFault
    /\ pending' = [pending EXCEPT ![o] = NoRequest]
    /\ faults' = faults + 1
    /\ UNCHANGED <<now, store, log, signed, history>>

\* An operator takes over the log of one who has more.
Fetch(o, other) ==
    /\ Len(log[other]) > Len(log[o])
    /\ log' = [log EXCEPT ![o] = log[other]]
    /\ UNCHANGED <<now, store, pending, signed, history, faults>>

\* An auditor asks the verify route whether a receipt fits its history.
Audit(a, e) ==
    /\ VerifyPolicyMutationInHistory(e, Payloads(history[a])) = "ok"
    /\ history' = [history EXCEPT ![a] = Append(@, e)]
    /\ UNCHANGED <<now, store, pending, log, signed, faults>>

\* An auditor comes back with an earlier state of its history.
SetBack(a) ==
    /\ faults < MaxFault
    /\ \E n \in 0 .. Len(history[a]) - 1 :
          history' = [history EXCEPT ![a] = SubSeq(@, 1, n)]
    /\ faults' = faults + 1
    /\ UNCHANGED <<now, store, pending, log, signed>>

Next ==
    \/ Tick
    \/ \E o \in Operator :
          \/ \E s \in Policy : Change(o, s)
          \/ Submit(o)
          \/ SubmitUnanswered(o)
          \/ GiveUp(o)
          \/ \E other \in Operator : Fetch(o, other)
    \/ \E a \in Auditor : SetBack(a) \/ \E e \in signed : Audit(a, e)

Spec == Init /\ [][Next]_vars

--------------------------------------------------------------------------------

Request == [ledger_seq : Nat \ {0}, prior_state : Policy, new_state : Policy]

Leaves == [seq : Nat \ {0}, prior : Policy, next : Policy, op : Operator]

\* A receipt's root is that of some history which ends with its own leaf.
Receipt(e) ==
    /\ {e.issued_at, e.expires_at} \subseteq Nat
    /\ Leaf(e.payload) \in Leaves
    /\ e.payload.inclusion_root \in Seq(Leaves)
    /\ Len(e.payload.inclusion_root) > 0
    /\ e.payload.inclusion_root[Len(e.payload.inclusion_root)] = Leaf(e.payload)

TypeOK ==
    /\ now \in Nat
    /\ store \in [version : Nat, state : Policy]
    /\ pending \in [Operator -> Request \cup {NoRequest}]
    /\ log \in [Operator -> Seq(signed)]
    /\ \A e \in signed : Receipt(e)
    /\ history \in [Auditor -> Seq(signed)]
    /\ faults \in Nat

\* refusal.js:54-57.  Auditors may be shown different histories.  But once two
\* of them accepted contradictory mutations, or one of them missed or swapped
\* any, no receipt is ever accepted by both: the split cannot be papered over.
ForkConsistency ==
    \A a, b \in Auditor :
        \A i \in DOMAIN history[a], j \in DOMAIN history[b] :
            history[a][i] = history[b][j] =>
                /\ i = j
                /\ \A k \in 1 .. i :
                      Leaf(history[a][k].payload) = Leaf(history[b][k].payload)

\* What an operator holds is a history the service confirms receipt by receipt,
\* whatever was lost, repeated, given up or copied: only age can be held
\* against it.
OwnLogVerifies ==
    \A o \in Operator : \A i \in DOMAIN log[o] :
        VerifyPolicyMutationInHistory(log[o][i],
            Payloads(SubSeq(log[o], 1, i - 1))) \in {"ok", "expired"}

\* refusal.js:21-23: "Because inclusion_root is bound to a monotonic seq and each
\* receipt carries prior_policy_digest, a missing or reordered mutation breaks
\* the chain deterministically."
MissingBreaksChain ==
    \A a \in Auditor : \A i \in DOMAIN history[a] :
        history[a][i].payload.ledger_seq = i
================================================================================
