---------------------------- MODULE ContextLedger ----------------------------
(***************************************************************************)
(* cern.js: an agent has every change of its working context sealed, and   *)
(* an auditor reads the receipts as a ledger, each starting where the one  *)
(* before it ended.                                                        *)
(*                                                                         *)
(* A span is its digest.  The leaves under a root carry their positions,   *)
(* so a root is the list of digests it was made of: no two lists share one *)
(* (an odd leaf is paired with itself, and no list has a leaf twice).      *)
(***************************************************************************)
EXTENDS Integers, Sequences, FiniteSets

CONSTANTS
    Span, NoSpan,
    AlteredAsked,           \* what an agent may disclose with a change
    MaxSpans, MaxCern   \* bounds

Contexts == UNION {[1 .. n -> Span] : n \in 0 .. MaxSpans}

Disclosures == SUBSET [original_hash : Span \cup {NoSpan}, result_hash : Span \cup {NoSpan}]

ASSUME LedgerAssumption ==
    /\ NoSpan \notin Span
    /\ AlteredAsked \subseteq Disclosures
    /\ MaxSpans \in Nat /\ MaxCern \in Nat

MutationTypes == {"append", "summarize", "drop", "alter"}
IntegrityClaims == {"lossless", "lossy_attested", "altered_attested"}

VARIABLES
    context,    \* the agent's spans
    minted,     \* the receipts it was given
    cernLedger  \* the receipts the auditor has accepted, in order

ledgerVars == <<context, minted, cernLedger>>

LedgerInit ==
    /\ context = <<>>
    /\ minted = {}
    /\ cernLedger = <<>>

--------------------------------------------------------------------------------

Spans(digests) == {digests[i] : i \in DOMAIN digests}

Originals(altered) == {a.original_hash : a \in altered} \ {NoSpan}
Results(altered) == {a.result_hash : a \in altered} \ {NoSpan}

\* (Slip: an alteration may leave out what it removed.)
DeltaWithQuietAlter(before, after, type, claim, altered) ==
    /\ type = "append" => /\ Spans(before) \subseteq Spans(after)
                          /\ altered = {}
                          /\ claim = "lossless"
    /\ type = "drop" => /\ Spans(before) \ Spans(after) \subseteq Originals(altered)
                        /\ Results(altered) = {}
                        /\ Spans(after) \subseteq Spans(before)
                        /\ claim # "lossless"
    /\ type = "alter" => /\ Results(altered) \subseteq Spans(after)
                         /\ Originals(altered) \cap Spans(before) \cap Spans(after) = {}
                         /\ Spans(after) \ Spans(before) \subseteq Results(altered)
                         /\ claim = "altered_attested"

\* (Slip: a drop may bring in something new.)
DeltaWithDropThatAdds(before, after, type, claim, altered) ==
    /\ type = "append" => /\ Spans(before) \subseteq Spans(after)
                          /\ altered = {}
                          /\ claim = "lossless"
    /\ type = "drop" => /\ Spans(before) \ Spans(after) \subseteq Originals(altered)
                        /\ Results(altered) = {}
                        /\ claim # "lossless"
    /\ type = "alter" => /\ Spans(before) \ Spans(after) \subseteq Originals(altered)
                         /\ Results(altered) \subseteq Spans(after)
                         /\ Originals(altered) \cap Spans(before) \cap Spans(after) = {}
                         /\ Spans(after) \ Spans(before) \subseteq Results(altered)
                         /\ claim = "altered_attested"

\* deriveDelta: what was removed and what was added are sets, so how often and in
\* which order a span occurs does not matter.
DeriveDelta(before, after, type, claim, altered) ==
    /\ type = "append" => /\ Spans(before) \subseteq Spans(after)
                          /\ altered = {}
                          /\ claim = "lossless"
    /\ type = "drop" => /\ Spans(before) \ Spans(after) \subseteq Originals(altered)
                        /\ Results(altered) = {}
                        /\ Spans(after) \subseteq Spans(before)
                        /\ claim # "lossless"
    /\ type = "alter" => /\ Spans(before) \ Spans(after) \subseteq Originals(altered)
                         /\ Results(altered) \subseteq Spans(after)
                         /\ Originals(altered) \cap Spans(before) \cap Spans(after) = {}
                         /\ Spans(after) \ Spans(before) \subseteq Results(altered)
                         /\ claim = "altered_attested"
    /\ type = "summarize" => Len(after) <= Len(before) /\ claim # "lossless"

\* The payload: base and state digest hold the roots, not the lists of digests.
CernPayload(r) == [mutation_type |-> r.mutation_type, integrity_claim |-> r.integrity_claim,
                   before_root |-> r.before_root, after_root |-> r.after_root,
                   altered_spans |-> r.altered_spans]

\* A receipt and what its signature covers.
SignCern(r) == [receipt |-> r, signature |-> CernPayload(r)]

VerifyCern(e) ==
    LET r == e.receipt
    IN  /\ r.before_digests = r.before_root
        /\ r.after_digests = r.after_root
        /\ DeriveDelta(r.before_digests, r.after_digests,
                       r.mutation_type, r.integrity_claim, r.altered_spans)
        /\ e.signature = CernPayload(r)

--------------------------------------------------------------------------------

\* The agent changes its context and declares what it did; the change is refused
\* when the declaration does not fit.  The service hashes the spans.  (An agent may
\* send digests and roots instead; roots of other lists give a receipt that never
\* verifies.)
Mutate ==
    /\ Cardinality(minted) < MaxCern
    /\ \E after \in Contexts, type \in MutationTypes, claim \in IntegrityClaims,
          altered \in AlteredAsked :
          /\ DeriveDelta(context, after, type, claim, altered)
          /\ context' = after
          /\ minted' = minted \cup {SignCern(
                [mutation_type |-> type, integrity_claim |-> claim,
                 altered_spans |-> altered,
                 before_digests |-> context, before_root |-> context,
                 after_digests |-> after, after_root |-> after])}
    /\ UNCHANGED cernLedger

\* The agent changes its context and says nothing.  (Once the bound on receipts is
\* met, nothing reads the context any more.)
MutateSilently ==
    /\ Cardinality(minted) < MaxCern
    /\ \E after \in Contexts : context' = after
    /\ UNCHANGED <<minted, cernLedger>>

\* A receipt as it was minted, or with a disclosure taken out, another list of spans
\* or another type.
Handed ==
    minted
    \cup {[e EXCEPT !.receipt.altered_spans = @ \ {a}] :
            e \in minted, a \in UNION AlteredAsked}
    \cup {[e EXCEPT !.receipt.after_digests = c] : e \in minted, c \in Contexts}
    \cup {[e EXCEPT !.receipt.mutation_type = t] : e \in minted, t \in MutationTypes}

\* POST /sigr/cern/verify, and the auditor's own look at the root before.
AuditCern ==
    /\ Len(cernLedger) < MaxCern
    /\ \E e \in Handed :
          /\ VerifyCern(e)
          /\ cernLedger # <<>> =>
                e.receipt.before_root = cernLedger[Len(cernLedger)].after_root
          /\ cernLedger' = Append(cernLedger, e.receipt)
    /\ UNCHANGED <<context, minted>>

LedgerNext == Mutate \/ MutateSilently \/ AuditCern

LedgerSpec == LedgerInit /\ [][LedgerNext]_ledgerVars

--------------------------------------------------------------------------------

\* No receipt from the i-th on has one of these types.
NoneSince(i, types) == \A k \in i .. Len(cernLedger) : cernLedger[k].mutation_type \notin types

\* "Undisclosed mutation is provably detectable" (cern.js:27), as far as it holds: a
\* span that was in the context at some point of an accepted ledger and is not in it
\* at the end was disclosed on the way, unless a summary came between.  This speaks
\* of distinct spans; a copy of a span can go, and spans change places, under
\* "append" and "lossless".
VanishedSpansAreDisclosed ==
    \A i \in DOMAIN cernLedger :
        NoneSince(i, {"summarize"}) =>
            \A s \in Spans(cernLedger[i].before_digests) :
                \/ s \in Spans(cernLedger[Len(cernLedger)].after_digests)
                \/ \E k \in i .. Len(cernLedger) :
                      s \in Originals(cernLedger[k].altered_spans)

\* A span that is in the context at the end of an accepted ledger and was not there
\* at some point of it was announced as the result of an alteration on the way,
\* unless the ledger says that something was appended or summarized.
NewSpansAreAnnounced ==
    \A i \in DOMAIN cernLedger :
        NoneSince(i, {"append", "summarize"}) =>
            \A s \in Spans(cernLedger[Len(cernLedger)].after_digests) :
                \/ s \in Spans(cernLedger[i].before_digests)
                \/ \E k \in i .. Len(cernLedger) :
                      s \in Results(cernLedger[k].altered_spans)
================================================================================
