------------------------------ MODULE Settlement ------------------------------
(***************************************************************************)
(* bond.js and bill.js: a window of measurements settled against a bond,   *)
(* and a period of bill receipts charged by an invoice.                    *)
(*                                                                         *)
(* The provider has every call sealed and relays the receipts to the       *)
(* customer.  Answers are lost, a call may be sealed again, a receipt may  *)
(* be relayed twice, late or never, and the provider may leave calls out   *)
(* or settle under other terms than the customer holds.  The customer      *)
(* verifies the statement against his own receipts.                        *)
(*                                                                         *)
(* Both sides sort what they hold, so their lists are bags.  A receipt is  *)
(* its call: a call sealed twice has one payload_digest.                   *)
(***************************************************************************)
EXTENDS Sealed

CONSTANTS
    Ppm,                    \* 1000000 in the code
    TermsAsked,             \* what bonds are asked for
    Measured,               \* what calls of a bond's window are measured as
    Cost,                   \* of a call of a billing period
    MaxCalls, MaxRepeats    \* bounds

ASSUME SettlementAssumption ==
    /\ Ppm \in Nat \ {0}
    /\ TermsAsked \subseteq
          [latency_ceiling_ms : Nat, uptime_floor_ppm : Nat,
           slow_tolerance_ppm : Nat, penalty_micro_usd : Nat]
    /\ Measured \subseteq [observed_latency_ms : Nat, served : BOOLEAN]
    /\ Cost \cup {MaxCalls, MaxRepeats} \subseteq Nat

VARIABLES
    account,    \* "bond" or "bill", "none" before it is opened
    terms,      \* what the customer's bond was asked for
    calls,      \* what was measured or charged and sealed, in order
    provider, customer,     \* the bags of calls each holds receipts of
    statement,  \* the settlement or the invoice, <<>> before it is signed
    window,     \* the calls it was made over
    repeats     \* calls sealed again and receipts relayed again

settlementVars ==
    <<account, terms, calls, provider, customer, statement, window, repeats>>

SettlementInit ==
    /\ account = "none"
    /\ terms = <<>>
    /\ calls = <<>>
    /\ provider = EmptyBag
    /\ customer = EmptyBag
    /\ statement = <<>>
    /\ window = EmptyBag
    /\ repeats = 0

\* The receipts of a bag, in some order.
List(bag) ==
    FoldSet(LAMBDA r, list : list \o [n \in 1 .. bag[r] |-> r], <<>>, DOMAIN bag)

\* buildBondTerms: every number of the bond is wrapped to 32 bits ...
SignedTerms(asked) == [number \in DOMAIN asked |-> Int32(asked[number])]

\* ... and so is the latency a call's receipt is made of; a charge was computed.
CallReceipt(call) ==
    IF account = "bond" THEN [call EXCEPT !.observed_latency_ms = Int32(@)] ELSE call

--------------------------------------------------------------------------------

ServedCalls(measurements) == {i \in DOMAIN measurements : measurements[i].served}

SlowCalls(t, measurements) ==
    {i \in ServedCalls(measurements) :
        measurements[i].observed_latency_ms > t.latency_ceiling_ms}

\* A share in whole ppm, rounded down; there is no share of nothing.
Share(part, whole) == IF whole = 0 THEN 0 ELSE (part * Ppm) \div whole

\* (Slip: the share of slow calls is taken of all calls.)
BreachOfAllCalls(t, measurements) ==
    LET total == Len(measurements)
        served == Cardinality(ServedCalls(measurements))
        slow == Cardinality(SlowCalls(t, measurements))
    IN  Share(served, total) < t.uptime_floor_ppm
        \/ Share(slow, total) > t.slow_tolerance_ppm

ComputeBreach(t, measurements) ==
    LET total == Len(measurements)
        served == Cardinality(ServedCalls(measurements))
        slow == Cardinality(SlowCalls(t, measurements))
    IN  Share(served, total) < t.uptime_floor_ppm
        \/ Share(slow, served) > t.slow_tolerance_ppm

Payout(t, measurements) ==
    IF ComputeBreach(t, measurements) THEN Int32(t.penalty_micro_usd) ELSE 0

SignSettlement(t, measurements) ==
    LET base == [bond_digest |-> t, window_root |-> MerkleRoot(Sorted(measurements)),
                 measurement_count |-> Len(measurements),
                 breached |-> ComputeBreach(t, measurements),
                 payout_micro_usd |-> Payout(t, measurements)]
    IN  Seal([base |-> base], base, <<>>)

\* (Slip: receipts are not counted.)
VerifySettlementUncounted(s, t, own) ==
    /\ s.base.bond_digest = t
    /\ MerkleRoot(Sorted(own)) = s.base.window_root
    /\ ComputeBreach(t, own) = s.base.breached
    /\ Payout(t, own) = s.base.payout_micro_usd
    /\ SealHolds(s, s.base, <<>>)

VerifySettlement(s, t, own) ==
    /\ s.base.bond_digest = t
    /\ MerkleRoot(Sorted(own)) = s.base.window_root
    /\ Len(own) = s.base.measurement_count
    /\ ComputeBreach(t, own) = s.base.breached
    /\ Payout(t, own) = s.base.payout_micro_usd
    /\ SealHolds(s, s.base, <<>>)

Total(receipts) ==
    FoldLeft(LAMBDA sum, r : sum + r.line_total_micro_usd, 0, receipts)

SignInvoice(receipts) ==
    LET base == [line_count |-> Len(receipts),
                 billing_root |-> MerkleRoot(Sorted(receipts)),
                 total_micro_usd |-> Total(receipts)]
    IN  Seal([base |-> base], base, <<>>)

VerifyInvoice(i, own) ==
    /\ MerkleRoot(Sorted(own)) = i.base.billing_root
    /\ Len(own) = i.base.line_count
    /\ Total(own) = i.base.total_micro_usd
    /\ SealHolds(i, i.base, <<>>)

--------------------------------------------------------------------------------

\* The customer is given a bond, or starts a billing period.
Open ==
    /\ account = "none"
    /\ \/ /\ account' = "bond"
          /\ terms' \in TermsAsked
       \/ /\ account' = "bill"
          /\ UNCHANGED terms
    /\ UNCHANGED <<calls, provider, customer, statement, window, repeats>>

NextCalls(n) ==
    IF account = "bond"
    THEN {[seq |-> n, observed_latency_ms |-> m.observed_latency_ms, served |-> m.served] :
             m \in Measured}
    ELSE [seq : {n}, line_total_micro_usd : Cost]

\* A call is sealed; the provider may not get the answer.
SealCall ==
    /\ account # "none"
    /\ statement = <<>>
    /\ Len(calls) < MaxCalls
    /\ \E call \in NextCalls(Len(calls) + 1) :
          /\ calls' = Append(calls, call)
          /\ provider' \in {provider, provider (+) SetToBag({CallReceipt(call)})}
    /\ UNCHANGED <<account, terms, customer, statement, window, repeats>>

SealAgain ==
    /\ statement = <<>>
    /\ repeats < MaxRepeats
    /\ \E i \in DOMAIN calls : provider' = provider (+) SetToBag({CallReceipt(calls[i])})
    /\ repeats' = repeats + 1
    /\ UNCHANGED <<account, terms, calls, customer, statement, window>>

Relay ==
    /\ \E r \in DOMAIN provider :
          /\ customer' = customer (+) SetToBag({r})
          /\ IF r \notin DOMAIN customer THEN UNCHANGED repeats
             ELSE repeats < MaxRepeats /\ repeats' = repeats + 1
    /\ UNCHANGED <<account, terms, calls, provider, statement, window>>

\* What may be left of a bag; no receipt is in it more than MaxRepeats + 1 times.
PartsOf(bag) ==
    {part \in UNION {[kept -> 1 .. MaxRepeats + 1] : kept \in SUBSET DOMAIN bag} :
        \A r \in DOMAIN part : part[r] <= bag[r]}

\* The provider closes the window over the receipts, and under the terms, it likes.
Close ==
    /\ account # "none"
    /\ statement = <<>>
    /\ window' \in PartsOf(provider)
    /\ IF account = "bill" THEN statement' = SignInvoice(List(window'))
       ELSE \E t \in TermsAsked :
                statement' = SignSettlement(SignedTerms(t), List(window'))
    /\ UNCHANGED <<account, terms, calls, provider, customer, repeats>>

SettlementNext == Open \/ SealCall \/ SealAgain \/ Relay \/ Close

SettlementSpec == SettlementInit /\ [][SettlementNext]_settlementVars

--------------------------------------------------------------------------------

Accepted ==
    IF account = "bill" THEN VerifyInvoice(statement, List(customer))
    ELSE VerifySettlement(statement, SignedTerms(terms), List(customer))

\* bill.js and bond.js: "A provider that drops, inflates, or fabricates a line
\* cannot produce a matching root."  The customer accepts a statement exactly when
\* it was made over the very receipts he holds, each as often as he holds it, and
\* under his terms: what was dropped, repeated or sealed under other terms is
\* found, and what was only reordered or late is not held against the provider.
ReconcilesExactly ==
    statement # <<>> =>
        (Accepted <=>
            /\ window = customer
            /\ account = "bond" => statement.base.bond_digest = SignedTerms(terms))

\* What the calls a list of receipts is of were measured as.
MeasuredCalls(own) == [i \in DOMAIN own |-> calls[own[i].seq]]

\* What is paid for a window is what the promises say of the calls as they were
\* measured, told by cross-multiplication and not by the shares that computeBreach
\* rounds: a promise kept costs nothing, and one broken by a ppm or more costs the
\* penalty that was asked for.  The two exceptions are the code's: a window without
\* calls counts as never up, and a term, or the latency of a call that was served,
\* that does not fit 32 bits is sealed as another number, for which nothing is said
\* (bond.js:55-58 and :144).
PaysWhatWasPromised ==
    account = "bond" /\ statement # <<>> /\ Accepted /\ customer # EmptyBag =>
        LET actual == MeasuredCalls(List(customer))
            total == Len(actual)
            served == Cardinality(ServedCalls(actual))
            slow == Cardinality(SlowCalls(terms, actual))
            down == served * Ppm < terms.uptime_floor_ppm * total
            over == slow * Ppm - terms.slow_tolerance_ppm * served
            paid == statement.base.payout_micro_usd
            fit ==
                /\ terms.latency_ceiling_ms < IntMax
                /\ terms.uptime_floor_ppm < IntMax
                /\ terms.slow_tolerance_ppm < IntMax
                /\ \A i \in ServedCalls(actual) :
                      actual[i].observed_latency_ms < IntMax
        IN  fit =>
                /\ ~ down /\ over <= 0 => paid = 0
                /\ (down \/ (served > 0 /\ over >= served))
                       /\ terms.penalty_micro_usd < IntMax =>
                       paid = terms.penalty_micro_usd
================================================================================
