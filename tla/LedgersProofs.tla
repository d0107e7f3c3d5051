----------------------------- MODULE LedgersProofs -----------------------------
(***************************************************************************)
(* Theorems about the modules of the service that are about histories:     *)
(* refusal policies, contexts, reused results and the rate of requests.    *)
(***************************************************************************)
EXTENDS RefusalLedger, ContextLedger, ToolReuse, RateLimit, TLAPS

--------------------------------------------------------------------------------
(* RefusalLedger: for any operators, auditors, policies and histories of any length. *)

LEMMA SeqOfMore ==
    ASSUME NEW S, NEW T, S \subseteq T, NEW s \in Seq(S) PROVE s \in Seq(T)
OBVIOUS

\* The root that covers the first i receipts of a sequence.
RootUpTo(s, i) == [k \in 1 .. i |-> Leaf(s[k].payload)]

\* Every receipt of a sequence covers the receipts before it and itself.
Covered(s) == \A i \in DOMAIN s : s[i].payload.inclusion_root = RootUpTo(s, i)

\* A receipt as the service signs it.
Genuine(e) ==
    /\ e.receipt_type = "refusal.mutation"
    /\ e.payload_root = PayloadRoot(e.payload, "sha-256")
    /\ e.sig = [key |-> ServiceKey, over |-> EnvelopeToSign(e)]
    /\ e.issued_at <= now

LogInv ==
    /\ \A e \in signed : Genuine(e)
    /\ \A o \in Operator : Covered(log[o])

HistoryInv == \A a \in Auditor : Covered(history[a])

--------------------------------------------------------------------------------

LEMMA InclusionRootAppend ==
    ASSUME NEW S, NEW s \in Seq(S), NEW e
    PROVE  InclusionRoot(Append(Payloads(s), e.payload))
             = RootUpTo(Append(s, e), Len(s) + 1)
<1> DEFINE P == Payloads(s)
           A == Append(P, e.payload)
           B == Append(s, e)
<1>1. P \in Seq({s[i].payload : i \in DOMAIN s}) /\ Len(P) = Len(s)
  BY DEF Payloads
<1>2. DOMAIN A = 1 .. Len(s) + 1
  BY <1>1
<1>3. ASSUME NEW k \in 1 .. Len(s) + 1 PROVE A[k] = B[k].payload
  <2>1. CASE k <= Len(s)
    BY <2>1, <1>1 DEF Payloads
  <2>2. CASE k = Len(s) + 1
    BY <2>2, <1>1
  <2>3. k <= Len(s) \/ k = Len(s) + 1
    <3>1. Len(s) \in Nat
      OBVIOUS
    <3> QED
      BY <3>1
  <2> QED
    BY <2>1, <2>2, <2>3, Zenon
<1> HIDE DEF A, B
<1>4. InclusionRoot(A) = [k \in 1 .. Len(s) + 1 |-> Leaf(A[k])]
  BY <1>2 DEF InclusionRoot
<1>5. InclusionRoot(A) = RootUpTo(B, Len(s) + 1)
  BY <1>3, <1>4 DEF RootUpTo
<1> QED
  BY <1>5 DEF A, B

\* A covered sequence grows by a receipt that covers it, and may be cut short.
LEMMA CoveredAppend ==
    ASSUME NEW S, NEW s \in Seq(S), NEW e, Covered(s),
           e.payload.inclusion_root = InclusionRoot(Append(Payloads(s), e.payload))
    PROVE  Covered(Append(s, e))
<1> DEFINE B == Append(s, e)
<1>1. DOMAIN B = 1 .. Len(s) + 1 /\ B[Len(s) + 1] = e
  OBVIOUS
<1>2. \A k \in 1 .. Len(s) : B[k] = s[k]
  OBVIOUS
<1>3. e.payload.inclusion_root = RootUpTo(B, Len(s) + 1)
  BY InclusionRootAppend, Zenon
<1> HIDE DEF B
<1>4. ASSUME NEW i \in 1 .. Len(s) + 1
      PROVE  B[i].payload.inclusion_root = RootUpTo(B, i)
  <2>1. CASE i = Len(s) + 1
    BY <2>1, <1>1, <1>3
  <2>2. CASE i # Len(s) + 1
    <3>1. i \in DOMAIN s /\ B[i] = s[i] /\ \A k \in 1 .. i : B[k] = s[k]
      BY <2>2, <1>2
    <3>2. RootUpTo(s, i) = RootUpTo(B, i)
      BY <3>1 DEF RootUpTo
    <3> QED
      BY <3>1, <3>2 DEF Covered
  <2> QED
    BY <2>1, <2>2
<1>5. Covered(B)
  BY <1>1, <1>4 DEF Covered
<1> QED
  BY <1>5 DEF B

LEMMA CoveredCut ==
    ASSUME NEW S, NEW s \in Seq(S), Covered(s), NEW n \in 0 .. Len(s)
    PROVE  Covered(SubSeq(s, 1, n))
<1> DEFINE B == SubSeq(s, 1, n)
<1>1. DOMAIN B = 1 .. n /\ \A k \in 1 .. n : B[k] = s[k]
  OBVIOUS
<1> HIDE DEF B
<1>2. \A i \in 1 .. n : RootUpTo(B, i) = RootUpTo(s, i)
  BY <1>1 DEF RootUpTo
<1>3. Covered(B)
  BY <1>1, <1>2 DEF Covered
<1> QED
  BY <1>3 DEF B

--------------------------------------------------------------------------------

\* What signing a pending change puts in a receipt.
LEMMA SignedMutation ==
    ASSUME NEW o \in Operator, NEW req \in Request, NEW S, NEW s \in Seq(S),
           now \in Nat
    PROVE  LET e == SignPolicyMutation(o, req, Payloads(s))
           IN  /\ Genuine(e)
               /\ e.issued_at = now
               /\ e.expires_at = now + Ttl["refusal.mutation"]
               /\ Leaf(e.payload) = [seq |-> req.ledger_seq,
                                     prior |-> req.prior_state,
                                     next |-> req.new_state, op |-> o]
               /\ e.payload.inclusion_root =
                     InclusionRoot(Append(Payloads(s), e.payload))
<1> DEFINE m == Mutation(o, req)
           r == InclusionRoot(Append(Payloads(s), m))
           p == [ledger_seq |-> m.ledger_seq, operator_kid |-> m.operator_kid,
                 prior_policy_digest |-> m.prior_policy_digest,
                 new_policy_digest |-> m.new_policy_digest,
                 inclusion_root |-> r]
           e == SignUpstreamReceipt("refusal.mutation", p, 0, 0, ServiceKey,
                                    "sha-256", now)
<1>1. e = SignPolicyMutation(o, req, Payloads(s))
  BY DEF SignPolicyMutation
<1> HIDE DEF r
<1>2. /\ p.inclusion_root = r
      /\ Leaf(p) = Leaf(m)
      /\ Leaf(p) = [seq |-> req.ledger_seq, prior |-> req.prior_state,
                    next |-> req.new_state, op |-> o]
  BY DEF Leaf, Mutation
<1> HIDE DEF p
<1>3. /\ e.payload = p
      /\ e.issued_at = now
      /\ e.expires_at = now + Ttl["refusal.mutation"]
      /\ Genuine(e)
  BY DEF SignUpstreamReceipt, Genuine, EnvelopeToSign
<1> HIDE DEF e, m
<1>4. r = InclusionRoot(Append(Payloads(s), p))
  <2> DEFINE P == Payloads(s)
  <2>1. P \in Seq({s[i].payload : i \in DOMAIN s})
    BY DEF Payloads
  <2> HIDE DEF P
  <2>2. /\ DOMAIN Append(P, m) = 1 .. Len(P) + 1
        /\ DOMAIN Append(P, p) = 1 .. Len(P) + 1
        /\ Len(P) \in Nat
    BY <2>1
  <2>3. ASSUME NEW k \in 1 .. Len(P) + 1
        PROVE  Leaf(Append(P, m)[k]) = Leaf(Append(P, p)[k])
    <3>1. CASE k = Len(P) + 1
      <4>1. Append(P, m)[k] = m /\ Append(P, p)[k] = p
        BY <2>1, <3>1
      <4> QED
        BY <4>1, <1>2, Zenon
    <3>2. CASE k # Len(P) + 1
      <4>1. k \in 1 .. Len(P)
        BY <2>2, <3>2
      <4>2. Append(P, m)[k] = P[k] /\ Append(P, p)[k] = P[k]
        BY <2>1, <4>1
      <4> QED
        BY <4>2, Zenon
    <3> QED
      BY <3>1, <3>2
  <2> DEFINE A == Append(P, m)
             B == Append(P, p)
  <2> HIDE DEF A, B
  <2>4. InclusionRoot(A) = InclusionRoot(B)
    BY <2>2, <2>3 DEF InclusionRoot, A, B
  <2> QED
    BY <2>4 DEF r, A, B, P
<1> QED
  BY <1>1, <1>2, <1>3, <1>4

\* The receipt that Submit and SubmitUnanswered sign is well-formed.
LEMMA SignedReceipt ==
    ASSUME TypeOK, NEW o \in Operator, Sign(o)
    PROVE  Receipt(SignPolicyMutation(o, pending[o], Payloads(log[o])))
<1> DEFINE e == SignPolicyMutation(o, pending[o], Payloads(log[o]))
           s == log[o]
<1>1. pending[o] \in Request /\ s \in Seq(signed) /\ now \in Nat
  BY DEF TypeOK, Sign
<1>2. /\ e.issued_at = now
      /\ e.expires_at = now + Ttl["refusal.mutation"]
      /\ Leaf(e.payload) = [seq |-> pending[o].ledger_seq,
                            prior |-> pending[o].prior_state,
                            next |-> pending[o].new_state, op |-> o]
      /\ e.payload.inclusion_root = InclusionRoot(Append(Payloads(s), e.payload))
  BY <1>1, SignedMutation
<1> HIDE DEF e
<1>3. Leaf(e.payload) \in Leaves
  BY <1>1, <1>2 DEF Request, Leaves
<1>4. e.payload.inclusion_root = RootUpTo(Append(s, e), Len(s) + 1)
  BY <1>1, <1>2, InclusionRootAppend
<1> HIDE DEF s
<1>5. \A k \in 1 .. Len(s) + 1 : Leaf(Append(s, e)[k].payload) \in Leaves
  BY <1>1, <1>3 DEF TypeOK, Receipt
<1>6. /\ e.payload.inclusion_root \in Seq(Leaves)
      /\ Len(e.payload.inclusion_root) = Len(s) + 1
      /\ e.payload.inclusion_root[Len(s) + 1] = Leaf(e.payload)
  <2>1. Len(s) \in Nat /\ Append(s, e)[Len(s) + 1] = e
    BY <1>1
  <2> QED
    BY <2>1, <1>4, <1>5 DEF RootUpTo
<1>7. {e.issued_at, e.expires_at} \subseteq Nat
  BY <1>1, <1>2, UpstreamAssumption, RefusalAssumption
<1>8. Len(s) + 1 > 0
  BY <1>1
<1>9. Receipt(e)
  BY <1>3, <1>6, <1>7, <1>8 DEF Receipt
<1> QED
  BY <1>9 DEF e

--------------------------------------------------------------------------------
(* Type correctness *)

LEMMA TypeInit == Init => TypeOK
<1> SUFFICES ASSUME Init PROVE TypeOK
  OBVIOUS
<1>1. <<>> \in Seq(signed)
  OBVIOUS
<1> QED
  BY <1>1 DEF Init, TypeOK

LEMMA TypeNext == TypeOK /\ [Next]_vars => TypeOK'
<1> SUFFICES ASSUME TypeOK, [Next]_vars PROVE TypeOK'
  OBVIOUS
<1>1. CASE Tick
  BY <1>1 DEF Tick, TypeOK, Receipt
<1>2. ASSUME NEW o \in Operator, NEW s \in Policy, Change(o, s) PROVE TypeOK'
  <2>1. [ledger_seq |-> store.version + 1, prior_state |-> store.state,
         new_state |-> s] \in Request
    BY DEF TypeOK, Request
  <2>2. store' \in [version : Nat, state : Policy]
    BY <1>2 DEF Change, TypeOK
  <2> QED
    BY <1>2, <2>1, <2>2 DEF Change, TypeOK, Receipt
<1>3. ASSUME NEW o \in Operator, Sign(o)
      PROVE  /\ signed \subseteq signed'
             /\ SignPolicyMutation(o, pending[o], Payloads(log[o])) \in signed'
             /\ \A e \in signed' : Receipt(e)
             /\ log \in [Operator -> Seq(signed')]
             /\ history \in [Auditor -> Seq(signed')]
  <2>1. signed' = signed \cup {SignPolicyMutation(o, pending[o], Payloads(log[o]))}
    BY <1>3 DEF Sign
  <2>2. Receipt(SignPolicyMutation(o, pending[o], Payloads(log[o])))
    BY <1>3, SignedReceipt
  <2>3. \A e \in signed : Receipt(e)
    BY DEF TypeOK
  <2>4. \A e \in signed' : Receipt(e)
    BY <2>1, <2>2, <2>3
  <2>5. \A x \in Operator : log[x] \in Seq(signed')
    BY <2>1, SeqOfMore DEF TypeOK
  <2>6. \A a \in Auditor : history[a] \in Seq(signed')
    BY <2>1, SeqOfMore DEF TypeOK
  <2>7. log = [x \in Operator |-> log[x]] /\ history = [a \in Auditor |-> history[a]]
    BY DEF TypeOK
  <2> QED
    BY <2>1, <2>4, <2>5, <2>6, <2>7
<1>4. ASSUME NEW o \in Operator, Submit(o) PROVE TypeOK'
  <2> DEFINE e == SignPolicyMutation(o, pending[o], Payloads(log[o]))
  <2>1. Sign(o)
    BY <1>4 DEF Submit
  <2>2. /\ e \in signed' /\ \A x \in signed' : Receipt(x)
        /\ log \in [Operator -> Seq(signed')]
        /\ history \in [Auditor -> Seq(signed')]
    BY <1>3, <2>1
  <2>3. log' = [log EXCEPT ![o] = Append(@, e)]
    BY <1>4 DEF Submit
  <2> HIDE DEF e
  <2>4. log' \in [Operator -> Seq(signed')]
    BY <2>2, <2>3
  <2>5. /\ pending' = [pending EXCEPT ![o] = NoRequest]
        /\ UNCHANGED <<now, store, history, faults>>
    BY <1>4 DEF Submit
  <2>6. \A x \in signed' : Receipt(x)'
    BY <2>2 DEF Receipt
  <2> QED
    BY <2>2, <2>4, <2>5, <2>6 DEF TypeOK
<1>5. ASSUME NEW o \in Operator, SubmitUnanswered(o) PROVE TypeOK'
  <2>1. Sign(o) /\ faults' = faults + 1 /\ UNCHANGED <<now, store, pending, log, history>>
    BY <1>5 DEF SubmitUnanswered
  <2>2. \A x \in signed' : Receipt(x)'
    BY <1>3, <2>1 DEF Receipt
  <2> QED
    BY <1>3, <2>1, <2>2 DEF TypeOK
<1>6. ASSUME NEW o \in Operator, GiveUp(o) PROVE TypeOK'
  BY <1>6 DEF GiveUp, TypeOK, Receipt
<1>7. ASSUME NEW o \in Operator, NEW other \in Operator, Fetch(o, other) PROVE TypeOK'
  BY <1>7 DEF Fetch, TypeOK, Receipt
<1>8. ASSUME NEW a \in Auditor, SetBack(a) PROVE TypeOK'
  <2>1. PICK n \in 0 .. Len(history[a]) - 1 :
           history' = [history EXCEPT ![a] = SubSeq(@, 1, n)]
    BY <1>8 DEF SetBack
  <2>2. history[a] \in Seq(signed)
    BY DEF TypeOK
  <2>3. SubSeq(history[a], 1, n) \in Seq(signed)
    BY <2>2
  <2>4. history' \in [Auditor -> Seq(signed)]
    BY <2>1, <2>3 DEF TypeOK
  <2> QED
    BY <1>8, <2>4 DEF SetBack, TypeOK, Receipt
<1>9. ASSUME NEW a \in Auditor, NEW e \in signed, Audit(a, e) PROVE TypeOK'
  <2>1. Append(history[a], e) \in Seq(signed)
    BY DEF TypeOK
  <2>2. history' \in [Auditor -> Seq(signed)]
    BY <1>9, <2>1 DEF Audit, TypeOK
  <2> QED
    BY <1>9, <2>2 DEF Audit, TypeOK, Receipt
<1>10. CASE UNCHANGED vars
  BY <1>10 DEF vars, TypeOK, Receipt
<1> QED
  BY <1>1, <1>2, <1>4, <1>5, <1>6, <1>7, <1>8, <1>9, <1>10 DEF Next

\* Receipts, logs and histories are well-formed: every receipt's root is a
\* sequence of leaves that ends with its own.
THEOREM RefusalTypeCorrect == Spec => []TypeOK
BY TypeInit, TypeNext, PTL DEF Spec

--------------------------------------------------------------------------------
(* What auditors accept *)

LEMMA HistoryInit == Init => HistoryInv
<1> SUFFICES ASSUME Init, NEW a \in Auditor PROVE Covered(history[a])
  BY DEF HistoryInv
<1>1. history[a] = <<>>
  BY DEF Init
<1> QED
  BY <1>1 DEF Covered

LEMMA HistoryNext == TypeOK /\ HistoryInv /\ [Next]_vars => HistoryInv'
<1> SUFFICES ASSUME TypeOK, HistoryInv, [Next]_vars PROVE HistoryInv'
  OBVIOUS
<1>1. CASE UNCHANGED history
  BY <1>1 DEF HistoryInv
<1>2. ASSUME NEW a \in Auditor, SetBack(a) PROVE HistoryInv'
  <2>1. PICK n \in 0 .. Len(history[a]) - 1 :
           history' = [history EXCEPT ![a] = SubSeq(@, 1, n)]
    BY <1>2 DEF SetBack
  <2>2. history[a] \in Seq(signed) /\ n \in 0 .. Len(history[a])
    BY <2>1 DEF TypeOK
  <2>3. Covered(SubSeq(history[a], 1, n))
    BY <2>2, CoveredCut DEF HistoryInv
  <2>4. \A b \in Auditor : history'[b] = IF b = a THEN SubSeq(history[a], 1, n)
                                         ELSE history[b]
    BY <2>1 DEF TypeOK
  <2> QED
    BY <2>3, <2>4 DEF HistoryInv
<1>3. ASSUME NEW a \in Auditor, NEW e \in signed, Audit(a, e) PROVE HistoryInv'
  <2>1. e.payload.inclusion_root =
            InclusionRoot(Append(Payloads(history[a]), e.payload))
    BY <1>3, Zenon DEF Audit, VerifyPolicyMutationInHistory
  <2>2. history[a] \in Seq(signed) /\ Covered(history[a])
    BY DEF TypeOK, HistoryInv
  <2>3. Covered(Append(history[a], e))
    BY <2>1, <2>2, CoveredAppend
  <2>4. \A b \in Auditor : history'[b] = IF b = a THEN Append(history[a], e)
                                         ELSE history[b]
    BY <1>3 DEF Audit, TypeOK
  <2> QED
    BY <2>3, <2>4 DEF HistoryInv
<1>4. ASSUME NEW o \in Operator,
             \/ \E s \in Policy : Change(o, s)
             \/ Submit(o) \/ SubmitUnanswered(o) \/ GiveUp(o)
             \/ \E other \in Operator : Fetch(o, other)
      PROVE  UNCHANGED history
  BY <1>4 DEF Change, Submit, SubmitUnanswered, GiveUp, Fetch
<1> QED
  BY <1>1, <1>2, <1>3, <1>4 DEF Next, Tick, vars

\* However histories forked, and whatever receipts auditors are shown in
\* whatever order: a receipt two of them accepted covers the same past.
THEOREM ForksStayApart == Spec => []ForkConsistency
<1>1. TypeOK /\ HistoryInv => ForkConsistency
  <2> SUFFICES ASSUME TypeOK, HistoryInv,
                      NEW a \in Auditor, NEW b \in Auditor,
                      NEW i \in DOMAIN history[a], NEW j \in DOMAIN history[b],
                      history[a][i] = history[b][j]
               PROVE  /\ i = j
                      /\ \A k \in 1 .. i : Leaf(history[a][k].payload)
                                             = Leaf(history[b][k].payload)
    BY DEF ForkConsistency
  <2>1. RootUpTo(history[a], i) = RootUpTo(history[b], j)
    BY DEF HistoryInv, Covered
  <2>2. i \in Nat /\ j \in Nat
    BY DEF TypeOK
  <2>3. 1 .. i = 1 .. j
    <3>1. DOMAIN RootUpTo(history[a], i) = 1 .. i
      BY DEF RootUpTo
    <3>2. DOMAIN RootUpTo(history[b], j) = 1 .. j
      BY DEF RootUpTo
    <3> QED
      BY <2>1, <3>1, <3>2
  <2>4. i = j
    <3>1. \A x \in Nat : x \in 1 .. i <=> x \in 1 .. j
      BY <2>3
    <3>2. i \in DOMAIN history[a] => i >= 1
      BY DEF TypeOK
    <3>3. j \in DOMAIN history[b] => j >= 1
      BY DEF TypeOK
    <3>4. i <= j /\ j <= i
      BY <2>2, <3>1, <3>2, <3>3
    <3> QED
      BY <2>2, <3>4
  <2>5. ASSUME NEW k \in 1 .. i
        PROVE  Leaf(history[a][k].payload) = Leaf(history[b][k].payload)
    <3>1. RootUpTo(history[a], i)[k] = Leaf(history[a][k].payload)
      BY DEF RootUpTo
    <3>2. RootUpTo(history[b], j)[k] = Leaf(history[b][k].payload)
      BY <2>4 DEF RootUpTo
    <3> QED
      BY <2>1, <3>1, <3>2
  <2> QED
    BY <2>4, <2>5
<1> QED
  BY <1>1, TypeInit, TypeNext, HistoryInit, HistoryNext, PTL DEF Spec

--------------------------------------------------------------------------------
(* What operators hold *)

LEMMA LogInit == Init => LogInv
<1> SUFFICES ASSUME Init PROVE LogInv
  OBVIOUS
<1>1. ASSUME NEW o \in Operator PROVE Covered(log[o])
  <2>1. log[o] = <<>>
    BY DEF Init
  <2> QED
    BY <2>1 DEF Covered
<1> QED
  BY <1>1 DEF Init, LogInv

LEMMA LogNext == TypeOK /\ LogInv /\ [Next]_vars => LogInv'
<1> SUFFICES ASSUME TypeOK, LogInv, [Next]_vars PROVE LogInv'
  OBVIOUS
<1>1. ASSUME UNCHANGED <<now, log, signed>> PROVE LogInv'
  BY <1>1 DEF LogInv, Genuine
<1>2. CASE Tick
  <2>1. now \in Nat /\ now' = now + 1 /\ log' = log /\ signed' = signed
    BY <1>2 DEF Tick, TypeOK
  <2>2. \A e \in signed : e.issued_at \in Nat
    BY DEF TypeOK, Receipt
  <2>3. \A e \in signed : Genuine(e) => Genuine(e)'
    BY <2>1, <2>2 DEF Genuine
  <2> QED
    BY <2>1, <2>3 DEF LogInv
<1>3. ASSUME NEW o \in Operator, Sign(o), now' = now
      PROVE  /\ \A e \in signed' : Genuine(e)'
             /\ Covered(Append(log[o],
                    SignPolicyMutation(o, pending[o], Payloads(log[o]))))
  <2> DEFINE e == SignPolicyMutation(o, pending[o], Payloads(log[o]))
  <2>1. pending[o] \in Request /\ log[o] \in Seq(signed) /\ now \in Nat
    BY <1>3 DEF TypeOK, Sign
  <2>2. /\ Genuine(e)
        /\ e.payload.inclusion_root =
              InclusionRoot(Append(Payloads(log[o]), e.payload))
    BY <2>1, SignedMutation
  <2>3. signed' = signed \cup {e}
    BY <1>3 DEF Sign
  <2> HIDE DEF e
  <2>4. Covered(Append(log[o], e))
    BY <2>1, <2>2, CoveredAppend DEF LogInv
  <2>5. \A x \in signed' : Genuine(x)'
    BY <1>3, <2>2, <2>3 DEF LogInv, Genuine
  <2> QED
    BY <2>4, <2>5 DEF e
<1>4. ASSUME NEW o \in Operator, Submit(o) PROVE LogInv'
  <2> DEFINE e == SignPolicyMutation(o, pending[o], Payloads(log[o]))
  <2>1. Sign(o) /\ now' = now /\ log' = [log EXCEPT ![o] = Append(@, e)]
    BY <1>4 DEF Submit
  <2>2. (\A x \in signed' : Genuine(x)') /\ Covered(Append(log[o], e))
    BY <1>3, <2>1
  <2> HIDE DEF e
  <2>3. \A x \in Operator : log'[x] = IF x = o THEN Append(log[o], e) ELSE log[x]
    BY <2>1 DEF TypeOK
  <2> QED
    BY <2>2, <2>3 DEF LogInv
<1>5. ASSUME NEW o \in Operator, SubmitUnanswered(o) PROVE LogInv'
  <2>1. Sign(o) /\ now' = now /\ log' = log
    BY <1>5 DEF SubmitUnanswered
  <2> QED
    BY <1>3, <2>1 DEF LogInv
<1>6. ASSUME NEW o \in Operator, NEW other \in Operator, Fetch(o, other) PROVE LogInv'
  <2>1. \A x \in Operator : log'[x] = IF x = o THEN log[other] ELSE log[x]
    BY <1>6 DEF Fetch, TypeOK
  <2>2. now' = now /\ signed' = signed
    BY <1>6 DEF Fetch
  <2> QED
    BY <2>1, <2>2 DEF LogInv, Genuine
<1>7. ASSUME \/ \E o \in Operator : GiveUp(o) \/ \E s \in Policy : Change(o, s)
             \/ \E a \in Auditor : SetBack(a) \/ \E e \in signed : Audit(a, e)
             \/ UNCHANGED vars
      PROVE  UNCHANGED <<now, log, signed>>
  BY <1>7 DEF GiveUp, Change, SetBack, Audit, vars
<1> QED
  BY <1>1, <1>2, <1>4, <1>5, <1>6, <1>7 DEF Next

\* A genuine receipt that covers its past verifies, or is too old.
LEMMA GenuineVerifies ==
    ASSUME NEW e, Genuine(e), Receipt(e), now \in Nat, NEW H,
           InclusionRoot(Append(H, e.payload)) = e.payload.inclusion_root
    PROVE  VerifyPolicyMutationInHistory(e, H) \in {"ok", "expired"}
<1>1. ~(now < e.issued_at - Leeway)
  BY UpstreamAssumption DEF Genuine, Receipt
<1>2. VerifyUpstreamReceipt(e, "refusal.mutation", ServiceKey, "sha-256", now, FALSE)
          \in {"ok", "expired"}
  BY <1>1, Zenon DEF VerifyUpstreamReceipt, Genuine
<1> QED
  BY <1>2, Zenon DEF VerifyPolicyMutationInHistory

\* Whatever was lost, repeated, given up or copied, the log an operator holds
\* is confirmed receipt by receipt until it is too old.
THEOREM OperatorsLogVerifies == Spec => []OwnLogVerifies
<1>1. TypeOK /\ LogInv => OwnLogVerifies
  <2> SUFFICES ASSUME TypeOK, LogInv, NEW o \in Operator, NEW i \in DOMAIN log[o]
               PROVE  VerifyPolicyMutationInHistory(log[o][i],
                          Payloads(SubSeq(log[o], 1, i - 1))) \in {"ok", "expired"}
    BY DEF OwnLogVerifies
  <2> DEFINE s == log[o]
             e == s[i]
             p == SubSeq(s, 1, i - 1)
  <2>1. s \in Seq(signed) /\ e \in signed /\ now \in Nat
    BY DEF TypeOK
  <2>2. i \in 1 .. Len(s) /\ Len(s) \in Nat
    BY <2>1
  <2>3. p \in Seq(signed) /\ Len(p) = i - 1
    BY <2>1, <2>2
  <2>4. \A k \in 1 .. i : Append(p, e)[k] = s[k]
    BY <2>1, <2>2
  <2>5. e.payload.inclusion_root = RootUpTo(s, i)
    BY DEF LogInv, Covered
  <2> HIDE DEF p, e
  <2>6. InclusionRoot(Append(Payloads(p), e.payload)) = RootUpTo(Append(p, e), i)
    <3>1. Len(p) + 1 = i
      BY <2>2, <2>3
    <3> QED
      BY <2>3, <3>1, InclusionRootAppend
  <2>7. RootUpTo(Append(p, e), i) = RootUpTo(s, i)
    BY <2>4 DEF RootUpTo
  <2>8. Genuine(e) /\ Receipt(e)
    BY <2>1 DEF TypeOK, LogInv
  <2>9. VerifyPolicyMutationInHistory(e, Payloads(p)) \in {"ok", "expired"}
    BY <2>1, <2>5, <2>6, <2>7, <2>8, GenuineVerifies
  <2> QED
    BY <2>9 DEF e, p
<1> QED
  BY <1>1, TypeInit, TypeNext, LogInit, LogNext, PTL DEF Spec

--------------------------------------------------------------------------------
(* ContextLedger: for any spans, disclosures and ledgers of any length.       *)

CernReceipt ==
    [mutation_type : MutationTypes, integrity_claim : IntegrityClaims,
     altered_spans : Disclosures,
     before_digests : Contexts, before_root : Contexts,
     after_digests : Contexts, after_root : Contexts]

CernTypeOK ==
    /\ context \in Contexts
    /\ \A e \in minted : e \in [receipt : CernReceipt, signature : {CernPayload(e.receipt)}]
    /\ cernLedger \in Seq(CernReceipt)

\* What a receipt discloses accounts for what it changed.
Accounted(r) ==
    DeriveDelta(r.before_digests, r.after_digests, r.mutation_type, r.integrity_claim,
                r.altered_spans)

\* Every receipt accounts for its change and starts where the one before it ended.
LedgerIsLinked ==
    \A k \in DOMAIN cernLedger :
        /\ cernLedger[k].before_digests = cernLedger[k].before_root
        /\ cernLedger[k].after_digests = cernLedger[k].after_root
        /\ Accounted(cernLedger[k])
        /\ k > 1 => cernLedger[k].before_root = cernLedger[k - 1].after_root

CernInv ==
    /\ CernTypeOK
    /\ LedgerIsLinked
    /\ VanishedSpansAreDisclosed
    /\ NewSpansAreAnnounced

--------------------------------------------------------------------------------

LEMMA HandedType ==
    ASSUME CernTypeOK, NEW e \in Handed PROVE e.receipt \in CernReceipt
<1>1. CASE e \in minted
  BY <1>1 DEF CernTypeOK
<1>2. ASSUME NEW m \in minted, NEW a, e = [m EXCEPT !.receipt.altered_spans = @ \ {a}]
      PROVE  e.receipt \in CernReceipt
  <2>1. m.receipt \in CernReceipt /\ m \in [receipt : CernReceipt, signature : {m.signature}]
    BY DEF CernTypeOK
  <2>2. m.receipt.altered_spans \ {a} \in Disclosures
    BY <2>1 DEF CernReceipt, Disclosures
  <2>3. e.receipt = [m.receipt EXCEPT !.altered_spans = @ \ {a}]
    BY <2>1, <1>2
  <2> QED
    BY <2>1, <2>2, <2>3 DEF CernReceipt
<1>3. ASSUME NEW m \in minted, NEW c \in Contexts,
             e = [m EXCEPT !.receipt.after_digests = c]
      PROVE  e.receipt \in CernReceipt
  <2>1. m.receipt \in CernReceipt /\ m \in [receipt : CernReceipt, signature : {m.signature}]
    BY DEF CernTypeOK
  <2>2. e.receipt = [m.receipt EXCEPT !.after_digests = c]
    BY <2>1, <1>3
  <2> QED
    BY <2>1, <2>2 DEF CernReceipt
<1>4. ASSUME NEW m \in minted, NEW t \in MutationTypes,
             e = [m EXCEPT !.receipt.mutation_type = t]
      PROVE  e.receipt \in CernReceipt
  <2>1. m.receipt \in CernReceipt /\ m \in [receipt : CernReceipt, signature : {m.signature}]
    BY DEF CernTypeOK
  <2>2. e.receipt = [m.receipt EXCEPT !.mutation_type = t]
    BY <2>1, <1>4
  <2> QED
    BY <2>1, <2>2 DEF CernReceipt
<1> QED
  BY <1>1, <1>2, <1>3, <1>4 DEF Handed

\* One receipt more: a span it starts with stays or is disclosed.
LEMMA OneReceiptDiscloses ==
    ASSUME NEW r \in CernReceipt, Accounted(r), r.mutation_type # "summarize",
           NEW s \in Spans(r.before_digests)
    PROVE  s \in Spans(r.after_digests) \/ s \in Originals(r.altered_spans)
BY DEF Accounted, DeriveDelta, CernReceipt, MutationTypes

LEMMA OneReceiptAnnounces ==
    ASSUME NEW r \in CernReceipt, Accounted(r),
           r.mutation_type \notin {"append", "summarize"},
           NEW s \in Spans(r.after_digests)
    PROVE  s \in Spans(r.before_digests) \/ s \in Results(r.altered_spans)
BY DEF Accounted, DeriveDelta, CernReceipt, MutationTypes

--------------------------------------------------------------------------------

LEMMA InitCernInv == LedgerInit => CernInv
<1> SUFFICES ASSUME LedgerInit PROVE CernInv
  OBVIOUS
<1>1. <<>> \in [1 .. 0 -> Span] /\ 0 \in 0 .. MaxSpans
  BY LedgerAssumption
<1>2. context \in Contexts
  BY <1>1 DEF LedgerInit, Contexts
<1> QED
  BY <1>2 DEF LedgerInit, CernInv, CernTypeOK, LedgerIsLinked, VanishedSpansAreDisclosed,
         NewSpansAreAnnounced

LEMMA MutateKeepsType == CernTypeOK /\ Mutate => CernTypeOK'
<1> SUFFICES ASSUME CernTypeOK, Mutate PROVE CernTypeOK'
  OBVIOUS
<1>1. PICK after \in Contexts, type \in MutationTypes, claim \in IntegrityClaims,
           altered \in AlteredAsked :
        /\ context' = after
        /\ minted' = minted \cup {SignCern(
                [mutation_type |-> type, integrity_claim |-> claim,
                 altered_spans |-> altered,
                 before_digests |-> context, before_root |-> context,
                 after_digests |-> after, after_root |-> after])}
  BY DEF Mutate
<1> DEFINE r == [mutation_type |-> type, integrity_claim |-> claim,
                 altered_spans |-> altered,
                 before_digests |-> context, before_root |-> context,
                 after_digests |-> after, after_root |-> after]
<1>2. r \in CernReceipt
  BY LedgerAssumption DEF CernTypeOK, CernReceipt
<1> HIDE DEF r
<1>3. SignCern(r) \in [receipt : CernReceipt, signature : {CernPayload(SignCern(r).receipt)}]
  BY <1>2 DEF SignCern
<1>4. minted' = minted \cup {SignCern(r)}
  BY <1>1 DEF r
<1>5. cernLedger' = cernLedger
  BY DEF Mutate
<1> QED
  BY <1>1, <1>3, <1>4, <1>5 DEF CernTypeOK

\* The ledger after one receipt more.
LEMMA AuditKeepsInv == CernInv /\ AuditCern => CernInv'
<1> SUFFICES ASSUME CernInv, AuditCern PROVE CernInv'
  OBVIOUS
<1> USE DEF CernInv
<1>1. PICK e \in Handed :
        /\ VerifyCern(e)
        /\ cernLedger # <<>> =>
              e.receipt.before_root = cernLedger[Len(cernLedger)].after_root
        /\ cernLedger' = Append(cernLedger, e.receipt)
  BY DEF AuditCern
<1> DEFINE r == e.receipt
           n == Len(cernLedger)
<1>2. r \in CernReceipt
  BY HandedType
<1>3. /\ r.before_digests = r.before_root
      /\ r.after_digests = r.after_root
      /\ Accounted(r)
  BY <1>1 DEF VerifyCern, Accounted
<1>4. /\ n \in Nat
      /\ DOMAIN cernLedger = 1 .. n
      /\ cernLedger' \in Seq(CernReceipt)
      /\ Len(cernLedger') = n + 1
      /\ DOMAIN cernLedger' = 1 .. n + 1
      /\ cernLedger'[n + 1] = r
      /\ \A k \in 1 .. n : cernLedger'[k] = cernLedger[k]
  BY <1>1, <1>2 DEF CernTypeOK
<1>5. n > 0 => r.before_digests = cernLedger[n].after_digests
  BY <1>1, <1>3, <1>4 DEF LedgerIsLinked
<1> HIDE DEF r, n
<1>6. CernTypeOK'
  BY <1>4 DEF CernTypeOK, AuditCern
<1>7. LedgerIsLinked'
  <2> SUFFICES ASSUME NEW k \in 1 .. n + 1
               PROVE  /\ cernLedger'[k].before_digests = cernLedger'[k].before_root
                      /\ cernLedger'[k].after_digests = cernLedger'[k].after_root
                      /\ Accounted(cernLedger'[k])
                      /\ k > 1 => cernLedger'[k].before_root = cernLedger'[k - 1].after_root
    BY <1>4 DEF LedgerIsLinked, Accounted
  <2>1. CASE k \in 1 .. n
    <3>1. cernLedger'[k] = cernLedger[k] /\ (k > 1 => cernLedger'[k - 1] = cernLedger[k - 1])
      BY <2>1, <1>4
    <3> QED
      BY <2>1, <3>1, <1>4 DEF LedgerIsLinked
  <2>2. CASE k = n + 1
    <3>1. k > 1 => n > 0 /\ cernLedger'[k - 1] = cernLedger[n]
      BY <2>2, <1>4
    <3>2. n > 0 => r.before_root = cernLedger[n].after_root
      BY <1>3, <1>4, <1>5 DEF LedgerIsLinked
    <3> QED
      BY <2>2, <3>1, <3>2, <1>3, <1>4
  <2> QED
    BY <2>1, <2>2, <1>4
<1>8. VanishedSpansAreDisclosed'
  <2> SUFFICES ASSUME NEW i \in 1 .. n + 1, NoneSince(i, {"summarize"})',
                      NEW s \in Spans(cernLedger'[i].before_digests),
                      s \notin Spans(r.after_digests)
               PROVE  \E k \in i .. n + 1 : s \in Originals(cernLedger'[k].altered_spans)
    BY <1>4 DEF VanishedSpansAreDisclosed
  <2>1. r.mutation_type # "summarize"
    BY <1>4 DEF NoneSince
  <2>2. s \in Spans(r.before_digests) => s \in Originals(r.altered_spans)
    BY <2>1, <1>2, <1>3, OneReceiptDiscloses DEF r
  <2>3. CASE i = n + 1
    BY <2>2, <2>3, <1>4
  <2>4. CASE i \in 1 .. n
    <3>1. NoneSince(i, {"summarize"})
      BY <2>4, <1>4 DEF NoneSince, n
    <3>2. \/ s \in Spans(cernLedger[n].after_digests)
          \/ \E k \in i .. n : s \in Originals(cernLedger[k].altered_spans)
      BY <2>4, <3>1, <1>4 DEF VanishedSpansAreDisclosed, n
    <3>3. CASE s \in Spans(cernLedger[n].after_digests)
      BY <3>3, <2>2, <2>4, <1>4, <1>5
    <3>4. CASE \E k \in i .. n : s \in Originals(cernLedger[k].altered_spans)
      BY <3>4, <2>4, <1>4
    <3> QED
      BY <3>2, <3>3, <3>4
  <2> QED
    BY <2>3, <2>4, <1>4
<1>9. NewSpansAreAnnounced'
  <2> SUFFICES ASSUME NEW i \in 1 .. n + 1, NoneSince(i, {"append", "summarize"})',
                      NEW s \in Spans(r.after_digests),
                      s \notin Spans(cernLedger'[i].before_digests)
               PROVE  \E k \in i .. n + 1 : s \in Results(cernLedger'[k].altered_spans)
    BY <1>4 DEF NewSpansAreAnnounced
  <2>1. r.mutation_type \notin {"append", "summarize"}
    BY <1>4 DEF NoneSince
  <2>2. s \in Spans(r.before_digests) \/ s \in Results(r.altered_spans)
    BY <2>1, <1>2, <1>3, OneReceiptAnnounces DEF r
  <2>3. CASE s \in Results(r.altered_spans)
    BY <2>3, <1>4
  <2>4. CASE s \notin Results(r.altered_spans)
    <3>1. i \in 1 .. n /\ s \in Spans(cernLedger[n].after_digests)
      BY <2>2, <2>4, <1>4, <1>5
    <3>2. NoneSince(i, {"append", "summarize"})
      BY <3>1, <1>4 DEF NoneSince, n
    <3>3. \E k \in i .. n : s \in Results(cernLedger[k].altered_spans)
      BY <3>1, <3>2, <1>4 DEF NewSpansAreAnnounced, n
    <3> QED
      BY <3>1, <3>3, <1>4
  <2> QED
    BY <2>3, <2>4
<1> QED
  BY <1>6, <1>7, <1>8, <1>9

LEMMA StepCernInv == CernInv /\ [LedgerNext]_ledgerVars => CernInv'
<1> SUFFICES ASSUME CernInv, [LedgerNext]_ledgerVars PROVE CernInv'
  OBVIOUS
<1> DEFINE Rest == LedgerIsLinked /\ VanishedSpansAreDisclosed /\ NewSpansAreAnnounced
<1>1. cernLedger' = cernLedger => Rest'
  BY DEF CernInv, LedgerIsLinked, VanishedSpansAreDisclosed, NewSpansAreAnnounced, NoneSince,
         Accounted
<1>2. CASE Mutate
  <2>1. cernLedger' = cernLedger
    BY <1>2 DEF Mutate
  <2> QED
    BY <1>1, <1>2, <2>1, MutateKeepsType DEF CernInv
<1>3. CASE MutateSilently
  <2>1. cernLedger' = cernLedger /\ minted' = minted /\ context' \in Contexts
    BY <1>3 DEF MutateSilently
  <2> QED
    BY <1>1, <2>1 DEF CernInv, CernTypeOK
<1>4. CASE AuditCern
  BY <1>4, AuditKeepsInv
<1>5. CASE UNCHANGED ledgerVars
  BY <1>1, <1>5 DEF CernInv, CernTypeOK, ledgerVars
<1> QED
  BY <1>2, <1>3, <1>4, <1>5 DEF LedgerNext

LEMMA CernInvariant == LedgerSpec => []CernInv
BY InitCernInv, StepCernInv, PTL DEF LedgerSpec

\* Whatever an agent kept quiet, an accepted ledger discloses every span that was in the
\* context and is gone, unless it says that it summarized (verifyCern).
THEOREM VanishedSpansDisclosed == LedgerSpec => []VanishedSpansAreDisclosed
BY CernInvariant, PTL DEF CernInv

\* And it announces every span that came in, unless it says that it appended or
\* summarized.
THEOREM NewSpansAnnounced == LedgerSpec => []NewSpansAreAnnounced
BY CernInvariant, PTL DEF CernInv

\* An accepted ledger is one unbroken account of the context, from receipt to receipt
\* (the auditor's look at before_root).
THEOREM AcceptedLedgerIsLinked == LedgerSpec => []LedgerIsLinked
BY CernInvariant, PTL DEF CernInv

--------------------------------------------------------------------------------
(* ToolReuse: for any tools, inputs, results, holders and any number of calls. *)

Outcomes == {"cold_nondeterministic", "chain", "cold_mint", "revoked"}

Events == [outcome : Outcomes, identity_key : Identities,
           result_digest : Digest \cup {NoDigest}, holder : Holder \cup {NoDigest},
           saved_us : Int]

ReuseTypeOK ==
    /\ anchorIndex \in [Identities -> Anchors \cup {NoDigest}]
    /\ revokedIds \subseteq Identities
    /\ reuseLog \in Seq(Events)

IsOf(lg, n, outcome, id) == lg[n].outcome = outcome /\ lg[n].identity_key = id

\* Of the first n entries of a log, the last proof for this identity is of this result
\* and holder.
LastProofIs(lg, n, id, result, holder) ==
    \E m \in 1 .. n :
        /\ IsOf(lg, m, "cold_mint", id)
        /\ lg[m].result_digest = result
        /\ lg[m].holder = holder
        /\ \A k \in m + 1 .. n : ~ IsOf(lg, k, "cold_mint", id)

\* The n-th entry, if it is a reuse, is of the last proof, never revoked before.
ReuseFits(lg, n) ==
    lg[n].outcome = "chain" =>
        /\ \A m \in 1 .. n - 1 : ~ IsOf(lg, m, "revoked", lg[n].identity_key)
        /\ LastProofIs(lg, n - 1, lg[n].identity_key, lg[n].result_digest, lg[n].holder)

\* What is signed in the index is the last proof, whatever became of the rest.
IndexHoldsLastProofs ==
    \A id \in Identities : anchorIndex[id] # NoDigest =>
        LastProofIs(reuseLog, Len(reuseLog), id, anchorIndex[id].signature.result_digest,
                    anchorIndex[id].signature.holder)

RevocationsKept ==
    \A n \in DOMAIN reuseLog :
        reuseLog[n].outcome = "revoked" => reuseLog[n].identity_key \in revokedIds

ReuseInv ==
    /\ ReuseTypeOK
    /\ IndexHoldsLastProofs
    /\ RevocationsKept
    /\ \A n \in DOMAIN reuseLog : ReuseFits(reuseLog, n)

--------------------------------------------------------------------------------

LEMMA CallTypes ==
    ASSUME NEW call \in ReuseCall
    PROVE  /\ ToolCallIdentity(call) \in Identities
           /\ call.result_digest \in Digest
           /\ call.holder \in Holder
           /\ MintToolAnchor(call) \in Anchors
<1>1. call \in Calls
  BY ReuseAssumption
<1>2. /\ call.tool_id \in ToolId /\ call.tool_hash \in Digest \cup {NoDigest}
      /\ call.input_hash \in Digest /\ call.result_digest \in Digest
      /\ call.holder \in Holder
  BY <1>1 DEF Calls
<1>3. ToolCallIdentity(call) \in Identities
  BY <1>2, ReuseAssumption DEF ToolCallIdentity, Identities
<1> QED
  BY <1>2, <1>3 DEF MintToolAnchor, Anchors, AnchorBase

\* A log with one entry more.
LEMMA LogGrows ==
    ASSUME NEW lg \in Seq(Events), NEW ev \in Events, NEW more, more = Append(lg, ev)
    PROVE  /\ more \in Seq(Events)
           /\ Len(lg) \in Nat /\ Len(more) = Len(lg) + 1
           /\ DOMAIN lg = 1 .. Len(lg) /\ DOMAIN more = 1 .. Len(lg) + 1
           /\ more[Len(lg) + 1] = ev
           /\ \A k \in 1 .. Len(lg) : more[k] = lg[k]
OBVIOUS

\* Old entries keep what they are, and the last proof of an identity is the same
\* unless the new entry is one.
LEMMA OldEntriesFit ==
    ASSUME NEW lg \in Seq(Events), NEW ev \in Events, NEW more, more = Append(lg, ev)
    PROVE  /\ \A n \in DOMAIN lg : ReuseFits(lg, n) => ReuseFits(more, n)
           /\ \A id, result, holder :
                 /\ LastProofIs(lg, Len(lg), id, result, holder)
                 /\ ~ (ev.outcome = "cold_mint" /\ ev.identity_key = id)
                 => LastProofIs(more, Len(more), id, result, holder)
<1> DEFINE len == Len(lg)
<1>1. /\ len \in Nat /\ Len(more) = len + 1 /\ DOMAIN lg = 1 .. len
      /\ more[len + 1] = ev
      /\ \A k \in 1 .. len : more[k] = lg[k]
  BY LogGrows
<1> HIDE DEF len
<1>2. \A k \in 1 .. len : \A outcome, id : IsOf(more, k, outcome, id) <=> IsOf(lg, k, outcome, id)
  BY <1>1 DEF IsOf
<1>3. ASSUME NEW n \in 1 .. len, ReuseFits(lg, n) PROVE ReuseFits(more, n)
  <2>1. more[n] = lg[n] /\ n \in Nat /\ \A k \in 1 .. n - 1 : k \in 1 .. len /\ more[k] = lg[k]
    BY <1>1
  <2> SUFFICES ASSUME lg[n].outcome = "chain"
               PROVE  /\ \A m \in 1 .. n - 1 : ~ IsOf(more, m, "revoked", lg[n].identity_key)
                      /\ LastProofIs(more, n - 1, lg[n].identity_key,
                                     lg[n].result_digest, lg[n].holder)
    BY <2>1 DEF ReuseFits
  <2>2. \A m \in 1 .. n - 1 : ~ IsOf(more, m, "revoked", lg[n].identity_key)
    BY <1>2, <1>3, <2>1 DEF ReuseFits
  <2>3. LastProofIs(lg, n - 1, lg[n].identity_key, lg[n].result_digest, lg[n].holder)
    BY <1>3 DEF ReuseFits
  <2>4. PICK m \in 1 .. n - 1 :
          /\ IsOf(lg, m, "cold_mint", lg[n].identity_key)
          /\ lg[m].result_digest = lg[n].result_digest
          /\ lg[m].holder = lg[n].holder
          /\ \A k \in m + 1 .. n - 1 : ~ IsOf(lg, k, "cold_mint", lg[n].identity_key)
    BY <2>3 DEF LastProofIs
  <2>5. \A k \in m + 1 .. n - 1 : ~ IsOf(more, k, "cold_mint", lg[n].identity_key)
    <3>1. \A k \in m + 1 .. n - 1 : k \in 1 .. n - 1
      BY <2>1, <2>4
    <3> QED
      BY <1>2, <2>1, <2>4, <3>1
  <2>6. LastProofIs(more, n - 1, lg[n].identity_key, lg[n].result_digest, lg[n].holder)
    BY <1>2, <2>1, <2>4, <2>5 DEF LastProofIs
  <2> QED
    BY <2>2, <2>6
<1>4. ASSUME NEW id, NEW result, NEW holder,
             LastProofIs(lg, len, id, result, holder),
             ~ (ev.outcome = "cold_mint" /\ ev.identity_key = id)
      PROVE  LastProofIs(more, len + 1, id, result, holder)
  <2>1. PICK m \in 1 .. len :
          /\ IsOf(lg, m, "cold_mint", id)
          /\ lg[m].result_digest = result
          /\ lg[m].holder = holder
          /\ \A k \in m + 1 .. len : ~ IsOf(lg, k, "cold_mint", id)
    BY <1>4 DEF LastProofIs
  <2>2. m \in 1 .. len + 1 /\ more[m] = lg[m] /\ IsOf(more, m, "cold_mint", id)
    BY <1>1, <1>2, <2>1
  <2>3. ~ IsOf(more, len + 1, "cold_mint", id)
    BY <1>1, <1>4 DEF IsOf
  <2>4. ASSUME NEW k \in m + 1 .. len + 1 PROVE ~ IsOf(more, k, "cold_mint", id)
    <3>1. (k \in 1 .. len /\ k \in m + 1 .. len) \/ k = len + 1
      BY <1>1, <2>1
    <3> QED
      BY <1>2, <2>1, <2>3, <3>1
  <2> QED
    BY <2>1, <2>2, <2>4 DEF LastProofIs
<1> QED
  BY <1>1, <1>3, <1>4 DEF len

\* A new proof is the last one.
LEMMA NewProofIsLast ==
    ASSUME NEW lg \in Seq(Events), NEW ev \in Events, NEW more, more = Append(lg, ev),
           ev.outcome = "cold_mint"
    PROVE  LastProofIs(more, Len(more), ev.identity_key, ev.result_digest, ev.holder)
<1>1. /\ Len(more) \in Nat /\ Len(more) > 0 /\ more[Len(more)] = ev
  BY LogGrows
<1>2. IsOf(more, Len(more), "cold_mint", ev.identity_key)
  BY <1>1 DEF IsOf
<1>3. \A k \in Len(more) + 1 .. Len(more) : FALSE
  BY <1>1
<1>4. Len(more) \in 1 .. Len(more)
  BY <1>1
<1> QED
  BY <1>1, <1>2, <1>3, <1>4, Zenon DEF LastProofIs

\* The part of the invariant that is about the log, when it grows by one entry.
LEMMA LogKeepsInv ==
    ASSUME ReuseInv, NEW ev \in Events, reuseLog' = Append(reuseLog, ev),
           revokedIds \subseteq revokedIds',
           ev.outcome = "revoked" => ev.identity_key \in revokedIds',
           ReuseFits(reuseLog', Len(reuseLog) + 1)
    PROVE  /\ reuseLog' \in Seq(Events)
           /\ RevocationsKept'
           /\ \A n \in DOMAIN reuseLog' : ReuseFits(reuseLog', n)
<1> DEFINE len == Len(reuseLog)
           more == reuseLog'
<1>1. /\ reuseLog \in Seq(Events)
      /\ more \in Seq(Events)
      /\ len \in Nat /\ DOMAIN reuseLog = 1 .. len /\ DOMAIN more = 1 .. len + 1
      /\ more[len + 1] = ev
      /\ \A k \in 1 .. len : more[k] = reuseLog[k]
  BY LogGrows DEF ReuseInv, ReuseTypeOK
<1>2. \A n \in 1 .. len : ReuseFits(more, n)
  BY <1>1, OldEntriesFit DEF ReuseInv
<1>3. \A n \in 1 .. len + 1 : n \in 1 .. len \/ n = len + 1
  BY <1>1
<1>4. \A n \in DOMAIN more : ReuseFits(more, n)
  BY <1>1, <1>2, <1>3
<1>5. ASSUME NEW n \in DOMAIN more, more[n].outcome = "revoked"
      PROVE  more[n].identity_key \in revokedIds'
  BY <1>1, <1>3, <1>5 DEF ReuseInv, RevocationsKept
<1> QED
  BY <1>1, <1>4, <1>5 DEF RevocationsKept

\* What is kept for an identity stays its last proof when the entry is no proof of it.
LEMMA ProofStaysLast ==
    ASSUME ReuseInv, NEW ev \in Events, reuseLog' = Append(reuseLog, ev),
           NEW id \in Identities, anchorIndex[id] # NoDigest,
           anchorIndex'[id] = anchorIndex[id],
           ev.outcome # "cold_mint" \/ ev.identity_key # id
    PROVE  LastProofIs(reuseLog', Len(reuseLog'), id,
                       anchorIndex'[id].signature.result_digest,
                       anchorIndex'[id].signature.holder)
<1>1. LastProofIs(reuseLog, Len(reuseLog), id, anchorIndex[id].signature.result_digest,
                  anchorIndex[id].signature.holder)
  BY DEF ReuseInv, IndexHoldsLastProofs
<1>2. reuseLog \in Seq(Events)
  BY DEF ReuseInv, ReuseTypeOK
<1> DEFINE more == reuseLog'
<1>3. more = Append(reuseLog, ev)
  OBVIOUS
<1> HIDE DEF more
<1>4. \A result, holder :
        LastProofIs(reuseLog, Len(reuseLog), id, result, holder)
          => LastProofIs(more, Len(more), id, result, holder)
  BY <1>2, <1>3, OldEntriesFit
<1>5. LastProofIs(more, Len(more), id, anchorIndex[id].signature.result_digest,
                  anchorIndex[id].signature.holder)
  BY <1>1, <1>4
<1> QED
  BY <1>5 DEF more

\* Entries that are no reuse fit.
LEMMA OthersFit ==
    ASSUME NEW lg \in Seq(Events), NEW ev \in Events, ev.outcome # "chain"
    PROVE  ReuseFits(Append(lg, ev), Len(lg) + 1)
BY LogGrows DEF ReuseFits

--------------------------------------------------------------------------------

LEMMA InitReuseInv == ReuseInit => ReuseInv
BY DEF ReuseInit, ReuseInv, ReuseTypeOK, IndexHoldsLastProofs, RevocationsKept

LEMMA NondeterministicKeepsInv ==
    ASSUME ReuseInv, NEW call \in ReuseCall, ResolveNondeterministic(call) PROVE ReuseInv'
<1> DEFINE ev == Event("cold_nondeterministic", ToolCallIdentity(call), call.result_digest,
                       call.holder, 0)
<1>1. ev \in Events
  BY CallTypes DEF Event, Events, Outcomes
<1>2. ev.outcome = "cold_nondeterministic"
  BY DEF Event
<1>3. /\ reuseLog' = Append(reuseLog, ev)
      /\ anchorIndex' = anchorIndex /\ revokedIds' = revokedIds
      /\ reuseLog \in Seq(Events)
  BY DEF ResolveNondeterministic, ReuseInv, ReuseTypeOK
<1> HIDE DEF ev
<1>4. ReuseFits(reuseLog', Len(reuseLog) + 1)
  BY <1>1, <1>2, <1>3, OthersFit
<1>5. /\ reuseLog' \in Seq(Events) /\ RevocationsKept'
      /\ \A n \in DOMAIN reuseLog' : ReuseFits(reuseLog', n)
  BY <1>1, <1>2, <1>3, <1>4, LogKeepsInv
<1>6. IndexHoldsLastProofs'
  BY <1>1, <1>2, <1>3, ProofStaysLast DEF IndexHoldsLastProofs
<1> QED
  BY <1>3, <1>5, <1>6 DEF ReuseInv, ReuseTypeOK

LEMMA ChainKeepsInv ==
    ASSUME ReuseInv, NEW call \in ReuseCall, Chain(call) PROVE ReuseInv'
<1> DEFINE id == ToolCallIdentity(call)
           anchor == anchorIndex[id]
           ev == Event("chain", id, call.result_digest, anchor.base.holder, SavedUs)
           len == Len(reuseLog)
<1>1. id \in Identities /\ call.result_digest \in Digest
  BY CallTypes
<1>2. /\ anchor \in Anchors /\ anchor # NoDigest
      /\ id \notin revokedIds
      /\ anchor.signature = anchor.base
      /\ call.result_digest = anchor.base.result_digest
  BY <1>1 DEF Chain, MayChain, VerifyToolAnchor, ReuseInv, ReuseTypeOK
<1>3. ev \in Events
  <2>1. anchor.base.holder \in Holder
    BY <1>2 DEF Anchors, AnchorBase
  <2>2. SavedUs \in Int
    BY ReuseAssumption DEF SavedUs
  <2> QED
    BY <1>1, <2>1, <2>2 DEF Event, Events, Outcomes
<1>4. /\ reuseLog' = Append(reuseLog, ev)
      /\ anchorIndex' = anchorIndex /\ revokedIds' = revokedIds
      /\ reuseLog \in Seq(Events)
  BY DEF Chain, ReuseInv, ReuseTypeOK
<1>5. /\ ev.outcome = "chain" /\ ev.identity_key = id
      /\ ev.result_digest = anchor.signature.result_digest
      /\ ev.holder = anchor.signature.holder
  BY <1>2 DEF Event
<1>6. LastProofIs(reuseLog, len, id, anchor.signature.result_digest, anchor.signature.holder)
  BY <1>1, <1>2 DEF ReuseInv, IndexHoldsLastProofs
<1> HIDE DEF ev, anchor, id
<1>7. ReuseFits(reuseLog', len + 1)
  <2>1. /\ len \in Nat /\ Len(reuseLog') = len + 1
        /\ reuseLog'[len + 1] = ev
        /\ \A k \in 1 .. len : reuseLog'[k] = reuseLog[k]
        /\ DOMAIN reuseLog = 1 .. len
    BY <1>3, <1>4, LogGrows
  <2>2. ASSUME NEW m \in 1 .. len PROVE ~ IsOf(reuseLog', m, "revoked", id)
    BY <2>1, <1>2 DEF IsOf, ReuseInv, RevocationsKept
  <2>3. LastProofIs(reuseLog', len, id, ev.result_digest, ev.holder)
    <3>1. PICK m \in 1 .. len :
            /\ IsOf(reuseLog, m, "cold_mint", id)
            /\ reuseLog[m].result_digest = ev.result_digest
            /\ reuseLog[m].holder = ev.holder
            /\ \A k \in m + 1 .. len : ~ IsOf(reuseLog, k, "cold_mint", id)
      BY <1>5, <1>6 DEF LastProofIs
    <3>2. \A k \in m + 1 .. len : k \in 1 .. len
      BY <2>1, <3>1
    <3>3. \A k \in 1 .. len : IsOf(reuseLog', k, "cold_mint", id)
                                  <=> IsOf(reuseLog, k, "cold_mint", id)
      BY <2>1 DEF IsOf
    <3> QED
      BY <2>1, <3>1, <3>2, <3>3 DEF LastProofIs
  <2>4. len + 1 - 1 = len
    BY <2>1
  <2> QED
    BY <1>5, <2>1, <2>2, <2>3, <2>4 DEF ReuseFits
<1>8. /\ reuseLog' \in Seq(Events) /\ RevocationsKept'
      /\ \A n \in DOMAIN reuseLog' : ReuseFits(reuseLog', n)
  BY <1>3, <1>4, <1>5, <1>7, LogKeepsInv
<1>9. IndexHoldsLastProofs'
  BY <1>3, <1>4, <1>5, ProofStaysLast DEF IndexHoldsLastProofs
<1> QED
  BY <1>4, <1>8, <1>9 DEF ReuseInv, ReuseTypeOK

LEMMA ColdMintKeepsInv ==
    ASSUME ReuseInv, NEW call \in ReuseCall, ColdMint(call) PROVE ReuseInv'
<1> DEFINE id == ToolCallIdentity(call)
           anchor == MintToolAnchor(call)
           ev == Event("cold_mint", id, call.result_digest, call.holder, 0)
<1>1. /\ id \in Identities /\ anchor \in Anchors
      /\ call.result_digest \in Digest /\ call.holder \in Holder
  BY CallTypes
<1>2. ev \in Events
  BY <1>1 DEF Event, Events, Outcomes
<1>3. /\ reuseLog' = Append(reuseLog, ev)
      /\ anchorIndex' = [anchorIndex EXCEPT ![id] = anchor]
      /\ revokedIds' = revokedIds
      /\ reuseLog \in Seq(Events)
      /\ anchorIndex \in [Identities -> Anchors \cup {NoDigest}]
  BY DEF ColdMint, ReuseInv, ReuseTypeOK
<1>4. /\ ev.outcome = "cold_mint" /\ ev.identity_key = id
      /\ ev.result_digest = anchor.signature.result_digest
      /\ ev.holder = anchor.signature.holder
  BY DEF Event, MintToolAnchor
<1> HIDE DEF ev, anchor, id
<1>5. ReuseFits(reuseLog', Len(reuseLog) + 1)
  BY <1>2, <1>3, <1>4, OthersFit
<1>6. /\ reuseLog' \in Seq(Events) /\ RevocationsKept'
      /\ \A n \in DOMAIN reuseLog' : ReuseFits(reuseLog', n)
  BY <1>2, <1>3, <1>4, <1>5, LogKeepsInv
<1>7. ASSUME NEW other \in Identities, anchorIndex'[other] # NoDigest
      PROVE  LastProofIs(reuseLog', Len(reuseLog'), other,
                         anchorIndex'[other].signature.result_digest,
                         anchorIndex'[other].signature.holder)
  <2>1. CASE other = id
    <3>1. anchorIndex'[other] = anchor
      BY <1>3, <2>1
    <3> QED
      BY <1>2, <1>3, <1>4, <2>1, <3>1, NewProofIsLast
  <2>2. CASE other # id
    <3>1. anchorIndex'[other] = anchorIndex[other]
      BY <1>3, <2>2
    <3> QED
      BY <1>2, <1>3, <1>4, <1>7, <2>2, <3>1, ProofStaysLast
  <2> QED
    BY <2>1, <2>2
<1>8. ReuseTypeOK'
  BY <1>1, <1>3, <1>6 DEF ReuseInv, ReuseTypeOK
<1> QED
  BY <1>6, <1>7, <1>8 DEF ReuseInv, IndexHoldsLastProofs

LEMMA RevokeKeepsInv ==
    ASSUME ReuseInv, NEW id \in Identities, Revoke(id) PROVE ReuseInv'
<1> DEFINE ev == Event("revoked", id, NoDigest, NoDigest, 0)
<1>1. ev \in Events /\ ev.outcome = "revoked" /\ ev.identity_key = id
  BY DEF Event, Events, Outcomes
<1>2. /\ reuseLog' = Append(reuseLog, ev)
      /\ anchorIndex' = anchorIndex /\ revokedIds' = revokedIds \cup {id}
      /\ reuseLog \in Seq(Events)
  BY DEF Revoke, ReuseInv, ReuseTypeOK
<1> HIDE DEF ev
<1>3. ReuseFits(reuseLog', Len(reuseLog) + 1)
  BY <1>1, <1>2, OthersFit
<1>4. /\ reuseLog' \in Seq(Events) /\ RevocationsKept'
      /\ \A n \in DOMAIN reuseLog' : ReuseFits(reuseLog', n)
  BY <1>1, <1>2, <1>3, LogKeepsInv
<1>5. IndexHoldsLastProofs'
  BY <1>1, <1>2, ProofStaysLast DEF IndexHoldsLastProofs
<1> QED
  BY <1>2, <1>4, <1>5 DEF ReuseInv, ReuseTypeOK

LEMMA DamageKeepsInv ==
    ASSUME ReuseInv, NEW id \in Identities, Damage(id) PROVE ReuseInv'
<1>1. PICK call \in ReuseCall :
        anchorIndex' = [anchorIndex EXCEPT ![id].base = MintToolAnchor(call).base]
  BY DEF Damage
<1>2. /\ anchorIndex \in [Identities -> Anchors \cup {NoDigest}]
      /\ anchorIndex[id] # NoDigest
      /\ reuseLog' = reuseLog /\ revokedIds' = revokedIds
  BY DEF Damage, ReuseInv, ReuseTypeOK
<1>3. anchorIndex[id] \in Anchors /\ MintToolAnchor(call).base \in AnchorBase
  BY <1>2, CallTypes DEF Anchors
<1> DEFINE damaged == [anchorIndex[id] EXCEPT !.base = MintToolAnchor(call).base]
<1>4. damaged \in Anchors /\ damaged.signature = anchorIndex[id].signature
  BY <1>3 DEF Anchors
<1>5. anchorIndex' = [anchorIndex EXCEPT ![id] = damaged]
  BY <1>1
<1> HIDE DEF damaged
<1>6. /\ anchorIndex' \in [Identities -> Anchors \cup {NoDigest}]
      /\ \A other \in Identities : anchorIndex'[other] # NoDigest =>
            /\ anchorIndex[other] # NoDigest
            /\ anchorIndex'[other].signature = anchorIndex[other].signature
  BY <1>2, <1>4, <1>5
<1>7. IndexHoldsLastProofs'
  BY <1>2, <1>6 DEF ReuseInv, IndexHoldsLastProofs
<1> QED
  BY <1>2, <1>6, <1>7 DEF ReuseInv, ReuseTypeOK, RevocationsKept

LEMMA StepReuseInv == ReuseInv /\ [ReuseNext]_reuseVars => ReuseInv'
<1> SUFFICES ASSUME ReuseInv, [ReuseNext]_reuseVars PROVE ReuseInv'
  OBVIOUS
<1>1. ASSUME NEW call \in ReuseCall, ResolveToolCall(call) PROVE ReuseInv'
  BY <1>1, NondeterministicKeepsInv, ChainKeepsInv, ColdMintKeepsInv DEF ResolveToolCall
<1>2. ASSUME NEW id \in UsedIds, Revoke(id) \/ Damage(id) PROVE ReuseInv'
  <2>1. id \in Identities
    BY CallTypes DEF UsedIds
  <2> QED
    BY <1>2, <2>1, RevokeKeepsInv, DamageKeepsInv
<1>3. CASE UNCHANGED reuseVars
  BY <1>3 DEF reuseVars, ReuseInv, ReuseTypeOK, IndexHoldsLastProofs, RevocationsKept
<1> QED
  BY <1>1, <1>2, <1>3 DEF ReuseNext

LEMMA ReuseInvariant == ReuseSpec => []ReuseInv
BY InitReuseInv, StepReuseInv, PTL DEF ReuseSpec

LEMMA InvGivesLatestProof == ReuseInv => ReuseIsOfTheLatestProof
BY DEF ReuseInv, ReuseFits, LastProofIs, IsOf, ReuseIsOfTheLatestProof, Of

\* Whatever was revoked, damaged or proven again in between, a reused result is the one
\* proven last for the very same call, and that call was never revoked (resolveToolCall).
THEOREM ReuseIsLatest == ReuseSpec => []ReuseIsOfTheLatestProof
BY ReuseInvariant, InvGivesLatestProof, PTL

\* The caller's index never lags: what is signed in it is the last proof of each
\* identity, even where the rest of the anchor was damaged (mintToolAnchor).
THEOREM IndexIsCurrent == ReuseSpec => []IndexHoldsLastProofs
<1>1. ReuseInv => IndexHoldsLastProofs
  BY DEF ReuseInv
<1> QED
  BY <1>1, ReuseInvariant, PTL

--------------------------------------------------------------------------------
(* RateLimit: for any clients, window, rate, size of the map and number of requests. *)

Buckets == [count : Nat, reset : Nat]
Admissions == [at : Nat, reset : Nat]

RateTypeOK ==
    /\ ticks \in Nat
    /\ rlBuckets \in [Client -> Buckets]
    /\ admitted \in [Client -> Seq(Admissions)]

\* A request is admitted within the window of its bucket, and RateMax requests later
\* the bucket is another one, whose window begins when that one ends or later.
LogFits(a) ==
    \A i \in DOMAIN a :
        /\ a[i].reset <= a[i].at + Window
        /\ a[i].at < a[i].reset
        /\ i + RateMax \in DOMAIN a => a[i + RateMax].reset >= a[i].reset + Window

\* The bucket counts at least the requests that were admitted into its window, which
\* are the last ones: all others were in windows that had ended when it was made.  A
\* client without a bucket is in no window.
BucketFits(b, a, t) ==
    /\ b.count = 0 => \A i \in DOMAIN a : a[i].reset <= t
    /\ b.count > 0 =>
          /\ b.reset <= t + Window
          /\ \A i \in DOMAIN a :
                /\ a[i].reset <= b.reset
                /\ i <= Len(a) - b.count => a[i].reset + Window <= b.reset

RateInv ==
    /\ RateTypeOK
    /\ \A c \in Client :
          /\ LogFits(admitted[c])
          /\ BucketFits(rlBuckets[c], admitted[c], ticks)

--------------------------------------------------------------------------------

\* A bucket that has ended can go.
LEMMA EndedBucketFits ==
    ASSUME NEW b \in Buckets, NEW a \in Seq(Admissions), NEW t \in Nat,
           BucketFits(b, a, t), t >= b.reset
    PROVE  BucketFits(NoBucket, a, t)
<1>1. ASSUME NEW i \in DOMAIN a PROVE a[i].reset <= t
  <2>1. a[i] \in Admissions
    OBVIOUS
  <2>2. CASE b.count = 0
    BY <2>2 DEF BucketFits
  <2>3. CASE b.count > 0
    BY <2>1, <2>3 DEF BucketFits, Buckets, Admissions
  <2> QED
    BY <2>2, <2>3 DEF Buckets
<1> QED
  BY <1>1 DEF BucketFits, NoBucket

LEMMA SweepFits ==
    ASSUME RateInv
    PROVE  /\ Sweep(rlBuckets) \in [Client -> Buckets]
           /\ \A c \in Client : BucketFits(Sweep(rlBuckets)[c], admitted[c], ticks)
<1> USE DEF RateInv, RateTypeOK
<1>1. NoBucket \in Buckets
  BY DEF NoBucket, Buckets
<1>2. \A c \in Client : ticks >= rlBuckets[c].reset => BucketFits(NoBucket, admitted[c], ticks)
  BY EndedBucketFits
<1> QED
  BY <1>1, <1>2 DEF Sweep

\* One request: its bucket, and the log when it is admitted.
LEMMA AdmitFits ==
    ASSUME NEW b \in Buckets, NEW a \in Seq(Admissions), NEW t \in Nat,
           BucketFits(b, a, t), LogFits(a),
           NEW bucket \in Buckets,
           b.count = 0 \/ t >= b.reset =>
               bucket.count = 1 /\ bucket.reset = t + Window,
           ~ (b.count = 0 \/ t >= b.reset) =>
               bucket.count = b.count + 1 /\ bucket.reset = b.reset
    PROVE  /\ bucket.count > RateMax => BucketFits(bucket, a, t)
           /\ ~ (bucket.count > RateMax) =>
                 LET more == Append(a, [at |-> t, reset |-> bucket.reset])
                 IN  LogFits(more) /\ BucketFits(bucket, more, t)
<1> DEFINE n == Len(a)
           new == [at |-> t, reset |-> bucket.reset]
           more == Append(a, new)
<1> USE RateAssumption
<1>1. /\ n \in Nat /\ DOMAIN a = 1 .. n
      /\ \A i \in 1 .. n : a[i] \in Admissions /\ a[i].at \in Nat /\ a[i].reset \in Nat
      /\ b.count \in Nat /\ b.reset \in Nat /\ bucket.count \in Nat /\ bucket.reset \in Nat
  <2>1. n \in Nat /\ DOMAIN a = 1 .. n
    OBVIOUS
  <2>2. \A i \in 1 .. n : a[i] \in Admissions
    OBVIOUS
  <2>3. \A x \in Admissions : x.at \in Nat /\ x.reset \in Nat
    BY DEF Admissions
  <2>4. \A x \in Buckets : x.count \in Nat /\ x.reset \in Nat
    BY DEF Buckets
  <2> QED
    BY <2>1, <2>2, <2>3, <2>4
<1>2. /\ Len(more) = n + 1 /\ DOMAIN more = 1 .. n + 1
      /\ more[n + 1] = new
      /\ \A i \in 1 .. n : more[i] = a[i]
  BY DEF Admissions, Buckets
<1>3. new.at = t /\ new.reset = bucket.reset
  OBVIOUS
<1>0. /\ b.count = 0 => \A i \in 1 .. n : a[i].reset <= t
      /\ b.count > 0 =>
            /\ b.reset <= t + Window
            /\ \A i \in 1 .. n :
                  /\ a[i].reset <= b.reset
                  /\ i <= n - b.count => a[i].reset + Window <= b.reset
  BY <1>1 DEF BucketFits
<1>n. n \in Nat /\ RateMax \in Nat \ {0}
  BY <1>1
<1> HIDE DEF n, new, more
<1>4. /\ t < bucket.reset /\ bucket.reset <= t + Window /\ bucket.count > 0
      /\ \A i \in 1 .. n :
            /\ a[i].reset <= bucket.reset
            /\ i <= n + 1 - bucket.count => a[i].reset + Window <= bucket.reset
  <2>1. CASE b.count = 0
    <3>1. \A i \in 1 .. n : a[i].reset <= t
      BY <1>0, <2>1
    <3> QED
      BY <1>1, <2>1, <3>1
  <2>2. CASE b.count > 0 /\ t >= b.reset
    <3>1. \A i \in 1 .. n : a[i].reset <= t
      BY <1>0, <1>1, <2>2
    <3> QED
      BY <1>1, <2>2, <3>1
  <2>3. CASE b.count > 0 /\ ~ (t >= b.reset)
    <3>1. \A i \in 1 .. n :
            a[i].reset <= b.reset /\ (i <= n - b.count => a[i].reset + Window <= b.reset)
      BY <1>0, <2>3
    <3>2. bucket.count = b.count + 1 /\ bucket.reset = b.reset /\ b.reset <= t + Window
      BY <1>0, <2>3
    <3> QED
      BY <1>1, <2>3, <3>1, <3>2
  <2> QED
    BY <1>1, <2>1, <2>2, <2>3
<1>5. CASE bucket.count > RateMax
  <2>1. ASSUME NEW i \in 1 .. n
        PROVE  i <= n - bucket.count => a[i].reset + Window <= bucket.reset
    BY <1>1, <1>4
  <2>2. BucketFits(bucket, a, t)
    BY <1>1, <1>4, <2>1 DEF BucketFits, n
  <2> QED
    BY <1>5, <2>2
<1>6. CASE ~ (bucket.count > RateMax)
  <2>1. BucketFits(bucket, more, t)
    <3>1. ASSUME NEW i \in 1 .. n + 1
          PROVE  /\ more[i].reset <= bucket.reset
                 /\ i <= Len(more) - bucket.count => more[i].reset + Window <= bucket.reset
      <4>1. CASE i \in 1 .. n
        <5>1. more[i] = a[i] /\ Len(more) = n + 1
          BY <4>1, <1>2
        <5> QED
          BY <4>1, <5>1, <1>1, <1>4
      <4>2. CASE i = n + 1
        BY <4>2, <1>1, <1>2, <1>3, <1>4
      <4> QED
        BY <4>1, <4>2, <1>1
    <3> QED
      BY <3>1, <1>1, <1>2, <1>4 DEF BucketFits
  <2>2. LogFits(more)
    <3>1. ASSUME NEW i \in 1 .. n + 1
          PROVE  /\ more[i].reset <= more[i].at + Window
                 /\ more[i].at < more[i].reset
                 /\ i + RateMax \in 1 .. n + 1 =>
                       more[i + RateMax].reset >= more[i].reset + Window
      <4>1. CASE i = n + 1
        <5>1. i + RateMax \notin 1 .. n + 1
          BY <4>1, <1>n
        <5>2. more[i].at = t /\ more[i].reset = bucket.reset
          BY <4>1, <1>2, <1>3
        <5> QED
          BY <5>1, <5>2, <1>4
      <4>2. CASE i \in 1 .. n /\ i + RateMax # n + 1
        <5>1. i + RateMax \in 1 .. n + 1 => i + RateMax \in 1 .. n
          BY <4>2, <1>n
        <5> QED
          BY <4>2, <5>1, <1>1, <1>2 DEF LogFits
      <4>3. CASE i \in 1 .. n /\ i + RateMax = n + 1
        <5>1. i <= n + 1 - bucket.count
          BY <4>3, <1>1, <1>6
        <5>2. a[i].reset + Window <= bucket.reset
          BY <4>3, <5>1, <1>4
        <5> QED
          BY <4>3, <5>2, <1>1, <1>2, <1>3 DEF LogFits
      <4> QED
        BY <4>1, <4>2, <4>3, <1>1
    <3> QED
      BY <3>1, <1>2 DEF LogFits
  <2> QED
    BY <1>6, <2>1, <2>2 DEF more, new
<1> QED
  BY <1>5, <1>6

--------------------------------------------------------------------------------

LEMMA InitRateInv == RateInit => RateInv
BY DEF RateInit, RateInv, RateTypeOK, LogFits, BucketFits, Buckets

LEMMA RequestKeepsInv == ASSUME RateInv, NEW c \in Client, RateLimited(c) PROVE RateInv'
<1> USE RateAssumption
<1> DEFINE swept == Sweep(rlBuckets)
           bucket == [Bucket(swept, c) EXCEPT !.count = @ + 1]
<1>1. /\ swept \in [Client -> Buckets]
      /\ \A d \in Client : BucketFits(swept[d], admitted[d], ticks)
  BY SweepFits
<1>2. /\ ticks \in Nat /\ ticks' = ticks
      /\ admitted \in [Client -> Seq(Admissions)]
      /\ \A d \in Client : LogFits(admitted[d])
  BY DEF RateInv, RateTypeOK, RateLimited
<1>3. /\ rlBuckets' = [swept EXCEPT ![c] = bucket]
      /\ admitted' = IF bucket.count > RateMax THEN admitted
                     ELSE [admitted EXCEPT ![c] =
                             Append(@, [at |-> ticks, reset |-> bucket.reset])]
  BY DEF RateLimited
<1> HIDE DEF swept
<1>4. Bucket(swept, c) \in Buckets
  BY <1>1, <1>2 DEF Bucket, Buckets
<1>5. bucket \in Buckets
  BY <1>4 DEF Buckets
<1>6. /\ swept[c].count = 0 \/ ticks >= swept[c].reset =>
            bucket.count = 1 /\ bucket.reset = ticks + Window
      /\ ~ (swept[c].count = 0 \/ ticks >= swept[c].reset) =>
            bucket.count = swept[c].count + 1 /\ bucket.reset = swept[c].reset
  <2>1. CASE swept[c].count = 0 \/ ticks >= swept[c].reset
    BY <2>1 DEF Bucket
  <2>2. CASE ~ (swept[c].count = 0 \/ ticks >= swept[c].reset)
    BY <2>2, <1>1 DEF Bucket, Buckets
  <2> QED
    BY <2>1, <2>2
<1> HIDE DEF bucket
<1>7. /\ bucket.count > RateMax => BucketFits(bucket, admitted[c], ticks)
      /\ ~ (bucket.count > RateMax) =>
            LET more == Append(admitted[c], [at |-> ticks, reset |-> bucket.reset])
            IN  LogFits(more) /\ BucketFits(bucket, more, ticks)
  <2>1. swept[c] \in Buckets /\ admitted[c] \in Seq(Admissions)
    BY <1>1, <1>2
  <2> QED
    BY <2>1, <1>1, <1>2, <1>5, <1>6, AdmitFits
<1>8. rlBuckets' \in [Client -> Buckets]
  BY <1>1, <1>3, <1>5
<1>9. rlBuckets'[c] = bucket /\ \A d \in Client \ {c} : rlBuckets'[d] = swept[d]
  BY <1>1, <1>3
<1>10. CASE bucket.count > RateMax
  <2>1. admitted' = admitted
    BY <1>3, <1>10
  <2>2. \A d \in Client : BucketFits(rlBuckets'[d], admitted'[d], ticks')
    BY <2>1, <1>1, <1>2, <1>7, <1>9, <1>10
  <2> QED
    BY <2>1, <2>2, <1>2, <1>8 DEF RateInv, RateTypeOK
<1>11. CASE ~ (bucket.count > RateMax)
  <2> DEFINE more == Append(admitted[c], [at |-> ticks, reset |-> bucket.reset])
  <2>1. admitted' = [admitted EXCEPT ![c] = more]
    BY <1>3, <1>11
  <2>2. more \in Seq(Admissions)
    BY <1>2, <1>5 DEF Admissions, Buckets
  <2>3. LogFits(more) /\ BucketFits(bucket, more, ticks)
    BY <1>7, <1>11
  <2> HIDE DEF more
  <2>4. /\ admitted' \in [Client -> Seq(Admissions)]
        /\ admitted'[c] = more /\ \A d \in Client \ {c} : admitted'[d] = admitted[d]
    BY <2>1, <2>2, <1>2
  <2>5. \A d \in Client : LogFits(admitted'[d]) /\ BucketFits(rlBuckets'[d], admitted'[d], ticks')
    BY <2>3, <2>4, <1>1, <1>2, <1>9
  <2> QED
    BY <2>4, <2>5, <1>2, <1>8 DEF RateInv, RateTypeOK
<1> QED
  BY <1>10, <1>11

LEMMA AdvanceKeepsInv == ASSUME RateInv, Advance PROVE RateInv'
<1> USE RateAssumption DEF RateInv, RateTypeOK
<1>1. ticks' = ticks + 1 /\ rlBuckets' = rlBuckets /\ admitted' = admitted
  BY DEF Advance
<1>2. ASSUME NEW c \in Client PROVE BucketFits(rlBuckets[c], admitted[c], ticks + 1)
  <2>1. /\ BucketFits(rlBuckets[c], admitted[c], ticks)
        /\ rlBuckets[c] \in Buckets
        /\ admitted[c] \in Seq(Admissions)
    OBVIOUS
  <2>2. \A x \in Admissions : x.reset \in Nat
    BY DEF Admissions
  <2>3. \A i \in DOMAIN admitted[c] : admitted[c][i].reset \in Nat
    BY <2>1, <2>2
  <2>4. rlBuckets[c].count \in Nat /\ rlBuckets[c].reset \in Nat
    BY <2>1 DEF Buckets
  <2> HIDE DEF RateInv, RateTypeOK
  <2>5. ticks \in Nat
    BY DEF RateInv, RateTypeOK
  <2> QED
    BY <2>1, <2>3, <2>4, <2>5 DEF BucketFits
<1> QED
  BY <1>1, <1>2

LEMMA StepRateInv == RateInv /\ [RateNext]_rateVars => RateInv'
<1> SUFFICES ASSUME RateInv, [RateNext]_rateVars PROVE RateInv'
  OBVIOUS
<1>1. CASE Advance
  BY <1>1, AdvanceKeepsInv
<1>2. ASSUME NEW c \in Client, RateLimited(c) PROVE RateInv'
  BY <1>2, RequestKeepsInv
<1>3. CASE UNCHANGED rateVars
  BY <1>3 DEF rateVars, RateInv, RateTypeOK
<1> QED
  BY <1>1, <1>2, <1>3 DEF RateNext

LEMMA RateInvariant == RateSpec => []RateInv
BY InitRateInv, StepRateInv, PTL DEF RateSpec

LEMMA InvBoundsRate == RateInv => NoMoreThanTwiceTheRate
<1> USE RateAssumption DEF RateInv, RateTypeOK
<1> SUFFICES ASSUME RateInv, NEW c \in Client, NEW i \in DOMAIN admitted[c],
                    i + 2 * RateMax \in DOMAIN admitted[c]
             PROVE  admitted[c][i + 2 * RateMax].at >= admitted[c][i].at + Window
  BY DEF NoMoreThanTwiceTheRate
<1> DEFINE a == admitted[c]
           j == i + RateMax
           k == i + 2 * RateMax
<1>1. a \in Seq(Admissions) /\ LogFits(a)
  OBVIOUS
<1>2. i \in Nat /\ j \in DOMAIN a /\ k \in DOMAIN a /\ k = j + RateMax
  BY <1>1
<1>3. a[i] \in Admissions /\ a[j] \in Admissions /\ a[k] \in Admissions
  BY <1>1, <1>2
<1> HIDE DEF a, j, k
<1>4. /\ a[i].at < a[i].reset
      /\ a[j].reset >= a[i].reset + Window
      /\ a[k].reset >= a[j].reset + Window
      /\ a[k].reset <= a[k].at + Window
  BY <1>1, <1>2 DEF LogFits, j, a
<1>5. a[k].at >= a[i].at + Window
  <2>1. \A x \in Admissions : x.at \in Nat /\ x.reset \in Nat
    BY DEF Admissions
  <2>2. /\ a[i].at \in Nat /\ a[i].reset \in Nat /\ a[j].reset \in Nat
        /\ a[k].at \in Nat /\ a[k].reset \in Nat
    BY <2>1, <1>3
  <2> HIDE DEF RateInv, RateTypeOK
  <2> QED
    BY <2>2, <1>4
<1> QED
  BY <1>5 DEF a, k

\* However its requests are timed and however often the map is swept, a client gets at
\* most twice the rate through in any stretch as long as a window (rateLimited).
THEOREM AtMostTwiceTheRate == RateSpec => []NoMoreThanTwiceTheRate
BY RateInvariant, InvBoundsRate, PTL

\* The sweep and the count agree: within one bucket's window at most RateMax requests
\* are admitted, for a request RateMax later is in a window that begins after it.
THEOREM OneWindowOneRate == RateSpec => [](\A c \in Client : LogFits(admitted[c]))
<1>1. RateInv => \A c \in Client : LogFits(admitted[c])
  BY DEF RateInv
<1> QED
  BY <1>1, RateInvariant, PTL
================================================================================
