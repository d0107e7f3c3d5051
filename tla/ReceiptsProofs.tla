---------------------------- MODULE ReceiptsProofs ----------------------------
(***************************************************************************)
(* What is signed and settled: receipts that are edited on their way,      *)
(* statements and payments, the rows that leave under a cap, and what a    *)
(* verdict on a session or a panel is worth.                               *)
(***************************************************************************)
EXTENDS Settlement, Egress, Receipts, Monitors, Consensus, SealedProofs

--------------------------------------------------------------------------------
(* Settlement.                                                                 *)

\* A bag: how often each of its members is in it.
IsBag(b) ==
    /\ IsFiniteSet(DOMAIN b)
    /\ b \in [DOMAIN b -> Nat \ {0}]

Taken(T) == CHOOSE x \in T : TRUE
Copies(bag, r) == [n \in 1 .. bag[r] |-> r]
Unrolled(bag) ==
    CHOOSE iter : iter = [T \in SUBSET DOMAIN bag |->
        IF T = {} THEN <<>> ELSE iter[T \ {Taken(T)}] \o Copies(bag, Taken(T))]

LEMMA ListIs == \A bag : List(bag) = Unrolled(bag)[DOMAIN bag]
BY DEF List, FoldSet, MapThenFoldSet, Unrolled, Taken, Copies

LEMMA ListsAre ==
    ASSUME NEW bag, IsBag(bag)
    PROVE  \A T \in SUBSET DOMAIN bag :
              Unrolled(bag)[T] = IF T = {} THEN <<>>
                              ELSE Unrolled(bag)[T \ {Taken(T)}] \o Copies(bag, Taken(T))
<1> DEFINE S == DOMAIN bag
           V == Seq(S)
           c == [T \in SUBSET S |-> Taken(T)]
           G == [p \in S \X V |-> p[2] \o Copies(bag, p[1])]
           Step(iter) == [T \in SUBSET S |->
               IF T = {} THEN <<>> ELSE iter[T \ {Taken(T)}] \o Copies(bag, Taken(T))]
<1>1. \A T \in SUBSET S : T # {} => c[T] \in T
  BY DEF Taken
<1>2. G \in [S \X V -> V]
  <2>1. ASSUME NEW r \in S, NEW s \in V PROVE s \o Copies(bag, r) \in V
    <3>1. bag[r] \in Nat
      BY DEF IsBag
    <3>2. Copies(bag, r) \in V
      BY <3>1 DEF Copies
    <3> QED
      BY <3>2
  <2> HIDE DEF V
  <2> QED
    BY <2>1
<1>3. IsFiniteSet(S) /\ <<>> \in V
  BY DEF IsBag
<1> HIDE DEF S, V, G
<1>4. PICK f \in [SUBSET S -> V] : IsFold(f, S, <<>>, c, G)
  BY <1>1, <1>2, <1>3, SetRecursion, Zenon
<1>5. f = Step(f)
  <2>1. ASSUME NEW T \in SUBSET S, T # {}
        PROVE  f[T] = f[T \ {Taken(T)}] \o Copies(bag, Taken(T))
    <3>1. Taken(T) \in S /\ T \ {Taken(T)} \in SUBSET S /\ c[T] = Taken(T)
      BY <2>1 DEF Taken
    <3>2. f[T \ {Taken(T)}] \in V
      BY <3>1
    <3>3. f[T] = G[<<Taken(T), f[T \ {Taken(T)}]>>]
      BY <1>4, <2>1, <3>1 DEF IsFold
    <3> QED
      BY <3>1, <3>2, <3>3 DEF G
  <2>2. f[{}] = <<>>
    BY <1>4 DEF IsFold
  <2>3. \A T \in SUBSET S : f[T] = Step(f)[T]
    BY <2>1, <2>2
  <2> HIDE DEF c
  <2> QED
    BY <2>3
<1>6. Unrolled(bag) = CHOOSE iter : iter = Step(iter)
  BY Zenon DEF Unrolled, S
<1>7. Unrolled(bag) = Step(Unrolled(bag))
  <2> HIDE DEF Step
  <2> QED
    BY <1>5, <1>6
<1>8. \A T \in SUBSET S : Unrolled(bag)[T] = Step(Unrolled(bag))[T]
  <2> HIDE DEF Step
  <2> QED
    BY <1>7
<1> QED
  BY <1>8 DEF S

\* A list with n copies of x, which is not in s, at its end.
ExtendedBy(s, x, n, t) ==
    /\ ToSet(t) = ToSet(s) \cup {x}
    /\ Cardinality(PlacesOf(t, x)) = n
    /\ \A y \in ToSet(s) : PlacesOf(t, y) = PlacesOf(s, y)

LEMMA CopiesAdded ==
    ASSUME NEW X, NEW s \in Seq(X), NEW x \in X, x \notin ToSet(s), NEW n \in Nat \ {0},
           NEW r \in Seq({x}), Len(r) = n
    PROVE  s \o r \in Seq(X) /\ ExtendedBy(s, x, n, s \o r)
<1> DEFINE l == Len(s)
           t == s \o r
<1>1. r \in Seq(X) /\ l \in Nat /\ DOMAIN s = 1 .. l /\ DOMAIN r = 1 .. n
  OBVIOUS
<1>2. ToSet(r) = {x}
  <2>1. 1 \in DOMAIN r /\ \A i \in DOMAIN r : r[i] = x
    BY <1>1
  <2> QED
    BY <2>1 DEF ToSet
<1>3. t \in Seq(X) /\ ToSet(t) = ToSet(s) \cup {x}
  <2>2. ToSet(s \o r) = ToSet(s) \cup ToSet(r)
    BY <1>1, MembersOfConcat
  <2>3. s \o r \in Seq(X)
    BY <1>1
  <2> QED
    BY <1>2, <2>2, <2>3
<1>4. DOMAIN t = 1 .. l + n /\ \A i \in 1 .. l + n : t[i] = IF i <= l THEN s[i] ELSE x
  <2>1. Len(s \o r) = Len(s) + Len(r)
    BY <1>1
  <2>2. \A i \in 1 .. l + n : t[i] = IF i <= l THEN s[i] ELSE r[i - l]
    BY <1>1, ConcatProperties
  <2>3. \A i \in 1 .. l + n : ~ (i <= l) => r[i - l] = x
    BY <1>1
  <2>4. DOMAIN t = 1 .. Len(t)
    BY <1>3
  <2> QED
    BY <2>1, <2>2, <2>3, <2>4
<1>5. \A i \in 1 .. l : s[i] \in ToSet(s)
  BY <1>1 DEF ToSet
<1> HIDE DEF l, t
<1>6. PlacesOf(t, x) = l + 1 .. l + n
  BY <1>1, <1>4, <1>5 DEF PlacesOf
<1>7. Cardinality(l + 1 .. l + n) = n
  <2> DEFINE a == l + 1
             b == l + n
  <2>1. a \in Int /\ b \in Int /\ ~ (a > b) /\ b - a + 1 = n
    BY <1>1
  <2> HIDE DEF a, b
  <2>2. Cardinality(a .. b) = n
    BY <2>1, FS_Interval
  <2> QED
    BY <2>2 DEF a, b
<1>8. ASSUME NEW y \in ToSet(s) PROVE PlacesOf(t, y) = PlacesOf(s, y)
  <2>1. y # x
    OBVIOUS
  <2> QED
    BY <1>1, <1>4, <2>1 DEF PlacesOf
<1> QED
  BY <1>3, <1>6, <1>7, <1>8 DEF ExtendedBy, t

\* The list of a bag has its members, each as often.
LEMMA BagOfItsList ==
    ASSUME NEW bag, IsBag(bag)
    PROVE  /\ List(bag) \in Seq(DOMAIN bag)
           /\ ToBag(List(bag)) = bag
<1> DEFINE S == DOMAIN bag
           iter == Unrolled(bag)
           Good(T) == /\ iter[T] \in Seq(S) /\ ToSet(iter[T]) = T
                      /\ \A x \in T : Cardinality(PlacesOf(iter[T], x)) = bag[x]
           N == {n \in Nat : \A T \in SUBSET S : Cardinality(T) = n => Good(T)}
<1>1. \A T \in SUBSET S : iter[T] = IF T = {} THEN <<>>
                                     ELSE iter[T \ {Taken(T)}] \o Copies(bag, Taken(T))
  BY ListsAre
<1>2. ASSUME NEW T \in SUBSET S
      PROVE  /\ IsFiniteSet(T) /\ Cardinality(T) \in Nat
             /\ Cardinality(T) = 0 => T = {}
  BY FS_Subset, FS_EmptySet, FS_CardinalityType DEF IsBag
<1>3. Good({})
  <2>1. iter[{}] = <<>>
    BY <1>1
  <2> HIDE DEF iter
  <2>2. iter[{}] \in Seq(S) /\ ToSet(iter[{}]) = {}
    BY <2>1 DEF ToSet
  <2> QED
    BY <2>2
<1>4. ASSUME NEW T \in SUBSET S, T # {}, Good(T \ {Taken(T)}) PROVE Good(T)
  <2> DEFINE x == Taken(T)
             s == iter[T \ {x}]
  <2>1. x \in T /\ x \in S /\ bag[x] \in Nat \ {0}
    BY <1>4 DEF Taken, IsBag
  <2>2. iter[T] = s \o [i \in 1 .. bag[x] |-> x]
    BY <1>1, <1>4 DEF Copies
  <2>3. s \in Seq(S) /\ ToSet(s) = T \ {x}
    BY <1>4
  <2>4. \A y \in T \ {x} : Cardinality(PlacesOf(s, y)) = bag[y]
    BY <1>4
  <2> HIDE DEF x, s, iter, S
  <2> DEFINE r == [i \in 1 .. bag[x] |-> x]
  <2>n. r \in Seq({x}) /\ Len(r) = bag[x] /\ x \notin ToSet(s) /\ iter[T] = s \o r
    BY <2>1, <2>2, <2>3
  <2> HIDE DEF r
  <2>m. s \o r \in Seq(S) /\ ExtendedBy(s, x, bag[x], s \o r)
    BY <2>1, <2>3, <2>n, CopiesAdded
  <2>5. /\ iter[T] \in Seq(S) /\ ToSet(iter[T]) = ToSet(s) \cup {x}
        /\ Cardinality(PlacesOf(iter[T], x)) = bag[x]
        /\ \A y \in ToSet(s) : PlacesOf(iter[T], y) = PlacesOf(s, y)
    <3>1. ExtendedBy(s, x, bag[x], iter[T])
      BY <2>m, <2>n, Zenon
    <3> QED
      BY <2>m, <2>n, <3>1 DEF ExtendedBy
  <2>6. ToSet(iter[T]) = T
    BY <2>1, <2>3, <2>5
  <2>7. \A y \in T : Cardinality(PlacesOf(iter[T], y)) = bag[y]
    BY <2>3, <2>4, <2>5
  <2> QED
    BY <2>5, <2>6, <2>7
<1> HIDE DEF Good
<1>5. 0 \in N
  BY <1>2, <1>3
<1>6. ASSUME NEW n \in Nat, n \in N PROVE n + 1 \in N
  <2>1. ASSUME NEW T \in SUBSET S, Cardinality(T) = n + 1 PROVE Good(T)
    <3>1. IsFiniteSet(T) /\ Cardinality(T) # 0
      BY <2>1, <1>2
    <3>2. T # {}
      BY <3>1, FS_EmptySet
    <3>3. Taken(T) \in T
      BY <3>2 DEF Taken
    <3>4. Cardinality(T \ {Taken(T)}) = Cardinality(T) - 1
      BY <3>1, <3>3, FS_RemoveElement
    <3>5. Cardinality(T \ {Taken(T)}) = n
      BY <2>1, <3>4
    <3>6. Good(T \ {Taken(T)})
      BY <1>6, <3>5
    <3> QED
      BY <1>4, <3>2, <3>6
  <2> QED
    BY <2>1
<1>7. Nat \subseteq N
  <2> HIDE DEF N
  <2> QED
    BY <1>5, <1>6, Induct
<1>8. Good(S)
  BY <1>2, <1>7
<1>9. /\ List(bag) \in Seq(S) /\ ToSet(List(bag)) = S
      /\ \A x \in S : Cardinality(PlacesOf(List(bag), x)) = bag[x]
  BY <1>8, ListIs DEF Good
<1> HIDE DEF iter, S, N
<1>10. DOMAIN ToBag(List(bag)) = S
  BY <1>9, BagOfList
<1>11. \A x \in S : ToBag(List(bag))[x] = bag[x]
  BY <1>9, BagOfList
<1>12. ToBag(List(bag)) = [x \in S |-> ToBag(List(bag))[x]] /\ bag = [x \in S |-> bag[x]]
  BY <1>10 DEF ToBag, IsBag, S
<1> QED
  BY <1>9, <1>11, <1>12 DEF S

--------------------------------------------------------------------------------

LEMMA EmptyIsBag == IsBag(EmptyBag)
BY FS_EmptySet DEF IsBag, EmptyBag, SetToBag

LEMMA OneMore ==
    ASSUME NEW bag, IsBag(bag), NEW r
    PROVE  IsBag(bag (+) SetToBag({r}))
<1> DEFINE more == bag (+) SetToBag({r})
<1>1. DOMAIN more = DOMAIN bag \cup {r}
  BY DEF (+), SetToBag
<1>2. IsFiniteSet(DOMAIN more)
  BY <1>1, FS_AddElement DEF IsBag
<1>3. ASSUME NEW x \in DOMAIN more PROVE more[x] \in Nat \ {0}
  BY <1>1 DEF (+), SetToBag, IsBag
<1>4. more = [x \in DOMAIN more |-> more[x]]
  BY DEF (+)
<1> HIDE DEF more
<1> QED
  <2>1. more \in [DOMAIN more -> Nat \ {0}]
    BY <1>3, <1>4
  <2> QED
    BY <1>2, <2>1 DEF IsBag, more

LEMMA PartIsBag ==
    ASSUME NEW bag, IsBag(bag), NEW part \in PartsOf(bag)
    PROVE  IsBag(part)
<1>1. PICK kept \in SUBSET DOMAIN bag : part \in [kept -> 1 .. MaxRepeats + 1]
  BY DEF PartsOf
<1>2. DOMAIN part = kept /\ IsFiniteSet(kept)
  BY <1>1, FS_Subset DEF IsBag
<1>3. MaxRepeats \in Nat
  BY SettlementAssumption
<1> QED
  BY <1>1, <1>2, <1>3 DEF IsBag

\* What the two sides hold are bags, and the statement was made over the window, under
\* terms a bond was asked for.
SettlementInv ==
    /\ IsBag(provider) /\ IsBag(customer) /\ IsBag(window)
    /\ statement # <<>> =>
          IF account = "bill" THEN statement = SignInvoice(List(window))
          ELSE \E t \in TermsAsked :
                  statement = SignSettlement(SignedTerms(t), List(window))
    /\ account \in {"none", "bond", "bill"}
    /\ account = "bond" => terms \in TermsAsked
    /\ statement # <<>> => account # "none"

LEMMA SettlementInvInit == SettlementInit => SettlementInv
BY EmptyIsBag DEF SettlementInit, SettlementInv

LEMMA SettlementInvNext == SettlementInv /\ [SettlementNext]_settlementVars => SettlementInv'
<1> SUFFICES ASSUME SettlementInv, [SettlementNext]_settlementVars PROVE SettlementInv'
  OBVIOUS
<1>1. CASE Open
  <2>1. /\ account = "none" /\ account' \in {"bond", "bill"}
        /\ account' = "bond" => terms' \in TermsAsked
        /\ UNCHANGED <<provider, customer, statement, window>>
    BY <1>1 DEF Open
  <2>2. statement' = <<>>
    BY <2>1 DEF SettlementInv
  <2> QED
    BY <2>1, <2>2 DEF SettlementInv
<1>2. CASE SealCall
  <2>1. PICK call : provider' \in {provider, provider (+) SetToBag({CallReceipt(call)})}
    BY <1>2 DEF SealCall
  <2>2. IsBag(provider')
    BY <2>1, OneMore DEF SettlementInv
  <2> QED
    BY <1>2, <2>2 DEF SealCall, SettlementInv
<1>3. CASE SealAgain
  <2>1. PICK i \in DOMAIN calls : provider' = provider (+) SetToBag({CallReceipt(calls[i])})
    BY <1>3 DEF SealAgain
  <2>2. IsBag(provider')
    BY <2>1, OneMore DEF SettlementInv
  <2> QED
    BY <1>3, <2>2 DEF SealAgain, SettlementInv
<1>4. CASE Relay
  <2>1. PICK r \in DOMAIN provider : customer' = customer (+) SetToBag({r})
    BY <1>4 DEF Relay
  <2>2. IsBag(customer')
    BY <2>1, OneMore DEF SettlementInv
  <2> QED
    BY <1>4, <2>2 DEF Relay, SettlementInv
<1>5. CASE Close
  <2>1. IsBag(window')
    BY <1>5, PartIsBag DEF Close, SettlementInv
  <2>2. /\ UNCHANGED <<account, terms, provider, customer>> /\ account # "none"
        /\ IF account = "bill" THEN statement' = SignInvoice(List(window'))
           ELSE \E t \in TermsAsked :
                   statement' = SignSettlement(SignedTerms(t), List(window'))
    BY <1>5 DEF Close
  <2> QED
    BY <2>1, <2>2 DEF SettlementInv
<1>6. CASE UNCHANGED settlementVars
  BY <1>6 DEF settlementVars, SettlementInv
<1> QED
  BY <1>1, <1>2, <1>3, <1>4, <1>5, <1>6 DEF SettlementNext

LEMMA SettlementInvariant == SettlementSpec => []SettlementInv
BY SettlementInvInit, SettlementInvNext, PTL DEF SettlementSpec

--------------------------------------------------------------------------------

BondCalls == [seq : Nat, observed_latency_ms : Nat, served : BOOLEAN]

\* Every receipt of a bond's window is the receipt of the call its seq names.
CallsInv ==
    /\ account = "none" =>
          calls = <<>> /\ DOMAIN provider = {} /\ DOMAIN customer = {}
    /\ account = "bond" =>
          /\ calls \in Seq(BondCalls)
          /\ \A n \in DOMAIN calls : calls[n].seq = n
          /\ \A r \in DOMAIN provider \cup DOMAIN customer :
                \E n \in DOMAIN calls : r = CallReceipt(calls[n])

LEMMA CallsInvInit == SettlementInit => CallsInv
BY DEF SettlementInit, CallsInv, EmptyBag, SetToBag

LEMMA CallsInvNext == CallsInv /\ [SettlementNext]_settlementVars => CallsInv'
<1> SUFFICES ASSUME CallsInv, [SettlementNext]_settlementVars PROVE CallsInv'
  OBVIOUS
<1>1. CASE Open
  BY <1>1 DEF Open, CallsInv
<1>2. CASE SealCall
  <2>1. account # "none" /\ account' = account /\ customer' = customer
    BY <1>2 DEF SealCall
  <2>2. PICK call \in NextCalls(Len(calls) + 1) :
            /\ calls' = Append(calls, call)
            /\ provider' \in {provider, provider (+) SetToBag({CallReceipt(call)})}
    BY <1>2 DEF SealCall
  <2>3. CASE account = "bond"
    <3>1. PICK m \in Measured :
              call = [seq |-> Len(calls) + 1, observed_latency_ms |-> m.observed_latency_ms,
                      served |-> m.served]
      BY <2>3 DEF NextCalls
    <3>2. calls \in Seq(BondCalls) /\ Len(calls) + 1 \in Nat
      BY <2>3 DEF CallsInv
    <3>3. m \in [observed_latency_ms : Nat, served : BOOLEAN]
      BY SettlementAssumption
    <3>4. call \in BondCalls /\ call.seq = Len(calls) + 1
      BY <3>1, <3>2, <3>3 DEF BondCalls
    <3>5. calls' = Append(calls, call)
      BY <2>2
    <3>6. \A r \in DOMAIN provider' :
              r \in DOMAIN provider \/ r = CallReceipt(call)
      BY <2>2 DEF (+), SetToBag
    <3>7. /\ calls' \in Seq(BondCalls) /\ Len(calls') = Len(calls) + 1
          /\ \A n \in DOMAIN calls : n \in DOMAIN calls' /\ calls'[n] = calls[n]
          /\ Len(calls) + 1 \in DOMAIN calls' /\ calls'[Len(calls) + 1] = call
          /\ \A n \in DOMAIN calls' : n \in DOMAIN calls \/ n = Len(calls) + 1
      BY <3>2, <3>4, <3>5
    <3>8. \A n \in DOMAIN calls' : calls'[n].seq = n
      BY <2>3, <3>4, <3>7 DEF CallsInv
    <3>9. ASSUME NEW r \in DOMAIN provider' \cup DOMAIN customer'
          PROVE  \E n \in DOMAIN calls' : r = CallReceipt(calls'[n])
      BY <2>1, <2>3, <3>6, <3>7, <3>9 DEF CallsInv
    <3>10. \A c : CallReceipt(c)' = CallReceipt(c)
      BY <2>1 DEF CallReceipt
    <3> QED
      BY <2>1, <2>3, <3>7, <3>8, <3>9 DEF CallsInv, CallReceipt
  <2> QED
    BY <2>1, <2>3 DEF CallsInv
<1>3. CASE SealAgain
  <2>1. account' = account /\ customer' = customer /\ calls' = calls
    BY <1>3 DEF SealAgain
  <2>2. PICK i \in DOMAIN calls : provider' = provider (+) SetToBag({CallReceipt(calls[i])})
    BY <1>3 DEF SealAgain
  <2>3. \A r \in DOMAIN provider' : r \in DOMAIN provider \/ r = CallReceipt(calls[i])
    BY <2>2 DEF (+), SetToBag
  <2>4. account # "none"
    BY <2>2 DEF CallsInv
  <2> QED
    BY <2>1, <2>3, <2>4 DEF CallsInv, CallReceipt
<1>4. CASE Relay
  <2>1. account' = account /\ provider' = provider /\ calls' = calls
    BY <1>4 DEF Relay
  <2>2. PICK r \in DOMAIN provider : customer' = customer (+) SetToBag({r})
    BY <1>4 DEF Relay
  <2>3. \A x \in DOMAIN customer' : x \in DOMAIN customer \cup DOMAIN provider
    BY <2>2 DEF (+), SetToBag
  <2>4. account # "none"
    BY <2>2 DEF CallsInv
  <2> QED
    BY <2>1, <2>3, <2>4 DEF CallsInv, CallReceipt
<1>5. CASE Close
  BY <1>5 DEF Close, CallsInv, CallReceipt
<1>6. CASE UNCHANGED settlementVars
  BY <1>6 DEF settlementVars, CallsInv, CallReceipt
<1> QED
  BY <1>1, <1>2, <1>3, <1>4, <1>5, <1>6 DEF SettlementNext

LEMMA CallsInvariant == SettlementSpec => []CallsInv
BY CallsInvInit, CallsInvNext, PTL DEF SettlementSpec

--------------------------------------------------------------------------------

\* Bags with one root and one number of receipts are one bag.
LEMMA BagsReconcile ==
    ASSUME NEW a, NEW b, IsBag(a), IsBag(b),
           MerkleRoot(Sorted(List(a))) = MerkleRoot(Sorted(List(b))),
           Len(List(a)) = Len(List(b))
    PROVE  a = b
<1> DEFINE X == DOMAIN a \cup DOMAIN b
<1>1. /\ List(a) \in Seq(DOMAIN a) /\ ToBag(List(a)) = a
      /\ List(b) \in Seq(DOMAIN b) /\ ToBag(List(b)) = b
  BY BagOfItsList
<1>2. List(a) \in Seq(X) /\ List(b) \in Seq(X)
  BY <1>1
<1> HIDE DEF X
<1>3. ToBag(List(a)) = ToBag(List(b))
  BY <1>2, SortedRootTells
<1> QED
  BY <1>1, <1>3

LEMMA InvoiceIs ==
    ASSUME NEW receipts, NEW i, i = SignInvoice(receipts)
    PROVE  /\ i.base.line_count = Len(receipts)
           /\ i.base.billing_root = MerkleRoot(Sorted(receipts))
           /\ i.base.total_micro_usd = Total(receipts)
           /\ SealHolds(i, i.base, <<>>)
BY DEF SignInvoice, Seal, SealHolds

LEMMA SettlementIs ==
    ASSUME NEW t, NEW measurements, NEW s, s = SignSettlement(t, measurements)
    PROVE  /\ s.base.bond_digest = t
           /\ s.base.window_root = MerkleRoot(Sorted(measurements))
           /\ s.base.measurement_count = Len(measurements)
           /\ s.base.breached = ComputeBreach(t, measurements)
           /\ s.base.payout_micro_usd = Payout(t, measurements)
           /\ SealHolds(s, s.base, <<>>)
BY DEF SignSettlement, Seal, SealHolds

LEMMA SettlementReconciles == SettlementInv => ReconcilesExactly
<1> SUFFICES ASSUME SettlementInv, statement # <<>> PROVE ReconcilesExactly
  BY DEF ReconcilesExactly
<1>1. IsBag(window) /\ IsBag(customer)
  BY DEF SettlementInv
<1>2. CASE account = "bill"
  <2>1. statement = SignInvoice(List(window))
    BY <1>2 DEF SettlementInv
  <2>2. /\ statement.base.line_count = Len(List(window))
        /\ statement.base.billing_root = MerkleRoot(Sorted(List(window)))
        /\ statement.base.total_micro_usd = Total(List(window))
        /\ SealHolds(statement, statement.base, <<>>)
    BY <2>1, InvoiceIs
  <2>3. VerifyInvoice(statement, List(customer)) => window = customer
    <3> SUFFICES ASSUME VerifyInvoice(statement, List(customer)) PROVE window = customer
      OBVIOUS
    <3>1. /\ MerkleRoot(Sorted(List(customer))) = MerkleRoot(Sorted(List(window)))
          /\ Len(List(customer)) = Len(List(window))
      BY <2>2 DEF VerifyInvoice
    <3> QED
      BY <1>1, <3>1, BagsReconcile
  <2>4. window = customer => VerifyInvoice(statement, List(customer))
    BY <2>2 DEF VerifyInvoice
  <2> QED
    BY <1>2, <2>3, <2>4 DEF ReconcilesExactly, Accepted
<1>3. CASE account # "bill"
  <2>0. account = "bond"
    BY <1>3 DEF SettlementInv
  <2>1. PICK t \in TermsAsked : statement = SignSettlement(SignedTerms(t), List(window))
    BY <1>3 DEF SettlementInv
  <2> DEFINE st == SignedTerms(t)
             own == SignedTerms(terms)
  <2>2. /\ statement.base.bond_digest = st
        /\ statement.base.window_root = MerkleRoot(Sorted(List(window)))
        /\ statement.base.measurement_count = Len(List(window))
        /\ statement.base.breached = ComputeBreach(st, List(window))
        /\ statement.base.payout_micro_usd = Payout(st, List(window))
        /\ SealHolds(statement, statement.base, <<>>)
    BY <2>1, SettlementIs
  <2> HIDE DEF st, own
  <2>3. ASSUME VerifySettlement(statement, own, List(customer))
        PROVE  window = customer /\ statement.base.bond_digest = own
    <3>1. /\ MerkleRoot(Sorted(List(customer))) = MerkleRoot(Sorted(List(window)))
          /\ Len(List(customer)) = Len(List(window))
          /\ statement.base.bond_digest = own
      BY <2>2, <2>3 DEF VerifySettlement
    <3> QED
      BY <1>1, <3>1, BagsReconcile
  <2>4. ASSUME window = customer, statement.base.bond_digest = own
        PROVE  VerifySettlement(statement, own, List(customer))
    BY <2>2, <2>4 DEF VerifySettlement
  <2> QED
    BY <2>0, <2>3, <2>4 DEF ReconcilesExactly, Accepted, own
<1> QED
  BY <1>2, <1>3

\* A statement is accepted exactly when it was made over the receipts the customer
\* holds and under his terms, whatever was lost, repeated, reordered or left out
\* (bill.js and bond.js, verifyInvoice and verifySettlement).
THEOREM StatementsReconcile == SettlementSpec => []ReconcilesExactly
BY SettlementInvariant, SettlementReconciles, PTL

--------------------------------------------------------------------------------

\* Rounding down loses less than one.
LEMMA DivBelow ==
    ASSUME NEW a \in Nat, NEW b \in Nat \ {0}, NEW c \in Nat
    PROVE  a \div b < c <=> a < c * b
<1>1. a \div b \in Int /\ c * b \in Int
  OBVIOUS
<1>2. ASSUME a \div b < c PROVE a < c * b
  BY <1>2
<1>3. ASSUME a < c * b PROVE a \div b < c
  BY <1>3
<1> QED
  BY <1>2, <1>3

LEMMA ShareBelow ==
    ASSUME NEW part \in Nat, NEW whole \in Nat \ {0}, NEW floor \in Nat
    PROVE  Share(part, whole) < floor <=> part * Ppm < floor * whole
<1>1. Ppm \in Nat \ {0} /\ part * Ppm \in Nat
  BY SettlementAssumption
<1>2. Share(part, whole) = (part * Ppm) \div whole
  BY DEF Share
<1> QED
  BY <1>1, <1>2, DivBelow

LEMMA SmallInt32 ==
    ASSUME NEW x \in Nat, x < IntMax
    PROVE  Int32(x) = x
<1>1. IntMax \in Nat \ {0}
  BY SealedAssumption
<1>2. x + IntMax \in Nat /\ x + IntMax < 2 * IntMax /\ 2 * IntMax \in Nat \ {0}
  BY <1>1
<1>3. \A n \in Nat, m \in Nat \ {0} : n < m => n % m = n
  OBVIOUS
<1>4. (x + IntMax) % (2 * IntMax) = x + IntMax
  BY <1>2, <1>3
<1> QED
  BY <1>1, <1>4 DEF Int32

LEMMA CallsCounted ==
    ASSUME NEW X, NEW own \in Seq(X), NEW t
    PROVE  /\ Cardinality(ServedCalls(own)) \in Nat
           /\ Cardinality(SlowCalls(t, own)) \in Nat
           /\ Cardinality(SlowCalls(t, own)) <= Cardinality(ServedCalls(own))
<1>1. IsFiniteSet(DOMAIN own)
  <2>1. DOMAIN own = 1 .. Len(own) /\ Len(own) \in Nat
    OBVIOUS
  <2> QED
    BY <2>1, FS_Interval
<1>2. IsFiniteSet(ServedCalls(own))
  BY <1>1, FS_Subset DEF ServedCalls
<1>3. SlowCalls(t, own) \in SUBSET ServedCalls(own)
  BY DEF SlowCalls
<1> QED
  BY <1>2, <1>3, FS_Subset, FS_CardinalityType

\* Where the numbers fit 32 bits, the receipts of a list count as the calls they are of.
LEMMA ReceiptsMeasure ==
    ASSUME CallsInv, account = "bond", NEW own \in Seq(DOMAIN customer),
           NEW ceiling \in Nat, NEW t, t.latency_ceiling_ms = ceiling,
           NEW signed, signed.latency_ceiling_ms = ceiling,
           \A i \in ServedCalls(MeasuredCalls(own)) :
               MeasuredCalls(own)[i].observed_latency_ms < IntMax
    PROVE  /\ MeasuredCalls(own) \in Seq(BondCalls)
           /\ Len(MeasuredCalls(own)) = Len(own)
           /\ ServedCalls(MeasuredCalls(own)) = ServedCalls(own)
           /\ SlowCalls(t, MeasuredCalls(own)) = SlowCalls(signed, own)
<1> DEFINE actual == MeasuredCalls(own)
<1>1. ASSUME NEW i \in DOMAIN own
      PROVE  /\ actual[i] \in BondCalls
             /\ own[i].served = actual[i].served
             /\ own[i].observed_latency_ms = Int32(actual[i].observed_latency_ms)
  <2>1. PICK n \in DOMAIN calls : own[i] = CallReceipt(calls[n])
    BY DEF CallsInv
  <2>2. calls[n] \in BondCalls /\ calls[n].seq = n
    BY DEF CallsInv
  <2>3. own[i] = [calls[n] EXCEPT !.observed_latency_ms = Int32(@)]
    BY <2>1 DEF CallReceipt
  <2>4. /\ own[i].seq = n /\ own[i].served = calls[n].served
        /\ own[i].observed_latency_ms = Int32(calls[n].observed_latency_ms)
    BY <2>2, <2>3 DEF BondCalls
  <2> QED
    BY <2>2, <2>4 DEF MeasuredCalls
<1>2. actual \in Seq(BondCalls) /\ Len(actual) = Len(own) /\ DOMAIN actual = DOMAIN own
  <2>1. DOMAIN own = 1 .. Len(own) /\ Len(own) \in Nat /\ actual = [i \in 1 .. Len(own) |-> actual[i]]
    BY DEF MeasuredCalls
  <2> HIDE DEF actual
  <2> QED
    BY <1>1, <2>1
<1>3. ServedCalls(actual) = ServedCalls(own)
  BY <1>1, <1>2 DEF ServedCalls
<1>4. ASSUME NEW i \in ServedCalls(own)
      PROVE  actual[i].observed_latency_ms = own[i].observed_latency_ms
  <2>1. i \in DOMAIN own /\ actual[i].observed_latency_ms < IntMax
    BY <1>3 DEF ServedCalls
  <2>2. actual[i].observed_latency_ms \in Nat
    BY <1>1, <2>1 DEF BondCalls
  <2> QED
    BY <1>1, <2>1, <2>2, SmallInt32
<1> HIDE DEF actual
<1>5. SlowCalls(t, actual) = SlowCalls(signed, own)
  BY <1>3, <1>4 DEF SlowCalls
<1> QED
  BY <1>2, <1>3, <1>5 DEF actual

LEMMA SettlementPays == SettlementInv /\ CallsInv => PaysWhatWasPromised
<1> DEFINE own == List(customer)
           actual == MeasuredCalls(own)
           signed == SignedTerms(terms)
           total == Len(actual)
           served == Cardinality(ServedCalls(actual))
           slow == Cardinality(SlowCalls(terms, actual))
           floor == terms.uptime_floor_ppm
           tolerance == terms.slow_tolerance_ppm
           penalty == terms.penalty_micro_usd
           paid == statement.base.payout_micro_usd
           fit == /\ terms.latency_ceiling_ms < IntMax
                  /\ floor < IntMax
                  /\ tolerance < IntMax
                  /\ \A i \in ServedCalls(actual) :
                        actual[i].observed_latency_ms < IntMax
<1> SUFFICES ASSUME SettlementInv, CallsInv, account = "bond", statement # <<>>, Accepted,
                    customer # EmptyBag, fit
             PROVE  PaysWhatWasPromised
  BY DEF PaysWhatWasPromised
<1>1. /\ floor \in Nat /\ tolerance \in Nat /\ penalty \in Nat /\ Ppm \in Nat \ {0}
      /\ terms.latency_ceiling_ms \in Nat
      /\ signed.uptime_floor_ppm = floor /\ signed.slow_tolerance_ppm = tolerance
      /\ signed.latency_ceiling_ms = terms.latency_ceiling_ms
      /\ signed.penalty_micro_usd = Int32(penalty)
  <2>1. terms \in [latency_ceiling_ms : Nat, uptime_floor_ppm : Nat,
                   slow_tolerance_ppm : Nat, penalty_micro_usd : Nat]
    BY SettlementAssumption DEF SettlementInv
  <2>2. Ppm \in Nat \ {0}
    BY SettlementAssumption
  <2>3. signed = [latency_ceiling_ms |-> Int32(terms.latency_ceiling_ms),
                  uptime_floor_ppm |-> Int32(floor),
                  slow_tolerance_ppm |-> Int32(tolerance),
                  penalty_micro_usd |-> Int32(penalty)]
    BY <2>1 DEF SignedTerms
  <2> QED
    BY <2>1, <2>2, <2>3, SmallInt32
<1>2. own \in Seq(DOMAIN customer) /\ ToBag(own) = customer
  BY BagOfItsList DEF SettlementInv
<1>2a. /\ actual \in Seq(BondCalls) /\ Len(actual) = Len(own)
       /\ ServedCalls(actual) = ServedCalls(own)
       /\ SlowCalls(terms, actual) = SlowCalls(signed, own)
  <2> HIDE DEF own, signed
  <2> QED
    BY <1>1, <1>2, ReceiptsMeasure
<1>3. total \in Nat \ {0}
  <2>1. total \in Nat
    BY <1>2, <1>2a
  <2>2. ASSUME total = 0 PROVE FALSE
    <3>1. Len(own) = 0
      BY <1>2a, <2>2
    <3>2. ToSet(own) = {}
      <4> HIDE DEF own
      <4>1. DOMAIN own = 1 .. 0
        BY <1>2, <3>1
      <4> QED
        BY <4>1 DEF ToSet
    <3>3. DOMAIN customer = {}
      BY <1>2, <3>2, BagOfList
    <3>4. customer = EmptyBag
      BY <3>3 DEF EmptyBag, SetToBag, SettlementInv, IsBag
    <3> QED
      BY <3>4
  <2> QED
    BY <2>1, <2>2
<1>4. served \in Nat /\ slow \in Nat /\ slow <= served
  BY <1>2a, CallsCounted
<1>6. paid = IF ComputeBreach(signed, own) THEN Int32(Int32(penalty)) ELSE 0
  BY <1>1 DEF Accepted, VerifySettlement, Payout
<1>7. ComputeBreach(signed, own)
          <=> Share(served, total) < floor \/ Share(slow, served) > tolerance
  BY <1>1, <1>2a DEF ComputeBreach
<1> DEFINE down == served * Ppm < floor * total
           over == slow * Ppm - tolerance * served
<1> HIDE DEF own, actual, signed, total, served, slow, floor, tolerance, penalty, paid
<1>8. Share(served, total) < floor <=> down
  BY <1>1, <1>3, <1>4, ShareBelow
<1>9. served > 0 => (Share(slow, served) > tolerance <=> over >= served)
  <2> SUFFICES ASSUME served > 0
               PROVE  Share(slow, served) > tolerance <=> over >= served
    OBVIOUS
  <2>1. served \in Nat \ {0} /\ tolerance + 1 \in Nat
    BY <1>1, <1>4
  <2>2. Share(slow, served) < tolerance + 1 <=> slow * Ppm < (tolerance + 1) * served
    BY <2>1, <1>4, ShareBelow
  <2>3. Share(slow, served) \in Int
    BY <1>1, <1>4, <2>1 DEF Share
  <2>4. /\ (tolerance + 1) * served = tolerance * served + served
        /\ tolerance * served \in Int /\ slow * Ppm \in Int
    BY <1>1, <1>4
  <2> QED
    BY <1>1, <1>4, <2>2, <2>3, <2>4
<1>10. served = 0 => ~ (Share(slow, served) > tolerance)
  BY <1>1 DEF Share
<1>11. over \in Int
  BY <1>1, <1>4
<1> HIDE DEF down, over
<1>12. ASSUME ~ down, over <= 0 PROVE paid = 0
  <2>1. ~ (Share(slow, served) > tolerance)
    BY <1>4, <1>9, <1>10, <1>11, <1>12
  <2> QED
    BY <2>1, <1>6, <1>7, <1>8, <1>12
<1>13. ASSUME down \/ (served > 0 /\ over >= served), penalty < IntMax PROVE paid = penalty
  <2>1. Int32(Int32(penalty)) = penalty
    BY <1>1, <1>13, SmallInt32
  <2> QED
    BY <2>1, <1>6, <1>7, <1>8, <1>9, <1>13
<1> QED
  BY <1>12, <1>13 DEF PaysWhatWasPromised, own, actual, total, served, slow, down, over,
     floor, tolerance, penalty, paid

\* A promise kept costs nothing, and one broken by a ppm or more costs the penalty that
\* was asked for (computeBreach in bond.js), of the calls as they were measured and
\* the terms as they were asked for, when those numbers fit 32 bits.
THEOREM PromisesArePaid == SettlementSpec => []PaysWhatWasPromised
BY SettlementInvariant, CallsInvariant, SettlementPays, PTL

--------------------------------------------------------------------------------
(* Rows under a cap.                                                           *)

RowsOf(m, c, n) == [k \in 1 .. n |-> RowsIn(m[k].window, c)]

LeftOf(m, c, n) == TotalOf(RowsOf(m, c, n))

IsWindow(w) == DOMAIN w \subseteq Class /\ \A c \in DOMAIN w : w[c] \in Nat

\* The i-th of some measurements says what they say together.
RightlyMeasured(m, i) ==
    LET r == m[i].receipt
        w == m[i].window
        sent == r.per_class_row_caps
    IN  /\ r.per_class_rows_total \in {<<>>, [c \in Class |-> LeftOf(m, c, i)]}
        /\ sent \in CapsSent
        /\ IF OverCap(w, r.per_class_rows_total, sent) = {} THEN r.bond_break_detected = NoBreak
           ELSE r.bond_break_detected \in OverCap(w, r.per_class_rows_total, sent)
        /\ r.disposition = IF r.bond_break_detected = NoBreak THEN "continue"
                           ELSE "invalidate_dag"
        /\ (\A k \in 1 .. i - 1 : m[k].folded) =>
              \A c \in DOMAIN w : TotalOf(r.per_class_row_commitments[c]) = LeftOf(m, c, i)

AllFolded(m) == \A k \in 1 .. Len(m) : m[k].folded

Opened(commitments, c) == IF c \in DOMAIN commitments THEN TotalOf(commitments[c]) ELSE 0

EgressHolds ==
    /\ IsList(measured)
    /\ \A i \in 1 .. Len(measured) : IsWindow(measured[i].window) /\ RightlyMeasured(measured, i)
    /\ left = [c \in Class |-> LeftOf(measured, c, Len(measured))]
    /\ DOMAIN known \subseteq Class
    /\ \A c \in DOMAIN known : known[c] \in Seq(Nat)
    /\ AllFolded(measured) =>
          \A c \in Class : Opened(known, c) = LeftOf(measured, c, Len(measured))

LEMMA RowsAre ==
    ASSUME NEW m, IsList(m), \A i \in 1 .. Len(m) : IsWindow(m[i].window), NEW c
    PROVE  \A n \in 0 .. Len(m) : RowsOf(m, c, n) \in Seq(Nat) /\ LeftOf(m, c, n) \in Nat
<1>1. Len(m) \in Nat
  BY DEF IsList
<1>2. ASSUME NEW n \in 0 .. Len(m) PROVE RowsOf(m, c, n) \in Seq(Nat)
  <2>1. \A k \in 1 .. n : RowsIn(m[k].window, c) \in Nat
    BY <1>1 DEF RowsIn, IsWindow
  <2>2. n \in Nat
    BY <1>1
  <2> QED
    BY <2>1, <2>2 DEF RowsOf
<1>3. ASSUME NEW n \in 0 .. Len(m) PROVE LeftOf(m, c, n) \in Nat
  <2>1. RowsOf(m, c, n) \in Seq(Nat)
    BY <1>2
  <2> QED
    BY <2>1, TotalOfNats DEF LeftOf
<1> QED
  BY <1>2, <1>3

\* One window later.
LEMMA LeftLater ==
    ASSUME NEW m, IsList(m), \A i \in 1 .. Len(m) : IsWindow(m[i].window), NEW c,
           NEW n \in 1 .. Len(m)
    PROVE  LeftOf(m, c, n) = LeftOf(m, c, n - 1) + RowsIn(m[n].window, c)
<1>1. Len(m) \in Nat /\ n \in Nat /\ n - 1 \in Nat /\ n - 1 \in 0 .. Len(m)
  BY DEF IsList
<1> DEFINE s == RowsOf(m, c, n - 1)
           k == RowsIn(m[n].window, c)
<1>2. s \in Seq(Nat) /\ Len(s) = n - 1 /\ \A i \in 1 .. n - 1 : s[i] = RowsIn(m[i].window, c)
  <2>1. s \in Seq(Nat)
    BY <1>1, RowsAre
  <2> QED
    BY <1>1, <2>1 DEF RowsOf
<1>3. k \in Nat
  BY DEF RowsIn, IsWindow
<1> HIDE DEF s, k
<1>4. RowsOf(m, c, n) = Append(s, k)
  <2> DEFINE t == Append(s, k)
  <2>1. t \in Seq(Nat) /\ Len(t) = n
    BY <1>1, <1>2, <1>3
  <2>2. t[n] = k /\ \A i \in 1 .. n - 1 : t[i] = s[i]
    BY <1>1, <1>2, <1>3
  <2> HIDE DEF t
  <2>3. t = [i \in 1 .. n |-> t[i]]
    BY <2>1
  <2>4. \A i \in 1 .. n : i = n \/ i \in 1 .. n - 1
    BY <1>1
  <2>5. \A i \in 1 .. n : t[i] = RowsIn(m[i].window, c)
    BY <1>2, <2>2, <2>4 DEF k
  <2> QED
    BY <2>3, <2>5 DEF RowsOf, t
<1> QED
  BY <1>2, <1>3, <1>4, TotalOfNats DEF LeftOf, s, k

LEMMA LeftAtFirst == \A m, c : LeftOf(m, c, 0) = 0
<1> SUFFICES ASSUME NEW m, NEW c PROVE LeftOf(m, c, 0) = 0
  OBVIOUS
<1>1. RowsOf(m, c, 0) = <<>>
  BY DEF RowsOf
<1> QED
  BY <1>1, TotalOfNone DEF LeftOf

\* Measurements stay what they are.
LEMMA MeasuredStays ==
    ASSUME NEW m, IsList(m), NEW x
    PROVE  /\ IsList(Append(m, x)) /\ Len(Append(m, x)) = Len(m) + 1
           /\ Append(m, x)[Len(m) + 1] = x
           /\ \A i \in 1 .. Len(m) : Append(m, x)[i] = m[i]
           /\ \A c : \A n \in 0 .. Len(m) : LeftOf(Append(m, x), c, n) = LeftOf(m, c, n)
           /\ \A i \in 1 .. Len(m) : RightlyMeasured(m, i) => RightlyMeasured(Append(m, x), i)
<1> DEFINE t == Append(m, x)
           X == ToSet(m) \cup {x}
<1>1. m \in Seq(X) /\ x \in X
  BY ListIn
<1> HIDE DEF X
<1>2. t \in Seq(X) /\ Len(t) = Len(m) + 1 /\ t[Len(m) + 1] = x
      /\ Len(m) \in Nat /\ \A i \in 1 .. Len(m) : t[i] = m[i]
  BY <1>1
<1>3. IsList(t)
  BY <1>2, ListsOf
<1> HIDE DEF t
<1>4. ASSUME NEW c, NEW n \in 0 .. Len(m) PROVE LeftOf(t, c, n) = LeftOf(m, c, n)
  <2>1. \A k \in 1 .. n : t[k] = m[k]
    BY <1>2
  <2>2. RowsOf(t, c, n) = RowsOf(m, c, n)
    BY <2>1 DEF RowsOf
  <2> QED
    BY <2>2 DEF LeftOf
<1>5. ASSUME NEW i \in 1 .. Len(m), RightlyMeasured(m, i) PROVE RightlyMeasured(t, i)
  <2>1. t[i] = m[i] /\ i \in 0 .. Len(m) /\ \A k \in 1 .. i - 1 : t[k] = m[k]
    BY <1>2
  <2>2. \A c : LeftOf(t, c, i) = LeftOf(m, c, i)
    BY <1>4, <2>1
  <2> QED
    BY <1>5, <2>1, <2>2 DEF RightlyMeasured
<1> QED
  BY <1>2, <1>3, <1>4, <1>5 DEF t

LEMMA EgressInvariant == EgressSpec => []EgressHolds
<1>1. EgressInit => EgressHolds
  <2> SUFFICES ASSUME EgressInit PROVE EgressHolds
    OBVIOUS
  <2>1. IsList(<<>>) /\ Len(<<>>) = 0 /\ 1 .. 0 = {}
    BY DEF IsList
  <2> QED
    BY <2>1, LeftAtFirst DEF EgressInit, EgressHolds, AllFolded, Opened
<1>2. EgressHolds /\ [EgressNext]_egressVars => EgressHolds'
  <2> SUFFICES ASSUME EgressHolds, [EgressNext]_egressVars PROVE EgressHolds'
    OBVIOUS
  <2>1. CASE Measure
    <3> DEFINE TotalWith(rows) == [c \in Class |-> left[c] + RowsIn(rows, c)]
    <3>0. PICK classes \in SUBSET Class : \E rows \in [classes -> Rows] :
            /\ left' = TotalWith(rows)
            /\ \E totals \in {TotalWith(rows), <<>>}, caps \in CapsSent :
                  MeasureWindow(rows, totals, caps)
      BY <2>1 DEF Measure
    <3>1. PICK rows \in [classes -> Rows] :
            /\ left' = TotalWith(rows)
            /\ \E totals \in {TotalWith(rows), <<>>}, caps \in CapsSent :
                  MeasureWindow(rows, totals, caps)
      BY <3>0
    <3> DEFINE total == TotalWith(rows)
    <3>t. PICK totals \in {total, <<>>}, caps \in CapsSent : MeasureWindow(rows, totals, caps)
      BY <3>1
    <3>2. PICK break \in IF OverCap(rows, totals, caps) = {} THEN {NoBreak}
                        ELSE OverCap(rows, totals, caps) :
            LET receipt == SignEgressMeasurement(rows, totals, caps, known, break)
                answer == receipt.per_class_row_commitments
            IN  /\ known' \in {known, answer, Folded(answer, known)}
                /\ measured' = Append(measured,
                      [receipt |-> receipt, window |-> rows,
                       folded |-> known' = Folded(answer, known)])
      BY <3>t DEF MeasureWindow
    <3> DEFINE receipt == SignEgressMeasurement(rows, totals, caps, known, break)
               answer == [c \in DOMAIN rows |-> CommitmentAdd(known, c, rows[c])]
               x == [receipt |-> receipt, window |-> rows,
                     folded |-> known' = Folded(answer, known)]
               n == Len(measured)
    <3>3. /\ receipt.per_class_row_commitments = answer
          /\ receipt.per_class_rows_total = totals
          /\ receipt.per_class_row_caps = caps
          /\ receipt.bond_break_detected = break
          /\ receipt.disposition = IF break = NoBreak THEN "continue" ELSE "invalidate_dag"
      BY DEF SignEgressMeasurement
    <3>4. known' \in {known, answer, Folded(answer, known)} /\ measured' = Append(measured, x)
      <4> HIDE DEF receipt, answer
      <4> QED
        BY <3>2, <3>3 DEF receipt
    <3>5. left' = total
      BY <3>1
    <3>6. x.receipt = receipt /\ x.window = rows /\ x.folded = (known' = Folded(answer, known))
      OBVIOUS
    <3>7. IsWindow(rows)
      BY EgressAssumption DEF IsWindow
    <3> HIDE DEF receipt, answer, x
    <3>8. /\ IsList(measured) /\ n \in Nat
          /\ \A i \in 1 .. n : IsWindow(measured[i].window) /\ RightlyMeasured(measured, i)
      BY DEF EgressHolds, IsList
    <3>9. /\ IsList(measured') /\ Len(measured') = n + 1
          /\ measured'[n + 1] = x
          /\ \A i \in 1 .. n : measured'[i] = measured[i]
          /\ \A c : \A k \in 0 .. n : LeftOf(measured', c, k) = LeftOf(measured, c, k)
          /\ \A i \in 1 .. n : RightlyMeasured(measured', i)
      <4> HIDE DEF n
      <4> QED
        BY <3>4, <3>8, MeasuredStays DEF n
    <3>10. \A i \in 1 .. n + 1 : i \in 1 .. n \/ i = n + 1
      BY <3>8
    <3>11. \A i \in 1 .. n + 1 : IsWindow(measured'[i].window)
      <4> HIDE DEF n
      <4> QED
        BY <3>6, <3>7, <3>8, <3>9, <3>10
    <3> HIDE DEF n
    <3>12. ASSUME NEW c \in Class
           PROVE  /\ LeftOf(measured', c, n + 1) = LeftOf(measured, c, n) + RowsIn(rows, c)
                  /\ left[c] = LeftOf(measured, c, n)
                  /\ LeftOf(measured, c, n) \in Nat
                  /\ RowsIn(rows, c) \in Nat
      <4>1. n + 1 \in 1 .. n + 1 /\ (n + 1) - 1 = n /\ n \in 0 .. n
        BY <3>8
      <4>2. LeftOf(measured', c, n + 1)
              = LeftOf(measured', c, (n + 1) - 1) + RowsIn(measured'[n + 1].window, c)
        BY <3>9, <3>11, <4>1, LeftLater
      <4>3. LeftOf(measured, c, n) \in Nat
        BY <3>8, <4>1, RowsAre DEF n
      <4>4. RowsIn(rows, c) \in Nat
        BY <3>7 DEF RowsIn, IsWindow
      <4>5. left[c] = LeftOf(measured, c, n)
        BY DEF EgressHolds, n
      <4> QED
        BY <3>6, <3>9, <4>1, <4>2, <4>3, <4>4, <4>5
    <3>13. total = [c \in Class |-> LeftOf(measured', c, n + 1)]
      BY <3>12
    <3> HIDE DEF total
    <3>14. DOMAIN rows \subseteq Class /\ DOMAIN known \subseteq Class /\ DOMAIN answer = DOMAIN rows
      BY <3>7 DEF IsWindow, EgressHolds, answer
    <3>15. ASSUME NEW c \in DOMAIN rows
           PROVE  /\ answer[c] \in Seq(Nat)
                  /\ TotalOf(answer[c]) = Opened(known, c) + rows[c]
      <4>1. rows[c] \in Nat
        BY <3>7 DEF IsWindow
      <4>2. answer[c] = Append(IF c \in DOMAIN known THEN known[c] ELSE <<>>, rows[c])
        BY DEF answer, CommitmentAdd
      <4>3. CASE c \in DOMAIN known
        <5>1. known[c] \in Seq(Nat) /\ answer[c] = Append(known[c], rows[c])
          BY <4>2, <4>3 DEF EgressHolds
        <5>2. answer[c] \in Seq(Nat)
          BY <4>1, <5>1
        <5> QED
          BY <4>1, <4>3, <5>1, <5>2, TotalOfNats DEF Opened
      <4>4. CASE c \notin DOMAIN known
        <5>1. <<>> \in Seq(Nat) /\ answer[c] = Append(<<>>, rows[c])
          BY <4>2, <4>4
        <5>2. answer[c] \in Seq(Nat)
          BY <4>1, <5>1
        <5>3. TotalOf(answer[c]) = TotalOf(<<>>) + rows[c]
          BY <4>1, <5>1, TotalOfNats
        <5> QED
          BY <4>4, <5>2, <5>3, TotalOfNone DEF Opened
      <4> QED
        BY <4>3, <4>4
    <3>16. ASSUME AllFolded(measured), NEW c \in DOMAIN rows
           PROVE  TotalOf(answer[c]) = LeftOf(measured', c, n + 1)
      <4>1. Opened(known, c) = LeftOf(measured, c, n)
        BY <3>14, <3>16 DEF EgressHolds, n
      <4>2. RowsIn(rows, c) = rows[c]
        BY DEF RowsIn
      <4> QED
        BY <3>12, <3>14, <3>15, <4>1, <4>2
    <3>17. RightlyMeasured(measured', n + 1)
      <4>1. /\ x.receipt.per_class_rows_total \in {<<>>, [c \in Class |-> LeftOf(measured', c, n + 1)]}
        BY <3>2, <3>3, <3>6, <3>13
      <4>2. /\ IF OverCap(rows, totals, caps) = {} THEN break = NoBreak
               ELSE break \in OverCap(rows, totals, caps)
        BY <3>2
      <4>3. /\ (\A k \in 1 .. (n + 1) - 1 : measured'[k].folded) =>
                 \A c \in DOMAIN rows : TotalOf(answer[c]) = LeftOf(measured', c, n + 1)
        <5>1. (n + 1) - 1 = n
          BY <3>8
        <5>2. (\A k \in 1 .. n : measured'[k].folded) => AllFolded(measured)
          BY <3>9 DEF AllFolded, n
        <5> QED
          BY <3>16, <5>1, <5>2
      <4> QED
        BY <3>3, <3>6, <3>9, <4>1, <4>2, <4>3 DEF RightlyMeasured
    <3>18. DOMAIN known' \subseteq Class /\ \A c \in DOMAIN known' : known'[c] \in Seq(Nat)
      <4>1. \A c \in DOMAIN known : known[c] \in Seq(Nat)
        BY DEF EgressHolds
      <4>2. /\ DOMAIN Folded(answer, known) = DOMAIN answer \cup DOMAIN known
            /\ \A c \in DOMAIN answer \cup DOMAIN known :
                  Folded(answer, known)[c] = IF c \in DOMAIN answer THEN answer[c] ELSE known[c]
        BY DEF Folded
      <4> QED
        BY <3>4, <3>14, <3>15, <4>1, <4>2
    <3>19. ASSUME AllFolded(measured'), NEW c \in Class
           PROVE  Opened(known', c) = LeftOf(measured', c, n + 1)
      <4>1. AllFolded(measured) /\ known' = Folded(answer, known)
        <5>1. n + 1 \in 1 .. n + 1 /\ \A k \in 1 .. n : k \in 1 .. n + 1
          BY <3>8
        <5>2. measured'[n + 1].folded /\ \A k \in 1 .. n : measured[k].folded
          BY <3>9, <3>19, <5>1 DEF AllFolded
        <5> QED
          BY <3>6, <3>9, <5>2 DEF AllFolded, n
      <4>2. CASE c \in DOMAIN rows
        <5>1. Opened(known', c) = TotalOf(answer[c])
          BY <3>14, <4>1, <4>2 DEF Opened, Folded
        <5> QED
          BY <3>16, <4>1, <4>2, <5>1
      <4>3. CASE c \notin DOMAIN rows
        <5>1. Opened(known', c) = Opened(known, c)
          BY <3>14, <4>1, <4>3 DEF Opened, Folded
        <5>2. Opened(known, c) = LeftOf(measured, c, n)
          BY <4>1 DEF EgressHolds, n
        <5>3. RowsIn(rows, c) = 0
          BY <4>3 DEF RowsIn
        <5> QED
          BY <3>12, <5>1, <5>2, <5>3
      <4> QED
        BY <4>2, <4>3
    <3>20. \A i \in 1 .. n + 1 : IsWindow(measured'[i].window) /\ RightlyMeasured(measured', i)
      BY <3>9, <3>10, <3>11, <3>17
    <3>21. left' = [c \in Class |-> LeftOf(measured', c, Len(measured'))]
      BY <3>5, <3>9, <3>13
    <3> QED
      BY <3>9, <3>18, <3>19, <3>20, <3>21 DEF EgressHolds
  <2>2. CASE UNCHANGED egressVars
    BY <2>2 DEF egressVars, EgressHolds, IsList, AllFolded, Opened
  <2> QED
    BY <2>1, <2>2 DEF EgressNext
<1> QED
  BY <1>1, <1>2, PTL DEF EgressSpec

\* The window that takes a class over its declared cap is a break, when it comes with
\* totals and a cap no higher than that (egress.js:86-98); a break names a class over
\* the cap its receipt carries; and the commitments account for every row, while
\* every answer is folded in.
THEOREM CapsAreKept == EgressSpec => []CapIsNotPassedUnseen
<1>1. EgressHolds => CapIsNotPassedUnseen
  <2> SUFFICES ASSUME EgressHolds, NEW i \in DOMAIN measured
               PROVE  LET r == measured[i].receipt
                          sent == r.per_class_row_caps
                          passed == {c \in DOMAIN Caps : Left(c, i - 1) <= Caps[c] /\ Left(c, i) > Caps[c]}
                      IN  /\ r.per_class_rows_total # <<>>
                                /\ (\E c \in passed \cap DOMAIN sent : sent[c] <= Caps[c]) =>
                                r.disposition = "invalidate_dag"
                          /\ r.disposition = "invalidate_dag" =>
                                /\ r.bond_break_detected \in DOMAIN sent
                                /\ Left(r.bond_break_detected, i) > sent[r.bond_break_detected]
                          /\ (\A k \in 1 .. i - 1 : measured[k].folded) =>
                                \A c \in DOMAIN measured[i].window :
                                    TotalOf(r.per_class_row_commitments[c]) = Left(c, i)
    BY DEF CapIsNotPassedUnseen
  <2> DEFINE r == measured[i].receipt
             w == measured[i].window
             totals == r.per_class_rows_total
             sent == r.per_class_row_caps
  <2>1. \A c, n : Left(c, n) = LeftOf(measured, c, n)
    BY DEF Left, LeftOf, RowsOf
  <2>2. i \in 1 .. Len(measured) /\ i - 1 \in 0 .. Len(measured) /\ i \in 0 .. Len(measured)
    BY DEF EgressHolds, IsList
  <2>3. RightlyMeasured(measured, i) /\ IsWindow(w)
    BY <2>2 DEF EgressHolds
  <2>4. /\ totals \in {<<>>, [c \in Class |-> LeftOf(measured, c, i)]}
        /\ IF OverCap(w, totals, sent) = {} THEN r.bond_break_detected = NoBreak
           ELSE r.bond_break_detected \in OverCap(w, totals, sent)
        /\ r.disposition = IF r.bond_break_detected = NoBreak THEN "continue"
                           ELSE "invalidate_dag"
        /\ (\A k \in 1 .. i - 1 : measured[k].folded) =>
              \A c \in DOMAIN w : TotalOf(r.per_class_row_commitments[c]) = LeftOf(measured, c, i)
        /\ sent \in CapsSent
    BY <2>3 DEF RightlyMeasured
  <2>5. DOMAIN w \subseteq Class /\ DOMAIN sent \subseteq Class /\ DOMAIN Caps \subseteq Class
        /\ (\A c \in DOMAIN sent : sent[c] \in Int) /\ (\A c \in DOMAIN Caps : Caps[c] \in Int)
    BY <2>3, <2>4, EgressAssumption DEF IsWindow
  <2>a. \A c : LeftOf(measured, c, i) \in Nat /\ LeftOf(measured, c, i - 1) \in Nat
    BY <2>2, RowsAre DEF EgressHolds
  <2> HIDE DEF r, w, totals, sent
  <2>6. OverCap(w, totals, sent) = {c \in DOMAIN w \cap DOMAIN sent : RowsIn(totals, c) > sent[c]}
    BY DEF OverCap
  <2>7. NoBreak \notin OverCap(w, totals, sent)
    BY <2>5, <2>6, EgressAssumption
  <2>8. ASSUME r.disposition = "invalidate_dag"
        PROVE  /\ r.bond_break_detected \in DOMAIN sent
               /\ LeftOf(measured, r.bond_break_detected, i) > sent[r.bond_break_detected]
    <3> DEFINE c == r.bond_break_detected
    <3>1. c \in OverCap(w, totals, sent)
      BY <2>4, <2>8
    <3> HIDE DEF c
    <3>2. c \in DOMAIN sent /\ c \in Class /\ RowsIn(totals, c) > sent[c] /\ sent[c] \in Int
      BY <2>5, <2>6, <3>1
    <3>3. RowsIn(totals, c) = 0 \/ RowsIn(totals, c) = LeftOf(measured, c, i)
      BY <2>4, <3>2 DEF RowsIn
    <3> QED
      BY <2>a, <3>2, <3>3 DEF c
  <2>9. ASSUME NEW c \in DOMAIN Caps \cap DOMAIN sent, LeftOf(measured, c, i - 1) <= Caps[c],
               LeftOf(measured, c, i) > Caps[c], sent[c] <= Caps[c], totals # <<>>
        PROVE  r.disposition = "invalidate_dag"
    <3>1. totals = [d \in Class |-> LeftOf(measured, d, i)]
      BY <2>4, <2>9
    <3>2. LeftOf(measured, c, i) = LeftOf(measured, c, i - 1) + RowsIn(w, c)
      BY <2>2, LeftLater DEF EgressHolds, w
    <3>3. LeftOf(measured, c, i - 1) \in Nat /\ Caps[c] \in Int /\ sent[c] \in Int /\ c \in Class
      BY <2>5, <2>a
    <3>4. c \in DOMAIN w
      <4> SUFFICES ASSUME c \notin DOMAIN w PROVE FALSE
        OBVIOUS
      <4>1. RowsIn(w, c) = 0
        BY DEF RowsIn
      <4> QED
        BY <2>9, <3>2, <3>3, <4>1
    <3>5. RowsIn(totals, c) = LeftOf(measured, c, i)
      BY <3>1, <3>3 DEF RowsIn
    <3>6. c \in OverCap(w, totals, sent)
      BY <2>6, <2>9, <2>a, <3>3, <3>4, <3>5
    <3> QED
      BY <2>4, <2>7, <3>6
  <2> QED
    BY <2>1, <2>4, <2>8, <2>9 DEF r, w, totals, sent
<1> QED
  BY <1>1, EgressInvariant, PTL

--------------------------------------------------------------------------------
(* Receipts.                                                                   *)

Parts == {"base", "carried", "payload_digest", "envelope_signature"}
Listed == {"claims", "steps", "block_ids"}
Carrying == {"bill", "bond", "measurement"}

LEMMA SignCarriedIs ==
    ASSUME NEW object, NEW body, NEW e, e = SignCarried(object, body)
    PROVE  /\ DOMAIN e = Parts \cup {"digest"}
           /\ e = [f \in DOMAIN e |-> e[f]]
           /\ e.base = [object |-> object] /\ e.carried = body /\ e.digest = body
           /\ e.payload_digest = <<[object |-> object], body>>
           /\ e.envelope_signature = <<[object |-> object], body>>
BY DEF SignCarried, Seal, Canonicalize, Parts

LEMMA SignListedIs ==
    ASSUME NEW base, NEW carried, NEW digest, NEW e, e = SignListed(base, carried, digest)
    PROVE  /\ DOMAIN e = Parts
           /\ e = [f \in DOMAIN e |-> e[f]]
           /\ e.base = base /\ e.carried = carried
           /\ e.payload_digest = <<base, digest>>
           /\ e.envelope_signature = <<base, digest>>
BY DEF SignListed, Seal, Parts

\* An object with its fields that travel.
LEMMA WireIs ==
    \A o : /\ DOMAIN Wire(o) = {g \in DOMAIN o : o[g] # Undefined}
           /\ \A f \in DOMAIN Wire(o) : Wire(o)[f] = o[f]
           /\ Wire(o) = [f \in DOMAIN Wire(o) |-> Wire(o)[f]]
BY DEF Wire

LEMMA WireKeeps ==
    ASSUME NEW o, o = [f \in DOMAIN o |-> o[f]]
    PROVE  Wire(o) = o <=> \A f \in DOMAIN o : o[f] # Undefined
<1>1. /\ DOMAIN Wire(o) = {g \in DOMAIN o : o[g] # Undefined}
      /\ Wire(o) = [f \in {g \in DOMAIN o : o[g] # Undefined} |-> o[f]]
  BY DEF Wire
<1>2. CASE \A f \in DOMAIN o : o[f] # Undefined
  <2>1. {g \in DOMAIN o : o[g] # Undefined} = DOMAIN o
    BY <1>2
  <2> QED
    BY <1>1, <1>2, <2>1
<1>3. CASE \E f \in DOMAIN o : o[f] = Undefined
  BY <1>1, <1>3
<1> QED
  BY <1>2, <1>3

LEMMA ListedAre ==
    ASSUME NEW S, NEW list \in Lists(S)
    PROVE  list \in Seq(S) /\ Len(list) <= MaxList /\ Len(list) \in Nat
<1>1. PICK n \in 0 .. MaxList : list \in [1 .. n -> S]
  BY ReceiptsAssumption DEF Lists, BoundedSeq, SeqOf
<1>2. n \in Nat /\ n <= MaxList
  BY <1>1, ReceiptsAssumption
<1> QED
  BY <1>1, <1>2

LEMMA ListedIn ==
    ASSUME NEW S, NEW list \in Seq(S), Len(list) <= MaxList
    PROVE  list \in Lists(S)
<1>1. list \in [1 .. Len(list) -> S] /\ Len(list) \in 0 .. MaxList
  BY ReceiptsAssumption
<1> QED
  BY <1>1 DEF Lists, BoundedSeq, SeqOf

\* The list a receipt carries, as it was sent.
LEMMA BlocksAre ==
    ASSUME NEW entry \in CacheEntries
    PROVE  /\ entry.block_ids \in Seq(Text)
           /\ Wire(SignCacheEntry(entry).carried) = [block_ids |-> entry.block_ids]
<1>1. entry.block_ids \in Lists(Text)
  BY DEF CacheEntries
<1>2. entry.block_ids # Undefined
  BY <1>1, ValuesAssumption
<1>3. SignCacheEntry(entry).carried = [block_ids |-> entry.block_ids]
  <2>1. \E base, digest : SignCacheEntry(entry) = SignListed(base, [block_ids |-> entry.block_ids], digest)
    BY Zenon DEF SignCacheEntry
  <2> QED
    BY <2>1, SignListedIs
<1>4. Wire([block_ids |-> entry.block_ids]) = [block_ids |-> entry.block_ids]
  <2> DEFINE o == [block_ids |-> entry.block_ids]
  <2>1. /\ o = [f \in DOMAIN o |-> o[f]]
        /\ \A f \in DOMAIN o : o[f] # Undefined
    BY <1>2
  <2> HIDE DEF o
  <2> QED
    BY <2>1, WireKeeps DEF o
<1> QED
  BY <1>1, <1>3, <1>4, ListedAre

ClaimsOf(gca) == [i \in DOMAIN gca.claims |-> NormalizeClaim(gca.claims[i])]
NormalClaims == {NormalizeClaim(claim) : claim \in Claim}

LEMMA ClaimsAre ==
    ASSUME NEW gca \in GcaRequests
    PROVE  /\ ClaimsOf(gca) \in Seq(NormalClaims) /\ ClaimsOf(gca) # <<>>
           /\ SignGca(gca).carried = [claims |-> ClaimsOf(gca)]
           /\ Wire(SignGca(gca).carried) = [claims |-> ClaimsOf(gca)]
<1> DEFINE list == gca.claims
           c == ClaimsOf(gca)
           o == [claims |-> c]
<1>1. list \in Seq(Claim) /\ Len(list) <= MaxList /\ list # <<>> /\ Len(list) \in Nat
  <2>1. list \in Lists(Claim) /\ list # <<>>
    BY DEF GcaRequests
  <2> QED
    BY <2>1, ListedAre
<1>2. /\ c = [i \in 1 .. Len(list) |-> NormalizeClaim(list[i])]
      /\ \A i \in 1 .. Len(list) : NormalizeClaim(list[i]) \in NormalClaims
  BY <1>1 DEF ClaimsOf, NormalClaims
<1> HIDE DEF c
<1>3. c \in Seq(NormalClaims) /\ Len(c) = Len(list)
  BY <1>1, <1>2
<1>4. c # Undefined /\ c # <<>>
  <2>1. c \in Lists(NormalClaims)
    BY <1>1, <1>3, ListedIn
  <2>2. Len(list) # 0
    BY <1>1
  <2> QED
    BY <1>3, <2>1, <2>2, ValuesAssumption DEF NormalClaims
<1>5. SignGca(gca).carried = o
  <2>1. \E base, digest : SignGca(gca) = SignListed(base, o, digest)
    BY Zenon DEF SignGca, ClaimsOf, c
  <2> QED
    BY <2>1, SignListedIs
<1>6. Wire(o) = o
  <2>1. o = [f \in DOMAIN o |-> o[f]] /\ \A f \in DOMAIN o : o[f] # Undefined
    BY <1>4
  <2> HIDE DEF o
  <2> QED
    BY <2>1, WireKeeps
<1> QED
  BY <1>3, <1>4, <1>5, <1>6 DEF c

LEMMA StepsAre ==
    ASSUME NEW r \in RewardRequests
    PROVE  LET s == r.step_receipt_digests
               o == StepsCarried(r)
           IN  /\ s \in Seq(Text) /\ Sorted(s) \in Seq(Text)
               /\ SignReward(r).carried = o
               /\ Wire(o) = o
               /\ o = [f \in DOMAIN o |-> o[f]] /\ DOMAIN o \subseteq {"steps"}
               /\ "steps" \in DOMAIN o =>
                      /\ o.steps = Sorted(s)
                      /\ ResolveTrajectoryRoot(r) = MerkleRoot(Sorted(s))
<1> DEFINE list == r.step_receipt_digests
           s == Sorted(list)
           o == StepsCarried(r)
<1>1. list \in Seq(Text) /\ Len(list) <= MaxList
  <2>1. list \in Lists(Text)
    BY DEF RewardRequests
  <2> QED
    BY <2>1, ListedAre
<1>2. s \in Seq(Text) /\ Len(s) = Len(list)
  BY <1>1, SortedKeeps
<1>3. s # Undefined
  <2> HIDE DEF s
  <2>1. s \in Lists(Text)
    BY <1>1, <1>2, ListedIn
  <2> QED
    BY <2>1, ValuesAssumption
<1>4. SignReward(r).carried = o
  <2>1. \E base, digest : SignReward(r) = SignListed(base, o, digest)
    BY Zenon DEF SignReward
  <2> HIDE DEF o
  <2> QED
    BY <2>1, SignListedIs
<1>5. /\ o = [f \in DOMAIN o |-> o[f]] /\ DOMAIN o \subseteq {"steps"}
      /\ "steps" \in DOMAIN o => o.steps = s /\ r.trajectory_root = Undefined
  <2>1. CASE r.trajectory_root = Undefined
    <3>1. o = [steps |-> s]
      BY <2>1 DEF StepsCarried
    <3> HIDE DEF o, s
    <3> QED
      BY <2>1, <3>1
  <2>2. CASE r.trajectory_root # Undefined
    <3>1. o = <<>>
      BY <2>2 DEF StepsCarried
    <3> HIDE DEF o, s
    <3>2. DOMAIN o = {}
      BY <3>1
    <3> QED
      BY <3>1, <3>2
  <2> QED
    BY <2>1, <2>2
<1>6. Wire(o) = o
  <2> HIDE DEF o, s
  <2>1. \A f \in DOMAIN o : o[f] # Undefined
    BY <1>3, <1>5
  <2> QED
    BY <1>5, <2>1, WireKeeps
<1>7. "steps" \in DOMAIN o => ResolveTrajectoryRoot(r) = MerkleRoot(s)
  <2> HIDE DEF o
  <2> QED
    BY <1>5 DEF ResolveTrajectoryRoot
<1> QED
  BY <1>1, <1>2, <1>4, <1>5, <1>6, <1>7

\* What every signed receipt is.
LEMMA SignReceiptIs ==
    ASSUME NEW product \in Product, NEW request \in Requests[product]
    PROVE  LET e == SignReceipt(product, request)
           IN  /\ DOMAIN e = IF product \in Carrying THEN Parts \cup {"digest"} ELSE Parts
               /\ e = [f \in DOMAIN e |-> e[f]]
               /\ \E digest : /\ e.payload_digest = <<e.base, digest>>
                              /\ e.envelope_signature = <<e.base, digest>>
               /\ \A f \in Listed \cap DOMAIN Wire(e.carried) : IsList(Wire(e.carried)[f])
               /\ product \in Carrying => e.carried = e.digest
<1> DEFINE e == SignReceipt(product, request)
           Good == /\ DOMAIN e = IF product \in Carrying THEN Parts \cup {"digest"} ELSE Parts
                   /\ e = [f \in DOMAIN e |-> e[f]]
                   /\ \E digest : /\ e.payload_digest = <<e.base, digest>>
                                  /\ e.envelope_signature = <<e.base, digest>>
                   /\ \A f \in Listed \cap DOMAIN Wire(e.carried) : IsList(Wire(e.carried)[f])
                   /\ product \in Carrying => e.carried = e.digest
<1>1. CASE product \in Carrying
  <2>1. \E object, body : e = SignCarried(object, body) /\ Listed \cap DOMAIN body = {}
    <3>1. CASE product = "bill"
      <4> DEFINE body == BuildCostManifest(request)
      <4>1. e = SignCarried("bill", body)
        BY <3>1 DEF SignReceipt, SignBillReceipt
      <4>2. DOMAIN body = {"request_id", "model_id", "input_tokens",
                           "price_input_micro_usd", "line_total_micro_usd"}
        BY DEF BuildCostManifest
      <4> HIDE DEF body, e
      <4> QED
        BY <4>1, <4>2 DEF Listed
    <3>2. CASE product = "bond"
      <4> DEFINE body == BuildBondTerms(request)
      <4>1. e = SignCarried("bond", body)
        BY <3>2 DEF SignReceipt, SignBond
      <4>2. DOMAIN body = {"bond_id", "window_start", "window_end", "penalty_micro_usd"}
        BY DEF BuildBondTerms
      <4> HIDE DEF body, e
      <4> QED
        BY <4>1, <4>2 DEF Listed
    <3>3. CASE product = "measurement"
      <4> DEFINE body == BuildMeasurement(request)
      <4>1. e = SignCarried("measurement", body)
        BY <3>3 DEF SignReceipt, SignMeasurement
      <4>2. DOMAIN body = {"bond_id", "request_id", "observed_latency_ms"}
        BY DEF BuildMeasurement
      <4> HIDE DEF body, e
      <4> QED
        BY <4>1, <4>2 DEF Listed
    <3> QED
      BY <1>1, <3>1, <3>2, <3>3 DEF Carrying
  <2> HIDE DEF e
  <2>2. PICK object, body : e = SignCarried(object, body) /\ Listed \cap DOMAIN body = {}
    BY <2>1
  <2>3. /\ DOMAIN e = Parts \cup {"digest"}
        /\ e = [f \in DOMAIN e |-> e[f]]
        /\ e.base = [object |-> object] /\ e.carried = body /\ e.digest = body
        /\ e.payload_digest = <<[object |-> object], body>>
        /\ e.envelope_signature = <<[object |-> object], body>>
    BY <2>2, SignCarriedIs
  <2>4. Listed \cap DOMAIN Wire(e.carried) = {}
    BY <2>2, <2>3, WireIs
  <2> QED
    BY <1>1, <2>3, <2>4 DEF e
<1>2. CASE product \notin Carrying
  <2>1. /\ \E base, carried, digest : e = SignListed(base, carried, digest)
        /\ \A f \in Listed \cap DOMAIN Wire(e.carried) : IsList(Wire(e.carried)[f])
    <3>1. CASE product = "manifest"
      <4>1. e = SignManifest(request)
        BY <3>1 DEF SignReceipt
      <4>2. \E base, digest : SignManifest(request) = SignListed(base, <<>>, digest)
        BY Zenon DEF SignManifest
      <4> HIDE DEF e
      <4>3. e.carried = <<>>
        BY <4>1, <4>2, SignListedIs
      <4>4. DOMAIN Wire(e.carried) = {}
        BY <4>3 DEF Wire
      <4> QED
        BY <4>1, <4>2, <4>4
    <3>2. CASE product = "cachesign"
      <4>1. e = SignCacheEntry(request) /\ request \in CacheEntries
        BY <3>2 DEF SignReceipt, Requests
      <4>2. \E base, carried, digest :
                SignCacheEntry(request) = SignListed(base, carried, digest)
        BY Zenon DEF SignCacheEntry
      <4> HIDE DEF e
      <4>3. request.block_ids \in Seq(Text) /\ Wire(e.carried) = [block_ids |-> request.block_ids]
        BY <4>1, BlocksAre
      <4>4. IsList(request.block_ids)
        BY <4>3, ListsOf
      <4> QED
        BY <4>1, <4>2, <4>3, <4>4
    <3>3. CASE product = "gca"
      <4>1. e = SignGca(request) /\ request \in GcaRequests
        BY <3>3 DEF SignReceipt, Requests
      <4>2. \E base, carried, digest : SignGca(request) = SignListed(base, carried, digest)
        BY Zenon DEF SignGca
      <4> HIDE DEF e
      <4>3. ClaimsOf(request) \in Seq(NormalClaims)
            /\ Wire(e.carried) = [claims |-> ClaimsOf(request)]
        BY <4>1, ClaimsAre
      <4>4. IsList(ClaimsOf(request))
        BY <4>3, ListsOf
      <4> QED
        BY <4>1, <4>2, <4>3, <4>4
    <3>4. CASE product = "reward"
      <4>1. e = SignReward(request) /\ request \in RewardRequests
        BY <3>4 DEF SignReceipt, Requests
      <4>2. \E base, carried, digest : SignReward(request) = SignListed(base, carried, digest)
        BY Zenon DEF SignReward
      <4> HIDE DEF e
      <4> DEFINE o == StepsCarried(request)
                 steps == Sorted(request.step_receipt_digests)
      <4>3. /\ steps \in Seq(Text)
            /\ Wire(e.carried) = o
            /\ DOMAIN o \subseteq {"steps"} /\ ("steps" \in DOMAIN o => o.steps = steps)
        BY <4>1, StepsAre
      <4>4. IsList(steps)
        BY <4>3, ListsOf
      <4>5. \A f \in DOMAIN o : IsList(o[f])
        <5> HIDE DEF o, steps
        <5> QED
          BY <4>3, <4>4
      <4> HIDE DEF o
      <4> QED
        BY <4>1, <4>2, <4>3, <4>5
    <3> QED
      BY <1>2, <3>1, <3>2, <3>3, <3>4 DEF Product, Carrying
  <2> HIDE DEF e
  <2>2. PICK base, carried, digest : e = SignListed(base, carried, digest)
    BY <2>1
  <2>3. /\ DOMAIN e = Parts
        /\ e = [f \in DOMAIN e |-> e[f]]
        /\ e.base = base /\ e.carried = carried
        /\ e.payload_digest = <<base, digest>>
        /\ e.envelope_signature = <<base, digest>>
    BY <2>2, SignListedIs
  <2> QED
    BY <1>2, <2>1, <2>3 DEF e
<1> QED
  BY <1>1, <1>2

\* An edit leaves the digest and the signature alone, and a list stays a list; only
\* the steps of a reward may go or come.
ReceiptHeld ==
    /\ Parts \subseteq DOMAIN held
    /\ held.payload_digest = sealed.payload_digest
    /\ held.envelope_signature = sealed.envelope_signature
    /\ asked.product \in Carrying => held.digest = sealed.digest
    /\ asked.product # "reward" => DOMAIN held.carried = DOMAIN Wire(sealed.carried)
    /\ held.carried = [f \in DOMAIN held.carried |-> held.carried[f]]
    /\ \A f \in Listed \cap DOMAIN held.carried : IsList(held.carried[f])
    /\ edits = 0 => held.base = sealed.base /\ held.carried = Wire(sealed.carried)

ReceiptsHolds ==
    /\ edits \in Nat
    /\ sealed = <<>> => held = <<>>
    /\ sealed # <<>> =>
          /\ asked.product \in Product /\ asked.request \in Requests[asked.product]
          /\ sealed = SignReceipt(asked.product, asked.request)
    /\ held # <<>> => sealed # <<>> /\ ReceiptHeld

\* A list that was edited is a list.
LEMMA EditedList ==
    ASSUME NEW s, IsList(s), NEW t \in ListEdits(s)
    PROVE  IsList(t)
<1> DEFINE X == ToSet(s)
<1>1. s \in Seq(X)
  BY DEF IsList
<1> HIDE DEF X
<1>2. CASE \E i \in DOMAIN s : t = RemoveAt(s, i)
  <2>1. PICK i \in DOMAIN s : t = RemoveAt(s, i)
    BY <1>2
  <2>2. Len(s) \in Nat /\ i \in 1 .. Len(s)
    BY <1>1
  <2>3. SubSeq(s, 1, i - 1) \in Seq(X) /\ SubSeq(s, i + 1, Len(s)) \in Seq(X)
    BY <1>1, <2>2
  <2>4. t \in Seq(X)
    BY <2>1, <2>3 DEF RemoveAt
  <2> QED
    BY <2>4, ListsOf
<1>3. CASE \E i \in DOMAIN s : t = Append(s, s[i])
  <2>1. t \in Seq(X)
    BY <1>1, <1>3
  <2> QED
    BY <2>1, ListsOf
<1>4. CASE \E i, j \in DOMAIN s : t = SwapAt(s, i, j)
  <2>1. PICK i, j \in DOMAIN s : t = SwapAt(s, i, j)
    BY <1>4
  <2>2. t = [k \in DOMAIN s |-> IF k = j THEN s[i] ELSE IF k = i THEN s[j] ELSE s[k]]
    BY <2>1 DEF SwapAt
  <2>3. DOMAIN s = 1 .. Len(s) /\ Len(s) \in Nat /\ \A k \in DOMAIN s : s[k] \in X
    BY <1>1
  <2>4. t \in Seq(X)
    BY <2>2, <2>3
  <2> QED
    BY <2>4, ListsOf
<1> QED
  BY <1>2, <1>3, <1>4 DEF ListEdits

\* What an edit does.
EditsPart(part, v) ==
    /\ held' = [held EXCEPT ![part] = v]
    /\ part = "carried" =>
          \/ \E f \in DOMAIN held.carried : \E y :
                /\ v = [held.carried EXCEPT ![f] = y]
                /\ f \in Listed => IsList(y)
          \/ /\ asked.product = "reward"
             /\ v = [f \in DOMAIN v |-> v[f]]
             /\ \A f \in Listed \cap DOMAIN v : IsList(v[f])

LEMMA EditIs ==
    ASSUME ReceiptsHolds, Edit
    PROVE  \E part \in {"base", "carried"} : \E v : EditsPart(part, v)
<1>1. held # <<>> /\ ReceiptHeld
  BY DEF Edit, ReceiptsHolds
<1>2. CASE EditField
  <2>1. PICK other \in Signable[asked.product], part \in {"base", "carried"} :
            \E f \in (DOMAIN held[part] \cap DOMAIN other[part])
                        \ {"claims", "steps", "block_ids", "claims_root", "prefix_root"} :
                held' = [held EXCEPT ![part][f] = other[part][f]]
    BY <1>2, Zenon DEF EditField
  <2>2. PICK f \in DOMAIN held[part] \ Listed :
            held' = [held EXCEPT ![part][f] = other[part][f]]
    BY <2>1 DEF Listed
  <2>3. held' = [held EXCEPT ![part] = [held[part] EXCEPT ![f] = other[part][f]]]
    BY <2>2, Zenon
  <2>4. CASE part = "carried"
    <3>1. EditsPart(part, [held[part] EXCEPT ![f] = other[part][f]])
      BY <2>2, <2>3, <2>4 DEF EditsPart
    <3> QED
      BY <3>1
  <2>5. CASE part = "base"
    <3>1. EditsPart(part, [held[part] EXCEPT ![f] = other[part][f]])
      BY <2>3, <2>5 DEF EditsPart
    <3> QED
      BY <3>1
  <2> QED
    BY <2>1, <2>4, <2>5
<1>3. CASE EditList
  <2>1. PICK f \in DOMAIN held.carried \cap Listed :
            \E s \in ListEdits(held.carried[f]) : held' = [held EXCEPT !.carried[f] = s]
    BY <1>3 DEF EditList, Listed
  <2>2. PICK s \in ListEdits(held.carried[f]) : held' = [held EXCEPT !.carried[f] = s]
    BY <2>1
  <2>3. IsList(s)
    <3>1. IsList(held.carried[f])
      BY <1>1, <2>1 DEF ReceiptHeld
    <3> QED
      BY <2>2, <3>1, EditedList
  <2>4. held' = [held EXCEPT !.carried = [held.carried EXCEPT ![f] = s]]
    BY <2>2, Zenon
  <2>5. EditsPart("carried", [held.carried EXCEPT ![f] = s])
    BY <2>1, <2>3, <2>4 DEF EditsPart
  <2> QED
    BY <2>5
<1>4. CASE EditSteps
  <2>1. PICK other \in Signable["reward"] : held' = [held EXCEPT !.carried = Wire(other.carried)]
    BY <1>4 DEF EditSteps
  <2>2. PICK request \in Requests["reward"] : other = SignReceipt("reward", request)
    BY <2>1 DEF Signable, Product
  <2> DEFINE v == Wire(other.carried)
  <2>3. \A f \in Listed \cap DOMAIN v : IsList(v[f])
    BY <2>2, SignReceiptIs DEF Product
  <2>4. v = [f \in DOMAIN v |-> v[f]]
    BY WireIs
  <2>5. EditsPart("carried", v)
    <3> HIDE DEF v
    <3> QED
      BY <1>4, <2>1, <2>3, <2>4 DEF EditsPart, EditSteps, v
  <2> QED
    BY <2>5
<1> QED
  BY <1>2, <1>3, <1>4 DEF Edit

LEMMA ReceiptsInvariant == ReceiptsSpec => []ReceiptsHolds
<1>1. ReceiptsInit => ReceiptsHolds
  BY DEF ReceiptsInit, ReceiptsHolds
<1>2. ReceiptsHolds /\ [ReceiptsNext]_receiptsVars => ReceiptsHolds'
  <2> SUFFICES ASSUME ReceiptsHolds, [ReceiptsNext]_receiptsVars PROVE ReceiptsHolds'
    OBVIOUS
  <2>1. ASSUME NEW product \in Product, SignRequest(product) PROVE ReceiptsHolds'
    <3>1. PICK request \in Requests[product] :
             /\ sealed' = SignReceipt(product, request)
             /\ asked' = [product |-> product, request |-> request]
      BY <2>1, Zenon DEF SignRequest
    <3>2. asked'.product = product /\ asked'.request = request
      BY <3>1
    <3>3. held' = <<>> /\ edits' \in Nat
      BY <2>1 DEF SignRequest, ReceiptsHolds
    <3> QED
      BY <3>1, <3>2, <3>3 DEF ReceiptsHolds
  <2>2. CASE Receive
    <3>1. /\ sealed # <<>> /\ UNCHANGED <<sealed, asked, edits>>
          /\ held' = [sealed EXCEPT !.carried = Wire(sealed.carried)]
      BY <2>2 DEF Receive
    <3>2. /\ asked.product \in Product /\ asked.request \in Requests[asked.product]
          /\ sealed = SignReceipt(asked.product, asked.request)
      BY <3>1 DEF ReceiptsHolds
    <3>3. /\ DOMAIN sealed = IF asked.product \in Carrying THEN Parts \cup {"digest"} ELSE Parts
          /\ \A f \in Listed \cap DOMAIN Wire(sealed.carried) : IsList(Wire(sealed.carried)[f])
      BY <3>2, SignReceiptIs
    <3>4. /\ DOMAIN held' = DOMAIN sealed
          /\ held'.carried = Wire(sealed.carried)
          /\ \A f \in DOMAIN sealed \ {"carried"} : held'[f] = sealed[f]
      BY <3>1, <3>3 DEF Parts
    <3>5. Wire(sealed.carried) =
              [f \in DOMAIN Wire(sealed.carried) |-> Wire(sealed.carried)[f]]
      BY WireIs
    <3>6. ReceiptHeld'
      BY <3>1, <3>3, <3>4, <3>5 DEF ReceiptHeld, Parts
    <3>7. sealed' # <<>>
      BY <3>1
    <3> QED
      BY <3>1, <3>6, <3>7 DEF ReceiptsHolds
  <2>3. CASE Edit
    <3>1. /\ held # <<>> /\ UNCHANGED <<sealed, asked>> /\ edits' = edits + 1
          /\ ReceiptHeld /\ sealed # <<>> /\ edits \in Nat
      BY <2>3 DEF Edit, ReceiptsHolds
    <3>2. PICK part \in {"base", "carried"} : \E v : EditsPart(part, v)
      BY <2>3, EditIs
    <3>3. PICK v : EditsPart(part, v)
      BY <3>2
    <3>4. held' = [held EXCEPT ![part] = v] /\ edits' # 0 /\ edits' \in Nat
      BY <3>1, <3>3 DEF EditsPart
    <3>5. /\ DOMAIN held' = DOMAIN held
          /\ \A f \in DOMAIN held \ {part} : held'[f] = held[f]
          /\ part \in DOMAIN held => held'[part] = v
      BY <3>4
    <3>6. CASE part = "base"
      <4>1. ReceiptHeld'
        <5>1. held'.digest = held.digest
          BY <3>4, <3>6
        <5>2. /\ held'.carried = held.carried
              /\ held'.payload_digest = held.payload_digest
              /\ held'.envelope_signature = held.envelope_signature
          BY <3>1, <3>5, <3>6 DEF ReceiptHeld, Parts
        <5> QED
          BY <3>1, <3>4, <3>5, <5>1, <5>2 DEF ReceiptHeld
      <4> QED
        BY <3>1, <3>4, <4>1 DEF ReceiptsHolds
    <3>7. CASE /\ part = "carried" /\ asked.product = "reward"
               /\ v = [f \in DOMAIN v |-> v[f]]
               /\ \A f \in Listed \cap DOMAIN v : IsList(v[f])
      <4>1. /\ held'.carried = v
            /\ held'.digest = held.digest
            /\ held'.payload_digest = held.payload_digest
            /\ held'.envelope_signature = held.envelope_signature
        BY <3>1, <3>4, <3>5, <3>7 DEF ReceiptHeld, Parts
      <4>2. ReceiptHeld'
        BY <3>1, <3>4, <3>5, <3>7, <4>1 DEF ReceiptHeld, Carrying
      <4> QED
        BY <3>1, <3>4, <4>2 DEF ReceiptsHolds
    <3>8. CASE part = "carried" /\ \E f \in DOMAIN held.carried :
                  \E y : /\ v = [held.carried EXCEPT ![f] = y]
                         /\ f \in Listed => IsList(y)
      <4>0. PICK f \in DOMAIN held.carried :
                \E y : /\ v = [held.carried EXCEPT ![f] = y]
                       /\ f \in Listed => IsList(y)
        BY <3>8
      <4>1. PICK y : /\ v = [held.carried EXCEPT ![f] = y]
                     /\ f \in Listed => IsList(y)
        BY <4>0
      <4>2. /\ held'.carried = v
            /\ held'.digest = held.digest
            /\ held'.payload_digest = held.payload_digest
            /\ held'.envelope_signature = held.envelope_signature
        BY <3>1, <3>4, <3>5, <3>8 DEF ReceiptHeld, Parts
      <4>3. /\ DOMAIN v = DOMAIN held.carried
            /\ v = [g \in DOMAIN v |-> v[g]]
            /\ \A g \in DOMAIN held.carried : v[g] = IF g = f THEN y ELSE held.carried[g]
        <5> DEFINE c == held.carried
        <5>1. v = [c EXCEPT ![f] = y] /\ f \in DOMAIN c
          BY <4>0, <4>1
        <5> HIDE DEF c
        <5>2. v = [g \in DOMAIN c |-> IF g = f THEN y ELSE c[g]]
          BY <5>1
        <5>3. DOMAIN v = DOMAIN c
          BY <5>2
        <5>4. \A g \in DOMAIN c : v[g] = IF g = f THEN y ELSE c[g]
          BY <5>2
        <5>5. v = [g \in DOMAIN v |-> v[g]]
          BY <5>2, <5>3, <5>4
        <5> QED
          BY <5>3, <5>4, <5>5 DEF c
      <4>4. \A g \in Listed \cap DOMAIN v : IsList(v[g])
        BY <3>1, <4>1, <4>3 DEF ReceiptHeld
      <4>5. ReceiptHeld'
        BY <3>1, <3>4, <3>5, <4>2, <4>3, <4>4 DEF ReceiptHeld
      <4> QED
        BY <3>1, <3>4, <4>5 DEF ReceiptsHolds
    <3> QED
      BY <3>2, <3>3, <3>6, <3>7, <3>8 DEF EditsPart
  <2>4. CASE UNCHANGED receiptsVars
    BY <2>4 DEF receiptsVars, ReceiptsHolds, ReceiptHeld
  <2> QED
    BY <2>1, <2>2, <2>3, <2>4 DEF ReceiptsNext
<1> QED
  BY <1>1, <1>2, PTL DEF ReceiptsSpec

\* What is common to all that a verifier accepts: the base is the one that was signed,
\* and so is the digest it is bound with.
LEMMA AcceptedBase ==
    ASSUME ReceiptsHolds, held # <<>>, NEW digest, SealHolds(held, held.base, digest)
    PROVE  /\ held.base = sealed.base
           /\ sealed.payload_digest = <<sealed.base, digest>>
           /\ asked.product \in Product /\ asked.request \in Requests[asked.product]
           /\ sealed = SignReceipt(asked.product, asked.request)
           /\ ReceiptHeld
<1>1. /\ asked.product \in Product /\ asked.request \in Requests[asked.product]
      /\ sealed = SignReceipt(asked.product, asked.request) /\ ReceiptHeld
  BY DEF ReceiptsHolds
<1>2. PICK d : sealed.payload_digest = <<sealed.base, d>>
  BY <1>1, SignReceiptIs
<1>3. held.payload_digest = sealed.payload_digest
  BY <1>1 DEF ReceiptHeld
<1>4. <<held.base, digest>> = <<sealed.base, d>>
  BY <1>2, <1>3 DEF SealHolds
<1> QED
  BY <1>1, <1>2, <1>4

LEMMA ConcatIs ==
    ASSUME NEW X, NEW s \in Seq(X), NEW t \in Seq(X)
    PROVE  /\ s \o t \in Seq(X) /\ Len(s \o t) = Len(s) + Len(t)
           /\ \A i \in 1 .. Len(s) : (s \o t)[i] = s[i]
           /\ \A i \in 1 .. Len(t) : (s \o t)[Len(s) + i] = t[i]
<1>1. Len(s) \in Nat /\ Len(t) \in Nat
  OBVIOUS
<1>2. s \o t \in Seq(X) /\ Len(s \o t) = Len(s) + Len(t)
  OBVIOUS
<1>3. \A i \in 1 .. Len(s) + Len(t) :
          (s \o t)[i] = IF i <= Len(s) THEN s[i] ELSE t[i - Len(s)]
  BY ConcatProperties
<1>4. ASSUME NEW i \in 1 .. Len(t) PROVE (s \o t)[Len(s) + i] = t[i]
  <2>1. /\ Len(s) + i \in 1 .. Len(s) + Len(t) /\ ~ (Len(s) + i <= Len(s))
        /\ (Len(s) + i) - Len(s) = i
    BY <1>1
  <2> QED
    BY <1>3, <2>1
<1>5. ASSUME NEW i \in 1 .. Len(s) PROVE (s \o t)[i] = s[i]
  BY <1>1, <1>3
<1> QED
  BY <1>2, <1>4, <1>5

\* A block that is sealed is at its place: the leaves tell the blocks.
Leaves(prefix_hash, block_ids, token_span) ==
    <<<<"prefix", 0, prefix_hash>>>>
        \o [i \in DOMAIN block_ids |-> <<"block", i, block_ids[i]>>]
        \o IF token_span = Undefined THEN <<>> ELSE <<<<"span", 0, token_span>>>>

LEMMA LeavesAre ==
    ASSUME NEW prefix_hash, NEW b, IsList(b), NEW token_span
    PROVE  LET l == Leaves(prefix_hash, b, token_span)
           IN  /\ IsList(l)
               /\ \A i, x : <<"block", i, x>> \in ToSet(l) <=> i \in DOMAIN b /\ b[i] = x
<1> DEFINE p == <<<<"prefix", 0, prefix_hash>>>>
           q == [i \in DOMAIN b |-> <<"block", i, b[i]>>]
           r == IF token_span = Undefined THEN <<>> ELSE <<<<"span", 0, token_span>>>>
           l == Leaves(prefix_hash, b, token_span)
           X == {<<"prefix", 0, prefix_hash>>} \cup {<<"block", i, b[i]>> : i \in DOMAIN b}
                   \cup {<<"span", 0, token_span>>}
<1>1. DOMAIN b = 1 .. Len(b) /\ Len(b) \in Nat
  BY DEF IsList
<1>2. p \in Seq(X) /\ Len(p) = 1 /\ p[1] = <<"prefix", 0, prefix_hash>>
  OBVIOUS
<1>3. q \in Seq(X) /\ Len(q) = Len(b) /\ \A i \in 1 .. Len(b) : q[i] = <<"block", i, b[i]>>
  <2>1. \A i \in 1 .. Len(b) : <<"block", i, b[i]>> \in X
    BY <1>1
  <2>2. q = [i \in 1 .. Len(b) |-> <<"block", i, b[i]>>]
    BY <1>1
  <2> HIDE DEF X
  <2> QED
    BY <1>1, <2>1, <2>2
<1>4. /\ r \in Seq(X) /\ Len(r) \in {0, 1}
      /\ Len(r) = 1 => r[1] = <<"span", 0, token_span>>
  <2> DEFINE y == <<"span", 0, token_span>>
  <2>1. y \in X
    OBVIOUS
  <2> HIDE DEF X, y
  <2>2. <<y>> \in Seq(X) /\ Len(<<y>>) = 1 /\ <<y>>[1] = y /\ <<>> \in Seq(X) /\ Len(<<>>) = 0
    BY <2>1
  <2>3. r = <<>> \/ r = <<y>>
    BY DEF y
  <2>4. CASE r = <<>>
    <3>1. Len(r) = 0 /\ r \in Seq(X)
      BY <2>2, <2>4
    <3> HIDE DEF r
    <3> QED
      BY <3>1
  <2>5. CASE r = <<y>>
    <3>1. Len(r) = 1 /\ r \in Seq(X) /\ r[1] = y
      BY <2>2, <2>5
    <3> HIDE DEF r
    <3> QED
      BY <3>1 DEF y
  <2> QED
    BY <2>3, <2>4, <2>5
<1>5. l = (p \o q) \o r
  BY Zenon DEF Leaves
<1> HIDE DEF p, q, r, X, l
<1>6. /\ l \in Seq(X) /\ Len(l) = 1 + Len(b) + Len(r)
      /\ l[1] = <<"prefix", 0, prefix_hash>>
      /\ \A i \in 1 .. Len(b) : l[1 + i] = <<"block", i, b[i]>>
      /\ Len(r) = 1 => l[2 + Len(b)] = <<"span", 0, token_span>>
  <2>1. /\ p \o q \in Seq(X) /\ Len(p \o q) = 1 + Len(b)
        /\ (p \o q)[1] = <<"prefix", 0, prefix_hash>>
        /\ \A i \in 1 .. Len(b) : (p \o q)[1 + i] = <<"block", i, b[i]>>
    <3>1. p \o q \in Seq(X) /\ Len(p \o q) = Len(p) + Len(q)
      BY <1>2, <1>3, ConcatIs
    <3>2. \A i \in 1 .. Len(p) : (p \o q)[i] = p[i]
      BY <1>2, <1>3, ConcatIs
    <3>3. \A i \in 1 .. Len(q) : (p \o q)[Len(p) + i] = q[i]
      <4>1. p \in Seq(X) /\ q \in Seq(X)
        BY <1>2, <1>3
      <4> QED
        BY ONLY <4>1, ConcatIs
    <3>4. 1 \in 1 .. Len(p)
      BY <1>2
    <3> QED
      BY <1>1, <1>2, <1>3, <3>1, <3>2, <3>3, <3>4
  <2> DEFINE u == p \o q
  <2> HIDE DEF u
  <2>2. /\ u \in Seq(X) /\ Len(u) = 1 + Len(b) /\ l = u \o r
        /\ u[1] = <<"prefix", 0, prefix_hash>>
        /\ \A i \in 1 .. Len(b) : u[1 + i] = <<"block", i, b[i]>>
    BY <1>5, <2>1 DEF u
  <2>3. l \in Seq(X) /\ Len(l) = Len(u) + Len(r)
    BY <1>4, <2>2, ConcatIs
  <2>4. \A i \in 1 .. Len(u) : l[i] = u[i]
    BY <1>4, <2>2, ConcatIs
  <2>5. \A i \in 1 .. Len(r) : l[Len(u) + i] = r[i]
    BY <1>4, <2>2, ConcatIs
  <2>6. 1 \in 1 .. Len(u) /\ \A i \in 1 .. Len(b) : 1 + i \in 1 .. Len(u)
    BY <1>1, <2>2
  <2>7. Len(r) = 1 => 1 \in 1 .. Len(r) /\ Len(u) + 1 = 2 + Len(b)
    BY <1>1, <2>2
  <2> QED
    BY <1>4, <2>2, <2>3, <2>4, <2>5, <2>6, <2>7
<1>7. IsList(l)
  BY <1>6, ListsOf
<1>8. \A i \in 1 .. Len(b) : <<"block", i, b[i]>> \in ToSet(l)
  <2>1. \A i \in 1 .. Len(b) : 1 + i \in DOMAIN l
    BY <1>1, <1>4, <1>6
  <2> QED
    BY <1>6, <2>1 DEF ToSet
<1>9. ASSUME NEW i, NEW x, <<"block", i, x>> \in ToSet(l)
      PROVE  i \in DOMAIN b /\ b[i] = x
  <2>1. PICK k \in DOMAIN l : l[k] = <<"block", i, x>>
    BY <1>9 DEF ToSet
  <2>2. k \in 1 .. 1 + Len(b) + Len(r)
    BY <1>6, <2>1
  <2>3. k # 1
    BY <1>6, <2>1
  <2>4. ~ (Len(r) = 1 /\ k = 2 + Len(b))
    BY <1>6, <2>1
  <2>5. k - 1 \in 1 .. Len(b) /\ k = 1 + (k - 1)
    <3>1. CASE Len(r) = 0
      BY <1>1, <2>2, <2>3, <3>1
    <3>2. CASE Len(r) = 1
      BY <1>1, <2>2, <2>3, <2>4, <3>2
    <3> QED
      BY <1>4, <3>1, <3>2
  <2>6. l[k] = <<"block", k - 1, b[k - 1]>>
    BY <1>6, <2>5
  <2>7. i = k - 1 /\ x = b[k - 1]
    BY <2>1, <2>6
  <2> QED
    BY <1>1, <2>5, <2>7
<1> QED
  BY <1>1, <1>7, <1>8, <1>9 DEF l

LEMMA CommitmentTellsBlocks ==
    ASSUME NEW b, IsList(b), NEW c, IsList(c), NEW h, NEW t,
           PrefixCommitment(h, b, t) = PrefixCommitment(h, c, t)
    PROVE  b = c
<1> DEFINE l == Leaves(h, b, t)
           m == Leaves(h, c, t)
<1>1. MerkleRoot(l) = MerkleRoot(m)
  BY Zenon DEF PrefixCommitment, Leaves
<1>2. /\ IsList(l) /\ IsList(m)
      /\ \A i, x : <<"block", i, x>> \in ToSet(l) <=> i \in DOMAIN b /\ b[i] = x
      /\ \A i, x : <<"block", i, x>> \in ToSet(m) <=> i \in DOMAIN c /\ c[i] = x
  BY LeavesAre
<1> HIDE DEF l, m
<1>3. ToSet(l) = ToSet(m)
  <2>1. ToSet(MerkleRoot(l)) = ToSet(l) /\ ToSet(MerkleRoot(m)) = ToSet(m)
    BY <1>2, MerkleRootMembers DEF IsList
  <2> QED
    BY <1>1, <2>1
<1>4. DOMAIN b = DOMAIN c /\ \A i \in DOMAIN b : b[i] = c[i]
  BY <1>2, <1>3
<1>5. b = [i \in DOMAIN b |-> b[i]] /\ c = [i \in DOMAIN c |-> c[i]]
  BY DEF IsList
<1> QED
  BY <1>4, <1>5

\* A receipt that is accepted says what was signed, whatever was edited and however
\* often; a reward that carries steps carries those its root was made of.
THEOREM NoticedEdits == ReceiptsSpec => []EditsAreNoticed
<1>1. ReceiptsHolds => EditsAreNoticed
  <2> DEFINE product == asked.product
             request == asked.request
             Same == /\ held.base = sealed.base
                     /\ CASE product = "gca" ->
                               ToBag(held.carried.claims) = ToBag(sealed.carried.claims)
                          [] product = "reward" ->
                               CarriesSteps(held) =>
                                   \A steps \in Lists(Text) :
                                       MerkleRoot(Sorted(steps)) = sealed.base.trajectory_root
                                           => ToSet(held.carried.steps) = ToSet(steps)
                          [] OTHER -> held.carried = sealed.carried
  <2> SUFFICES ASSUME ReceiptsHolds, held # <<>>, VerifyReceipt(product, held) PROVE Same
    BY Zenon DEF EditsAreNoticed
  <2>0. product \in Product /\ ReceiptHeld
    BY DEF ReceiptsHolds
  <2>1. CASE product \in Carrying
    <3>1. VerifyCarried(held)
      <4>1. product = "bill" => VerifyBillReceipt(held)
        BY DEF VerifyReceipt
      <4>2. product = "bond" => VerifyBond(held)
        BY DEF VerifyReceipt
      <4>3. product = "measurement" => VerifyMeasurement(held)
        BY DEF VerifyReceipt
      <4> HIDE DEF product
      <4> QED
        BY <2>1, <4>1, <4>2, <4>3
           DEF Carrying, VerifyBillReceipt, VerifyBond, VerifyMeasurement
    <3>2. held.carried = held.digest /\ held.digest = sealed.digest
      BY <2>0, <2>1, <3>1 DEF VerifyCarried, Canonicalize, ReceiptHeld
    <3>3. held.base = sealed.base
      BY <3>1, AcceptedBase DEF VerifyCarried
    <3>4. sealed.carried = sealed.digest
      BY <2>1, SignReceiptIs DEF ReceiptsHolds
    <3> HIDE DEF product
    <3> QED
      BY <2>1, <3>2, <3>3, <3>4 DEF Carrying
  <2>2. CASE product = "manifest"
    <3>1. VerifyManifest(held)
      BY <2>2 DEF VerifyReceipt
    <3>2. /\ held.base = sealed.base /\ sealed = SignReceipt(product, request)
      BY <3>1, AcceptedBase DEF VerifyManifest
    <3>3. sealed = SignManifest(request)
      BY <2>2, <3>2 DEF SignReceipt
    <3>4. \E base, digest : SignManifest(request) = SignListed(base, <<>>, digest)
      BY Zenon DEF SignManifest
    <3>5. sealed.carried = <<>>
      BY <3>3, <3>4, SignListedIs
    <3>6. DOMAIN held.carried = {}
      <4>1. DOMAIN Wire(sealed.carried) = {}
        BY <3>5 DEF Wire
      <4> QED
        BY <2>0, <2>2, <4>1 DEF ReceiptHeld
    <3>7. held.carried = <<>>
      <4>1. held.carried = [f \in DOMAIN held.carried |-> held.carried[f]]
        BY <2>0 DEF ReceiptHeld
      <4> QED
        BY <3>6, <4>1
    <3> QED
      BY <2>2, <3>2, <3>5, <3>7
  <2>3. CASE product = "cachesign"
    <3>1. VerifyCacheEntry(held)
      BY <2>3 DEF VerifyReceipt
    <3>2. /\ held.base = sealed.base /\ sealed = SignReceipt(product, request)
          /\ request \in Requests[product]
      BY <3>1, AcceptedBase DEF VerifyCacheEntry
    <3>3. sealed = SignCacheEntry(request) /\ request \in CacheEntries
      BY <2>3, <3>2 DEF SignReceipt, Requests
    <3>4. /\ request.block_ids \in Seq(Text)
          /\ Wire(sealed.carried) = [block_ids |-> request.block_ids]
      BY <3>3, BlocksAre
    <3> DEFINE root == PrefixCommitment(request.prefix_hash, request.block_ids,
                                        request.token_span)
    <3>5. /\ sealed.base.prefix_root = root
          /\ sealed.base.prefix_hash = request.prefix_hash
          /\ sealed.base.token_span = request.token_span
          /\ sealed.carried = [block_ids |-> request.block_ids]
      <4> DEFINE base == [prefix_hash |-> request.prefix_hash, prefix_root |-> root,
                          block_count |-> Len(request.block_ids),
                          token_span |-> request.token_span,
                          parent_cache_receipt |-> request.parent_cache_receipt]
                 carried == [block_ids |-> request.block_ids]
      <4>1. \E digest : SignCacheEntry(request) = SignListed(base, carried, digest)
        BY Zenon DEF SignCacheEntry
      <4>2. sealed.base = base /\ sealed.carried = carried
        <5> HIDE DEF base, carried
        <5> QED
          BY <3>3, <4>1, SignListedIs
      <4> HIDE DEF root
      <4> QED
        BY <4>2
    <3>6. /\ DOMAIN held.carried = {"block_ids"} /\ IsList(held.carried.block_ids)
          /\ held.carried = [f \in DOMAIN held.carried |-> held.carried[f]]
      BY <2>0, <2>3, <3>4 DEF ReceiptHeld, Listed
    <3>7. PrefixCommitment(request.prefix_hash, held.carried.block_ids, request.token_span)
              = root
      <4> HIDE DEF root
      <4> QED
        BY <3>1, <3>2, <3>5 DEF VerifyCacheEntry
    <3>8. IsList(request.block_ids)
      BY <3>4, ListsOf
    <3>9. held.carried.block_ids = request.block_ids
      BY <3>6, <3>7, <3>8, CommitmentTellsBlocks
    <3>10. held.carried = sealed.carried
      BY <3>5, <3>6, <3>9
    <3> HIDE DEF product
    <3> QED
      BY <2>3, <3>2, <3>10
  <2>4. CASE product = "gca"
    <3>1. VerifyGca(held)
      BY <2>4 DEF VerifyReceipt
    <3>2. /\ held.base = sealed.base /\ sealed = SignReceipt(product, request)
          /\ request \in Requests[product]
      BY <3>1, AcceptedBase DEF VerifyGca
    <3>3. sealed = SignGca(request) /\ request \in GcaRequests
      BY <2>4, <3>2 DEF SignReceipt, Requests
    <3> DEFINE c == ClaimsOf(request)
               d == held.carried.claims
    <3>4. /\ c \in Seq(NormalClaims) /\ sealed.carried = [claims |-> c]
          /\ Wire(sealed.carried) = [claims |-> c]
      BY <3>3, ClaimsAre
    <3>5. /\ sealed.base.claim_count = Len(c)
          /\ sealed.base.claims_root = MerkleRoot(Sorted(c))
      <4> DEFINE base == [claim_count |-> Len(c),
                          unsupported_count |-> UnsupportedCount(c),
                          support_variance |-> SupportVariance(c),
                          claims_root |-> MerkleRoot(Sorted(c))]
      <4>1. \E carried, digest : SignGca(request) = SignListed(base, carried, digest)
        BY Zenon DEF SignGca, ClaimsOf
      <4>2. sealed.base = base
        <5> HIDE DEF base
        <5> QED
          BY <3>3, <4>1, SignListedIs
      <4> HIDE DEF c
      <4> QED
        BY <4>2
    <3>6. IsList(d)
      <4>1. "claims" \in Listed \cap DOMAIN held.carried
        BY <2>0, <2>4, <3>4 DEF ReceiptHeld, Listed
      <4> QED
        BY <2>0, <4>1 DEF ReceiptHeld
    <3>7. Len(d) = Len(c) /\ MerkleRoot(Sorted(d)) = MerkleRoot(Sorted(c))
      <4> HIDE DEF c
      <4> QED
        BY <3>1, <3>2, <3>5 DEF VerifyGca
    <3> HIDE DEF c, d
    <3>8. ToBag(d) = ToBag(c)
      <4> DEFINE X == ToSet(c) \cup ToSet(d)
      <4>1. IsList(c)
        BY <3>4, ListsOf
      <4>2. ToSet(c) \subseteq X /\ ToSet(d) \subseteq X
        OBVIOUS
      <4> HIDE DEF X
      <4>3. c \in Seq(X) /\ d \in Seq(X)
        BY <3>6, <4>1, <4>2, ListIn
      <4> QED
        BY <3>7, <4>3, SortedRootTells
    <3>9. sealed.carried.claims = c
      BY <3>4
    <3> HIDE DEF product
    <3> QED
      BY <2>4, <3>2, <3>8, <3>9 DEF d
  <2>5. CASE product = "reward"
    <3>1. VerifyReward(held)
      BY <2>5 DEF VerifyReceipt
    <3>2. held.base = sealed.base
      BY <3>1, AcceptedBase DEF VerifyReward
    <3>3. ASSUME CarriesSteps(held), NEW c \in Lists(Text),
                 MerkleRoot(Sorted(c)) = sealed.base.trajectory_root
          PROVE  ToSet(held.carried.steps) = ToSet(c)
      <4> DEFINE d == held.carried.steps
                 X == ToSet(c) \cup ToSet(d)
      <4>1. IsList(d)
        BY <2>0, <3>3 DEF ReceiptHeld, Listed, CarriesSteps
      <4>2. MerkleRoot(Sorted(d)) = MerkleRoot(Sorted(c))
        BY <3>1, <3>2, <3>3 DEF VerifyReward
      <4>3. IsList(c)
        BY ListedAre, ListsOf
      <4>4. ToSet(c) \subseteq X /\ ToSet(d) \subseteq X
        OBVIOUS
      <4> HIDE DEF X, d
      <4>5. c \in Seq(X) /\ d \in Seq(X)
        BY <4>1, <4>3, <4>4, ListIn
      <4>6. ToSet(d) = ToSet(c)
        BY <4>2, <4>5, SortedRootMembers
      <4> QED
        BY <4>6 DEF d
    <3> HIDE DEF product
    <3> QED
      BY <2>5, <3>2, <3>3
  <2> QED
    BY <2>0, <2>1, <2>2, <2>3, <2>4, <2>5 DEF Product, Carrying
<1> QED
  BY <1>1, ReceiptsInvariant, PTL

LEMMA Int32Is == \A x \in Int : Int32(x) \in Int /\ Int32(x) # Undefined
BY SealedAssumption DEF Int32

\* A receipt nobody touched.
LEMMA Untouched ==
    ASSUME ReceiptsHolds, held # <<>>, edits = 0
    PROVE  /\ asked.product \in Product /\ asked.request \in Requests[asked.product]
           /\ sealed = SignReceipt(asked.product, asked.request)
           /\ held.base = sealed.base /\ held.carried = Wire(sealed.carried)
           /\ asked.product \in Carrying => held.digest = sealed.digest
           /\ held.payload_digest = sealed.payload_digest
           /\ held.envelope_signature = sealed.envelope_signature
BY DEF ReceiptsHolds, ReceiptHeld

\* An object that is carried verifies when all its fields travel.
LEMMA CarriedTravels ==
    ASSUME ReceiptsHolds, held # <<>>, edits = 0, asked.product \in Carrying,
           NEW object, NEW body, body = [f \in DOMAIN body |-> body[f]],
           sealed = SignCarried(object, body)
    PROVE  /\ held.carried = Wire(body)
           /\ VerifyCarried(held) <=> \A f \in DOMAIN body : body[f] # Undefined
<1>1. /\ sealed.base = [object |-> object] /\ sealed.carried = body /\ sealed.digest = body
      /\ sealed.payload_digest = <<[object |-> object], body>>
      /\ sealed.envelope_signature = <<[object |-> object], body>>
  BY SignCarriedIs
<1>2. /\ held.base = sealed.base /\ held.carried = Wire(sealed.carried)
      /\ held.digest = sealed.digest
      /\ held.payload_digest = sealed.payload_digest
      /\ held.envelope_signature = sealed.envelope_signature
  BY Untouched
<1>3. Wire(body) = body <=> \A f \in DOMAIN body : body[f] # Undefined
  BY WireKeeps
<1> QED
  BY <1>1, <1>2, <1>3 DEF VerifyCarried, SealHolds, Canonicalize

LEMMA BillsTravel ==
    ASSUME ReceiptsHolds, held # <<>>, edits = 0, asked.product = "bill"
    PROVE  VerifyBillReceipt(held)
              <=> Undefined \notin {asked.request.request_id, asked.request.model_id}
<1> DEFINE req == asked.request
           Names == {"request_id", "model_id", "input_tokens", "price_input_micro_usd",
                     "line_total_micro_usd"}
           m == [request_id |-> req.request_id, model_id |-> req.model_id,
                 input_tokens |-> Int32(req.input_tokens),
                 price_input_micro_usd |-> Int32(req.price_input_micro_usd),
                 line_total_micro_usd |-> 0]
           body == BuildCostManifest(req)
<1>1. req \in BillRequests /\ sealed = SignCarried("bill", body)
  BY Untouched DEF Requests, SignReceipt, SignBillReceipt
<1>2. /\ Int32(req.input_tokens) \in Int /\ Int32(req.input_tokens) # Undefined
      /\ Int32(req.price_input_micro_usd) \in Int
      /\ Int32(req.price_input_micro_usd) # Undefined
  BY <1>1, Int32Is, ReceiptsAssumption DEF BillRequests
<1>3. LineTotal(m) = Int32(req.input_tokens) * Int32(req.price_input_micro_usd)
  BY DEF LineTotal
<1>4. body = [m EXCEPT !.line_total_micro_usd = LineTotal(m)]
  BY Zenon DEF BuildCostManifest
<1>5. /\ DOMAIN body = Names /\ body = [f \in DOMAIN body |-> body[f]]
      /\ body.request_id = req.request_id /\ body.model_id = req.model_id
      /\ body.input_tokens = Int32(req.input_tokens)
      /\ body.price_input_micro_usd = Int32(req.price_input_micro_usd)
      /\ body.line_total_micro_usd = LineTotal(m)
  <2> DEFINE t == LineTotal(m)
  <2>1. body = [request_id |-> req.request_id, model_id |-> req.model_id,
                input_tokens |-> Int32(req.input_tokens),
                price_input_micro_usd |-> Int32(req.price_input_micro_usd),
                line_total_micro_usd |-> t]
    <3> HIDE DEF t, body
    <3> QED
      BY <1>4 DEF t
  <2> HIDE DEF body, t
  <2> QED
    BY <2>1 DEF t
<1> HIDE DEF body, m
<1>6. LineTotal(m) \in Int
  <2> DEFINE a == Int32(req.input_tokens)
             b == Int32(req.price_input_micro_usd)
  <2> HIDE DEF a, b
  <2>1. a \in Int /\ b \in Int
    BY <1>2 DEF a, b
  <2>2. a * b \in Int
    BY <2>1
  <2> QED
    BY <1>3, <2>2 DEF a, b
<1>7. body.line_total_micro_usd # Undefined
  BY <1>5, <1>6, SealedAssumption
<1>8. /\ held.carried = Wire(body)
      /\ VerifyCarried(held) <=> \A f \in DOMAIN body : body[f] # Undefined
  BY <1>1, <1>5, CarriedTravels DEF Carrying
<1>9. (\A f \in DOMAIN body : body[f] # Undefined)
          <=> Undefined \notin {req.request_id, req.model_id}
  BY <1>2, <1>5, <1>7
<1>10. LineTotal(held.carried) = held.carried.line_total_micro_usd
  <2>1. {"input_tokens", "price_input_micro_usd", "line_total_micro_usd"}
            \subseteq DOMAIN Wire(body)
    <3>1. DOMAIN Wire(body) = {g \in DOMAIN body : body[g] # Undefined}
      BY WireIs
    <3>2. body.input_tokens # Undefined /\ body.price_input_micro_usd # Undefined
      BY <1>2, <1>5
    <3> QED
      BY <1>5, <1>7, <3>1, <3>2
  <2>2. /\ held.carried.input_tokens = Int32(req.input_tokens)
        /\ held.carried.price_input_micro_usd = Int32(req.price_input_micro_usd)
        /\ held.carried.line_total_micro_usd = LineTotal(m)
    BY <1>5, <1>8, <2>1, WireIs
  <2> QED
    BY <1>3, <2>2 DEF LineTotal
<1> QED
  BY <1>8, <1>9, <1>10 DEF VerifyBillReceipt

LEMMA BondsTravel ==
    ASSUME ReceiptsHolds, held # <<>>, edits = 0, asked.product = "bond"
    PROVE  VerifyBond(held)
              <=> Undefined \notin {asked.request.window_start, asked.request.window_end}
<1> DEFINE req == asked.request
           body == BuildBondTerms(req)
<1>1. req \in BondTerms /\ sealed = SignCarried("bond", body)
  BY Untouched DEF Requests, SignReceipt, SignBond
<1>2. req.bond_id # Undefined /\ Int32(req.penalty_micro_usd) # Undefined
  BY <1>1, Int32Is, ReceiptsAssumption DEF BondTerms
<1>3. /\ DOMAIN body = {"bond_id", "window_start", "window_end", "penalty_micro_usd"}
      /\ body = [f \in DOMAIN body |-> body[f]]
      /\ body.bond_id = req.bond_id /\ body.window_start = req.window_start
      /\ body.window_end = req.window_end
      /\ body.penalty_micro_usd = Int32(req.penalty_micro_usd)
  BY DEF BuildBondTerms
<1> HIDE DEF body
<1>4. VerifyCarried(held) <=> \A f \in DOMAIN body : body[f] # Undefined
  BY <1>1, <1>3, CarriedTravels DEF Carrying
<1> QED
  BY <1>2, <1>3, <1>4 DEF VerifyBond

LEMMA MeasurementsTravel ==
    ASSUME ReceiptsHolds, held # <<>>, edits = 0, asked.product = "measurement"
    PROVE  VerifyMeasurement(held) <=> asked.request.request_id # Undefined
<1> DEFINE m == asked.request
           body == BuildMeasurement(m)
<1>1. m \in Measurements /\ sealed = SignCarried("measurement", body)
  BY Untouched DEF Requests, SignReceipt, SignMeasurement
<1>2. m.bond_id # Undefined /\ Int32(m.observed_latency_ms) # Undefined
  BY <1>1, Int32Is, ReceiptsAssumption DEF Measurements
<1>3. /\ DOMAIN body = {"bond_id", "request_id", "observed_latency_ms"}
      /\ body = [f \in DOMAIN body |-> body[f]]
      /\ body.bond_id = m.bond_id /\ body.request_id = m.request_id
      /\ body.observed_latency_ms = Int32(m.observed_latency_ms)
  BY DEF BuildMeasurement
<1> HIDE DEF body
<1>4. VerifyCarried(held) <=> \A f \in DOMAIN body : body[f] # Undefined
  BY <1>1, <1>3, CarriedTravels DEF Carrying
<1> QED
  BY <1>2, <1>3, <1>4 DEF VerifyMeasurement

LEMMA ManifestsTravel ==
    ASSUME ReceiptsHolds, held # <<>>, edits = 0, asked.product = "manifest"
    PROVE  VerifyManifest(held)
              <=> asked.request.nullifier \notin
                      {Nullifier(i) : i \in [Fields -> Text] \ {asked.request.identity}}
<1> DEFINE m == asked.request
           given == m.nullifier
           handle == IF given = Undefined THEN Nullifier(m.identity) ELSE given
           base == [identity |-> m.identity, manifest_root |-> m.identity,
                    nullifier |-> handle]
<1>1. m \in Manifests /\ sealed = SignManifest(m)
  BY Untouched DEF Requests, SignReceipt
<1>2. /\ m.identity \in [Fields -> Text]
      /\ \/ given = Undefined
         \/ \E x \in Text : given = <<"own", x>>
         \/ \E x \in Text : given = Nullifier([f \in Fields |-> x])
  BY <1>1 DEF Manifests
<1>3. SignManifest(m) = SignListed(base, <<>>, m.identity)
  BY Zenon DEF SignManifest, ManifestRoot
<1>4. /\ sealed.base = base
      /\ sealed.payload_digest = <<base, m.identity>>
      /\ sealed.envelope_signature = <<base, m.identity>>
  <2> HIDE DEF base
  <2> QED
    BY <1>1, <1>3, SignListedIs
<1>5. /\ held.base = base /\ held.payload_digest = <<base, m.identity>>
      /\ held.envelope_signature = <<base, m.identity>>
  <2> HIDE DEF base
  <2> QED
    BY <1>4, Untouched
<1>6. /\ base.identity = m.identity /\ base.manifest_root = m.identity
      /\ base.nullifier = handle
  <2> HIDE DEF handle
  <2> QED
    OBVIOUS
<1> HIDE DEF base, handle
<1>7. VerifyManifest(held) <=> (handle[1] = "null_" => handle = Nullifier(m.identity))
  BY <1>5, <1>6 DEF VerifyManifest, SealHolds, ManifestRoot
<1>8. CASE given = Undefined
  <2>1. handle = Nullifier(m.identity)
    BY <1>8 DEF handle
  <2>2. \A i \in [Fields -> Text] : given # Nullifier(i)
    BY <1>8, ValuesAssumption
  <2> QED
    BY <1>7, <2>1, <2>2
<1>9. CASE given # Undefined /\ \E x \in Text : given = <<"own", x>>
  <2>1. PICK x \in Text : given = <<"own", x>>
    BY <1>9
  <2>2. handle = given /\ given[1] # "null_"
    BY <1>9, <2>1 DEF handle
  <2>3. \A i : given # Nullifier(i)
    BY <2>1 DEF Nullifier
  <2> QED
    BY <1>7, <2>2, <2>3
<1>10. CASE given # Undefined /\ \E x \in Text : given = Nullifier([f \in Fields |-> x])
  <2>1. PICK j \in [Fields -> Text] : given = Nullifier(j)
    BY <1>10
  <2>2. handle = Nullifier(j) /\ Nullifier(j)[1] = "null_"
    BY <1>10, <2>1 DEF handle, Nullifier
  <2>3. \A i : Nullifier(i) = Nullifier(j) <=> i = j
    BY DEF Nullifier
  <2>4. VerifyManifest(held) <=> j = m.identity
    BY <1>7, <2>2, <2>3
  <2>5. given \in {Nullifier(i) : i \in [Fields -> Text] \ {m.identity}} <=> j # m.identity
    BY <2>1, <2>3
  <2> QED
    BY <2>4, <2>5
<1> QED
  BY <1>2, <1>8, <1>9, <1>10

LEMMA CacheEntriesTravel ==
    ASSUME ReceiptsHolds, held # <<>>, edits = 0, asked.product = "cachesign"
    PROVE  VerifyCacheEntry(held)
<1> DEFINE entry == asked.request
           root == PrefixCommitment(entry.prefix_hash, entry.block_ids, entry.token_span)
           base == [prefix_hash |-> entry.prefix_hash, prefix_root |-> root,
                    block_count |-> Len(entry.block_ids),
                    token_span |-> entry.token_span,
                    parent_cache_receipt |-> entry.parent_cache_receipt]
           carried == [block_ids |-> entry.block_ids]
           digest == <<root, entry.parent_cache_receipt>>
<1>1. entry \in CacheEntries /\ sealed = SignCacheEntry(entry)
  BY Untouched DEF Requests, SignReceipt
<1>2. SignCacheEntry(entry) = SignListed(base, carried, digest)
  BY Zenon DEF SignCacheEntry
<1>3. Wire(sealed.carried) = carried
  BY <1>1, BlocksAre
<1>4. /\ sealed.base = base
      /\ sealed.payload_digest = <<base, digest>>
      /\ sealed.envelope_signature = <<base, digest>>
  <2> HIDE DEF base, carried, digest
  <2> QED
    BY <1>1, <1>2, SignListedIs
<1>5. /\ held.base = base /\ held.carried = carried /\ held.payload_digest = <<base, digest>>
      /\ held.envelope_signature = <<base, digest>>
  <2> HIDE DEF base, carried, digest
  <2> QED
    BY <1>3, <1>4, Untouched
<1>6. /\ base.prefix_hash = entry.prefix_hash /\ base.prefix_root = root
      /\ base.token_span = entry.token_span
      /\ base.parent_cache_receipt = entry.parent_cache_receipt
      /\ carried.block_ids = entry.block_ids
  <2> HIDE DEF root
  <2> QED
    OBVIOUS
<1> HIDE DEF base, carried
<1> QED
  BY <1>5, <1>6 DEF VerifyCacheEntry, SealHolds

LEMMA GcasTravel ==
    ASSUME ReceiptsHolds, held # <<>>, edits = 0, asked.product = "gca"
    PROVE  VerifyGca(held)
<1> DEFINE gca == asked.request
           c == ClaimsOf(gca)
           root == MerkleRoot(Sorted(c))
           base == [claim_count |-> Len(c), unsupported_count |-> UnsupportedCount(c),
                    support_variance |-> SupportVariance(c), claims_root |-> root]
           carried == [claims |-> c]
<1>1. gca \in GcaRequests /\ sealed = SignGca(gca)
  BY Untouched DEF Requests, SignReceipt
<1>2. SignGca(gca) = SignListed(base, carried, root)
  <2>1. base.claims_root = root
    <3> HIDE DEF root, c
    <3> QED
      OBVIOUS
  <2>2. SignGca(gca) = SignListed(base, carried, base.claims_root)
    BY Zenon DEF SignGca, ClaimsOf
  <2> HIDE DEF base, carried, root
  <2> QED
    BY <2>1, <2>2
<1>3. Wire(sealed.carried) = carried /\ c # <<>>
  BY <1>1, ClaimsAre
<1>4. /\ sealed.base = base
      /\ sealed.payload_digest = <<base, root>>
      /\ sealed.envelope_signature = <<base, root>>
  <2> HIDE DEF base, carried, root
  <2> QED
    BY <1>1, <1>2, SignListedIs
<1>5. /\ held.base = base /\ held.carried = carried /\ held.payload_digest = <<base, root>>
      /\ held.envelope_signature = <<base, root>>
  <2> HIDE DEF base, carried, root, c
  <2> QED
    BY <1>3, <1>4, Untouched
<1>6. /\ base.claim_count = Len(c) /\ base.unsupported_count = UnsupportedCount(c)
      /\ base.support_variance = SupportVariance(c) /\ base.claims_root = root
      /\ carried.claims = c
  <2> HIDE DEF root, c
  <2> QED
    OBVIOUS
<1> HIDE DEF base, carried, c
<1> QED
  BY <1>3, <1>5, <1>6 DEF VerifyGca, SealHolds

LEMMA RewardsTravel ==
    ASSUME ReceiptsHolds, held # <<>>, edits = 0, asked.product = "reward"
    PROVE  VerifyReward(held)
<1> DEFINE r == asked.request
           s == r.step_receipt_digests
           root == ResolveTrajectoryRoot(r)
           base == [reward |-> r.reward, trajectory_root |-> root]
           carried == StepsCarried(r)
<1>1. r \in RewardRequests /\ sealed = SignReward(r)
  BY Untouched DEF Requests, SignReceipt
<1>2. SignReward(r) = SignListed(base, carried, root)
  BY Zenon DEF SignReward
<1>3. /\ Wire(sealed.carried) = carried /\ s \in Seq(Text) /\ Sorted(s) \in Seq(Text)
      /\ "steps" \in DOMAIN carried => carried.steps = Sorted(s) /\ root = MerkleRoot(Sorted(s))
  BY <1>1, StepsAre
<1>4. /\ sealed.base = base
      /\ sealed.payload_digest = <<base, root>>
      /\ sealed.envelope_signature = <<base, root>>
  <2> HIDE DEF base, carried, root
  <2> QED
    BY <1>1, <1>2, SignListedIs
<1>5. /\ held.base = base /\ held.carried = carried /\ held.payload_digest = <<base, root>>
      /\ held.envelope_signature = <<base, root>>
  <2> HIDE DEF base, carried, root
  <2> QED
    BY <1>3, <1>4, Untouched
<1>6. base.trajectory_root = root
  <2> HIDE DEF root
  <2> QED
    OBVIOUS
<1>7. Sorted(Sorted(s)) = Sorted(s)
  <2>1. ToBag(Sorted(s)) = ToBag(s)
    BY <1>3, SortedKeeps
  <2> QED
    BY <1>3, <2>1, SortedOfBag
<1> HIDE DEF base, carried, root
<1> QED
  BY <1>3, <1>5, <1>6, <1>7 DEF VerifyReward, SealHolds, CarriesSteps

\* A receipt nobody touched verifies, but for fields that were left out and handles
\* made to look like a manifest's own.
THEOREM TravelledReceipts == ReceiptsSpec => []ReceiptsSurviveTheWire
<1>1. ReceiptsHolds => ReceiptsSurviveTheWire
  <2> SUFFICES ASSUME ReceiptsHolds, held # <<>>, edits = 0
               PROVE  VerifyReceipt(asked.product, held)
                         <=> Verifiable(asked.product, asked.request)
    BY DEF ReceiptsSurviveTheWire
  <2> DEFINE product == asked.product
  <2>1. CASE product = "bill"
    BY <2>1, BillsTravel DEF VerifyReceipt, Verifiable
  <2>2. CASE product = "bond"
    BY <2>2, BondsTravel DEF VerifyReceipt, Verifiable
  <2>3. CASE product = "measurement"
    BY <2>3, MeasurementsTravel DEF VerifyReceipt, Verifiable
  <2>4. CASE product = "manifest"
    BY <2>4, ManifestsTravel DEF VerifyReceipt, Verifiable
  <2>5. CASE product = "cachesign"
    BY <2>5, CacheEntriesTravel DEF VerifyReceipt, Verifiable
  <2>6. CASE product = "gca"
    BY <2>6, GcasTravel DEF VerifyReceipt, Verifiable
  <2>7. CASE product = "reward"
    BY <2>7, RewardsTravel DEF VerifyReceipt, Verifiable
  <2>8. product \in Product
    BY DEF ReceiptsHolds
  <2> QED
    BY <2>1, <2>2, <2>3, <2>4, <2>5, <2>6, <2>7, <2>8 DEF Product
<1> QED
  BY <1>1, ReceiptsInvariant, PTL

--------------------------------------------------------------------------------
(* Monitors.                                                                   *)

\* What was sealed is what the receipt says, and a flag was raised over the signals
\* asked for; with a lineage, over the score of what was sealed.
FlagSignals ==
    IF flagAsked.with_lineage
    THEN WithFlicker(IF flagAsked.place = "signals" THEN flagAsked.given ELSE <<>>,
                     ComputeLineage(sealedOf.steps, sealedOf.expected).identity_flicker_bp)
    ELSE flagAsked.given

MonitorsInv ==
    /\ session \in Seq(Served)
    /\ lineage # <<>> =>
          /\ session # <<>>
          /\ sealedOf.steps \in Seq(Served) /\ sealedOf.steps # <<>>
          /\ lineage = SignMir(sealedOf.steps, sealedOf.expected)
    /\ flag # <<>> =>
          /\ lineage # <<>>
          /\ flagAsked.trigger_bp \in Int \cup {Undefined}
          /\ \A g \in DOMAIN flagAsked.given : flagAsked.given[g] \in Int
          /\ flag = SignGitm(FlagSignals, flagAsked.trigger_bp)

--------------------------------------------------------------------------------

LEMMA SignMirIs ==
    ASSUME NEW steps, NEW expected
    PROVE  LET env == SignMir(steps, expected)
               found == ComputeLineage(steps, expected)
           IN  /\ env.lineage = found
               /\ env.base.identity_root = found.identity_root
               /\ env.base.identity_flicker_bp = found.identity_flicker_bp
               /\ env.base.stable = found.stable
               /\ env.base.lineage_digest = found
               /\ env.payload_digest = <<env.base, env.base.lineage_digest>>
               /\ env.envelope_signature = <<env.base, env.base.lineage_digest>>
BY DEF SignMir, Seal, Canonicalize

\* The steps that differ from the one before.
Changes(steps) == {j \in 2 .. Len(steps) : ChangedFields(steps[j - 1], steps[j]) # {}}

LEMMA ComputeLineageIs ==
    ASSUME NEW steps, NEW expected, NEW found, found = ComputeLineage(steps, expected)
    PROVE  /\ found.per_step_roots = [i \in DOMAIN steps |-> StepRoot(steps[i])]
           /\ found.identity_root = MerkleRoot(found.per_step_roots)
           /\ DOMAIN found.relineage = Changes(steps)
           /\ found.mismatched_steps = Mismatched(steps, expected)
           /\ found.identity_flicker_bp = Flicker(found.relineage, found.mismatched_steps)
           /\ found.stable <=> Changes(steps) = {} /\ found.mismatched_steps = {}
BY DEF ComputeLineage, Changes

LEMMA FirstOfPair ==
    ASSUME NEW a, NEW b, NEW c, NEW d, <<a, b>> = <<c, d>>
    PROVE  a = c
OBVIOUS

\* Nothing a receipt is handed with is believed but what was signed.
LEMMA HandedLineage ==
    ASSUME NEW steps, NEW expected, lineage = SignMir(steps, expected),
           NEW env \in LineagesHanded, LineageHolds(env)
    PROVE  env.base = lineage.base
<1> DEFINE Scored(bp) == [lineage EXCEPT !.base.identity_flicker_bp = bp,
                                         !.lineage.identity_flicker_bp = bp]
           Without(i) == [lineage EXCEPT !.lineage.relineage = [j \in DOMAIN @ \ {i} |-> @[j]],
                                         !.lineage.identity_flicker_bp = 0,
                                         !.base.identity_flicker_bp = 0]
<1>1. env = lineage \/ (\E bp : env = Scored(bp)) \/ (\E i : env = Without(i))
  <2>1. LineagesHanded = {lineage} \cup {Scored(bp) : bp \in {0, 2000, 2500}}
                         \cup {Without(i) : i \in DOMAIN lineage.lineage.relineage}
    BY DEF LineagesHanded
  <2> HIDE DEF Scored, Without
  <2> QED
    BY <2>1
<1>2. env.payload_digest = lineage.payload_digest
  <2>1. \A bp : Scored(bp).payload_digest = lineage.payload_digest
    OBVIOUS
  <2>2. \A i : Without(i).payload_digest = lineage.payload_digest
    OBVIOUS
  <2> HIDE DEF Scored, Without
  <2> QED
    BY <1>1, <2>1, <2>2
<1>3. env.payload_digest = <<env.base, env.base.lineage_digest>>
  BY DEF LineageHolds, SealHolds
<1>4. lineage.payload_digest = <<lineage.base, lineage.base.lineage_digest>>
  <2> DEFINE found == ComputeLineage(steps, expected)
             base == [expected_model |-> expected, identity_root |-> found.identity_root,
                      identity_flicker_bp |-> found.identity_flicker_bp,
                      stable |-> found.stable, lineage_digest |-> Canonicalize(found)]
             fields == [base |-> base, lineage |-> found]
  <2>1. lineage = Seal(fields, base, base.lineage_digest)
    BY Zenon DEF SignMir
  <2>2. DOMAIN fields = {"base", "lineage"} /\ fields.base = base
    OBVIOUS
  <2> HIDE DEF base, fields
  <2>3. /\ Seal(fields, base, base.lineage_digest).base = base
        /\ Seal(fields, base, base.lineage_digest).payload_digest = <<base, base.lineage_digest>>
    BY <2>2 DEF Seal
  <2>4. lineage.payload_digest = <<base, base.lineage_digest>> /\ lineage.base = base
    BY <2>1, <2>3, Zenon
  <2> QED
    BY <2>4
<1> HIDE DEF Scored, Without
<1>5. <<env.base, env.base.lineage_digest>> = <<lineage.base, lineage.base.lineage_digest>>
  BY <1>2, <1>3, <1>4, Zenon
<1> QED
  BY <1>5, FirstOfPair, Zenon

LEMMA MonitorsInvInit == MonitorsInit => MonitorsInv
BY DEF MonitorsInit, MonitorsInv

LEMMA SealLineageKeeps == MonitorsInv /\ SealLineage => MonitorsInv'
<1> SUFFICES ASSUME MonitorsInv, SealLineage PROVE MonitorsInv'
  OBVIOUS
<1>1. PICK steps \in {session} \cup {RemoveAt(session, i) : i \in DOMAIN session},
           expected \in ExpectedAsked :
           /\ steps # <<>>
           /\ sealedOf' = [steps |-> steps, expected |-> expected]
           /\ lineage' = SignMir(steps, expected)
  BY DEF SealLineage
<1>2. session' = session /\ flag' = flag /\ flagAsked' = flagAsked /\ lineage = <<>>
  BY DEF SealLineage
<1>3. session \in Seq(Served) /\ flag = <<>>
  BY <1>2 DEF MonitorsInv
<1>4. \A i \in DOMAIN session : RemoveAt(session, i) \in Seq(Served)
  <2>1. ASSUME NEW i \in DOMAIN session PROVE RemoveAt(session, i) \in Seq(Served)
    <3>1. i \in 1 .. Len(session) /\ Len(session) \in Nat
      BY <1>3
    <3>2. SubSeq(session, 1, i - 1) \in Seq(Served)
      BY <1>3, <3>1
    <3>3. SubSeq(session, i + 1, Len(session)) \in Seq(Served)
      BY <1>3, <3>1
    <3> QED
      BY <3>2, <3>3 DEF RemoveAt
  <2> QED
    BY <2>1
<1>5. steps \in Seq(Served) /\ session # <<>>
  <2>1. session = <<>> => DOMAIN session = {}
    OBVIOUS
  <2> QED
    BY <1>1, <1>3, <1>4, <2>1
<1>6. sealedOf'.steps = steps /\ sealedOf'.expected = expected
  BY <1>1
<1> QED
  BY <1>1, <1>2, <1>3, <1>5, <1>6 DEF MonitorsInv

LEMMA CrossCheckLineageKeeps == MonitorsInv /\ CrossCheckLineage => MonitorsInv'
<1> SUFFICES ASSUME MonitorsInv, CrossCheckLineage PROVE MonitorsInv'
  OBVIOUS
<1>1. PICK f \in FlagAsked, env \in LineagesHanded :
          /\ VerifyMir(env, <<>>)
          /\ flagAsked' = [given |-> f.given, place |-> f.place,
                           trigger_bp |-> f.trigger_bp, with_lineage |-> TRUE]
          /\ flag' = SignGitm(
                WithFlicker(IF f.place = "signals" THEN f.given ELSE <<>>,
                            env.base.identity_flicker_bp), f.trigger_bp)
  BY DEF CrossCheckLineage
<1>2. session' = session /\ lineage' = lineage /\ sealedOf' = sealedOf /\ lineage # <<>>
  BY DEF CrossCheckLineage
<1>3. lineage = SignMir(sealedOf.steps, sealedOf.expected)
  BY <1>2 DEF MonitorsInv
<1>4. env.base = lineage.base
  BY <1>1, <1>3, HandedLineage DEF VerifyMir
<1>5. env.base.identity_flicker_bp
          = ComputeLineage(sealedOf.steps, sealedOf.expected).identity_flicker_bp
  BY <1>3, <1>4, SignMirIs
<1>6. /\ flagAsked'.given = f.given /\ flagAsked'.place = f.place
      /\ flagAsked'.trigger_bp = f.trigger_bp /\ flagAsked'.with_lineage
  BY <1>1
<1>7. flag' = SignGitm(FlagSignals', flagAsked'.trigger_bp)
  BY <1>1, <1>2, <1>5, <1>6 DEF FlagSignals
<1>8. f.trigger_bp \in Int \cup {Undefined} /\ \A g \in DOMAIN f.given : f.given[g] \in Int
  BY MonitorsAssumption
<1> QED
  BY <1>2, <1>6, <1>7, <1>8 DEF MonitorsInv

LEMMA CrossCheckKeeps == MonitorsInv /\ CrossCheck => MonitorsInv'
<1> SUFFICES ASSUME MonitorsInv, CrossCheck PROVE MonitorsInv'
  OBVIOUS
<1>1. PICK f \in FlagAsked :
          /\ flagAsked' = [given |-> f.given, place |-> f.place,
                           trigger_bp |-> f.trigger_bp, with_lineage |-> FALSE]
          /\ flag' = SignGitm(f.given, f.trigger_bp)
  BY DEF CrossCheck
<1>2. session' = session /\ lineage' = lineage /\ sealedOf' = sealedOf /\ lineage # <<>>
  BY DEF CrossCheck
<1>3. /\ flagAsked'.given = f.given /\ flagAsked'.trigger_bp = f.trigger_bp
      /\ flagAsked'.with_lineage = FALSE
  BY <1>1
<1>4. flag' = SignGitm(FlagSignals', flagAsked'.trigger_bp)
  BY <1>1, <1>3 DEF FlagSignals
<1>5. f.trigger_bp \in Int \cup {Undefined} /\ \A g \in DOMAIN f.given : f.given[g] \in Int
  BY MonitorsAssumption
<1> QED
  BY <1>2, <1>3, <1>4, <1>5 DEF MonitorsInv

LEMMA MonitorsInvNext == MonitorsInv /\ [MonitorsNext]_monitorsVars => MonitorsInv'
<1>1. MonitorsInv /\ ServeStep => MonitorsInv'
  <2> SUFFICES ASSUME MonitorsInv, ServeStep PROVE MonitorsInv'
    OBVIOUS
  <2>1. PICK step \in Served : session' = Append(session, step)
    BY DEF ServeStep
  <2>2. /\ lineage = <<>> /\ lineage' = lineage /\ flag' = flag
    BY DEF ServeStep
  <2>3. flag = <<>> /\ session \in Seq(Served)
    BY <2>2 DEF MonitorsInv
  <2>4. session' \in Seq(Served)
    BY <2>1, <2>3
  <2> QED
    BY <2>2, <2>3, <2>4 DEF MonitorsInv
<1>2. MonitorsInv /\ UNCHANGED monitorsVars => MonitorsInv'
  BY DEF MonitorsInv, monitorsVars, FlagSignals
<1> QED
  BY <1>1, <1>2, SealLineageKeeps, CrossCheckLineageKeeps, CrossCheckKeeps DEF MonitorsNext

LEMMA MonitorsInvariant == MonitorsSpec => []MonitorsInv
BY MonitorsInvInit, MonitorsInvNext, PTL DEF MonitorsSpec

(* The lineage.                                                                *)

LEMMA ChangedIs ==
    ASSUME NEW a, NEW b
    PROVE  ChangedFields(a, b) = {}
              <=> /\ a.model_id = b.model_id /\ a.weights_sha3 = b.weights_sha3
                  /\ a.config_hash = b.config_hash
BY DEF ChangedFields, IdentityFields

\* No step differs from the one before exactly when all are as the first.
LEMMA NoChangeIs ==
    ASSUME NEW steps \in Seq(Served)
    PROVE  Changes(steps) = {}
              <=> \A i \in DOMAIN steps : ChangedFields(steps[i], steps[1]) = {}
<1>0. DOMAIN steps = 1 .. Len(steps) /\ Len(steps) \in Nat
  OBVIOUS
<1>1. ASSUME Changes(steps) = {}, NEW i \in DOMAIN steps
      PROVE  ChangedFields(steps[i], steps[1]) = {}
  <2> DEFINE S == {n \in Nat : n + 1 \in DOMAIN steps
                                  => ChangedFields(steps[n + 1], steps[1]) = {}}
  <2>1. 0 \in S
    BY ChangedIs
  <2>2. ASSUME NEW n \in Nat, n \in S PROVE n + 1 \in S
    <3> SUFFICES ASSUME n + 1 + 1 \in DOMAIN steps
                 PROVE  ChangedFields(steps[n + 1 + 1], steps[1]) = {}
      OBVIOUS
    <3>1. n + 1 \in DOMAIN steps /\ n + 1 + 1 \in 2 .. Len(steps) /\ (n + 1 + 1) - 1 = n + 1
      BY <1>0
    <3>2. ChangedFields(steps[n + 1], steps[1]) = {}
      BY <3>1, <2>2
    <3>3. ChangedFields(steps[n + 1], steps[n + 1 + 1]) = {}
      BY <3>1, <1>1 DEF Changes
    <3> QED
      BY <3>2, <3>3, ChangedIs
  <2>3. Nat \subseteq S
    <3> HIDE DEF S
    <3> QED
      BY <2>1, <2>2, Induct
  <2>4. i - 1 \in Nat /\ (i - 1) + 1 = i
    BY <1>0
  <2> QED
    BY <2>3, <2>4
<1>2. ASSUME \A i \in DOMAIN steps : ChangedFields(steps[i], steps[1]) = {},
             NEW j \in 2 .. Len(steps)
      PROVE  ChangedFields(steps[j - 1], steps[j]) = {}
  <2>1. j \in DOMAIN steps /\ j - 1 \in DOMAIN steps
    BY <1>0
  <2>2. ChangedFields(steps[j], steps[1]) = {} /\ ChangedFields(steps[j - 1], steps[1]) = {}
    BY <2>1, <1>2
  <2> QED
    BY <2>2, ChangedIs
<1> QED
  BY <1>1, <1>2 DEF Changes

\* A score above 0.
IsScore(x) == x \in Int /\ 2000 <= x /\ x <= 10000

LEMMA ClampIs ==
    ASSUME NEW x \in Int
    PROVE  /\ Clamp(x) \in Int
           /\ x = 0 => Clamp(x) = 0
           /\ x >= 2000 => IsScore(Clamp(x))
BY DEF Clamp, IsScore

\* The score is 0 or at least 2000; it is 0 when nothing is found.
LEMMA FlickerIs ==
    ASSUME NEW steps \in Seq(Served), NEW expected,
           NEW found, found = ComputeLineage(steps, expected)
    PROVE  /\ Changes(steps) = {} /\ Mismatched(steps, expected) = {}
                 => found.identity_flicker_bp = 0
           /\ Changes(steps) # {} \/ Mismatched(steps, expected) # {}
                 => IsScore(found.identity_flicker_bp)
<1> DEFINE D == Changes(steps)
           W == {i \in DOMAIN found.relineage : "weights_sha3" \in found.relineage[i]}
           M == Mismatched(steps, expected)
<1>1. DOMAIN found.relineage = D
  BY ComputeLineageIs
<1>2. found.mismatched_steps = M /\ found.identity_flicker_bp
          = Flicker(found.relineage, found.mismatched_steps)
  BY ComputeLineageIs
<1>3. IsFiniteSet(D) /\ IsFiniteSet(M) /\ IsFiniteSet(W)
  <2>1. Len(steps) \in Nat /\ DOMAIN steps = 1 .. Len(steps)
    OBVIOUS
  <2>2. IsFiniteSet(1 .. Len(steps))
    BY <2>1, FS_Interval
  <2>3. D \in SUBSET (1 .. Len(steps)) /\ M \in SUBSET (1 .. Len(steps))
    BY <2>1 DEF Changes, Mismatched
  <2>4. W \in SUBSET D
    BY <1>1
  <2>5. IsFiniteSet(D) /\ IsFiniteSet(M)
    BY <2>2, <2>3, FS_Subset
  <2> QED
    BY <2>4, <2>5, FS_Subset
<1>4. /\ Cardinality(D) \in Nat /\ (Cardinality(D) = 0 <=> D = {})
      /\ Cardinality(M) \in Nat /\ (Cardinality(M) = 0 <=> M = {})
      /\ Cardinality(W) \in Nat /\ (Cardinality(W) = 0 <=> W = {})
  BY <1>3, FS_EmptySet, FS_CardinalityType
<1>5. found.identity_flicker_bp
          = Clamp(2500 * Cardinality(D) + 1500 * Cardinality(W) + 2000 * Cardinality(M))
  BY <1>1, <1>2 DEF Flicker
<1>6. D = {} => W = {}
  BY <1>1
<1> HIDE DEF D, W, M
<1>7. D = {} /\ M = {} => found.identity_flicker_bp = 0
  <2> SUFFICES ASSUME D = {}, M = {} PROVE found.identity_flicker_bp = 0
    OBVIOUS
  <2>1. Cardinality(D) = 0 /\ Cardinality(W) = 0 /\ Cardinality(M) = 0
    BY <1>4, <1>6
  <2> QED
    BY <2>1, <1>5 DEF Clamp
<1>8. D # {} \/ M # {} => IsScore(found.identity_flicker_bp)
  <2> DEFINE d == Cardinality(D)
             w == Cardinality(W)
             m == Cardinality(M)
  <2> SUFFICES ASSUME D # {} \/ M # {} PROVE IsScore(found.identity_flicker_bp)
    OBVIOUS
  <2>1. d \in Nat /\ w \in Nat /\ m \in Nat /\ (d >= 1 \/ m >= 1)
    BY <1>4
  <2> HIDE DEF d, w, m
  <2>2. 2500 * d + 1500 * w + 2000 * m \in Int /\ 2500 * d + 1500 * w + 2000 * m >= 2000
    BY <2>1
  <2> DEFINE sum == 2500 * d + 1500 * w + 2000 * m
  <2> HIDE DEF sum
  <2>3. IsScore(Clamp(sum))
    BY <2>2, ClampIs DEF sum
  <2> QED
    BY <2>3, <1>5 DEF sum, d, w, m
<1> QED
  BY <1>7, <1>8, Zenon DEF D, M

(* The flag.                                                                   *)

LEMMA SignGitmIs ==
    ASSUME NEW given, NEW trigger, NEW env, env = SignGitm(given, trigger)
    PROVE  /\ env.decision = ComputeGitm(NormalizeSignals(given), TriggerBp(trigger))
           /\ env.base = [triggered |-> env.decision.triggered,
                          severity_bp |-> env.decision.severity_bp,
                          decision_digest |-> env.decision]
           /\ env.payload_digest = <<env.base, env.decision>>
           /\ env.envelope_signature = <<env.base, env.decision>>
<1> DEFINE decision == ComputeGitm(NormalizeSignals(given), TriggerBp(trigger))
           base == [triggered |-> decision.triggered, severity_bp |-> decision.severity_bp,
                    decision_digest |-> Canonicalize(decision)]
           fields == [base |-> base, decision |-> decision]
<1>1. env = Seal(fields, base, base.decision_digest)
  BY Zenon DEF SignGitm
<1> HIDE DEF decision
<1>2. /\ DOMAIN fields = {"base", "decision"} /\ fields.base = base
      /\ fields.decision = decision /\ base.decision_digest = decision
  BY DEF Canonicalize
<1>3. base = [triggered |-> decision.triggered, severity_bp |-> decision.severity_bp,
              decision_digest |-> decision]
  BY DEF Canonicalize
<1> HIDE DEF base, fields
<1>4. LET e == Seal(fields, base, base.decision_digest)
      IN  /\ e.base = base /\ e.decision = decision
          /\ e.payload_digest = <<base, decision>>
          /\ e.envelope_signature = <<base, decision>>
  BY <1>2 DEF Seal
<1>5. /\ env.base = base /\ env.decision = decision
      /\ env.payload_digest = <<base, decision>>
      /\ env.envelope_signature = <<base, decision>>
  BY <1>1, <1>4, Zenon
<1> QED
  BY <1>3, <1>5, Zenon DEF decision

FlagSeals(env) ==
    /\ env.base = [triggered |-> env.decision.triggered,
                   severity_bp |-> env.decision.severity_bp,
                   decision_digest |-> env.decision]
    /\ env.payload_digest = <<env.base, env.decision>>
    /\ env.envelope_signature = <<env.base, env.decision>>

LEMMA SealedFlag == \A given, trigger : FlagSeals(SignGitm(given, trigger))
BY SignGitmIs DEF FlagSeals

LEMMA DecisionIs ==
    \A given, trigger : SignGitm(given, trigger).decision
                           = ComputeGitm(NormalizeSignals(given), TriggerBp(trigger))
BY SignGitmIs

LEMMA ComputeGitmIs ==
    ASSUME NEW signals, NEW trigger, NEW decision, decision = ComputeGitm(signals, trigger)
    PROVE  /\ decision.signals = signals /\ decision.trigger_bp = trigger
           /\ decision.glitch_types = Active(signals, trigger)
           /\ Active(signals, trigger) # {} => decision.reruns >= 3
<1>1. /\ decision.signals = signals /\ decision.trigger_bp = trigger
      /\ decision.glitch_types = Active(signals, trigger)
      /\ Active(signals, trigger) # {}
            => decision.reruns = RecommendedReruns(Severity(signals, Active(signals, trigger)))
  BY DEF ComputeGitm
<1>2. \A severity : RecommendedReruns(severity) \in {3, 4, 5}
  BY DEF RecommendedReruns
<1> QED
  BY <1>1, <1>2

LEMMA ActiveIs ==
    ASSUME NEW given, NEW trigger, NEW g \in GlitchTypes \cap DOMAIN given
    PROVE  g \in Active(NormalizeSignals(given), trigger) <=> Clamp(given[g]) >= trigger
BY DEF Active, NormalizeSignals

--------------------------------------------------------------------------------

LEMMA MonitorsSwap == MonitorsInv => SwapRaisesTheFlag
<1> SUFFICES ASSUME MonitorsInv, flag # <<>>, flagAsked.with_lineage
             PROVE  SwapRaisesTheFlag
  BY DEF SwapRaisesTheFlag
<1> DEFINE steps == sealedOf.steps
           expected == sealedOf.expected
           found == ComputeLineage(steps, expected)
           trigger == TriggerBp(flagAsked.trigger_bp)
           swapped == \/ \E i, j \in DOMAIN steps : ChangedFields(steps[i], steps[j]) # {}
                      \/ expected # Undefined
                         /\ \E i \in DOMAIN steps : steps[i].model_id # expected
           others == IF flagAsked.place = "signals" THEN flagAsked.given ELSE <<>>
           signals == NormalizeSignals(FlagSignals)
<1>1. /\ lineage # <<>> /\ steps \in Seq(Served) /\ steps # <<>>
      /\ flagAsked.trigger_bp \in Int \cup {Undefined}
      /\ flag = SignGitm(FlagSignals, flagAsked.trigger_bp)
  BY DEF MonitorsInv
<1>2. trigger \in Int
  BY <1>1 DEF TriggerBp
<1>3. flag.decision = ComputeGitm(signals, trigger)
  <2>1. flag = SignGitm(FlagSignals, flagAsked.trigger_bp)
    BY <1>1
  <2> QED
    BY <2>1, DecisionIs, Zenon
<1>4. /\ flag.decision.glitch_types = Active(signals, trigger)
      /\ Active(signals, trigger) # {} => flag.decision.reruns >= 3
  BY <1>3, ComputeGitmIs
<1>5. FlagSignals = WithFlicker(others, found.identity_flicker_bp)
  BY DEF FlagSignals
<1>6. "identity_flicker" \in Active(signals, trigger)
          <=> Clamp(found.identity_flicker_bp) >= trigger
  <2>1. /\ "identity_flicker" \in GlitchTypes \cap DOMAIN FlagSignals
        /\ FlagSignals["identity_flicker"] = found.identity_flicker_bp
    BY <1>5 DEF WithFlicker, GlitchTypes
  <2> QED
    BY <2>1, ActiveIs
<1>7. swapped <=> Changes(steps) # {} \/ Mismatched(steps, expected) # {}
  <2>1. (\E i, j \in DOMAIN steps : ChangedFields(steps[i], steps[j]) # {})
           <=> Changes(steps) # {}
    <3>1. 1 \in DOMAIN steps
      BY <1>1
    <3>2. Changes(steps) = {}
             <=> \A i \in DOMAIN steps : ChangedFields(steps[i], steps[1]) = {}
      BY <1>1, NoChangeIs
    <3>3. \A i, j \in DOMAIN steps :
             ChangedFields(steps[i], steps[1]) = {} /\ ChangedFields(steps[j], steps[1]) = {}
                => ChangedFields(steps[i], steps[j]) = {}
      BY ChangedIs
    <3> HIDE DEF steps
    <3> QED
      BY <3>1, <3>2, <3>3, Zenon
  <2>2. (expected # Undefined /\ \E i \in DOMAIN steps : steps[i].model_id # expected)
           <=> Mismatched(steps, expected) # {}
    BY DEF Mismatched
  <2> QED
    BY <2>1, <2>2
<1> HIDE DEF steps, expected, found, trigger, swapped, others, signals
<1>8. /\ ~ swapped => found.identity_flicker_bp = 0
      /\ swapped => IsScore(found.identity_flicker_bp)
  BY <1>1, <1>7, FlickerIs, Zenon DEF found
<1> DEFINE score == Clamp(found.identity_flicker_bp)
<1>9. (~ swapped => score = 0) /\ (swapped => IsScore(score))
  <2>1. 0 \in Int /\ (IsScore(found.identity_flicker_bp) => found.identity_flicker_bp \in Int
                        /\ found.identity_flicker_bp >= 2000)
    BY DEF IsScore
  <2> QED
    BY <2>1, <1>8, ClampIs
<1> HIDE DEF score
<1>10. ASSUME swapped, trigger <= 2000
       PROVE  "identity_flicker" \in flag.decision.glitch_types /\ flag.decision.reruns >= 3
  <2>1. score >= trigger
    BY <1>2, <1>9, <1>10 DEF IsScore
  <2> QED
    BY <1>4, <1>6, <2>1 DEF score
<1>11. ASSUME ~ swapped, trigger > 0
       PROVE  "identity_flicker" \notin flag.decision.glitch_types
  <2>1. ~ (score >= trigger)
    BY <1>2, <1>9, <1>11
  <2> QED
    BY <1>4, <1>6, <2>1 DEF score
<1> QED
  <2>1. swapped /\ trigger <= 2000 =>
           "identity_flicker" \in flag.decision.glitch_types /\ flag.decision.reruns >= 3
    BY <1>10
  <2>2. ~ swapped /\ trigger > 0 => "identity_flicker" \notin flag.decision.glitch_types
    BY <1>11
  <2> QED
    BY <2>1, <2>2 DEF SwapRaisesTheFlag, steps, expected, trigger, swapped

\* A model that was swapped in is not hidden from a cross-check of the lineage: at
\* the default trigger and below, the flag names the flicker and asks for reruns; one
\* stable model never raises it (mir.js:14, computeLineage and computeGitm).
THEOREM SwapIsFlagged == MonitorsSpec => []SwapRaisesTheFlag
BY MonitorsInvariant, MonitorsSwap, PTL

--------------------------------------------------------------------------------

LEMMA StepRootTells ==
    ASSUME NEW a \in Served, NEW b \in Served, StepRoot(a) = StepRoot(b)
    PROVE  a = b
<1> DEFINE list(s) == <<s.model_id, s.weights_sha3, s.config_hash, s.endpoint>>
           X == {a.model_id, a.weights_sha3, a.config_hash, a.endpoint,
                 b.model_id, b.weights_sha3, b.config_hash, b.endpoint}
<1>1. list(a) \in Seq(X) /\ list(b) \in Seq(X) /\ Len(list(a)) = Len(list(b))
  OBVIOUS
<1>2. MerkleRoot(list(a)) = MerkleRoot(list(b))
  BY DEF StepRoot
<1>3. list(a) = list(b)
  <2> HIDE DEF list, X
  <2> QED
    BY <1>1, <1>2, MerkleRootTells
<1>4. /\ a.model_id = b.model_id /\ a.weights_sha3 = b.weights_sha3
      /\ a.config_hash = b.config_hash /\ a.endpoint = b.endpoint
  BY <1>3
<1> QED
  BY <1>4, MonitorsAssumption

\* What was sealed verifies.
LEMMA SealedLineageHolds ==
    ASSUME NEW steps \in Seq(Served), steps # <<>>, NEW expected,
           NEW env, env = SignMir(steps, expected)
    PROVE  LineageHolds(env)
<1> DEFINE found == ComputeLineage(steps, expected)
<1>1. /\ env.lineage = found
      /\ env.base.identity_root = found.identity_root
      /\ env.base.identity_flicker_bp = found.identity_flicker_bp
      /\ env.base.stable = found.stable
      /\ env.base.lineage_digest = found
      /\ env.payload_digest = <<env.base, env.base.lineage_digest>>
      /\ env.envelope_signature = <<env.base, env.base.lineage_digest>>
  BY SignMirIs, Zenon
<1>2. /\ found.per_step_roots = [i \in DOMAIN steps |-> StepRoot(steps[i])]
      /\ found.identity_root = MerkleRoot(found.per_step_roots)
      /\ found.identity_flicker_bp = Flicker(found.relineage, found.mismatched_steps)
      /\ found.stable = (DOMAIN found.relineage = {} /\ found.mismatched_steps = {})
  BY DEF ComputeLineage
<1>3. found.per_step_roots # <<>>
  <2>1. 1 \in DOMAIN steps
    OBVIOUS
  <2> HIDE DEF found
  <2>2. 1 \in DOMAIN found.per_step_roots
    BY <2>1, <1>2
  <2> QED
    BY <2>2
<1> HIDE DEF found
<1> QED
  BY <1>1, <1>2, <1>3 DEF LineageHolds, SealHolds, Canonicalize

LEMMA MonitorsFindings == MonitorsInv => FindingsAreOfTheSession
<1> SUFFICES ASSUME MonitorsInv PROVE FindingsAreOfTheSession
  OBVIOUS
<1>1. ASSUME lineage # <<>>
      PROVE  VerifyMir(lineage, session) <=> sealedOf.steps = session
  <2> DEFINE steps == sealedOf.steps
             roots(s) == [i \in DOMAIN s |-> StepRoot(s[i])]
  <2>1. /\ session # <<>> /\ session \in Seq(Served)
        /\ steps \in Seq(Served) /\ steps # <<>>
        /\ lineage = SignMir(steps, sealedOf.expected)
    BY <1>1 DEF MonitorsInv
  <2>2. LineageHolds(lineage)
    BY <2>1, SealedLineageHolds
  <2>3. lineage.lineage = ComputeLineage(steps, sealedOf.expected)
    BY <2>1, SignMirIs
  <2>4. lineage.lineage.per_step_roots = roots(steps)
    BY <2>3, ComputeLineageIs
  <2>5. VerifyMir(lineage, session) <=> roots(steps) = roots(session)
    BY <2>1, <2>2, <2>4 DEF VerifyMir
  <2>6. ASSUME roots(steps) = roots(session) PROVE steps = session
    <3>1. DOMAIN steps = DOMAIN session
      BY <2>6
    <3>2. Len(steps) = Len(session)
      BY <2>1, <3>1
    <3>3. ASSUME NEW i \in 1 .. Len(steps) PROVE steps[i] = session[i]
      <4>1. i \in DOMAIN steps /\ i \in DOMAIN session
        BY <2>1, <3>1
      <4>2. roots(steps)[i] = roots(session)[i]
        BY <2>6
      <4>3. StepRoot(steps[i]) = StepRoot(session[i])
        BY <4>1, <4>2
      <4>4. steps[i] \in Served /\ session[i] \in Served
        BY <2>1, <4>1
      <4> QED
        BY <4>3, <4>4, StepRootTells
    <3> HIDE DEF steps
    <3> QED
      BY <2>1, <3>2, <3>3, SameEntries
  <2> QED
    BY <2>5, <2>6
<1>2. ASSUME lineage # <<>>, sealedOf.steps = session
      PROVE  lineage.lineage.stable
                <=> /\ \A i \in DOMAIN session : ChangedFields(session[i], session[1]) = {}
                    /\ sealedOf.expected \in {Undefined, session[1].model_id}
  <2> DEFINE expected == sealedOf.expected
  <2>1. /\ session # <<>> /\ session \in Seq(Served)
        /\ lineage = SignMir(session, expected)
    BY <1>2 DEF MonitorsInv
  <2> HIDE DEF expected
  <2>2. lineage.lineage = ComputeLineage(session, expected)
    BY <2>1, SignMirIs
  <2>3. lineage.lineage.stable
           <=> Changes(session) = {} /\ Mismatched(session, expected) = {}
    <3>1. lineage.lineage.mismatched_steps = Mismatched(session, expected)
      BY <2>2, ComputeLineageIs
    <3>2. \A found : found = ComputeLineage(session, expected) =>
             (found.stable <=> Changes(session) = {} /\ found.mismatched_steps = {})
      BY ComputeLineageIs, ZenonT(30)
    <3>3. ComputeLineage(session, expected).mismatched_steps = Mismatched(session, expected)
      BY <2>2, <3>1
    <3>4. ComputeLineage(session, expected).stable
             <=> Changes(session) = {} /\ Mismatched(session, expected) = {}
      BY ONLY <3>2, <3>3, Zenon
    <3> QED
      BY ONLY <2>2, <3>4
  <2>4. Changes(session) = {}
           <=> \A i \in DOMAIN session : ChangedFields(session[i], session[1]) = {}
    BY <2>1, NoChangeIs
  <2>5. Mismatched(session, expected) = {}
           <=> expected = Undefined
               \/ \A i \in DOMAIN session : session[i].model_id = expected
    BY DEF Mismatched
  <2>6. 1 \in DOMAIN session
    BY <2>1
  <2>7. ASSUME \A i \in DOMAIN session : ChangedFields(session[i], session[1]) = {}
        PROVE  (expected = Undefined \/ \A i \in DOMAIN session : session[i].model_id = expected)
                  <=> expected \in {Undefined, session[1].model_id}
    BY <2>6, <2>7, ChangedIs
  <2> QED
    BY <2>3, <2>4, <2>5, <2>7, Zenon DEF expected
<1>3. ASSUME flag # <<>>
      PROVE  VerifyGitm(flag)
  <2>1. flag = SignGitm(FlagSignals, flagAsked.trigger_bp)
    BY <1>3 DEF MonitorsInv
  <2>2. flag.decision = ComputeGitm(NormalizeSignals(FlagSignals), TriggerBp(flagAsked.trigger_bp))
    BY <2>1, DecisionIs, Zenon
  <2>3. /\ flag.decision.signals = NormalizeSignals(FlagSignals)
        /\ flag.decision.trigger_bp = TriggerBp(flagAsked.trigger_bp)
    BY <2>2, ComputeGitmIs
  <2>4. flag.decision = ComputeGitm(flag.decision.signals, flag.decision.trigger_bp)
    BY <2>2, <2>3, Zenon
  <2>5. FlagSeals(flag)
    BY <2>1, SealedFlag, Zenon
  <2>6. /\ flag.base = [triggered |-> flag.decision.triggered,
                        severity_bp |-> flag.decision.severity_bp,
                        decision_digest |-> flag.decision]
        /\ flag.payload_digest = <<flag.base, flag.decision>>
        /\ flag.envelope_signature = <<flag.base, flag.decision>>
    BY <2>5 DEF FlagSeals
  <2>7. /\ flag.base.triggered = flag.decision.triggered
        /\ flag.base.severity_bp = flag.decision.severity_bp
        /\ flag.base.decision_digest = flag.decision
    BY <2>6
  <2> QED
    BY <2>4, <2>6, <2>7 DEF VerifyGitm, SealHolds, Canonicalize
<1>4. ASSUME flag # <<>>,
             NEW g \in (GlitchTypes \cap DOMAIN flagAsked.given) \ {"identity_flicker"},
             ~ flagAsked.with_lineage \/ flagAsked.place = "signals"
      PROVE  g \in flag.decision.glitch_types
                <=> Clamp(flagAsked.given[g]) >= TriggerBp(flagAsked.trigger_bp)
  <2>1. flag = SignGitm(FlagSignals, flagAsked.trigger_bp)
    BY <1>4 DEF MonitorsInv
  <2>2. flag.decision = ComputeGitm(NormalizeSignals(FlagSignals), TriggerBp(flagAsked.trigger_bp))
    BY <2>1, DecisionIs, Zenon
  <2>3. flag.decision.glitch_types
            = Active(NormalizeSignals(FlagSignals), TriggerBp(flagAsked.trigger_bp))
    BY <2>2, ComputeGitmIs, Zenon
  <2>4. g \in GlitchTypes \cap DOMAIN FlagSignals /\ FlagSignals[g] = flagAsked.given[g]
    BY <1>4 DEF FlagSignals, WithFlicker
  <2> QED
    BY <2>3, <2>4, ActiveIs
<1> QED
  BY <1>1, <1>2, <1>3, <1>4 DEF FindingsAreOfTheSession

\* Who compares a lineage with the steps he was served learns whether it is theirs,
\* and what it says of them is so; every flag verifies and names the signals that met
\* the trigger (verifyMir, verifyGitm and POST /sigr/gitm).
THEOREM FindingsHold == MonitorsSpec => []FindingsAreOfTheSession
BY MonitorsInvariant, MonitorsFindings, PTL

--------------------------------------------------------------------------------
(* The panel.                                                                  *)

Keys == Int \X Int \X Int

LEMMA BeforeIs ==
    ASSUME NEW a \in Keys, NEW b \in Keys
    PROVE  Before(a, b) <=> \/ a[1] > b[1]
                            \/ a[1] = b[1] /\ a[2] > b[2]
                            \/ a[1] = b[1] /\ a[2] = b[2] /\ a[3] > b[3]
<1>1. 1 .. 3 = {1, 2, 3} /\ 1 .. 1 - 1 = {} /\ 1 .. 2 - 1 = {1} /\ 1 .. 3 - 1 = {1, 2}
  OBVIOUS
<1>2. Before(a, b) <=> \/ a[1] > b[1] /\ \A j \in 1 .. 1 - 1 : a[j] = b[j]
                       \/ a[2] > b[2] /\ \A j \in 1 .. 2 - 1 : a[j] = b[j]
                       \/ a[3] > b[3] /\ \A j \in 1 .. 3 - 1 : a[j] = b[j]
  BY <1>1 DEF Before
<1> QED
  BY <1>1, <1>2

\* Of finitely many keys that differ one comes first.
LEMMA Foremost ==
    ASSUME NEW S, IsFiniteSet(S), NEW key \in [S -> Keys],
           \A d, e \in S : key[d][3] = key[e][3] => d = e
    PROVE  \A T \in SUBSET S : T # {} =>
              \E d \in T : \A e \in T \ {d} : Before(key[d], key[e])
<1> DEFINE Has(T) == T # {} => \E d \in T : \A e \in T \ {d} : Before(key[d], key[e])
           N == {n \in Nat : \A T \in SUBSET S : Cardinality(T) = n => Has(T)}
<1>0. \A T \in SUBSET S : IsFiniteSet(T) /\ Cardinality(T) \in Nat
  BY FS_Subset, FS_CardinalityType
<1>1. 0 \in N
  BY <1>0, FS_EmptySet
<1>2. ASSUME NEW n \in Nat, n \in N PROVE n + 1 \in N
  <2> SUFFICES ASSUME NEW T \in SUBSET S, Cardinality(T) = n + 1, T # {}
               PROVE  \E d \in T : \A e \in T \ {d} : Before(key[d], key[e])
    OBVIOUS
  <2>1. PICK x \in T : TRUE
    OBVIOUS
  <2> DEFINE R == T \ {x}
  <2>2. R \in SUBSET S /\ Cardinality(R) = n
    <3>1. Cardinality(T \ {x}) = Cardinality(T) - 1
      BY <1>0, <2>1, FS_RemoveElement
    <3> QED
      BY <3>1
  <2>3. CASE R = {}
    <3>1. \A e \in T \ {x} : Before(key[x], key[e])
      BY <2>3
    <3> QED
      BY <2>1, <3>1
  <2>4. CASE R # {}
    <3>1. PICK d \in R : \A e \in R \ {d} : Before(key[d], key[e])
      BY <1>2, <2>2, <2>4
    <3>2. key[x] \in Keys /\ key[d] \in Keys /\ key[x][3] # key[d][3]
      BY <2>1, <3>1
    <3>3. Before(key[x], key[d]) \/ Before(key[d], key[x])
      <4> DEFINE a == key[x]
                 b == key[d]
      <4> HIDE DEF a, b
      <4>1. /\ a \in Keys /\ b \in Keys /\ a[3] # b[3]
            /\ a[1] \in Int /\ a[2] \in Int /\ a[3] \in Int
            /\ b[1] \in Int /\ b[2] \in Int /\ b[3] \in Int
        BY <3>2 DEF a, b, Keys
      <4>2. Before(a, b) \/ Before(b, a)
        BY <4>1, BeforeIs
      <4> QED
        BY <4>2 DEF a, b
    <3>4. CASE Before(key[d], key[x])
      <4>1. \A e \in T \ {d} : Before(key[d], key[e])
        BY <3>1, <3>4
      <4> QED
        BY <4>1
    <3>5. CASE Before(key[x], key[d])
      <4>1. ASSUME NEW e \in T \ {x} PROVE Before(key[x], key[e])
        <5>1. CASE e = d
          BY <3>5, <5>1
        <5>2. CASE e # d
          <6> DEFINE a == key[x]
                     b == key[d]
                     c == key[e]
          <6>1. a \in Keys /\ b \in Keys /\ c \in Keys
            BY <3>2
          <6>2. Before(a, b) /\ Before(b, c)
            BY <3>1, <3>5, <4>1, <5>2
          <6> HIDE DEF a, b, c
          <6>3. /\ a[1] \in Int /\ a[2] \in Int /\ a[3] \in Int
                /\ b[1] \in Int /\ b[2] \in Int /\ b[3] \in Int
                /\ c[1] \in Int /\ c[2] \in Int /\ c[3] \in Int
            BY <6>1 DEF Keys
          <6>4. Before(a, c)
            BY <6>1, <6>2, <6>3, BeforeIs
          <6> QED
            BY <6>4 DEF a, c
        <5> QED
          BY <5>1, <5>2
      <4> QED
        BY <2>1, <4>1
    <3> QED
      BY <3>3, <3>4, <3>5
  <2> QED
    BY <2>3, <2>4
<1>3. Nat \subseteq N
  <2> HIDE DEF N
  <2> QED
    BY <1>1, <1>2, Induct
<1> QED
  BY <1>0, <1>3

Answers(members) == {members[i].output_digest : i \in DOMAIN members}

For(members, d) == {i \in DOMAIN members : members[i].output_digest = d}

\* A list of what members report.
AreMembers(members) ==
    /\ IsList(members)
    /\ \A i \in DOMAIN members : members[i].output_digest \in Nat /\ members[i].score \in Int

LEMMA TallyIs ==
    ASSUME NEW members, AreMembers(members)
    PROVE  /\ DOMAIN Tally(members) = Answers(members)
           /\ IsFiniteSet(Answers(members)) /\ Answers(members) \subseteq Nat
           /\ \A d \in Answers(members) :
                 /\ Tally(members)[d].votes = Cardinality(For(members, d))
                 /\ Tally(members)[d].votes \in Nat /\ Tally(members)[d].weight \in Int
<1> DEFINE X == ToSet(members)
<1>0. members \in Seq(X)
  BY DEF AreMembers, IsList
<1>1. /\ DOMAIN members = 1 .. Len(members) /\ Len(members) \in Nat
      /\ \A i \in DOMAIN members : members[i] \in X
  BY <1>0
<1>2. \A r \in X : r.output_digest \in Nat /\ r.score \in Int
  BY DEF AreMembers, ToSet
<1>3. IsFiniteSet(DOMAIN members)
  BY <1>1, FS_Interval
<1> HIDE DEF X
<1>4. Answers(members) \subseteq Nat
  BY <1>1, <1>2 DEF Answers
<1>5. IsFiniteSet(Answers(members))
  <2> DEFINE f == [i \in DOMAIN members |-> members[i].output_digest]
  <2>1. f \in Surjection(DOMAIN members, Answers(members))
    BY DEF Answers, Surjection
  <2> QED
    BY <1>3, <2>1, FS_Surjection
<1>6. ASSUME NEW d \in Answers(members)
      PROVE  /\ Tally(members)[d].votes = Cardinality(For(members, d))
             /\ Tally(members)[d].votes \in Nat /\ Tally(members)[d].weight \in Int
  <2> DEFINE scores == [i \in DOMAIN members |-> members[i].score]
             P == For(members, d)
  <2>1. P \in SUBSET DOMAIN members
    BY DEF For
  <2>2. /\ Tally(members)[d].votes = Cardinality(P)
        /\ Tally(members)[d].weight = TotalOf(Kept(scores, P))
    BY DEF Tally, For, Answers
  <2>3. Cardinality(P) \in Nat
    BY <1>3, <2>1, FS_Subset, FS_CardinalityType
  <2>4. scores \in Seq(Int) /\ DOMAIN scores = DOMAIN members
    BY <1>1, <1>2
  <2> HIDE DEF scores, P
  <2>5. Kept(scores, P) \in Seq(Int)
    BY <2>1, <2>4, KeptIs
  <2>6. TotalOf(Kept(scores, P)) \in Int
    BY <2>5, TotalOfAppend
  <2> QED
    BY <2>2, <2>3, <2>6 DEF P
<1>7. DOMAIN Tally(members) = Answers(members)
  BY DEF Tally, Answers
<1> QED
  BY <1>4, <1>5, <1>6, <1>7

MostVoted(tally) ==
    CHOOSE d \in DOMAIN tally : \A e \in DOMAIN tally \ {d} :
        Before(<<tally[d].votes, tally[d].weight, - d>>,
               <<tally[e].votes, tally[e].weight, - e>>)

Heaviest(tally) ==
    CHOOSE d \in DOMAIN tally : \A e \in DOMAIN tally \ {d} :
        Before(<<tally[d].weight, tally[d].votes, - d>>,
               <<tally[e].weight, tally[e].votes, - e>>)

\* Some answer comes first, whichever key is looked at before the other.
LEMMA FirstAnswer ==
    ASSUME NEW members, AreMembers(members), members # <<>>,
           NEW key \in [Answers(members) -> Keys], \A d \in Answers(members) : key[d][3] = - d
    PROVE  \E d \in Answers(members) : \A e \in Answers(members) \ {d} : Before(key[d], key[e])
<1> DEFINE S == Answers(members)
<1>1. IsFiniteSet(S) /\ S \subseteq Nat
  BY TallyIs
<1>2. S # {}
  <2>1. DOMAIN members = 1 .. Len(members) /\ Len(members) \in Nat /\ members \in Seq(ToSet(members))
    BY DEF AreMembers, IsList
  <2>2. Len(members) # 0
    BY <2>1
  <2>3. 1 \in DOMAIN members
    BY <2>1, <2>2
  <2> QED
    BY <2>3 DEF Answers
<1> HIDE DEF S
<1>4. \A d, e \in S : key[d][3] = key[e][3] => d = e
  <2>2. ASSUME NEW d \in S, NEW e \in S, - d = - e PROVE d = e
    <3>1. d \in Int /\ e \in Int
      BY <1>1
    <3> QED
      BY <2>2, <3>1
  <2> QED
    BY <2>2 DEF S
<1>5. key \in [S -> Keys] /\ S \in SUBSET S
  BY DEF S
<1>6. \E d \in S : \A e \in S \ {d} : Before(key[d], key[e])
  BY <1>1, <1>2, <1>4, <1>5, Foremost
<1> QED
  BY <1>6 DEF S

\* The answer with most weight can be told.
LEMMA HeaviestIs ==
    ASSUME NEW members, AreMembers(members), members # <<>>
    PROVE  Heaviest(Tally(members)) \in Answers(members)
<1> DEFINE tally == Tally(members)
           S == Answers(members)
           key == [d \in S |-> <<tally[d].weight, tally[d].votes, - d>>]
<1>1. /\ DOMAIN tally = S /\ S \subseteq Nat
      /\ \A d \in S : tally[d].votes \in Nat /\ tally[d].weight \in Int
  BY TallyIs
<1> HIDE DEF tally
<1>3. key \in [S -> Keys] /\ \A d \in S : key[d][3] = - d
  <2> HIDE DEF S
  <2> QED
    BY <1>1 DEF Keys
<1>5. \E d \in S : \A e \in S \ {d} : Before(key[d], key[e])
  <2> HIDE DEF key
  <2> QED
    BY <1>3, FirstAnswer
<1> HIDE DEF S
<1>6. \E d \in DOMAIN tally : \A e \in DOMAIN tally \ {d} :
          Before(<<tally[d].weight, tally[d].votes, - d>>,
                 <<tally[e].weight, tally[e].votes, - e>>)
  BY <1>1, <1>5
<1> QED
  BY <1>1, <1>6 DEF Heaviest, S, tally

\* The answer with most votes can be told.
LEMMA TopIs ==
    ASSUME NEW members, AreMembers(members), members # <<>>
    PROVE  LET tally == Tally(members)
               top == MostVoted(tally)
           IN  /\ top \in Answers(members)
               /\ \A d \in Answers(members) : tally[d].votes <= tally[top].votes
<1> DEFINE tally == Tally(members)
           top == MostVoted(tally)
           S == Answers(members)
           key == [d \in S |-> <<tally[d].votes, tally[d].weight, - d>>]
<1>1. /\ DOMAIN tally = S /\ S \subseteq Nat
      /\ \A d \in S : tally[d].votes \in Nat /\ tally[d].weight \in Int
  BY TallyIs
<1> HIDE DEF tally
<1>3. key \in [S -> Keys] /\ \A d \in S : key[d][3] = - d
  <2> HIDE DEF S
  <2> QED
    BY <1>1 DEF Keys
<1>5. \E d \in S : \A e \in S \ {d} : Before(key[d], key[e])
  <2> HIDE DEF key
  <2> QED
    BY <1>3, FirstAnswer
<1> HIDE DEF S
<1>6. \E d \in DOMAIN tally : \A e \in DOMAIN tally \ {d} :
          Before(<<tally[d].votes, tally[d].weight, - d>>,
                 <<tally[e].votes, tally[e].weight, - e>>)
  BY <1>1, <1>5
<1>7. /\ top \in S
      /\ \A e \in S \ {top} : Before(<<tally[top].votes, tally[top].weight, - top>>,
                                     <<tally[e].votes, tally[e].weight, - e>>)
  BY <1>1, <1>6 DEF MostVoted
<1> HIDE DEF top
<1>8. ASSUME NEW e \in S PROVE tally[e].votes <= tally[top].votes
  <2>1. CASE e = top
    BY <1>1, <1>7, <2>1
  <2>2. CASE e # top
    <3> DEFINE a == <<tally[top].votes, tally[top].weight, - top>>
               b == <<tally[e].votes, tally[e].weight, - e>>
    <3>1. a \in Keys /\ b \in Keys
      BY <1>1, <1>7 DEF Keys
    <3>2. Before(a, b)
      BY <1>7, <2>2
    <3>3. a[1] = tally[top].votes /\ b[1] = tally[e].votes
      OBVIOUS
    <3> HIDE DEF a, b
    <3>4. a[1] > b[1] \/ a[1] = b[1]
      BY <3>1, <3>2, BeforeIs
    <3>5. a[1] \in Nat /\ b[1] \in Nat
      BY <1>1, <1>7, <3>3
    <3>6. b[1] <= a[1]
      BY <3>4, <3>5
    <3> QED
      BY <3>3, <3>6
  <2> QED
    BY <2>1, <2>2
<1> QED
  BY <1>7, <1>8 DEF S, top, tally


Picked(members, params) == {i \in DOMAIN members : ModelOf(members[i]) = params.judge_pick}

MethodOf(method) == IF method \in Methods THEN method ELSE "majority"

DecidedOf(m, members, params) ==
    CASE m = "judge" -> Picked(members, params) # {}
      [] m = "quorum" -> /\ members # <<>>
                         /\ Tally(members)[MostVoted(Tally(members))].votes >= Int32(params.quorum_n)
      [] OTHER -> members # <<>>

AnswerOf(members, d) == [output_digest |-> d, models |-> Tally(members)[d].models]

WinnerOf(m, decided, members, params) ==
    CASE ~ decided -> <<>>
      [] decided /\ m = "judge" ->
            [output_digest |-> members[Min(Picked(members, params))].output_digest,
             model_id |-> params.judge_pick]
      [] decided /\ m = "weighted" -> AnswerOf(members, Heaviest(Tally(members)))
      [] OTHER -> AnswerOf(members, MostVoted(Tally(members)))

\* A decision, part by part.
LEMMA ComputedIs ==
    \A members, method, params :
        ComputeConsensus(members, method, params) =
            [method |-> MethodOf(method), member_count |-> Len(members),
             tally |-> Tally(members),
             decided |-> DecidedOf(MethodOf(method), members, params), params |-> params,
             winner |-> WinnerOf(MethodOf(method),
                                 DecidedOf(MethodOf(method), members, params), members, params)]
<1> SUFFICES ASSUME NEW members, NEW method, NEW params
             PROVE  ComputeConsensus(members, method, params) =
            [method |-> MethodOf(method), member_count |-> Len(members),
             tally |-> Tally(members),
             decided |-> DecidedOf(MethodOf(method), members, params), params |-> params,
             winner |-> WinnerOf(MethodOf(method),
                                 DecidedOf(MethodOf(method), members, params), members, params)]
  OBVIOUS
<1> DEFINE tally == Tally(members)
<1>1. MostVoted(tally) = First(DOMAIN tally,
                               LAMBDA d : <<tally[d].votes, tally[d].weight, - d>>)
  <2> HIDE DEF tally
  <2> QED
    BY DEF First, MostVoted
<1>2. Heaviest(tally) = First(DOMAIN tally,
                              LAMBDA d : <<tally[d].weight, tally[d].votes, - d>>)
  <2> HIDE DEF tally
  <2> QED
    BY DEF First, Heaviest
<1> QED
  BY <1>1, <1>2, Zenon DEF ComputeConsensus, MethodOf, DecidedOf, WinnerOf, AnswerOf, Picked

\* What a vote decides.
LEMMA VoteDecides ==
    ASSUME NEW members, NEW method, NEW params
    PROVE  LET D == ComputeConsensus(members, method, params)
               tally == Tally(members)
               top == MostVoted(tally)
           IN  D.method \in {"majority", "quorum"} /\ D.decided =>
                  /\ members # <<>>
                  /\ D.winner.output_digest = top
                  /\ D.params = params
                  /\ D.method = "quorum" => tally[top].votes >= Int32(params.quorum_n)
<1> DEFINE D == ComputeConsensus(members, method, params)
           tally == Tally(members)
           top == MostVoted(tally)
           m == MethodOf(method)
           decided == DecidedOf(m, members, params)
           winner == WinnerOf(m, decided, members, params)
<1>1. D.method = m /\ D.decided = decided /\ D.params = params /\ D.winner = winner
  <2>1. D = [method |-> m, member_count |-> Len(members), tally |-> tally,
             decided |-> decided, params |-> params, winner |-> winner]
    BY ComputedIs, Zenon
  <2> HIDE DEF D, m, decided, winner, tally
  <2> QED
    BY <2>1
<1> HIDE DEF D, m
<1> SUFFICES ASSUME m \in {"majority", "quorum"}, decided
             PROVE  /\ members # <<>>
                    /\ winner.output_digest = top
                    /\ m = "quorum" => tally[top].votes >= Int32(params.quorum_n)
  BY <1>1 DEF D, m, top, tally
<1>2. members # <<>> /\ (m = "quorum" => tally[top].votes >= Int32(params.quorum_n))
  BY DEF DecidedOf
<1>3. winner = AnswerOf(members, top)
  <2> HIDE DEF decided
  <2> QED
    BY DEF WinnerOf
<1>4. AnswerOf(members, top).output_digest = top
  BY DEF AnswerOf
<1> HIDE DEF winner, top
<1> QED
  BY <1>2, <1>3, <1>4

Record(m) == [m EXCEPT !.score = Int32(@)]

LEMMA SubReceiptIs ==
    \A m : /\ SignSubReceipt(m).member = Record(m)
           /\ SignSubReceipt(m).member_digest = Record(m)
           /\ SignSubReceipt(m).payload_digest = <<"sub_receipt", Record(m)>>
           /\ SignSubReceipt(m).envelope_signature = <<"sub_receipt", Record(m)>>
           /\ DOMAIN SignSubReceipt(m) =
                 {"member", "member_digest", "payload_digest", "envelope_signature"}
BY DEF SignSubReceipt, Seal, Canonicalize, Record

LEMMA RecordIs ==
    \A m \in Member :
        /\ DOMAIN Record(m) = {"panel_id", "model_id", "output_digest", "score"}
        /\ Record(m).output_digest = m.output_digest /\ Record(m).output_digest \in Nat
        /\ Record(m).score = Int32(m.score) /\ Record(m).score \in Int
        /\ Record(m).model_id = m.model_id /\ Record(m).panel_id = m.panel_id
<1> SUFFICES ASSUME NEW m \in Member
             PROVE  /\ DOMAIN Record(m) = {"panel_id", "model_id", "output_digest", "score"}
                    /\ Record(m).output_digest = m.output_digest
                    /\ Record(m).output_digest \in Nat
                    /\ Record(m).score = Int32(m.score) /\ Record(m).score \in Int
                    /\ Record(m).model_id = m.model_id /\ Record(m).panel_id = m.panel_id
  OBVIOUS
<1>1. /\ DOMAIN m = {"panel_id", "model_id", "output_digest", "score"}
      /\ m.output_digest \in Nat /\ m.score \in Int
  BY ConsensusAssumption
<1>2. Int32(m.score) \in Int
  BY <1>1, SealedAssumption DEF Int32
<1> QED
  BY <1>1, <1>2 DEF Record

LEMMA SignConsensusIs ==
    \A subs, method, params :
        LET env == SignConsensus(subs, method, params)
            D == ComputeConsensus(MembersOf(subs), method, params)
        IN  /\ {"base", "decision", "payload_digest", "envelope_signature"} \subseteq DOMAIN env
            /\ env.base = [panel_root |-> MerkleRoot(SubDigests(subs)),
                           member_count |-> Len(subs), decision_digest |-> D]
            /\ env.decision = D
            /\ env.payload_digest = <<env.base, <<MerkleRoot(SubDigests(subs)), D>>>>
            /\ env.envelope_signature = <<env.base, <<MerkleRoot(SubDigests(subs)), D>>>>
BY DEF SignConsensus, Seal, Canonicalize

\* The panel is as it was asked, and nothing but the decision of the receipt that is
\* shown can differ from the one that was sealed.
ConsensusHolds ==
    /\ panel \in Seq(Member)
    /\ collected \in Seq(DOMAIN panel)
    /\ verdict = <<>> => panel = <<>>
    /\ verdict # <<>> =>
          /\ panel # <<>>
          /\ \E method, params : verdict = SignConsensus(Subs, method, params)
    /\ verdictShown # <<>> =>
          /\ verdict # <<>>
          /\ \A f \in {"base", "payload_digest", "envelope_signature"} :
                verdictShown[f] = verdict[f]

LEMMA ConsensusInvariant == ConsensusSpec => []ConsensusHolds
<1>1. ConsensusInit => ConsensusHolds
  BY DEF ConsensusInit, ConsensusHolds
<1>2. ConsensusHolds /\ [ConsensusNext]_consensusVars => ConsensusHolds'
  <2> SUFFICES ASSUME ConsensusHolds, [ConsensusNext]_consensusVars PROVE ConsensusHolds'
    OBVIOUS
  <2>1. CASE SealPanel
    <3>1. PICK list \in BoundedSeq(Member, MaxPanel), method \in MethodAsked, p \in ParamsAsked :
             /\ list # <<>> /\ panel' = list
             /\ verdict' = SignConsensus([i \in DOMAIN list |-> SignSubReceipt(list[i])],
                                         method, p)
      BY <2>1, Zenon DEF SealPanel
    <3>2. list \in Seq(Member)
      <4>1. PICK n \in Nat : list \in [1 .. n -> Member]
        BY ConsensusAssumption DEF BoundedSeq, SeqOf
      <4> QED
        BY <4>1
    <3>3. verdict' = SignConsensus(Subs', method, p)
      BY <3>1, Zenon DEF Subs
    <3>4. verdict' # <<>>
      <4>1. "base" \in DOMAIN verdict'
        BY <3>3, SignConsensusIs
      <4> QED
        BY <4>1
    <3>5. verdictShown' = <<>> /\ collected' = <<>>
      <4>1. verdict = <<>> /\ verdictShown' = verdictShown /\ collected' = collected
        BY <2>1 DEF SealPanel
      <4>2. collected \in Seq(DOMAIN <<>>)
        BY <4>1 DEF ConsensusHolds
      <4>3. collected = <<>>
        BY <4>2
      <4> QED
        BY <4>1, <4>3 DEF ConsensusHolds
    <3>6. collected' \in Seq(DOMAIN panel')
      BY <3>5
    <3> QED
      BY <3>1, <3>2, <3>3, <3>4, <3>5, <3>6 DEF ConsensusHolds
  <2>2. CASE Collect
    <3>1. PICK i \in DOMAIN panel : collected' = Append(collected, i)
      BY <2>2 DEF Collect
    <3>2. UNCHANGED <<panel, verdict, verdictShown>>
      BY <2>2 DEF Collect
    <3>3. collected' \in Seq(DOMAIN panel)
      <4>1. collected \in Seq(DOMAIN panel)
        BY DEF ConsensusHolds
      <4> DEFINE P == DOMAIN panel
      <4> HIDE DEF P
      <4> QED
        BY <3>1, <4>1 DEF P
    <3> QED
      BY <3>2, <3>3 DEF ConsensusHolds, Subs
  <2>3. CASE ShowVerdict
    <3>1. /\ verdict # <<>> /\ UNCHANGED <<panel, verdict, collected>>
          /\ \E D : verdictShown' = [verdict EXCEPT !.decision = D]
      BY <2>3 DEF ShowVerdict
    <3>2. {"base", "payload_digest", "envelope_signature"} \subseteq DOMAIN verdict
      BY <3>1, SignConsensusIs DEF ConsensusHolds
    <3>3. \A f \in {"base", "payload_digest", "envelope_signature"} :
                verdictShown'[f] = verdict[f]
      BY <3>1, <3>2
    <3> QED
      BY <3>1, <3>3 DEF ConsensusHolds, Subs
  <2>4. CASE UNCHANGED consensusVars
    BY <2>4 DEF consensusVars, ConsensusHolds, Subs
  <2> QED
    BY <2>1, <2>2, <2>3, <2>4 DEF ConsensusNext
<1> QED
  BY <1>1, <1>2, PTL DEF ConsensusSpec

DigestsOf(subs) == [i \in DOMAIN subs |-> subs[i].payload_digest]

LEMMA CollectedIs ==
    ASSUME ConsensusHolds
    PROVE  /\ Len(Subs) = Len(panel) /\ DOMAIN Subs = 1 .. Len(panel)
           /\ \A i \in 1 .. Len(panel) :
                 /\ panel[i] \in Member
                 /\ Subs[i].member = Record(panel[i])
                 /\ Subs[i].payload_digest = <<"sub_receipt", Record(panel[i])>>
           /\ Len(Collected) = Len(collected) /\ DOMAIN Collected = 1 .. Len(collected)
           /\ \A k \in 1 .. Len(collected) :
                 /\ collected[k] \in 1 .. Len(panel)
                 /\ Collected[k].member = Wire(Record(panel[collected[k]]))
                 /\ Collected[k].payload_digest = <<"sub_receipt", Record(panel[collected[k]])>>
           /\ Len(panel) \in Nat /\ Len(collected) \in Nat
<1>1. /\ Len(panel) \in Nat /\ DOMAIN panel = 1 .. Len(panel)
      /\ \A i \in 1 .. Len(panel) : panel[i] \in Member
  BY DEF ConsensusHolds
<1>2. /\ Len(collected) \in Nat /\ DOMAIN collected = 1 .. Len(collected)
      /\ \A k \in 1 .. Len(collected) : collected[k] \in 1 .. Len(panel)
  BY <1>1 DEF ConsensusHolds
<1>3. /\ DOMAIN Subs = 1 .. Len(panel) /\ Len(Subs) = Len(panel)
      /\ \A i \in 1 .. Len(panel) : Subs[i] = SignSubReceipt(panel[i])
  BY <1>1 DEF Subs
<1>4. \A i \in 1 .. Len(panel) :
          /\ Subs[i].member = Record(panel[i])
          /\ Subs[i].payload_digest = <<"sub_receipt", Record(panel[i])>>
          /\ {"member", "payload_digest"} \subseteq DOMAIN Subs[i]
  BY <1>3, SubReceiptIs
<1>5. /\ DOMAIN Collected = 1 .. Len(collected) /\ Len(Collected) = Len(collected)
      /\ \A k \in 1 .. Len(collected) :
            Collected[k] = [Subs[collected[k]] EXCEPT !.member = Wire(@)]
  BY <1>2 DEF Collected
<1>6. ASSUME NEW k \in 1 .. Len(collected)
      PROVE  /\ Collected[k].member = Wire(Record(panel[collected[k]]))
             /\ Collected[k].payload_digest = <<"sub_receipt", Record(panel[collected[k]])>>
  BY <1>2, <1>4, <1>5
<1> QED
  BY <1>1, <1>2, <1>3, <1>4, <1>5, <1>6

\* A root over as many sub-receipts is a root over the same ones.
LEMMA RootOfSubs ==
    ASSUME ConsensusHolds, Len(collected) = Len(panel)
    PROVE  MerkleRoot(SubDigests(Collected)) = MerkleRoot(SubDigests(Subs))
              <=> ToBag(DigestsOf(Collected)) = ToBag(DigestsOf(Subs))
<1> DEFINE d == DigestsOf(Collected)
           e == DigestsOf(Subs)
           X == ToSet(d) \cup ToSet(e)
<1>1. /\ DOMAIN Collected = 1 .. Len(collected) /\ DOMAIN Subs = 1 .. Len(panel)
      /\ Len(panel) \in Nat
  BY CollectedIs
<1>2. DOMAIN d = 1 .. Len(panel) /\ DOMAIN e = 1 .. Len(panel)
  BY <1>1 DEF DigestsOf
<1>3. d = [i \in 1 .. Len(panel) |-> d[i]] /\ e = [i \in 1 .. Len(panel) |-> e[i]]
  BY <1>2 DEF DigestsOf
<1>4. SubDigests(Collected) = Sorted(d) /\ SubDigests(Subs) = Sorted(e)
  BY DEF SubDigests, DigestsOf
<1> HIDE DEF d, e
<1>5. d \in Seq(X) /\ e \in Seq(X) /\ Len(d) = Len(e)
  BY <1>1, <1>2, <1>3 DEF ToSet
<1> HIDE DEF X
<1>6. MerkleRoot(Sorted(d)) = MerkleRoot(Sorted(e)) <=> ToBag(d) = ToBag(e)
  BY <1>5, SortedRootTells
<1> QED
  BY <1>4, <1>6 DEF d, e

\* The same digests are those of the same members.
LEMMA MembersOfSubs ==
    ASSUME ConsensusHolds, ToBag(DigestsOf(Collected)) = ToBag(DigestsOf(Subs))
    PROVE  ToBag(MembersOf(Collected)) = ToBag([i \in DOMAIN panel |-> Wire(Subs[i].member)])
<1> DEFINE s == DigestsOf(Collected)
           t == DigestsOf(Subs)
           u == MembersOf(Collected)
           v == [i \in DOMAIN panel |-> Wire(Subs[i].member)]
           X == ToSet(s) \cup ToSet(t)
           Y == ToSet(u) \cup ToSet(v)
<1>1. /\ DOMAIN Collected = 1 .. Len(collected) /\ DOMAIN Subs = 1 .. Len(panel)
      /\ Len(panel) \in Nat /\ Len(collected) \in Nat /\ DOMAIN panel = 1 .. Len(panel)
      /\ \A i \in 1 .. Len(panel) : Subs[i].member = Record(panel[i])
  BY CollectedIs DEF ConsensusHolds
<1>2. /\ s = [k \in 1 .. Len(collected) |-> Collected[k].payload_digest]
      /\ t = [i \in 1 .. Len(panel) |-> Subs[i].payload_digest]
      /\ u = [k \in 1 .. Len(collected) |-> Collected[k].member]
      /\ v = [i \in 1 .. Len(panel) |-> Wire(Subs[i].member)]
  BY <1>1 DEF DigestsOf, MembersOf
<1>3. \A k \in 1 .. Len(collected) :
          /\ s[k] = <<"sub_receipt", Record(panel[collected[k]])>>
          /\ u[k] = Wire(Record(panel[collected[k]]))
  BY <1>2, CollectedIs
<1>4. \A i \in 1 .. Len(panel) :
          /\ t[i] = <<"sub_receipt", Record(panel[i])>>
          /\ v[i] = Wire(Record(panel[i]))
  BY <1>2, CollectedIs
<1> HIDE DEF s, t, u, v
<1>5. /\ DOMAIN s = 1 .. Len(collected) /\ DOMAIN t = 1 .. Len(panel)
      /\ DOMAIN u = 1 .. Len(collected) /\ DOMAIN v = 1 .. Len(panel)
  BY <1>2
<1>6. /\ s \in Seq(X) /\ t \in Seq(X) /\ u \in Seq(Y) /\ v \in Seq(Y)
      /\ Len(u) = Len(s) /\ Len(v) = Len(t)
  <2>1. /\ s = [k \in 1 .. Len(collected) |-> s[k]] /\ t = [i \in 1 .. Len(panel) |-> t[i]]
        /\ u = [k \in 1 .. Len(collected) |-> u[k]] /\ v = [i \in 1 .. Len(panel) |-> v[i]]
    BY <1>2
  <2>2. /\ \A k \in 1 .. Len(collected) : s[k] \in X /\ u[k] \in Y
        /\ \A i \in 1 .. Len(panel) : t[i] \in X /\ v[i] \in Y
    BY <1>5 DEF ToSet
  <2> HIDE DEF X, Y
  <2> QED
    BY <1>1, <1>5, <2>1, <2>2
<1>7. ASSUME NEW k \in DOMAIN s, NEW i \in DOMAIN t, s[k] = t[i] PROVE u[k] = v[i]
  <2>1. <<"sub_receipt", Record(panel[collected[k]])>> = <<"sub_receipt", Record(panel[i])>>
    BY <1>3, <1>4, <1>5, <1>7
  <2>2. Record(panel[collected[k]]) = Record(panel[i])
    BY <2>1
  <2> QED
    BY <1>3, <1>4, <1>5, <2>2
<1>8. ToBag(s) = ToBag(t)
  BY DEF s, t
<1> HIDE DEF X, Y
<1>9. MappedAlike(s, t, u, v)
  BY <1>6, <1>7 DEF MappedAlike
<1>10. ToBag(u) = ToBag(v)
  BY <1>6, <1>8, <1>9, MappedBags
<1> QED
  BY <1>10 DEF u, v

\* A verdict that is accepted is the one that was sealed, over the very answers.
LEMMA AcceptedIsSealed ==
    ASSUME ConsensusHolds, verdictShown # <<>>, VerifyConsensus(verdictShown, Collected)
    PROVE  /\ verdictShown.decision = verdict.decision
           /\ Len(collected) = Len(panel)
           /\ MerkleRoot(SubDigests(Collected)) = MerkleRoot(SubDigests(Subs))
<1>1. verdict # <<>> /\ verdictShown.base = verdict.base
  BY DEF ConsensusHolds
<1>2. PICK method, params : verdict = SignConsensus(Subs, method, params)
  BY <1>1 DEF ConsensusHolds
<1> DEFINE D == ComputeConsensus(MembersOf(Subs), method, params)
<1>3. /\ verdict.base.panel_root = MerkleRoot(SubDigests(Subs))
      /\ verdict.base.member_count = Len(Subs)
      /\ verdict.base.decision_digest = D /\ verdict.decision = D
  <2>1. /\ verdict.base = [panel_root |-> MerkleRoot(SubDigests(Subs)),
                           member_count |-> Len(Subs), decision_digest |-> D]
        /\ verdict.decision = D
    BY <1>2, SignConsensusIs
  <2> HIDE DEF D
  <2> QED
    BY <2>1
<1>4. /\ verdictShown.base.panel_root = MerkleRoot(SubDigests(Collected))
      /\ verdictShown.base.member_count = Len(Collected)
      /\ verdictShown.base.decision_digest = verdictShown.decision
  BY DEF VerifyConsensus, Canonicalize
<1>5. Len(Subs) = Len(panel) /\ Len(Collected) = Len(collected)
  BY CollectedIs
<1> QED
  BY <1>1, <1>3, <1>4, <1>5

LEMMA PanelMembers ==
    ASSUME ConsensusHolds
    PROVE  /\ AreMembers(MembersOf(Subs))
           /\ \A d : For(MembersOf(Subs), d) = {i \in DOMAIN panel : panel[i].output_digest = d}
           /\ Answers(MembersOf(Subs)) = {panel[i].output_digest : i \in DOMAIN panel}
<1> DEFINE members == MembersOf(Subs)
<1>1. /\ DOMAIN Subs = 1 .. Len(panel) /\ DOMAIN panel = 1 .. Len(panel) /\ Len(panel) \in Nat
      /\ \A i \in 1 .. Len(panel) : panel[i] \in Member /\ Subs[i].member = Record(panel[i])
  BY CollectedIs DEF ConsensusHolds
<1>2. members = [i \in 1 .. Len(panel) |-> Subs[i].member]
  BY <1>1 DEF MembersOf
<1> HIDE DEF members
<1>3. DOMAIN members = 1 .. Len(panel)
      /\ \A i \in 1 .. Len(panel) : /\ members[i].output_digest = panel[i].output_digest
                                    /\ members[i].output_digest \in Nat
                                    /\ members[i].score \in Int
  BY <1>1, <1>2, RecordIs
<1>4. IsList(members)
  BY <1>1, <1>2, <1>3 DEF IsList, ToSet
<1>5. AreMembers(members)
  BY <1>3, <1>4 DEF AreMembers
<1>6. \A d : For(members, d) = {i \in DOMAIN panel : panel[i].output_digest = d}
  BY <1>1, <1>3 DEF For
<1>7. Answers(members) = {panel[i].output_digest : i \in DOMAIN panel}
  BY <1>1, <1>3 DEF Answers
<1> QED
  BY <1>5, <1>6, <1>7 DEF members

\* A verdict that is accepted was made over the very answers the customer has, and a
\* vote names the answer that none has more votes than.
THEOREM AcceptedVerdicts == ConsensusSpec => []AcceptedVerdictIsThePanels
<1>1. ConsensusHolds => AcceptedVerdictIsThePanels
  <2> SUFFICES ASSUME ConsensusHolds, verdictShown # <<>>,
                      VerifyConsensus(verdictShown, Collected)
               PROVE  AcceptedVerdictIsThePanels
    BY DEF AcceptedVerdictIsThePanels
  <2>1. /\ verdictShown.decision = verdict.decision /\ Len(collected) = Len(panel)
        /\ MerkleRoot(SubDigests(Collected)) = MerkleRoot(SubDigests(Subs))
    BY AcceptedIsSealed
  <2>2. ToBag(MembersOf(Collected)) = ToBag([i \in DOMAIN panel |-> Wire(Subs[i].member)])
    BY <2>1, RootOfSubs, MembersOfSubs
  <2> DEFINE Votes(d) == Cardinality({i \in DOMAIN panel : panel[i].output_digest = d})
             D == verdictShown.decision
             w == D.winner.output_digest
  <2>3. ASSUME D.method \in {"majority", "quorum"}, D.decided
        PROVE  /\ \A m \in Member : Votes(m.output_digest) <= Votes(w)
               /\ D.method = "quorum" => Votes(w) >= Int32(D.params.quorum_n)
    <3>1. PICK method, params : verdict = SignConsensus(Subs, method, params)
      BY DEF ConsensusHolds
    <3> DEFINE members == MembersOf(Subs)
               top == MostVoted(Tally(members))
    <3>2. D = ComputeConsensus(members, method, params)
      BY <2>1, <3>1, SignConsensusIs
    <3> HIDE DEF D, members
    <3>3. /\ members # <<>> /\ w = top /\ D.params = params
          /\ D.method = "quorum" => Tally(members)[top].votes >= Int32(params.quorum_n)
      BY <2>3, <3>2, VoteDecides
    <3>4. /\ AreMembers(members)
          /\ \A d : For(members, d) = {i \in DOMAIN panel : panel[i].output_digest = d}
          /\ Answers(members) = {panel[i].output_digest : i \in DOMAIN panel}
      BY PanelMembers DEF members
    <3>5. /\ top \in Answers(members)
          /\ \A d \in Answers(members) : Tally(members)[d].votes <= Tally(members)[top].votes
      BY <3>3, <3>4, TopIs
    <3>6. \A d \in Answers(members) : Tally(members)[d].votes = Votes(d) /\ Votes(d) \in Nat
      <4>1. \A d \in Answers(members) :
                /\ Tally(members)[d].votes = Cardinality(For(members, d))
                /\ Tally(members)[d].votes \in Nat
        BY <3>4, TallyIs
      <4> QED
        BY <3>4, <4>1
    <3> HIDE DEF top, w
    <3>7. ASSUME NEW d, d \notin Answers(members) PROVE Votes(d) = 0
      <4>1. {i \in DOMAIN panel : panel[i].output_digest = d} = {}
        BY <3>4, <3>7
      <4> QED
        BY <4>1, FS_EmptySet
    <3>8. \A d : Votes(d) <= Votes(w)
      <4> HIDE DEF Votes
      <4> QED
        BY <3>3, <3>5, <3>6, <3>7
    <3> QED
      <4> HIDE DEF Votes
      <4> QED
        BY <3>3, <3>5, <3>6, <3>8
  <2> QED
    BY <2>1, <2>2, <2>3 DEF AcceptedVerdictIsThePanels
<1> QED
  BY <1>1, ConsensusInvariant, PTL

\* What a record is after it travelled.
LEMMA TravelledRecord ==
    ASSUME NEW m \in Member
    PROVE  /\ Wire(Record(m)).output_digest = m.output_digest
           /\ Wire(Record(m)).score = Record(m).score
           /\ ModelOf(Wire(Record(m))) = m.model_id /\ ModelOf(Record(m)) = m.model_id
           /\ Wire(Record(m)) = Record(m) <=> Undefined \notin {m.panel_id, m.model_id}
<1> DEFINE r == Record(m)
           w == Wire(r)
           Names == {"panel_id", "model_id", "output_digest", "score"}
<1>1. /\ DOMAIN r = Names
      /\ r.output_digest = m.output_digest /\ r.output_digest \in Nat
      /\ r.score \in Int /\ r.model_id = m.model_id /\ r.panel_id = m.panel_id
  BY RecordIs
<1>2. Undefined \notin Int
  BY SealedAssumption
<1>3. r = [f \in Names |-> r[f]]
  <2>1. r = [f \in DOMAIN m |-> IF f = "score" THEN Int32(m.score) ELSE m[f]]
    BY ConsensusAssumption DEF Record
  <2>2. DOMAIN m = Names
    BY ConsensusAssumption
  <2> HIDE DEF r
  <2> QED
    BY <2>1, <2>2
<1> HIDE DEF r
<1>4. /\ DOMAIN w = {f \in Names : r[f] # Undefined}
      /\ \A f \in Names : r[f] # Undefined => w[f] = r[f]
      /\ w = [f \in {g \in Names : r[g] # Undefined} |-> r[f]]
  BY <1>1 DEF Wire
<1> HIDE DEF w
<1>5. r.output_digest # Undefined /\ r.score # Undefined
  BY <1>1, <1>2
<1>6. w.output_digest = m.output_digest /\ w.score = r.score
  BY <1>1, <1>4, <1>5
<1>7. ModelOf(w) = m.model_id /\ ModelOf(r) = m.model_id
  <2>1. CASE m.model_id = Undefined
    BY <1>1, <1>4, <2>1 DEF ModelOf
  <2>2. CASE m.model_id # Undefined
    BY <1>1, <1>4, <2>2 DEF ModelOf
  <2> QED
    BY <2>1, <2>2
<1>8. CASE Undefined \in {m.panel_id, m.model_id}
  <2>1. DOMAIN w # DOMAIN r
    BY <1>1, <1>4, <1>8
  <2> QED
    BY <1>6, <1>7, <1>8, <2>1 DEF w, r
<1>9. CASE Undefined \notin {m.panel_id, m.model_id}
  <2>1. {g \in Names : r[g] # Undefined} = Names
    BY <1>1, <1>5, <1>9
  <2>2. w = r
    BY <1>3, <1>4, <2>1
  <2> QED
    BY <1>6, <1>7, <1>9, <2>2 DEF w, r
<1> QED
  BY <1>8, <1>9

\* A list of every member of the panel is the panel in another order.
LEMMA CollectedPermutes ==
    ASSUME ConsensusHolds, AllCollected
    PROVE  /\ Len(collected) = Len(panel)
           /\ collected \in Bijection(1 .. Len(panel), 1 .. Len(panel))
<1> DEFINE n == Len(panel)
           P == 1 .. n
<1>1. n \in Nat /\ DOMAIN panel = P /\ Len(collected) = n /\ ToSet(collected) = P
  BY DEF ConsensusHolds, AllCollected
<1>2. collected \in [P -> P] /\ DOMAIN collected = P
  BY <1>1 DEF ConsensusHolds
<1> HIDE DEF n
<1>3. \A j \in P : \E k \in P : collected[k] = j
  BY <1>1, <1>2 DEF ToSet
<1>4. IsFiniteSet(P)
  BY <1>1, FS_Interval
<1> HIDE DEF P
<1>5. collected \in Surjection(P, P)
  BY <1>2, <1>3 DEF Surjection
<1>6. collected \in Injection(P, P)
  BY <1>4, <1>5, FS_Surjection
<1> QED
  BY <1>1, <1>5, <1>6 DEF Bijection, n, P

\* Two lists of members are the same answers in two orders, f says where each is.
Permuted(a, b, f) ==
    /\ AreMembers(a) /\ AreMembers(b) /\ f \in Bijection(DOMAIN a, DOMAIN b)
    /\ \A k \in DOMAIN a : /\ a[k].output_digest = b[f[k]].output_digest
                           /\ a[k].score = b[f[k]].score
                           /\ ModelOf(a[k]) = ModelOf(b[f[k]])

LEMMA PermutedTally ==
    ASSUME NEW a, NEW b, NEW f, Permuted(a, b, f)
    PROVE  Tally(a) = Tally(b)
<1>1. /\ f \in [DOMAIN a -> DOMAIN b]
      /\ \A i, j \in DOMAIN a : f[i] = f[j] => i = j
      /\ \A k \in DOMAIN b : \E i \in DOMAIN a : f[i] = k
  BY DEF Permuted, Bijection, Injection, Surjection, IsInjective
<1>2. \A k \in DOMAIN a : /\ a[k].output_digest = b[f[k]].output_digest
                          /\ a[k].score = b[f[k]].score
                          /\ ModelOf(a[k]) = ModelOf(b[f[k]])
  BY DEF Permuted
<1>3. Answers(a) = Answers(b)
  BY <1>1, <1>2 DEF Answers
<1>4. /\ DOMAIN a = 1 .. Len(a) /\ Len(a) \in Nat /\ DOMAIN b = 1 .. Len(b) /\ Len(b) \in Nat
      /\ \A i \in DOMAIN a : a[i].score \in Int
      /\ \A i \in DOMAIN b : b[i].score \in Int
  <2>1. a \in Seq(ToSet(a)) /\ b \in Seq(ToSet(b))
    BY DEF Permuted, AreMembers, IsList
  <2>2. \A i \in DOMAIN a : a[i].score \in Int
    BY DEF Permuted, AreMembers
  <2>3. \A i \in DOMAIN b : b[i].score \in Int
    BY DEF Permuted, AreMembers
  <2> QED
    BY <2>1, <2>2, <2>3
<1> DEFINE sa == [i \in DOMAIN a |-> a[i].score]
           sb == [i \in DOMAIN b |-> b[i].score]
           na == [i \in DOMAIN a |-> ModelOf(a[i])]
           nb == [i \in DOMAIN b |-> ModelOf(b[i])]
           X == ToSet(na) \cup ToSet(nb)
<1>5. /\ DOMAIN sa = DOMAIN a /\ DOMAIN sb = DOMAIN b /\ sa \in Seq(Int) /\ sb \in Seq(Int)
      /\ \A i \in DOMAIN a : sb[f[i]] = sa[i]
  <2>1. \A i \in DOMAIN a : sb[f[i]] = sa[i]
    BY <1>1, <1>2
  <2>2. DOMAIN sa = DOMAIN a /\ sa \in Seq(Int)
    BY <1>4
  <2>3. DOMAIN sb = DOMAIN b /\ sb \in Seq(Int)
    BY <1>4
  <2> QED
    BY <2>1, <2>2, <2>3
<1>6. /\ DOMAIN na = DOMAIN a /\ DOMAIN nb = DOMAIN b /\ na \in Seq(X) /\ nb \in Seq(X)
      /\ \A i \in DOMAIN a : nb[f[i]] = na[i]
  <2>1. \A i \in DOMAIN a : nb[f[i]] = na[i]
    BY <1>1, <1>2
  <2>2. DOMAIN na = DOMAIN a /\ DOMAIN nb = DOMAIN b
    OBVIOUS
  <2>3. /\ na = [i \in 1 .. Len(a) |-> na[i]] /\ nb = [i \in 1 .. Len(b) |-> nb[i]]
    BY <1>4
  <2> HIDE DEF na, nb
  <2>4. \A i \in DOMAIN a : na[i] \in X
    BY <2>2 DEF ToSet
  <2>5. \A i \in DOMAIN b : nb[i] \in X
    BY <2>2 DEF ToSet
  <2> HIDE DEF X
  <2> QED
    BY <1>4, <2>1, <2>2, <2>3, <2>4, <2>5
<1>7. ASSUME NEW d \in Answers(a)
      PROVE  /\ Cardinality(For(a, d)) = Cardinality(For(b, d))
             /\ TotalOf(Kept(sa, For(a, d))) = TotalOf(Kept(sb, For(b, d)))
             /\ Sorted(Kept(na, For(a, d))) = Sorted(Kept(nb, For(b, d)))
  <2> DEFINE P == For(a, d)
             Q == For(b, d)
  <2>1. P = {i \in DOMAIN a : f[i] \in Q} /\ Q \in SUBSET DOMAIN b /\ P \in SUBSET DOMAIN a
    BY <1>1, <1>2 DEF For
  <2>2. f \in Bijection(DOMAIN a, DOMAIN b)
    BY DEF Permuted
  <2> HIDE DEF P, Q, sa, sb, na, nb, X
  <2>3. /\ Kept(sa, P) \in Seq(Int) /\ Len(Kept(sa, P)) = Cardinality(P)
        /\ Kept(sb, Q) \in Seq(Int) /\ Len(Kept(sb, Q)) = Cardinality(Q)
        /\ Kept(na, P) \in Seq(X) /\ Kept(nb, Q) \in Seq(X)
    BY <1>5, <1>6, <2>1, KeptIs
  <2>4. f \in Bijection(DOMAIN sa, DOMAIN sb) /\ f \in Bijection(DOMAIN na, DOMAIN nb)
    BY <1>5, <1>6, <2>2
  <2>5. ToBag(Kept(sa, P)) = ToBag(Kept(sb, Q))
    <3>1. Q \in SUBSET DOMAIN sb /\ P = {i \in DOMAIN sa : f[i] \in Q}
      BY <1>5, <2>1
    <3>2. Carries(f, sa, sb)
      BY <1>5, <2>4 DEF Carries
    <3>3. ToBag(Kept(sa, {i \in DOMAIN sa : f[i] \in Q})) = ToBag(Kept(sb, Q))
      BY <1>5, <3>1, <3>2, KeptPermuted
    <3> QED
      BY <3>1, <3>3
  <2>6. ToBag(Kept(na, P)) = ToBag(Kept(nb, Q))
    <3>1. Q \in SUBSET DOMAIN nb /\ P = {i \in DOMAIN na : f[i] \in Q}
      BY <1>6, <2>1
    <3>2. Carries(f, na, nb)
      BY <1>6, <2>4 DEF Carries
    <3>3. ToBag(Kept(na, {i \in DOMAIN na : f[i] \in Q})) = ToBag(Kept(nb, Q))
      BY <1>6, <3>1, <3>2, KeptPermuted
    <3> QED
      BY <3>1, <3>3
  <2>7. Cardinality(P) = Cardinality(Q)
    BY <2>3, <2>5, BagTellsLength
  <2>8. TotalOf(Kept(sa, P)) = TotalOf(Kept(sb, Q))
    BY <2>3, <2>5, TotalOfBag
  <2>9. Sorted(Kept(na, P)) = Sorted(Kept(nb, Q))
    BY <2>3, <2>6, SortedOfBag
  <2> QED
    BY <2>7, <2>8, <2>9 DEF P, Q
<1>8. Tally(a) = [d \in Answers(a) |-> [votes |-> Cardinality(For(a, d)),
                                        weight |-> TotalOf(Kept(sa, For(a, d))),
                                        models |-> Sorted(Kept(na, For(a, d)))]]
  BY Zenon DEF Tally, Answers, For
<1>9. Tally(b) = [d \in Answers(b) |-> [votes |-> Cardinality(For(b, d)),
                                        weight |-> TotalOf(Kept(sb, For(b, d))),
                                        models |-> Sorted(Kept(nb, For(b, d)))]]
  BY Zenon DEF Tally, Answers, For
<1> HIDE DEF sa, sb, na, nb
<1> QED
  BY <1>3, <1>7, <1>8, <1>9

\* The decision over the answers in another order: only a judge's pick can differ.
LEMMA PermutedDecision ==
    ASSUME NEW a, NEW b, NEW f, Permuted(a, b, f), NEW method, NEW params
    PROVE  LET D == ComputeConsensus(b, method, params)
           IN  ComputeConsensus(a, D.method, D.params) = D
                  <=> (D.method = "judge" /\ D.decided =>
                          D.winner.output_digest = a[Min(Picked(a, params))].output_digest)
<1> DEFINE D == ComputeConsensus(b, method, params)
           m == MethodOf(method)
           E == ComputeConsensus(a, m, params)
           t == Tally(b)
           d == DecidedOf(m, b, params)
           e == DecidedOf(m, a, params)
           w == WinnerOf(m, d, b, params)
           v == WinnerOf(m, e, a, params)
<1>1. m \in Methods /\ MethodOf(m) = m
  BY DEF MethodOf, Methods
<1>2. /\ D = [method |-> m, member_count |-> Len(b), tally |-> t,
              decided |-> d, params |-> params, winner |-> w]
      /\ E = [method |-> m, member_count |-> Len(a), tally |-> Tally(a),
              decided |-> e, params |-> params, winner |-> v]
  <2>1. D = [method |-> m, member_count |-> Len(b), tally |-> t,
             decided |-> d, params |-> params, winner |-> w]
    BY ComputedIs, Zenon
  <2> DEFINE k == MethodOf(m)
  <2>2. E = [method |-> k, member_count |-> Len(a), tally |-> Tally(a),
             decided |-> DecidedOf(k, a, params), params |-> params,
             winner |-> WinnerOf(k, DecidedOf(k, a, params), a, params)]
    <3> HIDE DEF m
    <3> QED
      BY ComputedIs, Zenon
  <2>3. k = m
    BY <1>1
  <2> HIDE DEF k, m, D, E
  <2> QED
    BY <2>1, <2>2, <2>3
<1>3. Tally(a) = t
  BY PermutedTally
<1>4. /\ f \in [DOMAIN a -> DOMAIN b]
      /\ \A k \in DOMAIN b : \E i \in DOMAIN a : f[i] = k
      /\ \A k \in DOMAIN a : ModelOf(a[k]) = ModelOf(b[f[k]])
  BY DEF Permuted, Bijection, Injection, Surjection, IsInjective
<1>5. Len(a) = Len(b) /\ (a = <<>> <=> b = <<>>)
  <2>1. a \in Seq(ToSet(a)) /\ b \in Seq(ToSet(b))
    BY DEF Permuted, AreMembers, IsList
  <2>2. /\ DOMAIN a = 1 .. Len(a) /\ Len(a) \in Nat /\ DOMAIN b = 1 .. Len(b) /\ Len(b) \in Nat
        /\ (a = <<>> <=> Len(a) = 0) /\ (b = <<>> <=> Len(b) = 0)
    BY <2>1
  <2>3. ExistsBijection(DOMAIN a, DOMAIN b)
    BY DEF Permuted, ExistsBijection
  <2>4. /\ IsFiniteSet(DOMAIN a) /\ Cardinality(DOMAIN a) = Len(a)
        /\ Cardinality(DOMAIN b) = Len(b)
    <3>1. \A n \in Nat : IsFiniteSet(1 .. n) /\ Cardinality(1 .. n) = n
      BY FS_Interval
    <3> QED
      BY <2>2, <3>1
  <2>5. Len(a) = Len(b)
    BY <2>3, <2>4, FS_Bijection
  <2> QED
    BY <2>2, <2>5
<1>6. Picked(a, params) # {} <=> Picked(b, params) # {}
  BY <1>4 DEF Picked
<1>7. e = d
  BY <1>3, <1>5, <1>6, Zenon DEF DecidedOf
<1>8. D.method = m /\ D.params = params /\ D.decided = d /\ D.winner = w
  <2> HIDE DEF D, m, d, w, t
  <2> QED
    BY <1>2
<1>9. E = D <=> v = w
  <2> HIDE DEF D, E, m, d, e, w, v, t
  <2> QED
    BY <1>2, <1>3, <1>5, <1>7
<1>10. CASE m = "judge" /\ d
  <2>1. w = [output_digest |-> b[Min(Picked(b, params))].output_digest,
             model_id |-> params.judge_pick]
    <3> HIDE DEF m, d
    <3> QED
      BY <1>10 DEF WinnerOf
  <2>2. v = [output_digest |-> a[Min(Picked(a, params))].output_digest,
             model_id |-> params.judge_pick]
    <3> HIDE DEF m, d, e
    <3> QED
      BY <1>7, <1>10 DEF WinnerOf
  <2> HIDE DEF D, E, m, d, w, v
  <2>3. v = w <=> w.output_digest = a[Min(Picked(a, params))].output_digest
    BY <2>1, <2>2
  <2> QED
    BY <1>8, <1>9, <1>10, <2>3 DEF E, D
<1>11. CASE ~ (m = "judge" /\ d)
  <2>1. v = w
    <3> HIDE DEF m, d, e
    <3> QED
      BY <1>3, <1>7, <1>11, Zenon DEF WinnerOf, AnswerOf
  <2> HIDE DEF m, d, w, v
  <2> QED
    BY <1>8, <1>9, <1>11, <2>1 DEF E, D
<1> QED
  BY <1>10, <1>11

\* What the customer collected, when it is all, is the panel in another order.
LEMMA CollectedPermuted ==
    ASSUME ConsensusHolds, AllCollected
    PROVE  Permuted(MembersOf(Collected), MembersOf(Subs), collected)
<1> DEFINE a == MembersOf(Collected)
           b == MembersOf(Subs)
           n == Len(panel)
<1>1. /\ n \in Nat /\ Len(collected) = n
      /\ collected \in Bijection(1 .. n, 1 .. n)
  BY CollectedPermutes, CollectedIs
<1>2. /\ DOMAIN Subs = 1 .. n /\ DOMAIN Collected = 1 .. n
      /\ \A k \in 1 .. n :
            /\ panel[k] \in Member /\ collected[k] \in 1 .. n
            /\ Subs[k].member = Record(panel[k])
            /\ Collected[k].member = Wire(Record(panel[collected[k]]))
  BY <1>1, CollectedIs
<1>3. /\ a = [k \in 1 .. n |-> Collected[k].member] /\ DOMAIN a = 1 .. n
      /\ b = [k \in 1 .. n |-> Subs[k].member] /\ DOMAIN b = 1 .. n
  BY <1>2 DEF MembersOf
<1> HIDE DEF a, b, n
<1>4. \A k \in 1 .. n : a[k] = Wire(Record(panel[collected[k]])) /\ b[k] = Record(panel[k])
  BY <1>2, <1>3
<1>5. \A k \in 1 .. n : /\ a[k].output_digest = panel[collected[k]].output_digest
                        /\ a[k].output_digest \in Nat
                        /\ a[k].score = Record(panel[collected[k]]).score
                        /\ a[k].score \in Int
                        /\ ModelOf(a[k]) = panel[collected[k]].model_id
  BY <1>2, <1>4, TravelledRecord, RecordIs
<1>6. \A k \in 1 .. n : /\ b[k].output_digest = panel[k].output_digest
                        /\ b[k].output_digest \in Nat
                        /\ b[k].score = Record(panel[k]).score
                        /\ b[k].score \in Int
                        /\ ModelOf(b[k]) = panel[k].model_id
  BY <1>2, <1>4, TravelledRecord, RecordIs
<1>7. IsList(a) /\ IsList(b)
  BY <1>1, <1>3, ListsOf DEF IsList, ToSet
<1>8. AreMembers(a) /\ AreMembers(b)
  BY <1>3, <1>5, <1>6, <1>7 DEF AreMembers
<1>9. \A k \in DOMAIN a : /\ a[k].output_digest = b[collected[k]].output_digest
                          /\ a[k].score = b[collected[k]].score
                          /\ ModelOf(a[k]) = ModelOf(b[collected[k]])
  BY <1>2, <1>3, <1>5, <1>6
<1> QED
  BY <1>1, <1>3, <1>8, <1>9 DEF Permuted, a, b

\* A list of names travels as it is when all of them are there.
LEMMA NamesArrive ==
    ASSUME NEW X, NEW names \in Seq(X)
    PROVE  NullNames(names) = names <=> Undefined \notin ToSet(names)
<1>1. /\ names = [i \in DOMAIN names |-> names[i]]
      /\ DOMAIN NullNames(names) = DOMAIN names
      /\ \A i \in DOMAIN names : NullNames(names)[i] =
            IF names[i] = Undefined THEN "null" ELSE names[i]
      /\ NullNames(names) = [i \in DOMAIN names |-> NullNames(names)[i]]
  BY DEF NullNames
<1>2. Undefined # "null"
  BY SealedAssumption
<1>3. CASE Undefined \in ToSet(names)
  <2>1. PICK i \in DOMAIN names : names[i] = Undefined
    BY <1>3 DEF ToSet
  <2>2. NullNames(names)[i] # names[i]
    BY <1>1, <1>2, <2>1
  <2> QED
    BY <1>3, <2>2
<1>4. CASE Undefined \notin ToSet(names)
  <2>1. \A i \in DOMAIN names : NullNames(names)[i] = names[i]
    BY <1>1, <1>4 DEF ToSet
  <2>2. [i \in DOMAIN names |-> NullNames(names)[i]] = [i \in DOMAIN names |-> names[i]]
    BY <2>1
  <2> QED
    BY <1>1, <1>4, <2>2
<1> QED
  BY <1>3, <1>4

\* Who gave the answer d, by the names in the tally.
LEMMA TallyNames ==
    ASSUME NEW members, AreMembers(members), NEW d \in Answers(members)
    PROVE  /\ IsList(Tally(members)[d].models)
           /\ ToSet(Tally(members)[d].models) = {ModelOf(members[i]) : i \in For(members, d)}
<1> DEFINE names == [i \in DOMAIN members |-> ModelOf(members[i])]
           P == For(members, d)
           X == ToSet(names)
<1>1. DOMAIN members = 1 .. Len(members) /\ Len(members) \in Nat
  <2>1. members \in Seq(ToSet(members))
    BY DEF AreMembers, IsList
  <2> QED
    BY <2>1
<1>2. /\ DOMAIN names = 1 .. Len(members) /\ P \in SUBSET DOMAIN names
      /\ names = [i \in 1 .. Len(members) |-> names[i]]
      /\ \A i \in DOMAIN names : names[i] = ModelOf(members[i])
  BY <1>1 DEF For
<1>3. Tally(members)[d].models = Sorted(Kept(names, P))
  BY DEF Tally, Answers, For
<1> HIDE DEF names, P
<1>4. names \in Seq(X)
  <2>1. \A i \in DOMAIN names : names[i] \in X
    BY DEF ToSet
  <2> HIDE DEF X
  <2> QED
    BY <1>1, <1>2, <2>1
<1> HIDE DEF X
<1>5. Kept(names, P) \in Seq(X) /\ ToSet(Kept(names, P)) = {names[i] : i \in P}
  BY <1>2, <1>4, KeptIs
<1>6. /\ Sorted(Kept(names, P)) \in Seq(X)
      /\ ToSet(Sorted(Kept(names, P))) = {names[i] : i \in P}
  BY <1>5, SortedKeeps
<1>7. {names[i] : i \in P} = {ModelOf(members[i]) : i \in P}
  BY <1>2
<1>8. IsList(Sorted(Kept(names, P)))
  BY <1>6, ListsOf
<1> QED
  BY <1>3, <1>6, <1>7, <1>8 DEF P

\* A decision travels as it is when every member gave its name.
LEMMA DecisionTravels ==
    ASSUME NEW members, AreMembers(members), members # <<>>, NEW method, NEW params,
           verdict.decision = ComputeConsensus(members, method, params)
    PROVE  /\ DecisionArrived = verdict.decision
                 <=> \A i \in DOMAIN members : ModelOf(members[i]) # Undefined
           /\ DecisionArrived.method = verdict.decision.method
           /\ DecisionArrived.params = verdict.decision.params
<1> DEFINE D == verdict.decision
           t == Tally(members)
           m == MethodOf(method)
           decided == DecidedOf(m, members, params)
           w == WinnerOf(m, decided, members, params)
           n == Len(members)
           E == DecisionArrived
<1>1. D = [method |-> m, member_count |-> n, tally |-> t, decided |-> decided,
           params |-> params, winner |-> w]
  BY ComputedIs, Zenon
<1>2. E = [method |-> m, member_count |-> n, tally |-> TallyArrived(t), decided |-> decided,
           params |-> params, winner |-> WinnerArrived(w)]
  <2>1. E = [D EXCEPT !.tally = TallyArrived(@), !.winner = WinnerArrived(@)]
    BY Zenon DEF DecisionArrived
  <2>2. /\ DOMAIN D = {"method", "member_count", "tally", "decided", "params", "winner"}
        /\ D.tally = t /\ D.winner = w
    <3> HIDE DEF D, t, m, decided, w, n
    <3> QED
      BY <1>1
  <2>3. E = [f \in DOMAIN D |-> IF f = "tally" THEN TallyArrived(t)
                                ELSE IF f = "winner" THEN WinnerArrived(w) ELSE D[f]]
    <3> HIDE DEF D, E, t, m, decided, w, n
    <3> QED
      BY <2>1, <2>2
  <2> HIDE DEF D, E, t, m, decided, w, n
  <2> QED
    BY <1>1, <2>2, <2>3
<1>3. /\ E = D <=> TallyArrived(t) = t /\ WinnerArrived(w) = w
      /\ E.method = D.method /\ E.params = D.params
  <2> HIDE DEF D, E, t, m, decided, w, n
  <2> QED
    BY <1>1, <1>2
<1> HIDE DEF D, E
<1>4. /\ DOMAIN t = Answers(members) /\ t = [d \in DOMAIN t |-> t[d]]
      /\ \A d \in DOMAIN t : DOMAIN t[d] = {"votes", "weight", "models"}
      /\ \A d \in DOMAIN t : t[d] = [f \in {"votes", "weight", "models"} |-> t[d][f]]
  BY DEF Tally, Answers
<1>5. \A d \in DOMAIN t : /\ IsList(t[d].models)
                          /\ ToSet(t[d].models) = {ModelOf(members[i]) : i \in For(members, d)}
  BY <1>4, TallyNames
<1> HIDE DEF t
<1>6. ASSUME \A i \in DOMAIN members : ModelOf(members[i]) # Undefined
      PROVE  E = D
  <2>1. \A d \in DOMAIN t : NullNames(t[d].models) = t[d].models
    <3>1. \A d \in DOMAIN t : Undefined \notin ToSet(t[d].models)
      BY <1>5, <1>6 DEF For
    <3> QED
      BY <1>5, <3>1, NamesArrive DEF IsList
  <2>2. \A d \in DOMAIN t : [t[d] EXCEPT !.models = NullNames(@)] = t[d]
    BY <1>4, <2>1
  <2>3. TallyArrived(t) = t
    BY <1>4, <2>2 DEF TallyArrived
  <2>4. WinnerArrived(w) = w
    <3>1. SUFFICES ASSUME "models" \in DOMAIN w PROVE [w EXCEPT !.models = NullNames(@)] = w
      BY DEF WinnerArrived
    <3>2. \E d \in DOMAIN t : w = AnswerOf(members, d)
      <4>1. Heaviest(t) \in DOMAIN t /\ MostVoted(t) \in DOMAIN t
        BY <1>4, HeaviestIs, TopIs DEF t
      <4> DEFINE j == [output_digest |-> members[Min(Picked(members, params))].output_digest,
                       model_id |-> params.judge_pick]
      <4>2. \/ w = <<>> \/ w = j
            \/ w = AnswerOf(members, Heaviest(t)) \/ w = AnswerOf(members, MostVoted(t))
        <5> HIDE DEF decided, m
        <5> QED
          BY Zenon DEF WinnerOf, t
      <4>3. "models" \notin DOMAIN j
        OBVIOUS
      <4>4. "models" \notin DOMAIN <<>>
        OBVIOUS
      <4> HIDE DEF w, j
      <4>5. w # <<>> /\ w # j
        BY <3>1, <4>3, <4>4
      <4> QED
        BY <4>1, <4>2, <4>5
    <3> HIDE DEF w
    <3>3. PICK d \in DOMAIN t : w = AnswerOf(members, d)
      BY <3>2
    <3>4. w = [output_digest |-> d, models |-> t[d].models]
      BY <3>3 DEF AnswerOf, t
    <3> QED
      BY <2>1, <3>4
  <2> QED
    BY <1>3, <2>3, <2>4
<1>7. ASSUME NEW i \in DOMAIN members, ModelOf(members[i]) = Undefined
      PROVE  E # D
  <2> DEFINE d == members[i].output_digest
  <2>1. d \in DOMAIN t /\ i \in For(members, d)
    BY <1>4 DEF Answers, For
  <2> HIDE DEF d
  <2>2. Undefined \in ToSet(t[d].models)
    BY <1>5, <1>7, <2>1
  <2>3. NullNames(t[d].models) # t[d].models
    BY <1>5, <2>1, <2>2, NamesArrive DEF IsList
  <2>4. TallyArrived(t)[d].models = NullNames(t[d].models)
    BY <1>4, <2>1 DEF TallyArrived
  <2>5. TallyArrived(t) # t
    BY <2>3, <2>4
  <2> QED
    BY <1>3, <2>5
<1> QED
  BY <1>3, <1>6, <1>7 DEF D, E

\* Who has all sub-receipts confirms the verdict in whichever order they came, but
\* for members without a name and for a judge's pick of a model asked twice.
THEOREM OrderFreeVerdicts == ConsensusSpec => []VerdictIsOrderFree
<1>1. ConsensusHolds => VerdictIsOrderFree
  <2> SUFFICES ASSUME ConsensusHolds, AllCollected, Honest PROVE VerdictIsOrderFree
    BY DEF VerdictIsOrderFree
  <2> DEFINE a == MembersOf(Collected)
             b == MembersOf(Subs)
             n == Len(panel)
             c == collected
  <2>1. Permuted(a, b, c)
    BY CollectedPermuted
  <2>2. /\ n \in Nat /\ DOMAIN panel = 1 .. n /\ DOMAIN c = 1 .. n /\ Len(c) = n
        /\ DOMAIN Subs = 1 .. n /\ DOMAIN Collected = 1 .. n
        /\ Len(Subs) = n /\ Len(Collected) = n
        /\ \A k \in 1 .. n :
            /\ panel[k] \in Member /\ c[k] \in 1 .. n
            /\ Subs[k].member = Record(panel[k])
            /\ Collected[k].member = Wire(Record(panel[c[k]]))
            /\ Collected[k].payload_digest = <<"sub_receipt", Record(panel[c[k]])>>
            /\ Subs[k].payload_digest = <<"sub_receipt", Record(panel[k])>>
    <3>1. Len(c) = n
      BY CollectedPermutes
    <3>2. DOMAIN panel = 1 .. n /\ DOMAIN c = 1 .. Len(c)
      BY DEF ConsensusHolds
    <3> QED
      BY <3>1, <3>2, CollectedIs
  <2>3. \A k \in 1 .. n : /\ a[k] = Wire(Record(panel[c[k]])) /\ b[k] = Record(panel[k])
                          /\ ModelOf(a[k]) = panel[c[k]].model_id
                          /\ ModelOf(b[k]) = panel[k].model_id
    <3>1. \A k \in 1 .. n : a[k] = Wire(Record(panel[c[k]])) /\ b[k] = Record(panel[k])
      BY <2>2 DEF MembersOf
    <3> HIDE DEF a, b
    <3> QED
      BY <2>2, <3>1, TravelledRecord
  <2>4. DOMAIN a = 1 .. n /\ DOMAIN b = 1 .. n
    BY <2>2 DEF MembersOf
  <2>5. PICK method, params : verdict = SignConsensus(Subs, method, params)
    BY DEF ConsensusHolds, Honest
  <2> DEFINE D == ComputeConsensus(b, method, params)
             A == DecisionArrived
             root == MerkleRoot(SubDigests(Subs))
  <2>6. /\ verdict.decision = D
        /\ verdictShown.base = [panel_root |-> root, member_count |-> n, decision_digest |-> D]
        /\ verdictShown.payload_digest = <<verdictShown.base, <<root, D>>>>
        /\ verdictShown.envelope_signature = <<verdictShown.base, <<root, D>>>>
        /\ verdictShown.decision = A
    BY <2>2, <2>5, SignConsensusIs DEF ConsensusHolds, Honest
  <2>7. MerkleRoot(SubDigests(Collected)) = root
    <3> DEFINE d == DigestsOf(Collected)
               e == DigestsOf(Subs)
               X == ToSet(d) \cup ToSet(e)
    <3>1. /\ d = [k \in 1 .. n |-> Collected[k].payload_digest] /\ DOMAIN d = 1 .. n
          /\ e = [k \in 1 .. n |-> Subs[k].payload_digest] /\ DOMAIN e = 1 .. n
      BY <2>2 DEF DigestsOf
    <3>2. \A k \in 1 .. n : e[c[k]] = d[k]
      <4>1. \A k \in 1 .. n : d[k] = <<"sub_receipt", Record(panel[c[k]])>>
        BY <2>2, <3>1
      <4>2. \A k \in 1 .. n : e[k] = <<"sub_receipt", Record(panel[k])>>
        BY <2>2, <3>1
      <4> HIDE DEF d, e, c, n
      <4> QED
        BY <2>2, <4>1, <4>2
    <3> HIDE DEF d, e
    <3>3. d = [k \in 1 .. n |-> d[k]] /\ e = [k \in 1 .. n |-> e[k]]
      BY <3>1
    <3>4. /\ \A k \in 1 .. n : d[k] \in X
          /\ \A k \in 1 .. n : e[k] \in X
      BY <3>1 DEF ToSet
    <3> HIDE DEF X
    <3>5. d \in Seq(X) /\ e \in Seq(X)
      BY <2>2, <3>3, <3>4
    <3>6. c \in Bijection(DOMAIN d, DOMAIN e)
      BY <3>1, CollectedPermutes
    <3>7. \A k \in DOMAIN d : e[c[k]] = d[k]
      BY <3>1, <3>2
    <3>8. ToBag(d) = ToBag(e)
      BY <3>5, <3>6, <3>7, PermutedBag
    <3> QED
      BY <2>2, <3>8, RootOfSubs DEF d, e
  <2>8. VerifyConsensus(verdictShown, Collected)
            <=> D = ComputeConsensus(a, A.method, A.params) /\ D = A
    <3>1. /\ verdictShown.base.panel_root = root
          /\ verdictShown.base.member_count = n
          /\ verdictShown.base.decision_digest = D
      <4> HIDE DEF D, root, n
      <4> QED
        BY <2>6
    <3> HIDE DEF D, A, root, n, a
    <3> QED
      BY <2>2, <2>6, <2>7, <3>1 DEF VerifyConsensus, Canonicalize, SealHolds, a
  <2>9. AreMembers(b) /\ b # <<>>
    <3>1. verdict # <<>> /\ panel # <<>>
      BY DEF ConsensusHolds, Honest
    <3>2. n # 0
      BY <3>1 DEF ConsensusHolds
    <3>3. b # <<>>
      <4>1. 1 \in DOMAIN b
        BY <2>2, <2>4, <3>2
      <4> HIDE DEF b
      <4> QED
        BY <4>1
    <3> QED
      BY <3>3, PanelMembers
  <2>10. /\ A = D <=> \A i \in DOMAIN b : ModelOf(b[i]) # Undefined
         /\ A.method = D.method /\ A.params = D.params
    <3> HIDE DEF a, b
    <3>1. verdict.decision = ComputeConsensus(b, method, params)
      BY <2>6
    <3>2. /\ DecisionArrived = verdict.decision
                 <=> \A i \in DOMAIN b : ModelOf(b[i]) # Undefined
          /\ DecisionArrived.method = verdict.decision.method
          /\ DecisionArrived.params = verdict.decision.params
      BY <2>9, <3>1, DecisionTravels
    <3> QED
      BY <2>6, <3>2
  <2>11. D.params = params
    <3>1. D = [method |-> MethodOf(method), member_count |-> Len(b), tally |-> Tally(b),
               decided |-> DecidedOf(MethodOf(method), b, params), params |-> params,
               winner |-> WinnerOf(MethodOf(method),
                                   DecidedOf(MethodOf(method), b, params), b, params)]
      BY ComputedIs, Zenon
    <3> HIDE DEF D
    <3> QED
      BY <3>1
  <2>12. ComputeConsensus(a, D.method, D.params) = D
            <=> (D.method = "judge" /\ D.decided =>
                    D.winner.output_digest = a[Min(Picked(a, params))].output_digest)
    <3> HIDE DEF a, b, c
    <3> QED
      BY <2>1, PermutedDecision
  <2>13. /\ Picked(a, params) = {k \in DOMAIN collected :
                                    panel[collected[k]].model_id = params.judge_pick}
    <3> HIDE DEF a
    <3> QED
      BY <2>2, <2>3, <2>4 DEF Picked
  <2>14. ASSUME D.method = "judge", D.decided
         PROVE  Min(Picked(a, params)) \in 1 .. n
    <3>1. Picked(a, params) # {}
      <4>1. Picked(b, params) # {}
        <5>1. D.method = MethodOf(method)
              /\ D.decided = DecidedOf(MethodOf(method), b, params)
          <6>1. D = [method |-> MethodOf(method), member_count |-> Len(b), tally |-> Tally(b),
                     decided |-> DecidedOf(MethodOf(method), b, params), params |-> params,
                     winner |-> WinnerOf(MethodOf(method),
                                   DecidedOf(MethodOf(method), b, params), b, params)]
            BY ComputedIs, Zenon
          <6> HIDE DEF D
          <6> QED
            BY <6>1
        <5> HIDE DEF D, b
        <5> QED
          BY <2>14, <5>1 DEF DecidedOf
      <4>2. \A j \in DOMAIN b : \E k \in DOMAIN a : c[k] = j
        BY <2>1 DEF Permuted, Bijection, Surjection
      <4>3. \A k \in DOMAIN a : ModelOf(a[k]) = ModelOf(b[c[k]])
        BY <2>1 DEF Permuted
      <4> HIDE DEF a, b, c
      <4> QED
        BY <4>1, <4>2, <4>3 DEF Picked
    <3> DEFINE S == Picked(a, params)
    <3>2. S \subseteq 1 .. n
      BY <2>4 DEF Picked
    <3> HIDE DEF S
    <3>3. \E k \in S : \A j \in S : k <= j
      <4>1. S \in SUBSET Nat /\ S # {}
        BY <2>2, <3>1, <3>2 DEF S
      <4> QED
        BY <4>1, LeastNat
    <3>4. Min(S) \in S
      BY <3>3 DEF Min
    <3> QED
      BY <3>2, <3>4 DEF S
  <2>15. VerifyConsensus(verdictShown, Collected)
            <=> /\ \A i \in DOMAIN panel : panel[i].model_id # Undefined
                /\ verdict.decision.method = "judge" /\ verdict.decision.decided =>
                        verdict.decision.winner.output_digest
                            = Collected[Min({k \in DOMAIN collected :
                                  panel[collected[k]].model_id
                                      = verdict.decision.params.judge_pick})]
                              .member.output_digest
    <3>1. (\A i \in DOMAIN b : ModelOf(b[i]) # Undefined)
             <=> \A i \in DOMAIN panel : panel[i].model_id # Undefined
      <4>1. DOMAIN b = 1 .. n /\ DOMAIN panel = 1 .. n
            /\ \A k \in 1 .. n : ModelOf(b[k]) = panel[k].model_id
        BY <2>2, <2>3, <2>4
      <4> HIDE DEF b, n
      <4> QED
        BY <4>1
    <3>2. Collected[Min(Picked(a, params))].member = a[Min(Picked(a, params))]
             \/ ~ (D.method = "judge" /\ D.decided)
      BY <2>2, <2>14 DEF MembersOf
    <3> HIDE DEF a, b, D, A
    <3> QED
      BY <2>6, <2>8, <2>10, <2>11, <2>12, <2>13, <3>1, <3>2
  <2>16. ASSUME NEW k \in DOMAIN collected
         PROVE  VerifySubReceipt(Collected[k]) <=>
                   Undefined \notin {panel[collected[k]].panel_id, panel[collected[k]].model_id}
    <3> DEFINE r == Record(panel[c[k]])
               e == Collected[k]
    <3>1. /\ e.member = Wire(r) /\ e.member_digest = r
          /\ e.payload_digest = <<"sub_receipt", r>>
          /\ e.envelope_signature = <<"sub_receipt", r>>
      <4>1. /\ e = [Subs[c[k]] EXCEPT !.member = Wire(@)]
            /\ Subs[c[k]] = SignSubReceipt(panel[c[k]])
        BY <2>2 DEF Collected, Subs
      <4> HIDE DEF e
      <4> QED
        BY <4>1, SubReceiptIs
    <3>2. Wire(r) = r <=> Undefined \notin {panel[c[k]].panel_id, panel[c[k]].model_id}
      <4>1. panel[c[k]] \in Member
        BY <2>2
      <4> QED
        BY <4>1, TravelledRecord
    <3> HIDE DEF e, r
    <3>3. VerifySubReceipt(e) <=> Wire(r) = r
      BY <3>1 DEF VerifySubReceipt, SealHolds, Canonicalize
    <3> QED
      BY <3>2, <3>3 DEF e
  <2> QED
    BY <2>15, <2>16 DEF VerdictIsOrderFree
<1> QED
  BY <1>1, ConsensusInvariant, PTL

================================================================================
