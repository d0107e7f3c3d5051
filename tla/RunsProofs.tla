------------------------------ MODULE RunsProofs ------------------------------
(***************************************************************************)
(* What is sealed of what an agent did: the fragments it wrote, the steps  *)
(* of a run as a graph, and a run whose actions are gated by scopes.       *)
(***************************************************************************)
EXTENDS Typed, AgenticRun, SealedProofs

--------------------------------------------------------------------------------
(* Typed.                                                                      *)

IsSigned(e, list, types, mode, suite, temporal) ==
    LET root == AggRoot(mode, suite, Sorted(OfTypes(list, types)))
        policy == <<suite, types>>
    IN  /\ e.hash_suite = suite /\ e.agg_mode = mode /\ e.agg_root = root
        /\ e.policy_digest = policy /\ e.temporal = temporal
        /\ "signature" \in DOMAIN e
        /\ e.signature = TypedPayload(suite, root, policy, temporal)
        /\ AttestedIds(e) =
              {list[i].fragment_id : i \in {j \in DOMAIN list : list[j].fragment_type \in types}}

LEMMA SignTypedSigns ==
    \A list, types, mode, suite, temporal :
        IsSigned(SignTyped(list, types, mode, suite, temporal), list, types, mode, suite, temporal)
<1> SUFFICES ASSUME NEW list, NEW types, NEW mode, NEW suite, NEW temporal
             PROVE  IsSigned(SignTyped(list, types, mode, suite, temporal), list, types, mode,
                             suite, temporal)
  OBVIOUS
<1> DEFINE e == SignTyped(list, types, mode, suite, temporal)
           root == AggRoot(mode, suite, Sorted(OfTypes(list, types)))
           marks == [i \in DOMAIN list |-> [fragment_id |-> list[i].fragment_id,
                                            attested |-> list[i].fragment_type \in types]]
<1> HIDE DEF root, marks
<1>1. /\ e.hash_suite = suite /\ e.agg_mode = mode /\ e.agg_root = root
      /\ e.policy_digest = <<suite, types>> /\ e.temporal = temporal
      /\ e.signature = TypedPayload(suite, root, <<suite, types>>, temporal)
      /\ e.fragments = marks /\ "signature" \in DOMAIN e
  BY DEF SignTyped, root, marks
<1> HIDE DEF e
<1>2. /\ DOMAIN marks = DOMAIN list
      /\ \A i \in DOMAIN list : /\ marks[i].fragment_id = list[i].fragment_id
                                /\ marks[i].attested <=> list[i].fragment_type \in types
  BY DEF marks
<1>3. AttestedIds(e) =
          {list[i].fragment_id : i \in {j \in DOMAIN list : list[j].fragment_type \in types}}
  BY <1>1, <1>2 DEF AttestedIds
<1> QED
  BY <1>1, <1>3 DEF IsSigned, root, e

\* What was signed, and what a verifier is brought of it.
TypedHolds ==
    /\ brought # <<>> => typed # <<>>
    /\ typed # <<>> =>
          /\ IsList(canon)
          /\ \E types, mode, suite, temporal :
                IsSigned(typed, canon, types, mode, suite, temporal)
    /\ brought # <<>> => /\ IsList(brought.fragments)
                         /\ brought.envelope.signature = typed.signature

LEMMA BuildFragmentsLists ==
    \A items \in BoundedSeq(Item, MaxItems) : IsList(BuildFragments(items))
<1> SUFFICES ASSUME NEW items \in BoundedSeq(Item, MaxItems)
             PROVE  IsList(BuildFragments(items))
  OBVIOUS
<1>1. PICK n \in Nat : items \in [1 .. n -> Item]
  BY TypedAssumption DEF BoundedSeq, SeqOf
<1>2. DOMAIN BuildFragments(items) = 1 .. n
  BY <1>1 DEF BuildFragments
<1>3. BuildFragments(items) \in [1 .. n -> ToSet(BuildFragments(items))]
  BY <1>1, <1>2 DEF ToSet, BuildFragments
<1> QED
  BY <1>3 DEF IsList

LEMMA FragmentsAreLists ==
    ASSUME IsList(canon), NEW fragments \in FragmentsBrought
    PROVE  IsList(fragments)
<1> DEFINE C == ToSet(canon)
<1>1. canon \in Seq(C) /\ DOMAIN canon = 1 .. Len(canon) /\ Len(canon) \in Nat
  BY DEF IsList
<1>2. \A i \in DOMAIN canon : canon[i] \in C
  BY DEF ToSet
<1> HIDE DEF C
<1>3. CASE \E p \in [DOMAIN canon -> DOMAIN canon] :
              fragments = [i \in DOMAIN canon |-> canon[p[i]]]
  <2>1. fragments \in [1 .. Len(canon) -> C]
    BY <1>1, <1>2, <1>3
  <2>2. fragments \in Seq(C)
    BY <1>1, <2>1
  <2> QED
    BY <2>2, ListsOf
<1>4. CASE \E i \in DOMAIN canon : fragments = RemoveAt(canon, i)
  <2>1. PICK i \in 1 .. Len(canon) :
            fragments = SubSeq(canon, 1, i - 1) \o SubSeq(canon, i + 1, Len(canon))
    BY <1>1, <1>4 DEF RemoveAt
  <2>2. SubSeq(canon, 1, i - 1) \in Seq(C)
    BY <1>1
  <2>3. SubSeq(canon, i + 1, Len(canon)) \in Seq(C)
    BY <1>1
  <2>4. fragments \in Seq(C)
    BY <2>1, <2>2, <2>3
  <2> QED
    BY <2>4, ListsOf
<1>5. CASE \E i \in DOMAIN canon : fragments = Append(canon, canon[i])
  <2>1. fragments \in Seq(C)
    BY <1>1, <1>2, <1>5
  <2> QED
    BY <2>1, ListsOf
<1>6. CASE \E i \in DOMAIN canon, it \in Item :
              fragments = [canon EXCEPT ![i].text_hash = it.text]
  <2>1. DOMAIN fragments = 1 .. Len(canon) /\ fragments = [i \in 1 .. Len(canon) |-> fragments[i]]
    BY <1>1, <1>6
  <2>2. fragments \in [1 .. Len(canon) -> ToSet(fragments)]
    BY <2>1 DEF ToSet
  <2> QED
    BY <1>1, <2>2 DEF IsList
<1> QED
  BY <1>3, <1>4, <1>5, <1>6 DEF FragmentsBrought

LEMMA TypedInvariant == TypedSpec => []TypedHolds
<1>1. TypedInit => TypedHolds
  BY DEF TypedInit, TypedHolds
<1>2. TypedHolds /\ [TypedNext]_typedVars => TypedHolds'
  <2> SUFFICES ASSUME TypedHolds, [TypedNext]_typedVars PROVE TypedHolds'
    OBVIOUS
  <2>1. CASE SignText
    <3>1. PICK items \in BoundedSeq(Item, MaxItems), asked \in SignTypesAsked,
               mode \in {"linear", "merkle"}, suite \in Suite, temporal \in Time \cup {Undefined} :
             /\ canon' = BuildFragments(items)
             /\ typed' = SignTyped(BuildFragments(items), SignTypes(asked), mode, suite, temporal)
      BY <2>1, Zenon DEF SignText
    <3>2. IsList(canon')
      BY <3>1, BuildFragmentsLists, Zenon
    <3>3. IsSigned(typed', canon', SignTypes(asked), mode, suite, temporal)
      BY <3>1, SignTypedSigns, Zenon
    <3>4. brought = <<>> /\ brought' = <<>>
      BY <2>1 DEF SignText, TypedHolds
    <3> QED
      BY <3>2, <3>3, <3>4 DEF TypedHolds
  <2>2. CASE BringTyped
    <3>1. typed # <<>> /\ IsList(canon) /\ UNCHANGED <<typed, canon>>
      BY <2>2 DEF BringTyped, TypedHolds
    <3>2. CASE \E fragments \in FragmentsBrought :
                  brought' = [envelope |-> typed, fragments |-> fragments]
      <4>1. IsList(brought'.fragments) /\ brought'.envelope.signature = typed.signature
        BY <3>1, <3>2, FragmentsAreLists
      <4> QED
        BY <3>1, <4>1 DEF TypedHolds
    <3>3. CASE \E env \in EnvelopesBrought :
                  brought' = [envelope |-> env, fragments |-> canon]
      <4>1. PICK env \in EnvelopesBrought : brought' = [envelope |-> env, fragments |-> canon]
        BY <3>3
      <4>2. env.signature = typed.signature
        <5>1. "signature" \in DOMAIN typed
          BY <3>1 DEF TypedHolds, IsSigned
        <5> QED
          BY <5>1 DEF EnvelopesBrought
      <4>3. IsList(brought'.fragments) /\ brought'.envelope.signature = typed.signature
        BY <3>1, <4>1, <4>2
      <4> QED
        BY <3>1, <4>3 DEF TypedHolds
    <3> QED
      BY <2>2, <3>2, <3>3 DEF BringTyped
  <2>3. CASE UNCHANGED typedVars
    BY <2>3 DEF typedVars, TypedHolds, IsList
  <2> QED
    BY <2>1, <2>2, <2>3 DEF TypedNext
<1> QED
  BY <1>1, <1>2, PTL DEF TypedSpec

\* What the root says of what was attested.
LEMMA RootTells ==
    ASSUME NEW X, NEW d \in Seq(X), NEW e \in Seq(X), NEW mode, NEW suite, NEW mode2, NEW suite2,
           AggRoot(mode, suite, Sorted(d)) = AggRoot(mode2, suite2, Sorted(e))
    PROVE  /\ suite = suite2 /\ ToSet(d) = ToSet(e)
           /\ mode = "linear" => ToBag(d) = ToBag(e)
<1> DEFINE as == IF Len(Sorted(d)) = 2 THEN "linear" ELSE mode
<1>1. /\ suite = suite2
      /\ mode = "linear" => as # "merkle"
      /\ (IF as = "merkle" THEN MerkleRoot(Sorted(d)) ELSE Sorted(d))
            = (IF as = "merkle" THEN MerkleRoot(Sorted(e)) ELSE Sorted(e))
  BY DEF AggRoot
<1> HIDE DEF as
<1>2. CASE as = "merkle"
  <2>1. ToSet(d) = ToSet(e)
    BY <1>1, <1>2, SortedRootMembers
  <2> QED
    BY <1>1, <1>2, <2>1
<1>3. CASE as # "merkle"
  <2>1. Sorted(d) = Sorted(e)
    BY <1>1, <1>3
  <2>2. /\ ToBag(Sorted(d)) = ToBag(d) /\ ToBag(Sorted(e)) = ToBag(e)
        /\ ToSet(Sorted(d)) = ToSet(d) /\ ToSet(Sorted(e)) = ToSet(e)
    BY SortedKeeps
  <2> QED
    BY <1>1, <2>1, <2>2
<1> QED
  BY <1>2, <1>3

\* Of those that are kept: lists, and their members.
LEMMA AttestedKeeps ==
    ASSUME NEW X, NEW list \in Seq(X), NEW ids
    PROVE  /\ Attested(list, ids) \in Seq(X)
           /\ ToSet(Attested(list, ids)) = {f \in ToSet(list) : f.fragment_id \in ids}
<1> DEFINE places == {i \in DOMAIN list : list[i].fragment_id \in ids}
<1>1. /\ Kept(list, places) \in Seq(X)
      /\ ToSet(Kept(list, places)) = {list[i] : i \in places}
  BY KeptIs
<1>2. {list[i] : i \in places} = {f \in ToSet(list) : f.fragment_id \in ids}
  BY DEF ToSet
<1> QED
  BY <1>1, <1>2 DEF Attested

LEMMA OfTypesKeeps ==
    ASSUME NEW X, NEW list \in Seq(X), NEW types
    PROVE  /\ OfTypes(list, types) \in Seq(X)
           /\ ToSet(OfTypes(list, types)) = {f \in ToSet(list) : f.fragment_type \in types}
<1> DEFINE places == {i \in DOMAIN list : list[i].fragment_type \in types}
<1>1. /\ Kept(list, places) \in Seq(X)
      /\ ToSet(Kept(list, places)) = {list[i] : i \in places}
  BY KeptIs
<1>2. {list[i] : i \in places} = {f \in ToSet(list) : f.fragment_type \in types}
  BY DEF ToSet
<1> QED
  BY <1>1, <1>2 DEF OfTypes

\* One bag of fragments, of which those with the ids are those of the types: as many
\* are attested of one list as of the other.
LEMMA AttestedAsSigned ==
    ASSUME NEW X, NEW list \in Seq(X), NEW c \in Seq(X), ToBag(list) = ToBag(c),
           NEW ids, NEW types,
           \A f \in ToSet(c) : f.fragment_id \in ids <=> f.fragment_type \in types
    PROVE  ToBag(Attested(list, ids)) = ToBag(OfTypes(c, types))
<1> DEFINE M == {f \in ToSet(c) : f.fragment_id \in ids}
           p == {i \in DOMAIN list : list[i].fragment_id \in ids}
           q == {i \in DOMAIN c : c[i].fragment_type \in types}
<1>1. ToSet(list) = ToSet(c)
  BY BagTellsLength
<1>2. Selects(list, p, M)
  BY <1>1 DEF Selects, ToSet
<1>3. Selects(c, q, M)
  BY DEF Selects, ToSet
<1> HIDE DEF M, p, q
<1>4. ToBag(Kept(list, p)) = ToBag(Kept(c, q))
  BY <1>2, <1>3, KeptBags
<1> QED
  BY <1>4 DEF Attested, OfTypes, p, q

\* The verdict over what was signed, for any envelope and any list.
LEMMA VerdictIsRight ==
    ASSUME NEW X, NEW c \in Seq(X), NEW list \in Seq(X), NEW e, NEW env,
           NEW types, NEW mode, NEW suite, NEW temporal,
           IsSigned(e, c, types, mode, suite, temporal),
           env.signature = e.signature
    PROVE  LET had == Attested(list, AttestedIds(env))
               signed == OfTypes(c, types)
               ids == {f.fragment_id : f \in ToSet(signed)}
           IN  /\ VerifyTyped(env, list) =>
                     /\ ToSet(had) = ToSet(signed)
                     /\ mode = "linear" => ToBag(had) = ToBag(signed)
                     /\ env.temporal = temporal
               /\ env = e /\ ToBag(list) = ToBag(c) =>
                     (VerifyTyped(e, list)
                         <=> \A f \in ToSet(c) : f.fragment_id \in ids => f.fragment_type \in types)
<1> DEFINE had == Attested(list, AttestedIds(env))
           signed == OfTypes(c, types)
           ids == {f.fragment_id : f \in ToSet(signed)}
           root == AggRoot(mode, suite, Sorted(signed))
<1>1. had \in Seq(X) /\ signed \in Seq(X)
  BY AttestedKeeps, OfTypesKeeps
<1>2. /\ e.hash_suite = suite /\ e.agg_mode = mode /\ e.agg_root = root
      /\ e.policy_digest = <<suite, types>> /\ e.temporal = temporal
      /\ e.signature = TypedPayload(suite, root, <<suite, types>>, temporal)
      /\ AttestedIds(e) = {c[i].fragment_id : i \in {j \in DOMAIN c : c[j].fragment_type \in types}}
  BY DEF IsSigned
<1>3. /\ ToSet(had) = {f \in ToSet(list) : f.fragment_id \in AttestedIds(env)}
      /\ ToSet(signed) = {f \in ToSet(c) : f.fragment_type \in types}
  BY AttestedKeeps, OfTypesKeeps
<1>4. AttestedIds(e) = ids
  BY <1>2, <1>3 DEF ToSet
<1>5. VerifyTyped(env, list) <=>
        /\ AggRoot(env.agg_mode, env.hash_suite, Sorted(had)) = env.agg_root
        /\ env.signature = TypedPayload(env.hash_suite,
                              AggRoot(env.agg_mode, env.hash_suite, Sorted(had)),
                              env.policy_digest, env.temporal)
  BY DEF VerifyTyped
<1> HIDE DEF had, signed
<1>6. ASSUME VerifyTyped(env, list)
      PROVE  /\ ToSet(had) = ToSet(signed)
             /\ mode = "linear" => ToBag(had) = ToBag(signed)
             /\ env.temporal = temporal
  <2> DEFINE root2 == AggRoot(env.agg_mode, env.hash_suite, Sorted(had))
             policy == <<suite, types>>
  <2>0. TypedPayload(suite, root, policy, temporal)
            = TypedPayload(env.hash_suite, root2, env.policy_digest, env.temporal)
    <3> HIDE DEF root, root2
    <3> QED
      BY <1>2, <1>5, <1>6 DEF root2
  <2>1. root = root2 /\ temporal = env.temporal
    <3> HIDE DEF root, root2, policy
    <3> QED
      BY <2>0 DEF TypedPayload
  <2>2. /\ AggRoot(mode, suite, Sorted(signed))
              = AggRoot(env.agg_mode, env.hash_suite, Sorted(had))
        /\ temporal = env.temporal
    BY <2>1
  <2>3. /\ ToSet(signed) = ToSet(had)
        /\ mode = "linear" => ToBag(signed) = ToBag(had)
    BY <1>1, <2>2, RootTells
  <2> QED
    BY <2>2, <2>3
<1>7. ASSUME env = e, ToBag(list) = ToBag(c)
      PROVE  VerifyTyped(e, list)
                <=> \A f \in ToSet(c) : f.fragment_id \in ids => f.fragment_type \in types
  <2>1. VerifyTyped(e, list) <=> AggRoot(mode, suite, Sorted(had)) = root
    <3> HIDE DEF root
    <3> QED
      BY <1>2, <1>5, <1>7
  <2>2. ToSet(list) = ToSet(c)
    BY <1>7, BagTellsLength
  <2>3. ASSUME VerifyTyped(e, list), NEW f \in ToSet(c), f.fragment_id \in ids
        PROVE  f.fragment_type \in types
    <3>1. ToSet(had) = ToSet(signed)
      BY <1>6, <1>7, <2>3
    <3>2. f \in ToSet(had)
      BY <1>3, <1>4, <1>7, <2>2, <2>3
    <3> QED
      BY <1>3, <3>1, <3>2
  <2>4. ASSUME \A f \in ToSet(c) : f.fragment_id \in ids => f.fragment_type \in types
        PROVE  VerifyTyped(e, list)
    <3>1. \A f \in ToSet(c) : f.fragment_id \in ids <=> f.fragment_type \in types
      BY <1>3, <2>4
    <3> HIDE DEF ids
    <3>2. ToBag(Attested(list, ids)) = ToBag(signed)
      BY <1>7, <3>1, AttestedAsSigned DEF signed
    <3>3. ToBag(had) = ToBag(signed)
      BY <1>4, <1>7, <3>2 DEF had
    <3>4. Sorted(had) = Sorted(signed)
      BY <1>1, <3>3, SortedOfBag
    <3> QED
      BY <2>1, <3>4
  <2> QED
    BY <2>3, <2>4
<1> QED
  BY <1>6, <1>7 DEF had, signed

\* Whoever accepts has what was signed, and accepts it in any order unless a fragment
\* that was not attested goes by the name of one that was.
THEOREM TypedVerdicts == TypedSpec => []TypedVerdictIsRight
<1>1. TypedHolds => TypedVerdictIsRight
  <2> SUFFICES ASSUME TypedHolds, brought # <<>> PROVE TypedVerdictIsRight
    BY DEF TypedVerdictIsRight
  <2>1. PICK types, mode, suite, temporal :
            IsSigned(typed, canon, types, mode, suite, temporal)
    BY DEF TypedHolds
  <2>2. /\ IsList(canon) /\ IsList(brought.fragments)
        /\ brought.envelope.signature = typed.signature
    BY DEF TypedHolds
  <2> DEFINE X == ToSet(canon) \cup ToSet(brought.fragments)
             list == brought.fragments
             env == brought.envelope
             e == typed
             c == canon
  <2>3. c \in Seq(X) /\ list \in Seq(X)
    BY <2>2, ListIn
  <2> HIDE DEF X, list, env, e, c
  <2>4. LET had == Attested(list, AttestedIds(env))
            signed == OfTypes(c, types)
            ids == {f.fragment_id : f \in ToSet(signed)}
        IN  /\ VerifyTyped(env, list) =>
                  /\ ToSet(had) = ToSet(signed)
                  /\ mode = "linear" => ToBag(had) = ToBag(signed)
                  /\ env.temporal = temporal
            /\ env = e /\ ToBag(list) = ToBag(c) =>
                  (VerifyTyped(e, list)
                      <=> \A f \in ToSet(c) : f.fragment_id \in ids => f.fragment_type \in types)
    <3>1. IsSigned(e, c, types, mode, suite, temporal) /\ env.signature = e.signature
      BY <2>1, <2>2 DEF env, e, c
    <3> QED
      BY <2>3, <3>1, VerdictIsRight
  <2>5. typed.policy_digest[2] = types /\ typed.agg_mode = mode /\ typed.temporal = temporal
    BY <2>1 DEF IsSigned
  <2> QED
    BY <2>4, <2>5 DEF TypedVerdictIsRight, IsAttested, env, e, c, list
<1> QED
  BY <1>1, TypedInvariant, PTL

--------------------------------------------------------------------------------
(* Chains: the queue.                                                          *)

QueueOf(list) ==
    CHOOSE queue : queue = [n \in 0 .. Len(list) |->
        IF n = 0 THEN Start(list) ELSE Advance(list, queue[n - 1])]

LEMMA TopoOrderIs == \A list : TopoOrder(list) = QueueOf(list)[Len(list)].order
BY DEF TopoOrder, QueueOf

LEMMA QueueIs ==
    ASSUME NEW list, Len(list) \in Nat
    PROVE  /\ QueueOf(list)[0] = Start(list)
           /\ \A n \in 1 .. Len(list) : QueueOf(list)[n] = Advance(list, QueueOf(list)[n - 1])
<1> DEFINE top == Len(list)
           Runs(f, n) == /\ f = [k \in 0 .. n |-> f[k]]
                         /\ f[0] = Start(list)
                         /\ \A k \in 1 .. n : f[k] = Advance(list, f[k - 1])
           S == {n \in Nat : \E f : Runs(f, n)}
           Step(f) == [n \in 0 .. top |->
                          IF n = 0 THEN Start(list) ELSE Advance(list, f[n - 1])]
<1>1. 0 \in S
  <2>1. Runs([k \in 0 .. 0 |-> Start(list)], 0)
    OBVIOUS
  <2> HIDE DEF Runs
  <2> QED
    BY <2>1
<1>2. ASSUME NEW n \in Nat, n \in S PROVE n + 1 \in S
  <2>1. PICK f : Runs(f, n)
    BY <1>2
  <2> DEFINE g == [k \in 0 .. n + 1 |-> IF k = n + 1 THEN Advance(list, f[n]) ELSE f[k]]
  <2>2. g = [k \in 0 .. n + 1 |-> g[k]] /\ g[0] = Start(list)
    BY <2>1
  <2>3. ASSUME NEW k \in 1 .. n + 1 PROVE g[k] = Advance(list, g[k - 1])
    <3>1. k \in 0 .. n + 1 /\ k - 1 \in 0 .. n + 1 /\ k - 1 # n + 1
      OBVIOUS
    <3>2. g[k - 1] = f[k - 1]
      BY <3>1
    <3>3. CASE k = n + 1
      BY <3>1, <3>2, <3>3
    <3>4. CASE k # n + 1
      <4>1. k \in 1 .. n /\ g[k] = f[k]
        BY <3>1, <3>4
      <4> HIDE DEF g
      <4> QED
        BY <4>1, <3>2, <2>1
    <3> QED
      BY <3>3, <3>4
  <2>4. Runs(g, n + 1)
    <3> HIDE DEF g
    <3> QED
      BY <2>2, <2>3
  <2> HIDE DEF Runs, g
  <2> QED
    BY <2>4
<1>3. top \in S
  <2> HIDE DEF S
  <2> QED
    BY <1>1, <1>2, Induct
<1>4. PICK f : Runs(f, top)
  BY <1>3
<1>5. f = Step(f)
  <2>1. ASSUME NEW n \in 0 .. top PROVE f[n] = Step(f)[n]
    <3>1. CASE n = 0
      BY <3>1, <1>4
    <3>2. CASE n # 0
      <4>1. n \in 1 .. top
        BY <3>2
      <4>2. f[n] = Advance(list, f[n - 1])
        BY <4>1, <1>4
      <4> QED
        BY <3>2, <4>2
    <3> QED
      BY <3>1, <3>2
  <2>2. f = [n \in 0 .. top |-> f[n]]
    BY <1>4
  <2> QED
    BY <2>1, <2>2
<1>6. QueueOf(list) = CHOOSE queue : queue = Step(queue)
  BY Zenon DEF QueueOf
<1>7. QueueOf(list) = Step(QueueOf(list))
  <2> HIDE DEF Step
  <2> QED
    BY <1>5, <1>6
<1> DEFINE queue == QueueOf(list)
<1> HIDE DEF queue
<1>8. queue = Step(queue)
  BY <1>7 DEF queue
<1>9. queue[0] = Start(list)
  BY <1>8
<1>10. ASSUME NEW n \in 1 .. top PROVE queue[n] = Advance(list, queue[n - 1])
  <2>1. n \in 0 .. top /\ n # 0
    OBVIOUS
  <2>2. queue[n] = Step(queue)[n]
    BY <1>8, Zenon
  <2> QED
    BY <2>1, <2>2
<1> QED
  BY <1>9, <1>10 DEF queue


--------------------------------------------------------------------------------

IsGraph(list) ==
    /\ IsList(list)
    /\ \A i \in DOMAIN list : /\ list[i].step_id \in Nat /\ list[i].seq \in Nat
                              /\ IsFiniteSet(list[i].parents)

IdsOf(list) == [i \in DOMAIN list |-> list[i].step_id]

LEMMA GraphIs ==
    ASSUME NEW list, IsGraph(list)
    PROVE  /\ Len(list) \in Nat /\ DOMAIN list = 1 .. Len(list)
           /\ Ids(list) \subseteq Nat /\ IsFiniteSet(Ids(list))
           /\ IdsOf(list) \in Seq(Ids(list)) /\ Len(IdsOf(list)) = Len(list)
           /\ ToSet(IdsOf(list)) = Ids(list)
           /\ \A c : EntriesOf(list, c) = PlacesOf(IdsOf(list), c)
<1>1. /\ Len(list) \in Nat /\ DOMAIN list = 1 .. Len(list)
      /\ Ids(list) \subseteq Nat
  BY DEF IsGraph, IsList, Ids
<1>2. IdsOf(list) \in Seq(Ids(list)) /\ Len(IdsOf(list)) = Len(list)
  BY <1>1 DEF IdsOf, Ids
<1>3. ToSet(IdsOf(list)) = Ids(list)
  BY <1>1 DEF IdsOf, Ids, ToSet
<1>4. IsFiniteSet(Ids(list))
  <2>1. IdsOf(list) \in [1 .. Len(list) -> Ids(list)]
    BY <1>1 DEF IdsOf, Ids
  <2>2. IdsOf(list) \in Surjection(1 .. Len(list), Ids(list))
    BY <1>1, <2>1 DEF Surjection, IdsOf, Ids
  <2>3. IsFiniteSet(1 .. Len(list))
    BY <1>1, FS_Interval
  <2> QED
    BY <2>2, <2>3, FS_Surjection
<1>5. ASSUME NEW c PROVE EntriesOf(list, c) = PlacesOf(IdsOf(list), c)
  BY DEF EntriesOf, PlacesOf, IdsOf
<1> QED
  BY <1>1, <1>2, <1>3, <1>4, <1>5

LEMMA EntriesAre ==
    ASSUME NEW list, IsGraph(list), NEW c
    PROVE  /\ EntriesOf(list, c) \subseteq DOMAIN list
           /\ IsFiniteSet(EntriesOf(list, c)) /\ Cardinality(EntriesOf(list, c)) \in Nat
           /\ c \in Ids(list) =>
                 /\ Cardinality(EntriesOf(list, c)) > 0
                 /\ LastPlace(list, c) \in EntriesOf(list, c)
                 /\ FirstPlace(list, c) \in EntriesOf(list, c)
                 /\ ById(list, c) \in ToSet(list) /\ ById(list, c).step_id = c
                 /\ ById(list, c).seq \in Nat /\ IsFiniteSet(ById(list, c).parents)
<1> DEFINE E == EntriesOf(list, c)
<1>1. /\ Len(list) \in Nat /\ DOMAIN list = 1 .. Len(list)
  BY GraphIs
<1>2. E \subseteq 1 .. Len(list)
  BY <1>1 DEF EntriesOf
<1>3. IsFiniteSet(E) /\ Cardinality(E) \in Nat
  <2>1. IsFiniteSet(1 .. Len(list))
    BY <1>1, FS_Interval
  <2> HIDE DEF E
  <2>2. IsFiniteSet(E)
    BY <1>2, <2>1, FS_Subset
  <2> QED
    BY <2>2, FS_CardinalityType
<1>4. ASSUME c \in Ids(list)
      PROVE  /\ Cardinality(E) > 0 /\ LastPlace(list, c) \in E /\ FirstPlace(list, c) \in E
  <2>1. E # {}
    BY <1>4 DEF Ids, EntriesOf
  <2>2. Cardinality(E) > 0
    <3>1. Cardinality(E) # 0
      BY <1>3, <2>1, FS_EmptySet
    <3> QED
      BY <1>3, <3>1
  <2>3. \E i \in E : \A j \in E : i <= j
    BY <1>2, <2>1, LeastNat
  <2>4. \E i \in E : \A j \in E : j <= i
    <3> DEFINE T == {Len(list) - i : i \in E}
    <3>1. T \in SUBSET Nat /\ T # {}
      BY <1>1, <1>2, <2>1
    <3>2. PICK n \in T : \A m \in T : n <= m
      <4> HIDE DEF T
      <4> QED
        BY <3>1, LeastNat
    <3>3. PICK i \in E : n = Len(list) - i
      OBVIOUS
    <3>4. ASSUME NEW j \in E PROVE j <= i
      <4>1. Len(list) - i <= Len(list) - j
        BY <3>2, <3>3
      <4> QED
        BY <4>1, <1>1, <1>2
    <3> QED
      BY <3>4
  <2> HIDE DEF E
  <2>5. LastPlace(list, c) \in E
    <3>1. LastPlace(list, c) = CHOOSE i \in E : \A j \in E : j <= i
      BY DEF LastPlace, E
    <3> QED
      BY <2>4, <3>1
  <2>6. FirstPlace(list, c) \in E
    <3>1. FirstPlace(list, c) = CHOOSE i \in E : \A j \in E : i <= j
      BY DEF FirstPlace, E
    <3> QED
      BY <2>3, <3>1
  <2> QED
    BY <2>2, <2>5, <2>6
<1>5. ASSUME c \in Ids(list)
      PROVE  /\ ById(list, c) \in ToSet(list) /\ ById(list, c).step_id = c
             /\ ById(list, c).seq \in Nat /\ IsFiniteSet(ById(list, c).parents)
  <2>1. LastPlace(list, c) \in DOMAIN list /\ list[LastPlace(list, c)].step_id = c
    BY <1>4, <1>5 DEF EntriesOf
  <2> QED
    BY <2>1 DEF ById, ToSet, IsGraph
<1> QED
  BY <1>1, <1>2, <1>3, <1>4, <1>5

LEMMA EdgesAre ==
    ASSUME NEW list, IsGraph(list), NEW c \in Ids(list)
    PROVE  /\ \A p : Edges(list, p, c) \in Nat
           /\ Indegree(list, c) \in Nat
<1>1. ASSUME NEW p PROVE Edges(list, p, c) \in Nat
  <2>1. {i \in EntriesOf(list, c) : p \in list[i].parents} \in SUBSET EntriesOf(list, c)
    OBVIOUS
  <2> QED
    BY <2>1, EntriesAre, FS_Subset, FS_CardinalityType DEF Edges
<1>2. Indegree(list, c) \in Nat
  <2> DEFINE s == [i \in DOMAIN list |->
                IF list[i].step_id = c THEN Cardinality(list[i].parents) ELSE 0]
  <2>1. \A i \in DOMAIN list : s[i] \in Nat
    BY FS_CardinalityType DEF IsGraph
  <2>2. s = [i \in 1 .. Len(list) |-> s[i]] /\ Len(list) \in Nat
    BY GraphIs
  <2>3. s \in Seq(Nat)
    <3> HIDE DEF s
    <3>1. \A i \in 1 .. Len(list) : s[i] \in Nat
      BY <2>1, GraphIs
    <3> QED
      BY <2>2, <3>1
  <2>4. Indegree(list, c) = TotalOf(s)
    BY DEF Indegree
  <2> HIDE DEF s
  <2> QED
    BY <2>3, <2>4, TotalOfNats
<1> QED
  BY <1>1, <1>2

\* What is taken is in the queue.
LEMMA HeadIs ==
    ASSUME NEW list, IsGraph(list), NEW q, q.ready \in [Ids(list) -> Nat],
           ~ \A c \in Ids(list) : q.ready[c] = 0
    PROVE  HeadOf(list, q) \in Ids(list) /\ q.ready[HeadOf(list, q)] > 0
<1> DEFINE waiting == {id \in Ids(list) : q.ready[id] > 0}
           seq(a) == ById(list, a).seq
           Before(a, b) == \/ q.resorted /\ seq(a) < seq(b)
                           \/ (q.resorted => seq(a) = seq(b)) /\ a < b
<1>1. waiting # {} /\ waiting \in SUBSET Nat
  BY GraphIs
<1>2. \A a \in waiting : seq(a) \in Nat
  BY EntriesAre
<1>3. HeadOf(list, q) = CHOOSE id \in waiting : \A other \in waiting \ {id} : Before(id, other)
  BY DEF HeadOf
<1>4. ASSUME ~ q.resorted PROVE \E id \in waiting : \A other \in waiting \ {id} : Before(id, other)
  <2> HIDE DEF waiting
  <2>1. PICK id \in waiting : \A other \in waiting : id <= other
    BY <1>1, LeastNat
  <2>2. ASSUME NEW other \in waiting \ {id} PROVE Before(id, other)
    <3>1. id \in Nat /\ other \in Nat /\ id <= other /\ id # other
      BY <1>1, <2>1, <2>2
    <3>2. id < other
      BY <3>1
    <3> QED
      BY <1>4, <3>2
  <2> QED
    BY <2>1, <2>2
<1>5. ASSUME q.resorted PROVE \E id \in waiting : \A other \in waiting \ {id} : Before(id, other)
  <2> DEFINE T == {seq(a) : a \in waiting}
  <2>1. T \in SUBSET Nat /\ T # {}
    BY <1>1, <1>2
  <2>2. PICK n \in T : \A m \in T : n <= m
    <3> HIDE DEF T
    <3> QED
      BY <2>1, LeastNat
  <2> DEFINE F == {a \in waiting : seq(a) = n}
  <2> HIDE DEF waiting
  <2>3. F # {} /\ F \in SUBSET Nat
    BY <1>1, <2>2
  <2>4. PICK id \in F : \A other \in F : id <= other
    <3> HIDE DEF F
    <3> QED
      BY <2>3, LeastNat
  <2>5. ASSUME NEW other \in waiting \ {id} PROVE Before(id, other)
    <3>1. n <= seq(other) /\ seq(id) = n /\ seq(other) \in Nat /\ n \in Nat
      BY <2>1, <2>2, <2>4, <1>2
    <3>2. CASE seq(other) = n
      <4>1. other \in F /\ id \in Nat /\ other \in Nat /\ id # other
        BY <3>2, <2>3, <2>4, <1>1, <2>5
      <4>2. id < other
        BY <4>1, <2>4
      <4> QED
        BY <3>1, <3>2, <4>2
    <3>3. CASE seq(other) # n
      BY <3>1, <3>3, <1>5
    <3> QED
      BY <3>2, <3>3
  <2> QED
    BY <2>4, <2>5
<1>6. HeadOf(list, q) \in waiting
  <2> HIDE DEF waiting, Before
  <2> QED
    BY <1>3, <1>4, <1>5
<1> QED
  BY <1>6

TakenOf(q, c) == Cardinality(PlacesOf(q.order, c))

\* A step waits for its parents, or it is in the queue or was taken, no more often than
\* it was reported.
FitsAt(list, q, c) ==
    \/ q.indegree[c] > 0 /\ TakenOf(q, c) = 0 /\ q.ready[c] = 0
    \/ q.indegree[c] <= 0 /\ TakenOf(q, c) + q.ready[c] \in 1 .. Cardinality(EntriesOf(list, c))

Fits(list, q) ==
    /\ q.order \in Seq(Ids(list))
    /\ q.ready \in [Ids(list) -> Nat]
    /\ q.indegree \in [Ids(list) -> Int]
    /\ \A c \in Ids(list) : FitsAt(list, q, c)

LEMMA StartFits ==
    ASSUME NEW list, IsGraph(list)
    PROVE  Fits(list, Start(list))
<1> DEFINE q == Start(list)
<1>1. q.order = <<>> /\ q.order \in Seq(Ids(list)) /\ DOMAIN q.order = {}
  BY DEF Start
<1>2. /\ \A c \in Ids(list) : q.indegree[c] = Indegree(list, c)
      /\ \A c \in Ids(list) :
            q.ready[c] = IF Indegree(list, c) = 0 THEN Cardinality(EntriesOf(list, c)) ELSE 0
      /\ q.ready = [c \in Ids(list) |-> q.ready[c]]
      /\ q.indegree = [c \in Ids(list) |-> q.indegree[c]]
  BY DEF Start
<1> HIDE DEF q
<1>3. \A c : TakenOf(q, c) = 0
  <2>1. \A c : PlacesOf(q.order, c) = {}
    BY <1>1 DEF PlacesOf
  <2> QED
    BY <2>1, FS_EmptySet DEF TakenOf
<1>4. ASSUME NEW c \in Ids(list)
      PROVE  q.ready[c] \in Nat /\ q.indegree[c] \in Int /\ FitsAt(list, q, c)
  <2>1. Indegree(list, c) \in Nat
    BY EdgesAre
  <2>2. Cardinality(EntriesOf(list, c)) \in Nat /\ Cardinality(EntriesOf(list, c)) > 0
    BY EntriesAre
  <2>3. q.indegree[c] = Indegree(list, c)
    BY <1>2
  <2>4. CASE Indegree(list, c) = 0
    BY <1>2, <1>3, <2>1, <2>2, <2>4 DEF FitsAt
  <2>5. CASE Indegree(list, c) # 0
    BY <1>2, <1>3, <2>1, <2>2, <2>5 DEF FitsAt
  <2> QED
    BY <2>4, <2>5
<1>5. q.ready \in [Ids(list) -> Nat] /\ q.indegree \in [Ids(list) -> Int]
  BY <1>2, <1>4
<1>6. Fits(list, q)
  BY <1>1, <1>4, <1>5 DEF Fits
<1> QED
  BY <1>6 DEF q

Takes(list, q, id, r) ==
    /\ r.order = Append(q.order, id)
    /\ r.ready = [c \in Ids(list) |-> r.ready[c]]
    /\ r.indegree = [c \in Ids(list) |-> r.indegree[c]]
    /\ \A c \in Ids(list) :
          /\ r.indegree[c] = q.indegree[c] - Edges(list, id, c)
          /\ r.ready[c] = q.ready[c] + (IF Freed(q.indegree[c], Edges(list, id, c)) THEN 1 ELSE 0)
                                     - (IF c = id THEN 1 ELSE 0)

LEMMA TakeIs == \A list, q : Takes(list, q, HeadOf(list, q), Take(list, q))
BY DEF Take, Takes

LEMMA TakeFits ==
    ASSUME NEW list, IsGraph(list), NEW q, Fits(list, q),
           ~ \A c \in Ids(list) : q.ready[c] = 0
    PROVE  /\ Fits(list, Take(list, q))
           /\ Len(Take(list, q).order) = Len(q.order) + 1
<1> DEFINE id == HeadOf(list, q)
           r == Take(list, q)
<1>1. id \in Ids(list) /\ q.ready[id] > 0
  BY HeadIs DEF Fits
<1>2. Takes(list, q, id, r)
  BY TakeIs
<1> HIDE DEF id, r
<1>3. r.order = Append(q.order, id)
  BY <1>2 DEF Takes
<1>4. ASSUME NEW c \in Ids(list)
      PROVE  /\ r.indegree[c] = q.indegree[c] - Edges(list, id, c)
             /\ r.ready[c] = q.ready[c]
                    + (IF Freed(q.indegree[c], Edges(list, id, c)) THEN 1 ELSE 0)
                    - (IF c = id THEN 1 ELSE 0)
  BY <1>2 DEF Takes
<1>5. r.order \in Seq(Ids(list)) /\ Len(r.order) = Len(q.order) + 1
  BY <1>1, <1>3, PlacesAppended DEF Fits
<1>6. ASSUME NEW c \in Ids(list)
      PROVE  r.ready[c] \in Nat /\ r.indegree[c] \in Int /\ FitsAt(list, r, c)
  <2> DEFINE e == Edges(list, id, c)
             n == Cardinality(EntriesOf(list, c))
             d == q.indegree[c]
             w == q.ready[c]
             t == TakenOf(q, c)
  <2>1. e \in Nat /\ n \in Nat /\ n > 0 /\ d \in Int /\ w \in Nat
    BY EdgesAre, EntriesAre DEF Fits
  <2>2. t \in Nat /\ TakenOf(r, c) = t + IF c = id THEN 1 ELSE 0
    BY <1>1, <1>3, PlacesAppended, BagOfList DEF Fits, TakenOf
  <2>3. \/ d > 0 /\ t = 0 /\ w = 0
        \/ d <= 0 /\ t + w \in 1 .. n
    BY DEF Fits, FitsAt
  <2>4. c = id => w > 0
    BY <1>1
  <2>5. r.indegree[c] = d - e
    BY <1>4
  <2>6. r.ready[c] = w + (IF d \in 1 .. e THEN 1 ELSE 0) - (IF c = id THEN 1 ELSE 0)
    BY <1>4 DEF Freed
  <2> HIDE DEF e, n, d, w, t
  <2>7. FitsAt(list, r, c) <=>
            \/ r.indegree[c] > 0 /\ TakenOf(r, c) = 0 /\ r.ready[c] = 0
            \/ r.indegree[c] <= 0 /\ TakenOf(r, c) + r.ready[c] \in 1 .. n
    BY DEF FitsAt, n
  <2>8. CASE d > 0 /\ d <= e
    <3>1. c # id /\ t = 0 /\ w = 0
      BY <2>1, <2>3, <2>4, <2>8
    <3>2. r.indegree[c] <= 0 /\ TakenOf(r, c) = 0 /\ r.ready[c] = 1 /\ d - e \in Int
      BY <2>1, <2>2, <2>5, <2>6, <2>8, <3>1
    <3> QED
      BY <2>1, <2>5, <2>7, <3>2
  <2>9. CASE d > 0 /\ ~ d <= e
    <3>1. c # id /\ t = 0 /\ w = 0
      BY <2>1, <2>3, <2>4, <2>9
    <3>2. r.indegree[c] > 0 /\ TakenOf(r, c) = 0 /\ r.ready[c] = 0 /\ d - e \in Int
      BY <2>1, <2>2, <2>5, <2>6, <2>9, <3>1
    <3> QED
      BY <2>1, <2>5, <2>7, <3>2
  <2>10. CASE ~ d > 0
    <3>1. t + w \in 1 .. n
      BY <2>1, <2>3, <2>10
    <3>2. r.indegree[c] <= 0 /\ r.indegree[c] \in Int
      BY <2>1, <2>5, <2>10
    <3>3. d \notin 1 .. e
      BY <2>1, <2>10
    <3>4. CASE c = id
      <4>1. r.ready[c] = w - 1 /\ TakenOf(r, c) = t + 1 /\ w - 1 \in Nat
        BY <2>1, <2>2, <2>4, <2>6, <3>3, <3>4
      <4>2. TakenOf(r, c) + r.ready[c] = t + w
        BY <4>1, <2>1, <2>2
      <4> QED
        BY <2>7, <3>1, <3>2, <4>1, <4>2
    <3>5. CASE c # id
      <4>1. r.ready[c] = w /\ TakenOf(r, c) = t
        BY <2>1, <2>2, <2>6, <3>3, <3>5
      <4> QED
        BY <2>1, <2>7, <3>1, <3>2, <4>1
    <3> QED
      BY <3>4, <3>5
  <2> QED
    BY <2>1, <2>8, <2>9, <2>10
<1>7. r.ready \in [Ids(list) -> Nat] /\ r.indegree \in [Ids(list) -> Int]
  <2>1. r.ready = [c \in Ids(list) |-> r.ready[c]] /\ r.indegree = [c \in Ids(list) |-> r.indegree[c]]
    BY <1>2 DEF Takes
  <2> QED
    BY <1>6, <2>1
<1>8. Fits(list, r)
  BY <1>5, <1>6, <1>7 DEF Fits
<1> QED
  BY <1>5, <1>8 DEF r

\* The queue is emptied one by one.
LEMMA QueueFits ==
    ASSUME NEW list, IsGraph(list)
    PROVE  \A n \in 0 .. Len(list) :
              /\ Fits(list, QueueOf(list)[n])
              /\ Len(QueueOf(list)[n].order) = n \/ \A c \in Ids(list) : QueueOf(list)[n].ready[c] = 0
              /\ Len(QueueOf(list)[n].order) <= n
<1> DEFINE Q == QueueOf(list)
           Good(n) == /\ Fits(list, Q[n])
                      /\ Len(Q[n].order) = n \/ \A c \in Ids(list) : Q[n].ready[c] = 0
                      /\ Len(Q[n].order) <= n
           S == {n \in Nat : n <= Len(list) => Good(n)}
<1>1. Len(list) \in Nat
  BY GraphIs
<1>2. /\ Q[0] = Start(list)
      /\ \A n \in 1 .. Len(list) : Q[n] = Advance(list, Q[n - 1])
  BY <1>1, QueueIs
<1> HIDE DEF Q
<1>3. Good(0)
  <2>1. Len(Start(list).order) = 0
    BY DEF Start
  <2> QED
    BY <1>2, <2>1, StartFits
<1>4. ASSUME NEW n \in Nat, n + 1 <= Len(list), Good(n) PROVE Good(n + 1)
  <2>1. Q[n + 1] = Advance(list, Q[n])
    <3>1. n + 1 \in 1 .. Len(list) /\ (n + 1) - 1 = n
      BY <1>1, <1>4
    <3> QED
      BY <1>2, <3>1
  <2>2. Len(Q[n].order) \in Nat
    BY <1>4 DEF Fits
  <2>3. CASE \A c \in Ids(list) : Q[n].ready[c] = 0
    <3>1. Q[n + 1] = Q[n]
      BY <2>1, <2>3 DEF Advance
    <3>2. Len(Q[n].order) <= n + 1
      BY <1>4, <2>2
    <3> QED
      BY <1>4, <2>3, <3>1, <3>2
  <2>4. CASE ~ \A c \in Ids(list) : Q[n].ready[c] = 0
    <3>1. Q[n + 1] = Take(list, Q[n])
      BY <2>1, <2>4 DEF Advance
    <3>2. Fits(list, Q[n + 1]) /\ Len(Q[n + 1].order) = Len(Q[n].order) + 1
      BY <1>4, <2>4, <3>1, TakeFits
    <3>3. Len(Q[n].order) = n
      BY <1>4, <2>4
    <3> QED
      BY <3>2, <3>3
  <2> QED
    BY <2>3, <2>4
<1> HIDE DEF Good
<1>5. 0 \in S
  BY <1>3
<1>6. ASSUME NEW n \in Nat, n \in S PROVE n + 1 \in S
  <2>1. ASSUME n + 1 <= Len(list) PROVE Good(n + 1)
    <3>1. n <= Len(list)
      BY <1>1, <2>1
    <3> QED
      BY <1>4, <1>6, <2>1, <3>1
  <2> QED
    BY <2>1
<1>7. Nat \subseteq S
  <2> HIDE DEF S
  <2> QED
    BY <1>5, <1>6, Induct
<1>8. ASSUME NEW n \in 0 .. Len(list) PROVE Good(n)
  BY <1>1, <1>7
<1> QED
  BY <1>8 DEF Good, Q

LEMMA SmallerInjects ==
    ASSUME NEW S, NEW T, IsFiniteSet(S), IsFiniteSet(T), Cardinality(S) <= Cardinality(T)
    PROVE  \E f : f \in Injection(S, T)
<1> DEFINE m == Cardinality(S)
           n == Cardinality(T)
<1>1. m \in Nat /\ n \in Nat /\ m <= n
  BY FS_CardinalityType
<1>2. PICK g : g \in Bijection(1 .. m, S)
  BY FS_CardinalityType DEF ExistsBijection
<1>3. PICK h : h \in Bijection(1 .. n, T)
  BY FS_CardinalityType DEF ExistsBijection
<1> DEFINE place(x) == CHOOSE i \in 1 .. m : g[i] = x
           f == [x \in S |-> h[place(x)]]
<1> HIDE DEF m, n
<1>4. ASSUME NEW x \in S PROVE place(x) \in 1 .. m /\ place(x) \in 1 .. n /\ g[place(x)] = x
  <2>1. \E i \in 1 .. m : g[i] = x
    BY <1>2 DEF Bijection, Surjection
  <2>2. place(x) \in 1 .. m /\ g[place(x)] = x
    BY <2>1
  <2> HIDE DEF place
  <2> QED
    BY <1>1, <2>2
<1> HIDE DEF place
<1>5. f \in [S -> T]
  BY <1>3, <1>4 DEF Bijection, Injection
<1>6. ASSUME NEW x \in S, NEW y \in S, f[x] = f[y] PROVE x = y
  <2>1. h[place(x)] = h[place(y)]
    BY <1>6
  <2>2. place(x) = place(y)
    BY <2>1, <1>3, <1>4 DEF Bijection, Injection, IsInjective
  <2> QED
    BY <2>2, <1>4
<1> HIDE DEF f
<1> QED
  BY <1>5, <1>6 DEF Injection, IsInjective

\* A list that holds nothing more often than another and is as long has its bag.
LEMMA AsLongIsAll ==
    ASSUME NEW X, NEW s \in Seq(X), NEW t \in Seq(X),
           \A x \in X : Cardinality(PlacesOf(s, x)) <= Cardinality(PlacesOf(t, x)),
           Len(s) = Len(t)
    PROVE  ToBag(s) = ToBag(t)
<1> DEFINE into(x) == CHOOSE f : f \in Injection(PlacesOf(s, x), PlacesOf(t, x))
           F == [i \in DOMAIN s |-> into(s[i])[i]]
<1>1. ASSUME NEW x \in X PROVE into(x) \in Injection(PlacesOf(s, x), PlacesOf(t, x))
  <2>1. IsFiniteSet(PlacesOf(s, x)) /\ IsFiniteSet(PlacesOf(t, x))
    BY BagOfList
  <2>2. \E f : f \in Injection(PlacesOf(s, x), PlacesOf(t, x))
    BY <2>1, SmallerInjects
  <2> QED
    BY <2>2
<1> HIDE DEF into
<1>2. \A i \in DOMAIN s : s[i] \in X /\ i \in PlacesOf(s, s[i])
  BY DEF PlacesOf
<1>3. ASSUME NEW i \in DOMAIN s PROVE F[i] \in DOMAIN t /\ t[F[i]] = s[i]
  <2>1. into(s[i])[i] \in PlacesOf(t, s[i])
    BY <1>1, <1>2 DEF Injection
  <2> QED
    BY <2>1 DEF PlacesOf
<1>4. F \in [DOMAIN s -> DOMAIN t]
  BY <1>3
<1>5. ASSUME NEW i \in DOMAIN s, NEW j \in DOMAIN s, F[i] = F[j] PROVE i = j
  <2>1. s[i] = s[j]
    BY <1>3, <1>5
  <2>2. i \in PlacesOf(s, s[i]) /\ j \in PlacesOf(s, s[i])
    BY <1>2, <2>1
  <2>3. into(s[i])[i] = into(s[i])[j]
    BY <1>5, <2>1
  <2> QED
    BY <1>1, <1>2, <2>2, <2>3 DEF Injection, IsInjective
<1> HIDE DEF F
<1>6. F \in Injection(DOMAIN s, DOMAIN t)
  BY <1>4, <1>5 DEF Injection, IsInjective
<1>7. DOMAIN s = 1 .. Len(s) /\ DOMAIN t = 1 .. Len(t) /\ Len(s) \in Nat
  OBVIOUS
<1>8. IsFiniteSet(DOMAIN t) /\ Cardinality(DOMAIN s) = Cardinality(DOMAIN t)
  BY <1>7, FS_Interval
<1>9. F \in Surjection(DOMAIN s, DOMAIN t)
  BY <1>6, <1>8, FS_Injection
<1>10. F \in Bijection(DOMAIN s, DOMAIN t)
  BY <1>6, <1>9 DEF Bijection
<1> QED
  BY <1>3, <1>10, PermutedBag

\* What Kahn's algorithm leaves.
LEMMA OrderFits ==
    ASSUME NEW list, IsGraph(list), NEW order, order = TopoOrder(list)
    PROVE  /\ order \in Seq(Ids(list)) /\ Len(order) \in Nat /\ Len(order) <= Len(list)
           /\ \A c \in Ids(list) :
                 Cardinality(PlacesOf(order, c)) <= Cardinality(PlacesOf(IdsOf(list), c))
<1> DEFINE q == QueueOf(list)[Len(list)]
<1>1. Fits(list, q) /\ Len(q.order) <= Len(list)
  BY GraphIs, QueueFits
<1>2. order = q.order
  BY TopoOrderIs
<1> HIDE DEF q
<1>3. ASSUME NEW c \in Ids(list)
      PROVE  Cardinality(PlacesOf(order, c)) <= Cardinality(PlacesOf(IdsOf(list), c))
  <2>1. EntriesOf(list, c) = PlacesOf(IdsOf(list), c)
    BY GraphIs
  <2>2. Cardinality(EntriesOf(list, c)) \in Nat /\ q.ready[c] \in Nat
    BY <1>1, EntriesAre DEF Fits
  <2>3. TakenOf(q, c) = Cardinality(PlacesOf(order, c)) /\ TakenOf(q, c) \in Nat
    BY <1>1, <1>2, BagOfList DEF TakenOf, Fits
  <2>4. FitsAt(list, q, c)
    BY <1>1 DEF Fits
  <2> QED
    BY <2>1, <2>2, <2>3, <2>4 DEF FitsAt
<1>4. order \in Seq(Ids(list))
  BY <1>1, <1>2 DEF Fits
<1> QED
  BY <1>1, <1>2, <1>3, <1>4

LEMMA OrderedIs ==
    ASSUME NEW list, IsGraph(list), NEW order, order = TopoOrder(list), Len(order) = Len(list)
    PROVE  /\ ToBag(order) = ToBag(IdsOf(list))
           /\ ToSet(order) = Ids(list)
<1>1. IdsOf(list) \in Seq(Ids(list)) /\ Len(IdsOf(list)) = Len(list) /\ ToSet(IdsOf(list)) = Ids(list)
  BY GraphIs
<1>2. ToBag(order) = ToBag(IdsOf(list))
  BY <1>1, OrderFits, AsLongIsAll
<1> QED
  BY <1>1, <1>2, OrderFits, BagTellsLength

--------------------------------------------------------------------------------
(* Chains: the commits.                                                        *)

KnownOf(list, order) ==
    CHOOSE known : known = [n \in 0 .. Len(order) |->
        IF n = 0 THEN <<>> ELSE Committed(list, order[n], known[n - 1])]

LEMMA CommitsIs ==
    \A list : Commits(list) = KnownOf(list, TopoOrder(list))[Len(TopoOrder(list))]
BY DEF Commits, KnownOf

LEMMA KnownIs ==
    ASSUME NEW list, NEW order, Len(order) \in Nat
    PROVE  /\ KnownOf(list, order)[0] = <<>>
           /\ \A n \in 1 .. Len(order) :
                 KnownOf(list, order)[n] = Committed(list, order[n], KnownOf(list, order)[n - 1])
<1> DEFINE top == Len(order)
           Runs(f, n) == /\ f = [k \in 0 .. n |-> f[k]]
                         /\ f[0] = <<>>
                         /\ \A k \in 1 .. n : f[k] = Committed(list, order[k], f[k - 1])
           S == {n \in Nat : \E f : Runs(f, n)}
           Step(f) == [n \in 0 .. top |->
                          IF n = 0 THEN <<>> ELSE Committed(list, order[n], f[n - 1])]
<1>1. 0 \in S
  <2>1. Runs([k \in 0 .. 0 |-> <<>>], 0)
    OBVIOUS
  <2> HIDE DEF Runs
  <2> QED
    BY <2>1
<1>2. ASSUME NEW n \in Nat, n \in S PROVE n + 1 \in S
  <2>1. PICK f : Runs(f, n)
    BY <1>2
  <2> DEFINE g == [k \in 0 .. n + 1 |->
                      IF k = n + 1 THEN Committed(list, order[k], f[n]) ELSE f[k]]
  <2>2. g = [k \in 0 .. n + 1 |-> g[k]] /\ g[0] = <<>>
    BY <2>1
  <2>3. ASSUME NEW k \in 1 .. n + 1 PROVE g[k] = Committed(list, order[k], g[k - 1])
    <3>1. k \in 0 .. n + 1 /\ k - 1 \in 0 .. n + 1 /\ k - 1 # n + 1
      OBVIOUS
    <3>2. g[k - 1] = f[k - 1]
      BY <3>1
    <3>3. CASE k = n + 1
      BY <3>1, <3>2, <3>3
    <3>4. CASE k # n + 1
      <4>1. k \in 1 .. n /\ g[k] = f[k]
        BY <3>1, <3>4
      <4> HIDE DEF g
      <4> QED
        BY <4>1, <3>2, <2>1
    <3> QED
      BY <3>3, <3>4
  <2>4. Runs(g, n + 1)
    <3> HIDE DEF g
    <3> QED
      BY <2>2, <2>3
  <2> HIDE DEF Runs, g
  <2> QED
    BY <2>4
<1>3. top \in S
  <2> HIDE DEF S
  <2> QED
    BY <1>1, <1>2, Induct
<1>4. PICK f : Runs(f, top)
  BY <1>3
<1>5. f = Step(f)
  <2>1. ASSUME NEW n \in 0 .. top PROVE f[n] = Step(f)[n]
    <3>1. CASE n = 0
      BY <3>1, <1>4
    <3>2. CASE n # 0
      <4>1. n \in 1 .. top
        BY <3>2
      <4>2. f[n] = Committed(list, order[n], f[n - 1])
        BY <4>1, <1>4
      <4> QED
        BY <3>2, <4>2
    <3> QED
      BY <3>1, <3>2
  <2>2. f = [n \in 0 .. top |-> f[n]]
    BY <1>4
  <2> QED
    BY <2>1, <2>2
<1>6. KnownOf(list, order) = CHOOSE known : known = Step(known)
  BY Zenon DEF KnownOf
<1>7. KnownOf(list, order) = Step(KnownOf(list, order))
  <2> HIDE DEF Step
  <2> QED
    BY <1>5, <1>6
<1> DEFINE known == KnownOf(list, order)
<1> HIDE DEF known
<1>8. known = Step(known)
  BY <1>7 DEF known
<1>9. known[0] = <<>>
  BY <1>8
<1>10. ASSUME NEW n \in 1 .. top PROVE known[n] = Committed(list, order[n], known[n - 1])
  <2>1. n \in 0 .. top /\ n # 0
    OBVIOUS
  <2>2. known[n] = Step(known)[n]
    BY <1>8, Zenon
  <2> QED
    BY <2>1, <2>2
<1> QED
  BY <1>9, <1>10 DEF known

\* A commit tells its step.
IsCommitOf(list, c, commit) == \E commits : commit = StepCommit(ById(list, c), commits)

LEMMA KnownAre ==
    ASSUME NEW list, NEW X, NEW order \in Seq(X)
    PROVE  \A n \in 0 .. Len(order) :
              /\ DOMAIN KnownOf(list, order)[n] = {order[k] : k \in 1 .. n}
              /\ \A c \in {order[k] : k \in 1 .. n} : IsCommitOf(list, c, KnownOf(list, order)[n][c])
<1> DEFINE K == KnownOf(list, order)
           Done(n) == {order[k] : k \in 1 .. n}
           Good(n) == /\ DOMAIN K[n] = Done(n)
                      /\ \A c \in Done(n) : IsCommitOf(list, c, K[n][c])
           S == {n \in Nat : n <= Len(order) => Good(n)}
<1>1. /\ K[0] = <<>>
      /\ \A n \in 1 .. Len(order) : K[n] = Committed(list, order[n], K[n - 1])
  BY KnownIs
<1> HIDE DEF K
<1>2. Good(0)
  BY <1>1
<1>3. ASSUME NEW n \in Nat, n + 1 <= Len(order), Good(n) PROVE Good(n + 1)
  <2> DEFINE id == order[n + 1]
  <2>1. K[n + 1] = Committed(list, id, K[n])
    <3>1. n + 1 \in 1 .. Len(order) /\ (n + 1) - 1 = n
      BY <1>3
    <3> QED
      BY <1>1, <3>1
  <2>2. Done(n + 1) = Done(n) \cup {id}
    <3>1. 1 .. n + 1 = (1 .. n) \cup {n + 1}
      OBVIOUS
    <3> QED
      BY <3>1
  <2> HIDE DEF id, Done
  <2>3. DOMAIN K[n + 1] = Done(n + 1)
    BY <1>3, <2>1, <2>2 DEF Committed
  <2>4. ASSUME NEW c \in Done(n + 1) PROVE IsCommitOf(list, c, K[n + 1][c])
    <3>1. c \in DOMAIN K[n] \cup {id}
      BY <1>3, <2>2, <2>4
    <3>2. K[n + 1][c] = IF c = id THEN StepCommit(ById(list, id), K[n]) ELSE K[n][c]
      BY <2>1, <3>1 DEF Committed
    <3>3. CASE c = id
      BY <3>2, <3>3 DEF IsCommitOf
    <3>4. CASE c # id
      BY <1>3, <2>2, <3>2, <3>4
    <3> QED
      BY <3>3, <3>4
  <2> QED
    BY <2>3, <2>4
<1> HIDE DEF Good
<1>4. 0 \in S
  BY <1>2
<1>5. ASSUME NEW n \in Nat, n \in S PROVE n + 1 \in S
  <2>1. ASSUME n + 1 <= Len(order) PROVE Good(n + 1)
    <3>1. n <= Len(order)
      BY <2>1
    <3> QED
      BY <1>3, <1>5, <2>1, <3>1
  <2> QED
    BY <2>1
<1>6. Nat \subseteq S
  <2> HIDE DEF S
  <2> QED
    BY <1>4, <1>5, Induct
<1>7. ASSUME NEW n \in 0 .. Len(order) PROVE Good(n)
  BY <1>6
<1> QED
  BY <1>7 DEF Good, K

LEMMA CommitFields ==
    ASSUME NEW list, NEW c, NEW commit, IsCommitOf(list, c, commit)
    PROVE  /\ commit.step_id = ById(list, c).step_id /\ commit.seq = ById(list, c).seq
           /\ commit.parents = ById(list, c).parents /\ commit.io_digest = ById(list, c).io
BY DEF IsCommitOf, StepCommit

LEMMA CommitsAre ==
    ASSUME NEW list, IsGraph(list)
    PROVE  /\ DOMAIN Commits(list) = ToSet(TopoOrder(list))
           /\ \A c \in ToSet(TopoOrder(list)) : IsCommitOf(list, c, Commits(list)[c])
<1> DEFINE order == TopoOrder(list)
<1>1. order \in Seq(Ids(list)) /\ Len(order) \in Nat
  BY OrderFits
<1>2. Commits(list) = KnownOf(list, order)[Len(order)]
  BY CommitsIs
<1> HIDE DEF order
<1>3. ToSet(order) = {order[k] : k \in 1 .. Len(order)}
  BY <1>1 DEF ToSet
<1>4. Len(order) \in 0 .. Len(order)
  BY <1>1
<1>5. /\ DOMAIN Commits(list) = ToSet(order)
      /\ \A c \in ToSet(order) : IsCommitOf(list, c, Commits(list)[c])
  BY <1>1, <1>2, <1>3, <1>4, KnownAre
<1> QED
  BY <1>5 DEF order

--------------------------------------------------------------------------------
(* Chains of distinct steps.                                                   *)

LEMMA SingleIs ==
    ASSUME NEW list, IsGraph(list), DistinctIds(list), NEW c \in Ids(list)
    PROVE  /\ EntriesOf(list, c) = {LastPlace(list, c)} /\ Cardinality(EntriesOf(list, c)) = 1
           /\ FirstPlace(list, c) = LastPlace(list, c)
           /\ LastPlace(list, c) \in DOMAIN list
           /\ \A i \in DOMAIN list : list[i].step_id = c => list[i] = ById(list, c)
<1> DEFINE ids == IdsOf(list)
<1>1. /\ Len(list) \in Nat /\ DOMAIN list = 1 .. Len(list)
      /\ \A i \in DOMAIN list : ids[i] = list[i].step_id /\ ids[i] \in Ids(list)
      /\ ids = [i \in DOMAIN list |-> ids[i]]
  BY GraphIs DEF IdsOf, Ids
<1>2. Ids(list) = {ids[i] : i \in DOMAIN list}
  BY DEF IdsOf, Ids
<1> HIDE DEF ids
<1>3. ids \in Surjection(DOMAIN list, Ids(list))
  BY <1>1, <1>2 DEF Surjection
<1>4. IsFiniteSet(DOMAIN list) /\ Cardinality(DOMAIN list) = Len(list)
  BY <1>1, FS_Interval
<1>5. ids \in Injection(DOMAIN list, Ids(list))
  BY <1>3, <1>4, FS_Surjection DEF DistinctIds
<1>6. \A i, j \in DOMAIN list : list[i].step_id = list[j].step_id => i = j
  BY <1>1, <1>5 DEF Injection, IsInjective
<1>7. LastPlace(list, c) \in EntriesOf(list, c) /\ FirstPlace(list, c) \in EntriesOf(list, c)
  BY EntriesAre
<1>8. EntriesOf(list, c) = {LastPlace(list, c)} /\ FirstPlace(list, c) = LastPlace(list, c)
  BY <1>6, <1>7 DEF EntriesOf
<1>9. LastPlace(list, c) \in DOMAIN list
  BY <1>7 DEF EntriesOf
<1>10. Cardinality(EntriesOf(list, c)) = 1
  BY <1>8, FS_Singleton
<1>11. ASSUME NEW i \in DOMAIN list, list[i].step_id = c PROVE list[i] = ById(list, c)
  BY <1>8, <1>11 DEF EntriesOf, ById
<1> QED
  BY <1>8, <1>9, <1>10, <1>11

LEMMA SingleEdges ==
    ASSUME NEW list, IsGraph(list), DistinctIds(list), NEW c \in Ids(list)
    PROVE  \A p : Edges(list, p, c) = IF p \in ById(list, c).parents THEN 1 ELSE 0
<1>1. EntriesOf(list, c) = {LastPlace(list, c)}
  BY SingleIs
<1>2. ASSUME NEW p PROVE Edges(list, p, c) = IF p \in ById(list, c).parents THEN 1 ELSE 0
  <2>1. CASE p \in ById(list, c).parents
    <3>1. {i \in EntriesOf(list, c) : p \in list[i].parents} = {LastPlace(list, c)}
      BY <1>1, <2>1 DEF ById
    <3> QED
      BY <2>1, <3>1, FS_Singleton DEF Edges
  <2>2. CASE p \notin ById(list, c).parents
    <3>1. {i \in EntriesOf(list, c) : p \in list[i].parents} = {}
      BY <1>1, <2>2 DEF ById
    <3> QED
      BY <2>2, <3>1, FS_EmptySet DEF Edges
  <2> QED
    BY <2>1, <2>2
<1> QED
  BY <1>2

LEMMA SingleIndegree ==
    ASSUME NEW list, IsGraph(list), DistinctIds(list), NEW c \in Ids(list)
    PROVE  Indegree(list, c) = Cardinality(ById(list, c).parents)
<1> DEFINE u == [i \in DOMAIN list |->
                    IF list[i].step_id = c THEN Cardinality(list[i].parents) ELSE 0]
           v == Masked(u, {})
           l == LastPlace(list, c)
<1>1. /\ Len(list) \in Nat /\ DOMAIN list = 1 .. Len(list)
      /\ \A i \in DOMAIN list : Cardinality(list[i].parents) \in Int
  BY GraphIs, FS_CardinalityType DEF IsGraph
<1>2. /\ \A i \in DOMAIN list : u[i] \in Int
      /\ u = [i \in 1 .. Len(list) |-> u[i]]
  BY <1>1
<1>3. l \in DOMAIN list /\ \A i \in DOMAIN list : list[i].step_id = c <=> i = l
  <2>1. EntriesOf(list, c) = {l} /\ l \in DOMAIN list
    BY SingleIs
  <2> HIDE DEF l
  <2> QED
    BY <2>1 DEF EntriesOf
<1>4. u[l] = Cardinality(ById(list, c).parents) /\ \A i \in DOMAIN list : i # l => u[i] = 0
  BY <1>3 DEF ById
<1>5. Indegree(list, c) = TotalOf(u)
  BY DEF Indegree
<1> HIDE DEF u, l
<1>6. u \in Seq(Int) /\ Len(u) = Len(list) /\ DOMAIN u = DOMAIN list
  BY <1>1, <1>2
<1>7. v \in Seq(Int) /\ Len(v) = Len(u) /\ \A i \in DOMAIN u : v[i] = 0
  BY <1>6, MaskedIs
<1>8. TotalOf(v) = 0
  BY <1>6, TotalOfNothing
<1> HIDE DEF v
<1>9. TotalOf(u) = TotalOf(v) + (u[l] - v[l])
  <2>1. l \in DOMAIN u /\ \A k \in DOMAIN u : k # l => u[k] = v[k]
    BY <1>3, <1>4, <1>6, <1>7
  <2>2. u \in Seq(Int) /\ v \in Seq(Int) /\ Len(u) = Len(v)
    BY <1>6, <1>7
  <2> QED
    BY ONLY <2>1, <2>2, TotalsDiffer
<1>10. u[l] \in Int /\ v[l] = 0
  BY <1>2, <1>3, <1>6, <1>7
<1> QED
  BY <1>4, <1>5, <1>8, <1>9, <1>10

Parents(list, c) == ById(list, c).parents

CausalSoFar(list, order) ==
    \A k \in DOMAIN order : ParentsBefore(order, k, Parents(list, order[k]))

\* Of distinct steps, the indegree counts the parents that were not taken yet.
FitsExactly(list, q) ==
    /\ Fits(list, q)
    /\ \A c \in Ids(list) :
          q.indegree[c] = Cardinality(Parents(list, c) \ ToSet(q.order))
    /\ CausalSoFar(list, q.order)

LEMMA StartFitsExactly ==
    ASSUME NEW list, IsGraph(list), DistinctIds(list)
    PROVE  FitsExactly(list, Start(list))
<1> DEFINE q == Start(list)
<1>1. q.order = <<>> /\ \A c \in Ids(list) : q.indegree[c] = Indegree(list, c)
  BY DEF Start
<1>2. Fits(list, q)
  BY StartFits
<1> HIDE DEF q
<1>3. ToSet(q.order) = {} /\ DOMAIN q.order = {}
  BY <1>1 DEF ToSet
<1>4. ASSUME NEW c \in Ids(list)
      PROVE  q.indegree[c] = Cardinality(Parents(list, c) \ ToSet(q.order))
  BY <1>1, <1>3, SingleIndegree DEF Parents
<1>5. FitsExactly(list, q)
  BY <1>2, <1>3, <1>4 DEF FitsExactly, CausalSoFar
<1> QED
  BY <1>5 DEF q

LEMMA AppendedEntries ==
    ASSUME NEW X, NEW s \in Seq(X), NEW e \in X
    PROVE  /\ DOMAIN Append(s, e) = 1 .. Len(s) + 1 /\ Append(s, e)[Len(s) + 1] = e
           /\ \A i \in 1 .. Len(s) : Append(s, e)[i] = s[i]
OBVIOUS

LEMMA CausalAppended ==
    ASSUME NEW list, NEW X, NEW order \in Seq(X), NEW id \in X, CausalSoFar(list, order),
           Parents(list, id) \subseteq ToSet(order)
    PROVE  CausalSoFar(list, Append(order, id))
<1> DEFINE more == Append(order, id)
<1>1. /\ DOMAIN more = 1 .. Len(order) + 1 /\ more[Len(order) + 1] = id
      /\ \A i \in 1 .. Len(order) : more[i] = order[i]
      /\ DOMAIN order = 1 .. Len(order) /\ Len(order) \in Nat
  BY AppendedEntries
<1> HIDE DEF more
<1>2. ASSUME NEW k \in 1 .. Len(order), NEW p \in Parents(list, more[k])
      PROVE  \E j \in 1 .. k - 1 : more[j] = p
  <2>1. PICK j \in 1 .. k - 1 : order[j] = p
    BY <1>1, <1>2 DEF CausalSoFar, ParentsBefore
  <2>2. j \in 1 .. Len(order)
    BY <1>1
  <2> QED
    BY <1>1, <2>1, <2>2
<1>3. ASSUME NEW p \in Parents(list, id)
      PROVE  \E j \in 1 .. (Len(order) + 1) - 1 : more[j] = p
  <2>1. PICK j \in DOMAIN order : order[j] = p
    BY <1>3 DEF ToSet
  <2>2. j \in 1 .. (Len(order) + 1) - 1
    BY <1>1
  <2> QED
    BY <1>1, <2>1, <2>2
<1>4. ASSUME NEW k \in DOMAIN more PROVE ParentsBefore(more, k, Parents(list, more[k]))
  <2>1. CASE k = Len(order) + 1
    BY <1>1, <1>3, <2>1 DEF ParentsBefore
  <2>2. CASE k # Len(order) + 1
    <3>1. k \in 1 .. Len(order)
      BY <1>1, <2>2
    <3> QED
      BY <1>2, <3>1 DEF ParentsBefore
  <2> QED
    BY <2>1, <2>2
<1> QED
  BY <1>4 DEF CausalSoFar, more

LEMMA TakenAre ==
    ASSUME NEW X, NEW s \in Seq(X), NEW c
    PROVE  Cardinality(PlacesOf(s, c)) \in Nat /\ (Cardinality(PlacesOf(s, c)) > 0 <=> c \in ToSet(s))
<1>1. IsFiniteSet(PlacesOf(s, c)) /\ Cardinality(PlacesOf(s, c)) \in Nat
  BY BagOfList
<1>2. c \in ToSet(s) <=> PlacesOf(s, c) # {}
  BY DEF ToSet, PlacesOf
<1>3. Cardinality(PlacesOf(s, c)) = 0 <=> PlacesOf(s, c) = {}
  BY <1>1, FS_EmptySet
<1> QED
  BY <1>1, <1>2, <1>3

LEMMA TakeFitsExactly ==
    ASSUME NEW list, IsGraph(list), DistinctIds(list), NEW q, FitsExactly(list, q),
           ~ \A c \in Ids(list) : q.ready[c] = 0
    PROVE  FitsExactly(list, Take(list, q))
<1> DEFINE id == HeadOf(list, q)
           r == Take(list, q)
           T == ToSet(q.order)
<1>1. Fits(list, q) /\ Fits(list, r) /\ id \in Ids(list) /\ q.ready[id] > 0
  BY HeadIs, TakeFits DEF Fits, FitsExactly
<1>2. Takes(list, q, id, r)
  BY TakeIs
<1> HIDE DEF id, r
<1>3. r.order = Append(q.order, id) /\ q.order \in Seq(Ids(list))
  BY <1>1, <1>2 DEF Takes, Fits
<1>4. ToSet(r.order) = T \cup {id}
  <2>1. id \in Ids(list) /\ q.order \in Seq(Ids(list))
    BY <1>1, <1>3
  <2>2. \A X, s, e : s \in Seq(X) /\ e \in X => ToSet(Append(s, e)) = ToSet(s) \cup {e}
    BY PlacesAppended
  <2>3. ToSet(Append(q.order, id)) = ToSet(q.order) \cup {id}
    BY ONLY <2>1, <2>2
  <2> QED
    BY <1>3, <2>3
<1> HIDE DEF T
<1>5. \A c \in Ids(list) : /\ IsFiniteSet(Parents(list, c) \ T)
                           /\ Cardinality(Parents(list, c) \ T) \in Nat
                           /\ q.indegree[c] = Cardinality(Parents(list, c) \ T)
  BY EntriesAre, FS_Difference, FS_CardinalityType DEF FitsExactly, T, Parents
<1>6. id \notin T /\ Parents(list, id) \subseteq T
  <2>1. FitsAt(list, q, id) /\ q.ready[id] \in Nat /\ Cardinality(EntriesOf(list, id)) = 1
    BY <1>1, SingleIs DEF Fits
  <2>2. TakenOf(q, id) \in Nat /\ (TakenOf(q, id) > 0 <=> id \in T)
    BY <1>3, TakenAre DEF TakenOf, T
  <2>3. id \notin T /\ q.indegree[id] <= 0
    BY <1>1, <2>1, <2>2 DEF FitsAt
  <2>4. Cardinality(Parents(list, id) \ T) = 0
    BY <1>1, <1>5, <2>3
  <2>5. Parents(list, id) \ T = {}
    BY <1>1, <1>5, <2>4, FS_EmptySet
  <2> QED
    BY <2>3, <2>5
<1>7. ASSUME NEW c \in Ids(list)
      PROVE  r.indegree[c] = Cardinality(Parents(list, c) \ ToSet(r.order))
  <2>1. r.indegree[c] = q.indegree[c] - Edges(list, id, c)
    BY <1>2 DEF Takes
  <2>2. Edges(list, id, c) = IF id \in Parents(list, c) THEN 1 ELSE 0
    BY SingleEdges DEF Parents
  <2>3. Parents(list, c) \ ToSet(r.order) = (Parents(list, c) \ T) \ {id}
    BY <1>4
  <2>4. Cardinality((Parents(list, c) \ T) \ {id}) =
            IF id \in Parents(list, c) \ T THEN Cardinality(Parents(list, c) \ T) - 1
            ELSE Cardinality(Parents(list, c) \ T)
    BY <1>5, FS_RemoveElement
  <2>5. q.indegree[c] = Cardinality(Parents(list, c) \ T) /\ q.indegree[c] \in Nat
    BY <1>5
  <2>6. CASE id \in Parents(list, c)
    <3>1. id \in Parents(list, c) \ T
      BY <1>6, <2>6
    <3>2. Cardinality(Parents(list, c) \ ToSet(r.order)) = Cardinality(Parents(list, c) \ T) - 1
      BY <2>3, <2>4, <3>1
    <3> QED
      BY <2>1, <2>2, <2>5, <2>6, <3>2
  <2>7. CASE id \notin Parents(list, c)
    <3>1. Cardinality(Parents(list, c) \ ToSet(r.order)) = Cardinality(Parents(list, c) \ T)
      BY <2>3, <2>4, <2>7
    <3> QED
      BY <2>1, <2>2, <2>5, <2>7, <3>1
  <2> QED
    BY <2>6, <2>7
<1>8. CausalSoFar(list, r.order)
  BY <1>1, <1>3, <1>6, CausalAppended DEF FitsExactly, T
<1>9. FitsExactly(list, r)
  BY <1>1, <1>7, <1>8 DEF FitsExactly
<1> QED
  BY <1>9 DEF r

LEMMA QueueFitsExactly ==
    ASSUME NEW list, IsGraph(list), DistinctIds(list)
    PROVE  FitsExactly(list, QueueOf(list)[Len(list)])
<1> DEFINE Q == QueueOf(list)
           S == {n \in Nat : n <= Len(list) => FitsExactly(list, Q[n])}
<1>1. Len(list) \in Nat
  BY GraphIs
<1>2. /\ Q[0] = Start(list)
      /\ \A n \in 1 .. Len(list) : Q[n] = Advance(list, Q[n - 1])
  BY <1>1, QueueIs
<1> HIDE DEF Q
<1>3. 0 \in S
  BY <1>2, StartFitsExactly
<1>4. ASSUME NEW n \in Nat, n \in S PROVE n + 1 \in S
  <2>1. ASSUME n + 1 <= Len(list) PROVE FitsExactly(list, Q[n + 1])
    <3>1. n + 1 \in 1 .. Len(list) /\ (n + 1) - 1 = n /\ n <= Len(list)
      BY <1>1, <2>1
    <3>2. Q[n + 1] = Advance(list, Q[n]) /\ FitsExactly(list, Q[n])
      BY <1>2, <1>4, <3>1
    <3>3. CASE \A c \in Ids(list) : Q[n].ready[c] = 0
      BY <3>2, <3>3 DEF Advance
    <3>4. CASE ~ \A c \in Ids(list) : Q[n].ready[c] = 0
      <4>1. Q[n + 1] = Take(list, Q[n])
        BY <3>2, <3>4 DEF Advance
      <4> QED
        BY <3>2, <3>4, <4>1, TakeFitsExactly
    <3> QED
      BY <3>3, <3>4
  <2> QED
    BY <2>1
<1>5. Nat \subseteq S
  <2> HIDE DEF S
  <2> QED
    BY <1>3, <1>4, Induct
<1>6. FitsExactly(list, Q[Len(list)])
  BY <1>1, <1>5
<1> QED
  BY <1>6 DEF Q

\* Of distinct steps, each is taken once and after its parents, and what is left over
\* waits for a parent.
LEMMA DistinctOrder ==
    ASSUME NEW list, IsGraph(list), DistinctIds(list), NEW order, order = TopoOrder(list)
    PROVE  /\ CausalSoFar(list, order)
           /\ \A c \in Ids(list) : Cardinality(PlacesOf(order, c)) <= 1
           /\ Len(order) # Len(list) =>
                 \A c \in Ids(list) : Parents(list, c) \subseteq ToSet(order) => c \in ToSet(order)
<1> DEFINE q == QueueOf(list)[Len(list)]
<1>1. FitsExactly(list, q)
  BY QueueFitsExactly
<1>2. Len(q.order) = Len(list) \/ \A c \in Ids(list) : q.ready[c] = 0
  <2>1. Len(list) \in 0 .. Len(list)
    BY GraphIs
  <2> QED
    BY <2>1, QueueFits
<1>3. order = q.order
  BY TopoOrderIs
<1> HIDE DEF q
<1>4. Fits(list, q) /\ order \in Seq(Ids(list))
  BY <1>1, <1>3 DEF FitsExactly, Fits
<1>5. ASSUME NEW c \in Ids(list) PROVE Cardinality(PlacesOf(order, c)) <= 1
  <2>1. Cardinality(EntriesOf(list, c)) = 1 /\ EntriesOf(list, c) = PlacesOf(IdsOf(list), c)
    BY SingleIs, GraphIs
  <2> QED
    BY <2>1, OrderFits
<1>6. ASSUME Len(order) # Len(list), NEW c \in Ids(list), Parents(list, c) \subseteq ToSet(order)
      PROVE  c \in ToSet(order)
  <2>1. Parents(list, c) \ ToSet(q.order) = {}
    BY <1>3, <1>6
  <2>2. q.indegree[c] = 0
    BY <1>1, <2>1, FS_EmptySet DEF FitsExactly
  <2>3. q.ready[c] = 0
    BY <1>2, <1>3, <1>6
  <2>4. FitsAt(list, q, c)
    BY <1>4 DEF Fits
  <2>5. TakenOf(q, c) \in Nat /\ (TakenOf(q, c) > 0 <=> c \in ToSet(order))
    BY <1>3, <1>4, TakenAre DEF TakenOf
  <2>6. TakenOf(q, c) > 0
    BY <2>2, <2>3, <2>4, <2>5, EntriesAre DEF FitsAt
  <2> QED
    BY <2>5, <2>6
<1> QED
  BY <1>1, <1>3, <1>5, <1>6 DEF FitsExactly

LEMMA ReorderedIs ==
    ASSUME NEW list, IsGraph(list), NEW other, other \in Reordered(list)
    PROVE  /\ IsGraph(other) /\ Len(other) = Len(list)
           /\ Ids(other) = Ids(list)
           /\ ToBag(IdsOf(other)) = ToBag(IdsOf(list))
           /\ \A i \in DOMAIN other : \E j \in DOMAIN list : other[i] = list[j]
<1>1. PICK f \in Bijection(DOMAIN list, DOMAIN list) : other = [i \in DOMAIN list |-> list[f[i]]]
  BY DEF Reordered
<1>2. /\ Len(list) \in Nat /\ DOMAIN list = 1 .. Len(list)
      /\ IdsOf(list) \in Seq(Ids(list)) /\ Len(IdsOf(list)) = Len(list)
      /\ IsList(list)
  BY GraphIs DEF IsGraph
<1>3. f \in [DOMAIN list -> DOMAIN list] /\ \A j \in DOMAIN list : \E i \in DOMAIN list : f[i] = j
  BY <1>1 DEF Bijection, Surjection, Injection
<1>4. /\ DOMAIN other = 1 .. Len(list) /\ \A i \in DOMAIN other : other[i] = list[f[i]]
      /\ other = [i \in 1 .. Len(list) |-> other[i]]
  BY <1>1, <1>2
<1>5. \A i \in DOMAIN list : list[i] \in ToSet(list)
  BY DEF ToSet
<1>6. other \in Seq(ToSet(list)) /\ Len(other) = Len(list)
  <2>1. \A i \in 1 .. Len(list) : other[i] \in ToSet(list)
    BY <1>2, <1>3, <1>4, <1>5
  <2> HIDE <1>1, <1>3
  <2> QED
    BY <1>2, <1>4, <2>1
<1>7. IsGraph(other)
  <2>1. IsList(other)
    BY <1>6, ListsOf
  <2>2. \A i \in DOMAIN other : \E j \in DOMAIN list : other[i] = list[j]
    BY <1>2, <1>3, <1>4
  <2> QED
    BY <2>1, <2>2 DEF IsGraph
<1>8. Ids(other) = Ids(list)
  <2>1. \A i \in DOMAIN other : \E j \in DOMAIN list : other[i] = list[j]
    BY <1>2, <1>3, <1>4
  <2>2. \A j \in DOMAIN list : \E i \in DOMAIN other : other[i] = list[j]
    <3> SUFFICES ASSUME NEW j \in DOMAIN list PROVE \E i \in DOMAIN other : other[i] = list[j]
      OBVIOUS
    <3>1. PICK i \in DOMAIN list : f[i] = j
      BY <1>3
    <3>2. i \in DOMAIN other
      BY <1>2, <1>4
    <3> QED
      BY <1>4, <3>1, <3>2
  <2> QED
    BY <2>1, <2>2 DEF Ids
<1>9. ToBag(IdsOf(other)) = ToBag(IdsOf(list))
  <2>1. /\ IdsOf(other) \in Seq(Ids(list)) /\ DOMAIN IdsOf(other) = DOMAIN list
        /\ DOMAIN IdsOf(list) = DOMAIN list
    BY <1>2, <1>4, <1>7, <1>8, GraphIs DEF IdsOf
  <2>2. \A i \in DOMAIN list : IdsOf(list)[f[i]] = IdsOf(other)[i]
    BY <1>2, <1>3, <1>4 DEF IdsOf
  <2> QED
    BY <1>1, <1>2, <2>1, <2>2, PermutedBag
<1> QED
  BY <1>2, <1>3, <1>4, <1>6, <1>7, <1>8, <1>9

LEMMA ReorderedSteps ==
    ASSUME NEW list, IsGraph(list), DistinctIds(list), NEW other, other \in Reordered(list)
    PROVE  /\ DistinctIds(other)
           /\ \A c \in Ids(list) : ById(other, c) = ById(list, c)
<1>1. /\ IsGraph(other) /\ Len(other) = Len(list) /\ Ids(other) = Ids(list)
      /\ \A i \in DOMAIN other : \E j \in DOMAIN list : other[i] = list[j]
  BY ReorderedIs
<1>2. DistinctIds(other)
  BY <1>1 DEF DistinctIds
<1>3. ASSUME NEW c \in Ids(list) PROVE ById(other, c) = ById(list, c)
  <2>1. LastPlace(other, c) \in DOMAIN other /\ ById(other, c).step_id = c
    BY <1>1, <1>2, <1>3, SingleIs, EntriesAre
  <2>2. PICK j \in DOMAIN list : ById(other, c) = list[j]
    BY <1>1, <2>1 DEF ById
  <2> QED
    BY <2>1, <2>2, SingleIs
<1> QED
  BY <1>2, <1>3

\* An order of a graph in which the parents come first.
IsCausalOrderOf(order, list) ==
    /\ IsGraph(order) /\ Ids(order) = Ids(list) /\ Causal(order)
    /\ \A i \in DOMAIN order : order[i].parents = Parents(list, order[i].step_id)

\* A list of distinct steps that can be put in causal order is sealed.
LEMMA CausalIsSealable ==
    ASSUME NEW list, IsGraph(list), DistinctIds(list),
           NEW witness, IsCausalOrderOf(witness, list)
    PROVE  Sealable(list)
<1> DEFINE order == TopoOrder(list)
<1>1. /\ Len(list) \in Nat /\ DOMAIN witness = 1 .. Len(witness) /\ Len(witness) \in Nat
      /\ IsFiniteSet(Ids(list)) /\ Cardinality(Ids(list)) = Len(list)
  BY GraphIs DEF IsCausalOrderOf, DistinctIds
<1>2. /\ order \in Seq(Ids(list)) /\ Len(order) \in Nat /\ Len(order) <= Len(list)
      /\ CausalSoFar(list, order)
      /\ Len(order) # Len(list) =>
            \A c \in Ids(list) : Parents(list, c) \subseteq ToSet(order) => c \in ToSet(order)
  BY OrderFits, DistinctOrder
<1>3. ~ Dangling(list)
  <2>1. ASSUME NEW i \in DOMAIN list, NEW p \in list[i].parents PROVE p \in Ids(list)
    <3> DEFINE c == list[i].step_id
    <3>1. c \in Ids(list) /\ list[i].parents = Parents(list, c)
      BY SingleIs DEF Ids, Parents
    <3>2. PICK k \in DOMAIN witness : witness[k].step_id = c
      BY <3>1 DEF IsCausalOrderOf, Ids
    <3>3. p \in witness[k].parents
      BY <2>1, <3>1, <3>2 DEF IsCausalOrderOf
    <3>4. PICK j \in 1 .. k - 1 : witness[j].step_id = p
      BY <3>3 DEF IsCausalOrderOf, Causal
    <3>5. j \in DOMAIN witness
      BY <1>1
    <3> QED
      BY <3>4, <3>5 DEF IsCausalOrderOf, Ids
  <2> QED
    BY <2>1 DEF Dangling
<1> HIDE DEF order
<1>4. Len(order) = Len(list)
  <2> SUFFICES ASSUME Len(order) # Len(list) PROVE FALSE
    OBVIOUS
  <2>1. Cardinality(ToSet(order)) <= Len(order) /\ ToSet(order) \subseteq Ids(list)
    <3>1. DOMAIN order = 1 .. Len(order)
      BY <1>2
    <3>2. IsFiniteSet(1 .. Len(order)) /\ Cardinality(1 .. Len(order)) = Len(order)
      <4>1. \A n \in Nat : IsFiniteSet(1 .. n) /\ Cardinality(1 .. n) = n
        BY FS_Interval
      <4>2. Len(order) \in Nat
        BY <1>2
      <4> QED
        BY ONLY <4>1, <4>2
    <3>3. order \in Surjection(DOMAIN order, ToSet(order))
      <4>1. order = [i \in DOMAIN order |-> order[i]] /\ ToSet(order) = {order[i] : i \in DOMAIN order}
        BY <1>2 DEF ToSet
      <4> QED
        BY <4>1 DEF Surjection
    <3> QED
      <4>1. ToSet(order) \subseteq Ids(list)
        BY <1>2 DEF ToSet
      <4> QED
        BY <3>1, <3>2, <3>3, <4>1, FS_Surjection
  <2>2. ToSet(order) # Ids(list)
    BY <1>1, <1>2, <2>1
  <2> DEFINE Left == {k \in DOMAIN witness : witness[k].step_id \notin ToSet(order)}
  <2>3. Left \in SUBSET Nat /\ Left # {}
    <3>1. PICK c \in Ids(list) : c \notin ToSet(order)
      BY <2>1, <2>2
    <3>2. PICK k \in DOMAIN witness : witness[k].step_id = c
      BY DEF IsCausalOrderOf, Ids
    <3> QED
      BY <1>1, <3>1, <3>2
  <2>4. PICK k \in Left : \A j \in Left : k <= j
    <3> HIDE DEF Left
    <3> QED
      BY <2>3, LeastNat
  <2>5. ASSUME NEW p \in witness[k].parents PROVE p \in ToSet(order)
    <3>1. PICK j \in 1 .. k - 1 : witness[j].step_id = p
      BY <2>4 DEF IsCausalOrderOf, Causal
    <3>2. j \in DOMAIN witness /\ ~ k <= j
      BY <1>1, <2>3, <2>4
    <3> QED
      BY <2>4, <3>1, <3>2
  <2>6. witness[k].step_id \in Ids(list) /\ witness[k].parents = Parents(list, witness[k].step_id)
    BY <2>4 DEF IsCausalOrderOf, Ids
  <2> QED
    BY <1>2, <2>4, <2>5, <2>6
<1>5. Ordered(list)
  BY <1>3, <1>4 DEF Ordered, order
<1> QED
  BY <1>2, <1>5 DEF Sealable, CausalSoFar, Parents, order

--------------------------------------------------------------------------------
(* Chains: what is sealed.                                                     *)

IsSealedChain(list, order, e) ==
    /\ DOMAIN e = {"base", "steps", "payload_digest", "envelope_signature"}
    /\ DOMAIN e.steps = DOMAIN order
    /\ \A i \in DOMAIN order :
          e.steps[i] = [record |-> Commits(list)[order[i]], commit_digest |-> Commits(list)[order[i]]]
    /\ e.steps = [i \in DOMAIN order |-> e.steps[i]]
    /\ Records(e) = [i \in DOMAIN order |-> Commits(list)[order[i]]]
    /\ e.base.step_count = Len(order)
    /\ e.base.causal_root = MerkleRoot(Sorted(Records(e)))
    /\ SealHolds(e, e.base, e.base.causal_root)

LEMMA SealedChainIs == \A list : IsSealedChain(list, TopoOrder(list), SignChain(list))
<1> TAKE list
<1> DEFINE order == TopoOrder(list)
           commits == Commits(list)
           recs == [i \in DOMAIN order |-> commits[order[i]]]
           rows == [i \in DOMAIN order |->
                      [record |-> commits[order[i]], commit_digest |-> commits[order[i]]]]
           base == [step_count |-> Len(order), causal_root |-> MerkleRoot(Sorted(recs))]
           e == SignChain(list)
<1>1. e = Seal([base |-> base, steps |-> rows], base, base.causal_root)
  BY DEF SignChain
<1> HIDE DEF e
<1>2. /\ DOMAIN e = {"base", "steps", "payload_digest", "envelope_signature"}
      /\ e.base = base /\ e.steps = rows
      /\ e.payload_digest = <<base, base.causal_root>>
      /\ e.envelope_signature = <<base, base.causal_root>>
  <2> HIDE DEF base, rows
  <2> QED
    BY <1>1 DEF Seal
<1>3. Records(e) = recs
  BY <1>2 DEF Records
<1>4. SealHolds(e, e.base, e.base.causal_root)
  <2> HIDE DEF base
  <2> QED
    BY <1>2 DEF SealHolds
<1>5. e.base.step_count = Len(order) /\ e.base.causal_root = MerkleRoot(Sorted(Records(e)))
  BY <1>2, <1>3
<1> QED
  BY <1>2, <1>3, <1>4, <1>5 DEF e, IsSealedChain

LEMMA RecordsAre ==
    ASSUME NEW list, IsGraph(list), NEW recs, recs = Records(SignChain(list)),
           NEW order, order = TopoOrder(list)
    PROVE  /\ IsGraph(recs) /\ Len(recs) = Len(order) /\ DOMAIN recs = DOMAIN order
           /\ order \in Seq(Ids(list)) /\ DOMAIN order = 1 .. Len(order) /\ Len(order) \in Nat
           /\ \A i \in DOMAIN order : /\ recs[i] = Commits(list)[order[i]]
                                      /\ IsCommitOf(list, order[i], recs[i])
                                      /\ order[i] \in Ids(list) /\ recs[i].step_id = order[i]
                                      /\ recs[i].parents = Parents(list, order[i])
                                      /\ recs[i].io_digest = ById(list, order[i]).io
           /\ Ids(recs) = ToSet(order)
<1>1. recs = [i \in DOMAIN order |-> Commits(list)[order[i]]]
  BY SealedChainIs DEF IsSealedChain
<1>2. order \in Seq(Ids(list)) /\ DOMAIN order = 1 .. Len(order) /\ Len(order) \in Nat
  BY OrderFits
<1>3. ASSUME NEW i \in DOMAIN order
      PROVE  /\ recs[i] = Commits(list)[order[i]] /\ IsCommitOf(list, order[i], recs[i])
             /\ order[i] \in Ids(list) /\ recs[i].step_id = order[i]
             /\ recs[i].parents = Parents(list, order[i])
             /\ recs[i].io_digest = ById(list, order[i]).io
             /\ recs[i].seq \in Nat /\ IsFiniteSet(recs[i].parents) /\ order[i] \in Nat
  <2>1. recs[i] = Commits(list)[order[i]]
    BY <1>1
  <2>2. order[i] \in ToSet(order) /\ order[i] \in Ids(list) /\ order[i] \in Nat
    BY <1>2, GraphIs DEF ToSet
  <2>3. IsCommitOf(list, order[i], recs[i])
    BY <2>1, <2>2, CommitsAre
  <2> QED
    BY <2>1, <2>2, <2>3, CommitFields, EntriesAre DEF Parents
<1>4. DOMAIN recs = 1 .. Len(order) /\ recs = [i \in 1 .. Len(order) |-> recs[i]]
  BY <1>1, <1>2
<1>5. \A i \in 1 .. Len(order) : recs[i] \in ToSet(recs)
  BY <1>4 DEF ToSet
<1>6. recs \in Seq(ToSet(recs)) /\ Len(recs) = Len(order)
  BY ONLY <1>2, <1>4, <1>5
<1>7. IsGraph(recs)
  BY <1>2, <1>3, <1>4, <1>6 DEF IsGraph, IsList
<1>8. Ids(recs) = ToSet(order)
  BY <1>2, <1>3, <1>4 DEF Ids, ToSet
<1> QED
  BY <1>2, <1>3, <1>4, <1>6, <1>7, <1>8

LEMMA SealableOrder ==
    ASSUME NEW list, IsGraph(list), Sealable(list), NEW order, order = TopoOrder(list)
    PROVE  /\ Len(order) = Len(list) /\ ToBag(order) = ToBag(IdsOf(list))
           /\ ToSet(order) = Ids(list) /\ CausalSoFar(list, order)
<1>1. Len(order) = Len(list) /\ CausalSoFar(list, order)
  BY DEF Sealable, Ordered, CausalSoFar, Parents
<1> QED
  BY <1>1, OrderedIs

\* The records are in causal order.
LEMMA RecordsAreCausal ==
    ASSUME NEW list, IsGraph(list), Sealable(list), NEW recs, recs = Records(SignChain(list))
    PROVE  /\ Causal(recs) /\ IsCausalOrderOf(recs, list)
           /\ DistinctIds(list) => DistinctIds(recs)
<1> DEFINE order == TopoOrder(list)
<1>1. /\ IsGraph(recs) /\ Len(recs) = Len(order) /\ DOMAIN recs = DOMAIN order
      /\ DOMAIN order = 1 .. Len(order) /\ Len(order) \in Nat
      /\ \A i \in DOMAIN order : /\ recs[i].step_id = order[i]
                                 /\ recs[i].parents = Parents(list, order[i])
      /\ Ids(recs) = ToSet(order)
  BY RecordsAre
<1>2. Len(order) = Len(list) /\ ToSet(order) = Ids(list) /\ CausalSoFar(list, order)
  BY SealableOrder
<1> HIDE DEF order
<1>3. Causal(recs)
  <2>1. ASSUME NEW i \in DOMAIN recs, NEW p \in recs[i].parents
        PROVE  \E j \in 1 .. i - 1 : recs[j].step_id = p
    <3>1. PICK j \in 1 .. i - 1 : order[j] = p
      BY <1>1, <1>2, <2>1 DEF CausalSoFar, ParentsBefore
    <3>2. j \in DOMAIN order
      BY <1>1, <2>1
    <3> QED
      BY <1>1, <3>1, <3>2
  <2> QED
    BY <2>1 DEF Causal
<1>4. IsCausalOrderOf(recs, list)
  BY <1>1, <1>2, <1>3 DEF IsCausalOrderOf
<1>5. DistinctIds(list) => DistinctIds(recs)
  BY <1>1, <1>2 DEF DistinctIds
<1> QED
  BY <1>3, <1>4, <1>5

LEMMA SealableIsCausal ==
    ASSUME NEW list, IsGraph(list), DistinctIds(list), Sealable(list)
    PROVE  \E other \in Reordered(list) : Causal(other)
<1> DEFINE order == TopoOrder(list)
           ids == IdsOf(list)
<1>1. /\ ToBag(order) = ToBag(ids) /\ order \in Seq(Ids(list)) /\ CausalSoFar(list, order)
      /\ Len(order) = Len(list)
  BY SealableOrder, OrderFits
<1>2. /\ ids \in Seq(Ids(list)) /\ DOMAIN ids = DOMAIN list /\ DOMAIN list = 1 .. Len(list)
      /\ \A i \in DOMAIN list : ids[i] = list[i].step_id
  BY GraphIs DEF IdsOf
<1> HIDE DEF order, ids
<1>3. DOMAIN order = DOMAIN list
  BY <1>1, <1>2
<1>4. PICK f \in Bijection(DOMAIN order, DOMAIN ids) : \A i \in DOMAIN order : ids[f[i]] = order[i]
  BY <1>1, <1>2, BagPermutes
<1>5. f \in Bijection(DOMAIN list, DOMAIN list) /\ \A i \in DOMAIN list : f[i] \in DOMAIN list
  BY <1>2, <1>3, <1>4 DEF Bijection, Injection
<1> DEFINE other == [i \in DOMAIN list |-> list[f[i]]]
<1>6. other \in Reordered(list)
  BY <1>5 DEF Reordered
<1>7. ASSUME NEW i \in DOMAIN list
      PROVE  other[i].step_id = order[i] /\ other[i].parents = Parents(list, order[i])
  <2>1. list[f[i]].step_id = order[i] /\ f[i] \in DOMAIN list
    BY <1>2, <1>3, <1>4, <1>5
  <2>2. order[i] \in Ids(list)
    BY <2>1 DEF Ids
  <2> QED
    BY <2>1, <2>2, SingleIs DEF Parents
<1>8. DOMAIN other = DOMAIN list
  OBVIOUS
<1> HIDE DEF other
<1>9. ASSUME NEW i \in DOMAIN other, NEW p \in other[i].parents
      PROVE  \E j \in 1 .. i - 1 : other[j].step_id = p
  <2>1. PICK j \in 1 .. i - 1 : order[j] = p
    BY <1>1, <1>3, <1>7, <1>8, <1>9 DEF CausalSoFar, ParentsBefore
  <2>2. j \in DOMAIN list
    BY <1>2, <1>8
  <2> QED
    BY <1>7, <2>1, <2>2
<1> QED
  BY <1>6, <1>9 DEF Causal

\* A step's commit is over its parents' commits and no others.
LEMMA StepCommitOf ==
    ASSUME NEW step, IsFiniteSet(step.parents), NEW a, NEW b,
           \A p \in step.parents : a[p] = b[p]
    PROVE  /\ ParentRoot(a, step.parents) = ParentRoot(b, step.parents)
           /\ StepCommit(step, a) = StepCommit(step, b)
<1> DEFINE parents == step.parents
           ids == SetToSeq(parents)
<1>1. ids \in [1 .. Cardinality(parents) -> parents]
  <2>1. \E f \in [1 .. Cardinality(parents) -> parents] : IsInjective(f)
    BY FS_CardinalityType DEF ExistsBijection, Bijection, Injection
  <2> QED
    BY <2>1 DEF SetToSeq
<1> HIDE DEF ids
<1>2. [i \in DOMAIN ids |-> a[ids[i]]] = [i \in DOMAIN ids |-> b[ids[i]]]
  BY <1>1
<1>3. ParentRoot(a, parents) = ParentRoot(b, parents)
  BY <1>2 DEF ParentRoot, ids
<1> QED
  BY <1>3 DEF StepCommit

\* The places of an order in which nothing comes twice.
LEMMA OnceIs ==
    ASSUME NEW X, NEW s \in Seq(X), \A x \in X : Cardinality(PlacesOf(s, x)) <= 1,
           NEW i \in DOMAIN s, NEW j \in DOMAIN s, s[i] = s[j]
    PROVE  i = j
<1> DEFINE P == PlacesOf(s, s[i])
<1>1. s[i] \in X /\ i \in P /\ j \in P
  BY DEF PlacesOf
<1>2. IsFiniteSet(P) /\ Cardinality(P) \in Nat /\ Cardinality(P) <= 1
  BY <1>1, BagOfList
<1> HIDE DEF P
<1>3. Cardinality(P) = 1
  BY <1>1, <1>2, FS_EmptySet
<1>4. \E x : P = {x}
  BY <1>2, <1>3, FS_Singleton
<1> QED
  BY <1>1, <1>4

\* Commits that are each the commit of their step over the others.
Commit(list, order, commits) ==
    \A k \in DOMAIN order : commits[order[k]] = StepCommit(ById(list, order[k]), commits)

LEMMA DistinctCommits ==
    ASSUME NEW list, IsGraph(list), DistinctIds(list), Sealable(list),
           NEW order, order = TopoOrder(list)
    PROVE  Commit(list, order, Commits(list))
<1> DEFINE K == KnownOf(list, order)
           Done(n) == {order[j] : j \in 1 .. n}
           Good(n) == \A k \in 1 .. n : K[n][order[k]] = StepCommit(ById(list, order[k]), K[n])
           S == {n \in Nat : n <= Len(order) => Good(n)}
<1>1. /\ order \in Seq(Ids(list)) /\ Len(order) \in Nat /\ DOMAIN order = 1 .. Len(order)
      /\ \A k \in DOMAIN order : order[k] \in Ids(list)
  BY OrderFits
<1>2. CausalSoFar(list, order)
  BY SealableOrder
<1>3. \A i, j \in DOMAIN order : order[i] = order[j] => i = j
  BY <1>1, DistinctOrder, OnceIs
<1>4. \A n \in 1 .. Len(order) : K[n] = Committed(list, order[n], K[n - 1])
  BY <1>1, KnownIs
<1>5. \A n \in 0 .. Len(order) : DOMAIN K[n] = Done(n)
  BY <1>1, KnownAre
<1>6. Commits(list) = K[Len(order)]
  BY CommitsIs
<1> HIDE DEF K
<1>7. ASSUME NEW n \in Nat, n + 1 <= Len(order), Good(n) PROVE Good(n + 1)
  <2> DEFINE id == order[n + 1]
  <2>1. n + 1 \in 1 .. Len(order) /\ (n + 1) - 1 = n /\ n \in 0 .. Len(order)
    BY <1>1, <1>7
  <2>2. K[n + 1] = Committed(list, id, K[n]) /\ DOMAIN K[n] = Done(n)
    BY <1>4, <1>5, <2>1
  <2>3. id \notin Done(n)
    <3>1. ASSUME NEW j \in 1 .. n PROVE order[j] # id
      <4>1. j \in DOMAIN order /\ n + 1 \in DOMAIN order /\ j # n + 1
        BY <1>1, <2>1, <3>1
      <4> QED
        BY <1>3, <4>1
    <3> QED
      BY <3>1
  <2>4. ASSUME NEW k \in 1 .. n + 1 PROVE Parents(list, order[k]) \subseteq Done(n)
    <3>1. k \in DOMAIN order
      BY <1>1, <2>1, <2>4
    <3>2. ASSUME NEW p \in Parents(list, order[k]) PROVE p \in Done(n)
      <4>1. PICK j \in 1 .. k - 1 : order[j] = p
        BY <1>2, <3>1, <3>2 DEF CausalSoFar, ParentsBefore
      <4>2. j \in 1 .. n
        BY <2>4, <4>1
      <4> QED
        BY <4>1, <4>2
    <3> QED
      BY <3>2
  <2>5. \A k \in 1 .. n : order[k] \in Done(n)
    OBVIOUS
  <2> HIDE DEF id, Done
  <2>6. /\ \A x \in Done(n) : K[n + 1][x] = K[n][x]
        /\ K[n + 1][id] = StepCommit(ById(list, id), K[n])
    BY <2>2, <2>3 DEF Committed
  <2>7. ASSUME NEW k \in 1 .. n + 1
        PROVE  K[n + 1][order[k]] = StepCommit(ById(list, order[k]), K[n + 1])
    <3>1. order[k] \in Ids(list)
      BY <1>1, <2>1
    <3>2. StepCommit(ById(list, order[k]), K[n]) = StepCommit(ById(list, order[k]), K[n + 1])
      <4>1. IsFiniteSet(ById(list, order[k]).parents)
        BY <3>1, EntriesAre
      <4>2. \A p \in ById(list, order[k]).parents : K[n][p] = K[n + 1][p]
        BY <2>4, <2>6 DEF Parents
      <4> QED
        BY <4>1, <4>2, StepCommitOf
    <3>3. CASE k = n + 1
      BY <2>6, <3>2, <3>3 DEF id
    <3>4. CASE k # n + 1
      <4>1. k \in 1 .. n
        BY <3>4
      <4> QED
        BY <1>7, <2>5, <2>6, <3>2, <4>1
    <3> QED
      BY <3>3, <3>4
  <2> QED
    BY <2>7
<1> HIDE DEF Good
<1>8. 0 \in S
  BY DEF Good
<1>9. ASSUME NEW n \in Nat, n \in S PROVE n + 1 \in S
  <2>1. ASSUME n + 1 <= Len(order) PROVE Good(n + 1)
    <3>1. n <= Len(order)
      BY <1>1, <2>1
    <3> QED
      BY <1>7, <1>9, <2>1, <3>1
  <2> QED
    BY <2>1
<1>10. Nat \subseteq S
  <2> HIDE DEF S
  <2> QED
    BY <1>8, <1>9, Induct
<1>11. Good(Len(order))
  BY <1>1, <1>10
<1> QED
  BY <1>1, <1>6, <1>11 DEF Good, Commit

\* There is one way to commit what is in causal order.
LEMMA CommitsAgree ==
    ASSUME NEW list, IsGraph(list), NEW order \in Seq(Ids(list)), CausalSoFar(list, order),
           NEW a, NEW b, Commit(list, order, a), Commit(list, order, b)
    PROVE  \A c \in ToSet(order) : a[c] = b[c]
<1> DEFINE Good(n) == \A k \in DOMAIN order : k <= n => a[order[k]] = b[order[k]]
           S == {n \in Nat : Good(n)}
<1>1. /\ Len(order) \in Nat /\ DOMAIN order = 1 .. Len(order)
      /\ \A k \in DOMAIN order : order[k] \in Ids(list)
  OBVIOUS
<1>2. ASSUME NEW n \in Nat, Good(n) PROVE Good(n + 1)
  <2>1. ASSUME NEW k \in DOMAIN order, k <= n + 1 PROVE a[order[k]] = b[order[k]]
    <3>1. IsFiniteSet(ById(list, order[k]).parents)
      BY <1>1, EntriesAre
    <3>2. ASSUME NEW p \in ById(list, order[k]).parents PROVE a[p] = b[p]
      <4>1. PICK j \in 1 .. k - 1 : order[j] = p
        BY <3>2 DEF CausalSoFar, ParentsBefore, Parents
      <4>2. j \in DOMAIN order /\ j <= n
        BY <1>1, <2>1
      <4> QED
        BY <1>2, <4>1, <4>2
    <3>3. StepCommit(ById(list, order[k]), a) = StepCommit(ById(list, order[k]), b)
      BY <3>1, <3>2, StepCommitOf
    <3> QED
      BY <3>3 DEF Commit
  <2> QED
    BY <2>1
<1>3. Good(0)
  BY <1>1
<1> HIDE DEF Good
<1>4. Nat \subseteq S
  <2>1. 0 \in S /\ \A n \in Nat : n \in S => n + 1 \in S
    BY <1>2, <1>3
  <2> HIDE DEF S
  <2> QED
    BY <2>1, Induct
<1>5. Good(Len(order))
  BY <1>1, <1>4
<1> QED
  BY <1>1, <1>5 DEF Good, ToSet

\* The root of distinct steps is the same in whatever order they come.
LEMMA RootOfReordered ==
    ASSUME NEW list, IsGraph(list), DistinctIds(list), Sealable(list),
           NEW other, other \in Reordered(list)
    PROVE  SignChain(other).base.causal_root = SignChain(list).base.causal_root
<1> DEFINE o == TopoOrder(list)
           p == TopoOrder(other)
           r == Records(SignChain(list))
           s == Records(SignChain(other))
<1>1. /\ IsGraph(other) /\ DistinctIds(other) /\ Ids(other) = Ids(list)
      /\ ToBag(IdsOf(other)) = ToBag(IdsOf(list))
      /\ \A c \in Ids(list) : ById(other, c) = ById(list, c)
  BY ReorderedIs, ReorderedSteps
<1>2. IsCausalOrderOf(r, list)
  BY RecordsAreCausal
<1>3. IsCausalOrderOf(r, other)
  <2> HIDE DEF r
  <2>1. \A i \in DOMAIN r : r[i].step_id \in Ids(list)
    BY <1>2 DEF IsCausalOrderOf, Ids
  <2> QED
    BY <1>1, <1>2, <2>1 DEF IsCausalOrderOf, Parents
<1>4. Sealable(other)
  BY <1>1, <1>3, CausalIsSealable
<1>5. /\ ToBag(o) = ToBag(IdsOf(list)) /\ ToSet(o) = Ids(list) /\ CausalSoFar(list, o)
      /\ ToBag(p) = ToBag(IdsOf(other)) /\ ToSet(p) = Ids(list)
      /\ o \in Seq(Ids(list)) /\ p \in Seq(Ids(list))
  BY <1>1, <1>4, SealableOrder, OrderFits
<1>6. Commit(list, o, Commits(list)) /\ Commit(other, p, Commits(other))
  BY <1>1, <1>4, DistinctCommits
<1>7. \A k \in DOMAIN r : r[k] = Commits(list)[o[k]]
  BY RecordsAre
<1>8. \A k \in DOMAIN s : s[k] = Commits(other)[p[k]]
  BY <1>1, RecordsAre, SMTT(30)
<1>9. /\ IsGraph(r) /\ Len(r) = Len(o) /\ DOMAIN r = DOMAIN o
      /\ IsGraph(s) /\ Len(s) = Len(p) /\ DOMAIN s = DOMAIN p
  <2>1. IsGraph(r) /\ Len(r) = Len(o) /\ DOMAIN r = DOMAIN o
    <3>1. IsGraph(list)
      OBVIOUS
    <3> QED
      BY ONLY <3>1, RecordsAre
  <2>2. IsGraph(s) /\ Len(s) = Len(p) /\ DOMAIN s = DOMAIN p
    BY ONLY <1>1, RecordsAre
  <2> QED
    BY <2>1, <2>2
<1> HIDE DEF o, p
<1>10. Commit(list, o, Commits(other))
  <2>1. ASSUME NEW k \in DOMAIN o
        PROVE  Commits(other)[o[k]] = StepCommit(ById(list, o[k]), Commits(other))
    <3>1. o[k] \in Ids(list)
      BY <1>5
    <3>2. PICK j \in DOMAIN p : p[j] = o[k]
      BY <1>5, <3>1 DEF ToSet
    <3>3. Commits(other)[p[j]] = StepCommit(ById(other, p[j]), Commits(other))
      BY <1>6 DEF Commit
    <3> QED
      BY <1>1, <3>1, <3>2, <3>3
  <2> QED
    BY <2>1 DEF Commit
<1>11. \A c \in ToSet(o) : Commits(list)[c] = Commits(other)[c]
  BY <1>5, <1>6, <1>10, CommitsAgree
<1> DEFINE Y == ToSet(r) \cup ToSet(s)
<1>12. r \in Seq(Y) /\ s \in Seq(Y)
  BY <1>9, ListIn DEF IsGraph
<1> HIDE DEF r, s, Y
<1>13. MappedAlike(o, p, r, s)
  <2>1. ASSUME NEW i \in DOMAIN o, NEW j \in DOMAIN p, o[i] = p[j] PROVE r[i] = s[j]
    <3>1. o[i] \in ToSet(o)
      BY DEF ToSet
    <3> QED
      BY <1>7, <1>8, <1>9, <1>11, <2>1, <3>1
  <2> QED
    BY <1>9, <2>1 DEF MappedAlike
<1>14. ToBag(r) = ToBag(s)
  BY <1>1, <1>5, <1>12, <1>13, MappedBags
<1>15. Sorted(r) = Sorted(s)
  BY <1>12, <1>14, SortedOfBag
<1> QED
  BY <1>15, SealedChainIs DEF IsSealedChain, r, s

LEMMA SealedSteps ==
    ASSUME NEW list, NEW e, e = SignChain(list), NEW order, order = TopoOrder(list)
    PROVE  /\ DOMAIN e.steps = DOMAIN order /\ DOMAIN Records(e) = DOMAIN order
           /\ Records(e) = [i \in DOMAIN order |-> Records(e)[i]]
           /\ \A i \in DOMAIN order : /\ e.steps[i].record = Commits(list)[order[i]]
                                      /\ e.steps[i].commit_digest = Commits(list)[order[i]]
                                      /\ Records(e)[i] = Commits(list)[order[i]]
<1>1. /\ DOMAIN e.steps = DOMAIN order
      /\ Records(e) = [i \in DOMAIN order |-> Commits(list)[order[i]]]
      /\ \A i \in DOMAIN order :
            e.steps[i] = [record |-> Commits(list)[order[i]], commit_digest |-> Commits(list)[order[i]]]
  BY SealedChainIs DEF IsSealedChain
<1>2. ASSUME NEW i \in DOMAIN order
      PROVE  /\ e.steps[i].record = Commits(list)[order[i]]
             /\ e.steps[i].commit_digest = Commits(list)[order[i]]
             /\ Records(e)[i] = Commits(list)[order[i]]
  <2>1. e.steps[i] = [record |-> Commits(list)[order[i]], commit_digest |-> Commits(list)[order[i]]]
    BY <1>1
  <2>2. Records(e)[i] = Commits(list)[order[i]]
    BY <1>1
  <2> QED
    BY <2>1, <2>2
<1>3. DOMAIN Records(e) = DOMAIN order /\ Records(e) = [i \in DOMAIN order |-> Records(e)[i]]
  BY <1>1
<1> QED
  BY <1>1, <1>2, <1>3

\* A receipt of distinct steps verifies.
LEMMA SealedVerifies ==
    ASSUME NEW list, IsGraph(list), DistinctIds(list), Sealable(list)
    PROVE  VerifyChain(SignChain(list))
<1> DEFINE order == TopoOrder(list)
           e == SignChain(list)
           recs == Records(e)
           again == TopoOrder(recs)
           commits == [id \in Ids(recs) |-> recs[FirstPlace(recs, id)]]
<1>1. /\ IsGraph(recs) /\ Len(recs) = Len(order) /\ DOMAIN recs = DOMAIN order
      /\ DOMAIN order = 1 .. Len(order) /\ Len(order) \in Nat
      /\ \A i \in DOMAIN order : /\ recs[i] = Commits(list)[order[i]]
                                 /\ order[i] \in Ids(list) /\ recs[i].step_id = order[i]
                                 /\ recs[i].parents = Parents(list, order[i])
  BY RecordsAre
<1>2. IsCausalOrderOf(recs, list) /\ DistinctIds(recs)
  BY RecordsAreCausal
<1>3. Commit(list, order, Commits(list)) /\ CausalSoFar(list, order)
  BY DistinctCommits, SealableOrder
<1>4. /\ IsSealedChain(list, order, e)
      /\ DOMAIN e.steps = DOMAIN order /\ recs = [i \in DOMAIN order |-> recs[i]]
      /\ \A i \in DOMAIN order : e.steps[i].record = recs[i] /\ e.steps[i].commit_digest = recs[i]
  BY SealedChainIs, SealedSteps
<1> HIDE DEF order, e, recs
<1>5. /\ \A c \in Ids(recs) : FirstPlace(recs, c) \in DOMAIN recs /\ recs[FirstPlace(recs, c)].step_id = c
      /\ \A c \in Ids(recs) : recs[FirstPlace(recs, c)] = ById(recs, c)
      /\ \A i \in DOMAIN recs : recs[i] = ById(recs, recs[i].step_id)
  <2>1. ASSUME NEW c \in Ids(recs)
        PROVE  /\ FirstPlace(recs, c) \in DOMAIN recs /\ recs[FirstPlace(recs, c)].step_id = c
               /\ recs[FirstPlace(recs, c)] = ById(recs, c)
    BY <1>1, <1>2, SingleIs, EntriesAre DEF ById
  <2>2. ASSUME NEW i \in DOMAIN recs PROVE recs[i] = ById(recs, recs[i].step_id)
    <3>1. recs[i].step_id \in Ids(recs)
      BY DEF Ids
    <3> QED
      BY <1>1, <1>2, <3>1, SingleIs
  <2> QED
    BY <2>1, <2>2
<1>6. Sealable(recs)
  <2>1. IsCausalOrderOf(recs, recs)
    BY <1>2, <1>5 DEF IsCausalOrderOf, Parents
  <2> QED
    BY <1>1, <1>2, <2>1, CausalIsSealable
<1>7. Ordered(recs) /\ CausalSoFar(recs, again) /\ ToSet(again) = Ids(recs)
  BY <1>1, <1>6, SealableOrder DEF Sealable
<1>8. \A c \in Ids(recs) : recs[FirstPlace(recs, c)] = Commits(list)[c]
  BY <1>1, <1>5
<1>9. ASSUME NEW k \in DOMAIN again
      PROVE  LET step == e.steps[FirstPlace(recs, again[k])]
             IN  /\ ParentsBefore(again, k, step.record.parents)
                 /\ step.record.parent_commit_root = ParentRoot(commits, step.record.parents)
                 /\ step.record = step.commit_digest
  <2> DEFINE c == again[k]
             f == FirstPlace(recs, c)
  <2>1. c \in Ids(recs)
    BY <1>7 DEF ToSet
  <2>2. f \in DOMAIN order /\ recs[f].step_id = c /\ recs[f] = ById(recs, c)
    BY <1>1, <1>5, <2>1
  <2>3. ParentsBefore(again, k, recs[f].parents)
    BY <1>7, <2>2 DEF CausalSoFar, Parents
  <2> HIDE DEF f
  <2>4. e.steps[f].record = recs[f] /\ e.steps[f].commit_digest = recs[f]
    BY <1>4, <2>2
  <2>5. recs[f] = StepCommit(ById(list, order[f]), Commits(list))
    BY <1>1, <1>3, <2>2 DEF Commit
  <2>6. recs[f].parent_commit_root = ParentRoot(Commits(list), recs[f].parents)
    BY <2>5 DEF StepCommit
  <2>7. IsFiniteSet(recs[f].parents)
    BY <1>1, <2>2 DEF IsGraph
  <2>8. ASSUME NEW p \in recs[f].parents PROVE Commits(list)[p] = commits[p]
    <3>1. PICK j \in 1 .. f - 1 : recs[j].step_id = p
      BY <1>1, <1>2, <2>2, <2>8 DEF IsCausalOrderOf, Causal
    <3>2. p \in Ids(recs)
      BY <1>1, <2>2, <3>1 DEF Ids
    <3> QED
      BY <1>8, <3>2
  <2> HIDE DEF commits
  <2>9. ParentRoot(Commits(list), recs[f].parents) = ParentRoot(commits, recs[f].parents)
    BY <2>7, <2>8, StepCommitOf
  <2> QED
    BY <2>3, <2>4, <2>6, <2>9 DEF f
<1>10. [i \in DOMAIN e.steps |-> e.steps[i].commit_digest] = recs
  <2>1. [i \in DOMAIN e.steps |-> e.steps[i].commit_digest] = [i \in DOMAIN order |-> recs[i]]
    BY <1>4
  <2> QED
    BY <1>4, <2>1
<1>11. Len(e.steps) = Len(order)
  BY <1>1, <1>4 DEF IsSealedChain
<1>12. Recomputes(e)
  <2>1. /\ MerkleRoot(Sorted([i \in DOMAIN e.steps |-> e.steps[i].commit_digest])) = e.base.causal_root
        /\ SealHolds(e, e.base, e.base.causal_root)
    BY <1>4, <1>10 DEF IsSealedChain, recs
  <2> QED
    BY <1>7, <1>9, <2>1 DEF Recomputes, recs
<1>13. e.base.step_count = Len(order)
  BY <1>4 DEF IsSealedChain
<1> QED
  BY <1>11, <1>12, <1>13 DEF VerifyChain, e

--------------------------------------------------------------------------------
(* Chains: the receipt as it is shown.                                         *)

ShownStep(s, r) ==
    \E j \in DOMAIN r.steps :
        /\ s = [record |-> s.record, commit_digest |-> s.commit_digest]
        /\ s.commit_digest = r.steps[j].commit_digest
        /\ s.record.step_id = r.steps[j].record.step_id
        /\ s.record.seq = r.steps[j].record.seq
        /\ IsFiniteSet(s.record.parents)

Shows(e, r) ==
    /\ e.base = r.base
    /\ IsList(e.steps)
    /\ \A i \in DOMAIN e.steps : ShownStep(e.steps[i], r)

\* Every step is what a verifier expects when its record is what was committed.
Row(list, c) == [record |-> Commits(list)[c], commit_digest |-> Commits(list)[c]]

AreShown(list, e) ==
    /\ IsGraph(Records(e)) /\ DOMAIN Records(e) = DOMAIN e.steps
    /\ Len(Records(e)) = Len(e.steps) /\ DOMAIN e.steps = 1 .. Len(e.steps)
    /\ \A i \in DOMAIN e.steps :
          /\ e.steps[i].record.step_id \in ToSet(TopoOrder(list))
          /\ Records(e)[i].step_id = e.steps[i].record.step_id
          /\ e.steps[i].commit_digest = Commits(list)[e.steps[i].record.step_id]
          /\ e.steps[i] = [record |-> e.steps[i].record,
                           commit_digest |-> e.steps[i].commit_digest]

LEMMA ShownSteps ==
    ASSUME NEW list, IsGraph(list), NEW r, r = SignChain(list), NEW e, Shows(e, r)
    PROVE  AreShown(list, e)
<1> DEFINE order == TopoOrder(list)
           recs == Records(e)
<1>1. /\ IsGraph(Records(r)) /\ DOMAIN Records(r) = DOMAIN order
      /\ \A i \in DOMAIN order : Records(r)[i].step_id = order[i]
  BY RecordsAre
<1>2. /\ DOMAIN r.steps = DOMAIN order
      /\ \A i \in DOMAIN order : /\ r.steps[i].record = Commits(list)[order[i]]
                                 /\ r.steps[i].commit_digest = Commits(list)[order[i]]
  BY SealedSteps
<1>3. \A i \in DOMAIN order : r.steps[i].record = Records(r)[i]
  BY SealedSteps
<1> HIDE DEF order
<1>4. e.steps \in Seq(ToSet(e.steps)) /\ DOMAIN e.steps = 1 .. Len(e.steps) /\ Len(e.steps) \in Nat
  BY DEF Shows, IsList
<1>5. /\ \A i \in DOMAIN e.steps : recs[i] = e.steps[i].record
      /\ DOMAIN recs = 1 .. Len(e.steps) /\ recs = [i \in 1 .. Len(e.steps) |-> recs[i]]
  BY <1>4 DEF Records
<1> HIDE DEF recs
<1>6. ASSUME NEW i \in DOMAIN e.steps
      PROVE  /\ recs[i].step_id \in Nat /\ recs[i].seq \in Nat /\ IsFiniteSet(recs[i].parents)
             /\ recs[i].step_id \in ToSet(order)
             /\ e.steps[i].commit_digest = Commits(list)[recs[i].step_id]
             /\ e.steps[i] = [record |-> e.steps[i].record,
                              commit_digest |-> e.steps[i].commit_digest]
  <2>1. PICK j \in DOMAIN r.steps :
            /\ e.steps[i] = [record |-> e.steps[i].record, commit_digest |-> e.steps[i].commit_digest]
            /\ e.steps[i].commit_digest = r.steps[j].commit_digest
            /\ e.steps[i].record.step_id = r.steps[j].record.step_id
            /\ e.steps[i].record.seq = r.steps[j].record.seq
            /\ IsFiniteSet(e.steps[i].record.parents)
    BY DEF Shows, ShownStep
  <2>2. recs[i].step_id = order[j] /\ recs[i].seq \in Nat /\ order[j] \in Nat
    <3>1. /\ j \in DOMAIN order /\ r.steps[j].record = Records(r)[j] /\ recs[i] = e.steps[i].record
          /\ j \in DOMAIN Records(r)
      BY <1>1, <1>2, <1>3, <1>5, <2>1
    <3>2. Records(r)[j].step_id = order[j] /\ Records(r)[j].step_id \in Nat /\ Records(r)[j].seq \in Nat
      BY <1>1, <3>1 DEF IsGraph
    <3> QED
      BY <2>1, <3>1, <3>2
  <2>3. order[j] \in ToSet(order)
    BY <1>2, <2>1 DEF ToSet
  <2>4. e.steps[i].commit_digest = Commits(list)[recs[i].step_id]
    BY <1>2, <2>1, <2>2
  <2> QED
    BY <1>5, <2>1, <2>2, <2>3, <2>4
<1>7. Len(recs) = Len(e.steps) /\ recs \in Seq(ToSet(recs))
  <2>1. \A i \in 1 .. Len(e.steps) : recs[i] \in ToSet(recs)
    BY <1>5 DEF ToSet
  <2> QED
    BY ONLY <1>4, <1>5, <2>1
<1>8. IsGraph(recs)
  BY <1>4, <1>5, <1>6, <1>7 DEF IsGraph, IsList
<1> QED
  BY <1>4, <1>5, <1>6, <1>7, <1>8 DEF order, recs, AreShown

--------------------------------------------------------------------------------
(* Chains: the run.                                                            *)

\* What is gathered is a list of steps; a receipt is the chain of them, and what is
\* shown is that receipt with at most its steps edited, none of them to another id.
DagInv ==
    /\ IsGraph(steps)
    /\ run = <<>> => shown = <<>>
    /\ run # <<>> => /\ run = SignChain(steps) /\ Sealable(steps)
                     /\ Shows(shown, run)

LEMMA ShowsItself ==
    ASSUME NEW list, IsGraph(list), NEW r, r = SignChain(list)
    PROVE  /\ Shows(r, r) /\ r # <<>> /\ IsList(r.steps)
           /\ r = [f \in {"base", "steps", "payload_digest", "envelope_signature"} |-> r[f]]
           /\ \A i \in DOMAIN r.steps :
                 /\ r.steps[i] = [record |-> r.steps[i].record, commit_digest |-> r.steps[i].commit_digest]
                 /\ DOMAIN r.steps[i].record =
                        {"step_id", "seq", "parents", "io_digest", "parent_commit_root"}
<1> DEFINE order == TopoOrder(list)
<1>1. /\ DOMAIN r = {"base", "steps", "payload_digest", "envelope_signature"}
      /\ r.steps = [i \in DOMAIN order |-> r.steps[i]]
      /\ \A i \in DOMAIN order :
            r.steps[i] = [record |-> Commits(list)[order[i]], commit_digest |-> Commits(list)[order[i]]]
  BY SealedChainIs DEF IsSealedChain
<1>2. /\ IsGraph(Records(r)) /\ DOMAIN Records(r) = DOMAIN order
      /\ DOMAIN order = 1 .. Len(order) /\ Len(order) \in Nat
  BY RecordsAre
<1>3. \A i \in DOMAIN order : r.steps[i].record = Records(r)[i]
  BY SealedSteps
<1>4. r = [f \in {"base", "steps", "payload_digest", "envelope_signature"} |-> r[f]] /\ r # <<>>
  <2>1. r = [f \in DOMAIN r |-> r[f]]
    BY DEF SignChain, Seal
  <2>2. r # <<>>
    BY <1>1
  <2> QED
    BY <1>1, <2>1, <2>2
<1> HIDE DEF order
<1>5. ASSUME NEW i \in DOMAIN order
      PROVE  /\ r.steps[i] = [record |-> r.steps[i].record, commit_digest |-> r.steps[i].commit_digest]
             /\ IsFiniteSet(r.steps[i].record.parents)
             /\ DOMAIN r.steps[i].record =
                    {"step_id", "seq", "parents", "io_digest", "parent_commit_root"}
  <2>1. r.steps[i] = [record |-> r.steps[i].record, commit_digest |-> r.steps[i].commit_digest]
    <3>1. r.steps[i] = [record |-> Commits(list)[order[i]], commit_digest |-> Commits(list)[order[i]]]
      BY <1>1
    <3> QED
      BY <3>1
  <2>2. IsFiniteSet(r.steps[i].record.parents)
    BY <1>2, <1>3 DEF IsGraph
  <2>3. IsCommitOf(list, order[i], r.steps[i].record)
    BY <1>3, RecordsAre DEF order
  <2>4. DOMAIN r.steps[i].record = {"step_id", "seq", "parents", "io_digest", "parent_commit_root"}
    BY <2>3 DEF IsCommitOf, StepCommit
  <2> QED
    BY <2>1, <2>2, <2>4
<1>6. IsList(r.steps) /\ DOMAIN r.steps = DOMAIN order
  <2>1. DOMAIN r.steps = 1 .. Len(order) /\ r.steps = [i \in 1 .. Len(order) |-> r.steps[i]]
    BY <1>1, <1>2
  <2>2. \A i \in 1 .. Len(order) : r.steps[i] \in ToSet(r.steps)
    BY <2>1 DEF ToSet
  <2>3. r.steps \in Seq(ToSet(r.steps))
    BY ONLY <1>2, <2>1, <2>2
  <2> QED
    BY <1>2, <2>1, <2>3 DEF IsList
<1>7. Shows(r, r)
  BY <1>5, <1>6 DEF Shows, ShownStep
<1> QED
  BY <1>4, <1>5, <1>6, <1>7

\* A receipt with other steps.
LEMMA ShowsSteps ==
    ASSUME NEW r, r = [f \in {"base", "steps", "payload_digest", "envelope_signature"} |-> r[f]],
           NEW s, IsList(s), \A i \in DOMAIN s : ShownStep(s[i], r)
    PROVE  Shows([r EXCEPT !.steps = s], r)
<1>1. /\ [r EXCEPT !.steps = s].steps = s
      /\ [r EXCEPT !.steps = s].base = r.base
  OBVIOUS
<1> QED
  BY <1>1 DEF Shows

LEMMA EditShows ==
    ASSUME NEW list, IsGraph(list), NEW r, r = SignChain(list), NEW e,
           \/ \E i \in DOMAIN r.steps :
                 \/ e = [r EXCEPT !.steps = RemoveAt(@, i)]
                 \/ e = [r EXCEPT !.steps = Append(@, @[i])]
                 \/ \E io \in Io : e = [r EXCEPT !.steps[i].record.io_digest = io]
                 \/ \E j \in DOMAIN r.steps :
                        e = [r EXCEPT !.steps[i].record.parents =
                                @ \cup {r.steps[j].record.step_id}]
           \/ e = [r EXCEPT !.steps = Reverse(@)]
    PROVE  Shows(e, r)
<1> DEFINE X == {s \in ToSet(r.steps) \cup {e.steps[i] : i \in DOMAIN r.steps} : ShownStep(s, r)}
           all == r.steps
<1>1. /\ Shows(r, r) /\ IsList(r.steps)
      /\ r = [f \in {"base", "steps", "payload_digest", "envelope_signature"} |-> r[f]]
      /\ \A i \in DOMAIN r.steps :
            /\ r.steps[i] = [record |-> r.steps[i].record, commit_digest |-> r.steps[i].commit_digest]
            /\ DOMAIN r.steps[i].record =
                   {"step_id", "seq", "parents", "io_digest", "parent_commit_root"}
  BY ShowsItself
<1>2. \A i \in DOMAIN r.steps : ShownStep(r.steps[i], r)
  BY <1>1 DEF Shows
<1>3. ASSUME NEW Y, NEW s \in Seq(Y), \A y \in Y : ShownStep(y, r)
      PROVE  Shows([r EXCEPT !.steps = s], r)
  <2>1. IsList(s) /\ \A i \in DOMAIN s : s[i] \in Y
    BY <1>3, ListsOf
  <2>2. \A i \in DOMAIN s : ShownStep(s[i], r)
    BY <1>3, <2>1
  <2> QED
    BY <1>1, <2>1, <2>2, ShowsSteps
<1> DEFINE Z == {s \in ToSet(r.steps) : ShownStep(s, r)}
<1>4. r.steps \in Seq(Z) /\ \A z \in Z : ShownStep(z, r)
  <2>1. ToSet(r.steps) = Z
    BY <1>2 DEF ToSet
  <2> QED
    BY <1>1, <2>1 DEF IsList
<1> HIDE DEF Z
<1>5. ASSUME NEW i \in DOMAIN r.steps, NEW x, ShownStep(x, r)
      PROVE  Shows([r EXCEPT !.steps[i] = x], r)
  <2>1. [r.steps EXCEPT ![i] = x] \in Seq(Z \cup {x})
    BY <1>4
  <2>2. \A y \in Z \cup {x} : ShownStep(y, r)
    BY <1>4, <1>5
  <2> QED
    BY <1>3, <2>1, <2>2
<1>6. ASSUME NEW i \in DOMAIN r.steps, e = [r EXCEPT !.steps = RemoveAt(@, i)] PROVE Shows(e, r)
  <2>1. RemoveAt(r.steps, i) \in Seq(Z)
    BY <1>4 DEF RemoveAt
  <2> QED
    BY <1>3, <1>4, <1>6, <2>1
<1>7. ASSUME NEW i \in DOMAIN r.steps, e = [r EXCEPT !.steps = Append(@, @[i])] PROVE Shows(e, r)
  <2>1. Append(r.steps, r.steps[i]) \in Seq(Z)
    BY <1>4
  <2> QED
    BY <1>3, <1>4, <1>7, <2>1
<1>8. ASSUME e = [r EXCEPT !.steps = Reverse(@)] PROVE Shows(e, r)
  <2>1. Reverse(r.steps) \in Seq(Z)
    BY <1>4 DEF Reverse
  <2> QED
    BY <1>3, <1>4, <1>8, <2>1
<1>9. ASSUME NEW i \in DOMAIN r.steps, NEW io \in Io,
             e = [r EXCEPT !.steps[i].record.io_digest = io]
      PROVE  Shows(e, r)
  <2> DEFINE x == [r.steps[i] EXCEPT !.record.io_digest = io]
  <2>1. e = [r EXCEPT !.steps[i] = x]
    BY <1>9
  <2>2. /\ r.steps[i] = [record |-> r.steps[i].record, commit_digest |-> r.steps[i].commit_digest]
        /\ IsFiniteSet(r.steps[i].record.parents)
        /\ DOMAIN r.steps[i].record =
               {"step_id", "seq", "parents", "io_digest", "parent_commit_root"}
    BY <1>1, <1>2 DEF ShownStep
  <2>3. x = [record |-> [r.steps[i].record EXCEPT !.io_digest = io],
             commit_digest |-> r.steps[i].commit_digest]
    BY <2>2
  <2>4. ShownStep(x, r)
    BY <2>2, <2>3 DEF ShownStep
  <2> HIDE DEF x
  <2> QED
    BY <1>5, <2>1, <2>4
<1>10. ASSUME NEW i \in DOMAIN r.steps, NEW j \in DOMAIN r.steps,
              e = [r EXCEPT !.steps[i].record.parents = @ \cup {r.steps[j].record.step_id}]
       PROVE  Shows(e, r)
  <2> DEFINE more == r.steps[i].record.parents \cup {r.steps[j].record.step_id}
             x == [r.steps[i] EXCEPT !.record.parents = more]
  <2>1. e = [r EXCEPT !.steps[i] = x]
    BY <1>10
  <2>2. /\ r.steps[i] = [record |-> r.steps[i].record, commit_digest |-> r.steps[i].commit_digest]
        /\ IsFiniteSet(r.steps[i].record.parents)
        /\ DOMAIN r.steps[i].record =
               {"step_id", "seq", "parents", "io_digest", "parent_commit_root"}
    BY <1>1, <1>2 DEF ShownStep
  <2>3. IsFiniteSet(more)
    BY <2>2, FS_AddElement
  <2> HIDE DEF more
  <2>4. x = [record |-> [r.steps[i].record EXCEPT !.parents = more],
             commit_digest |-> r.steps[i].commit_digest]
    BY <2>2
  <2>5. ShownStep(x, r)
    BY <2>2, <2>3, <2>4 DEF ShownStep
  <2> HIDE DEF x
  <2> QED
    BY <1>5, <2>1, <2>5
<1> QED
  BY <1>6, <1>7, <1>8, <1>9, <1>10

LEMMA DagInvInit == DagInit => DagInv
<1> SUFFICES ASSUME DagInit PROVE DagInv
  OBVIOUS
<1>1. steps = <<>> /\ run = <<>> /\ shown = <<>>
  BY DEF DagInit
<1>2. IsGraph(<<>>)
  BY DEF IsGraph, IsList
<1> QED
  BY <1>1, <1>2 DEF DagInv

LEMMA DagInvNext == DagInv /\ [DagNext]_dagVars => DagInv'
<1> SUFFICES ASSUME DagInv, [DagNext]_dagVars PROVE DagInv'
  OBVIOUS
<1>1. CASE Report
  <2>1. PICK step \in Reported : steps' = Append(steps, step)
    BY <1>1 DEF Report
  <2>2. step.step_id \in Nat /\ step.seq \in Nat /\ IsFiniteSet(step.parents)
    BY ReceiptDagAssumption
  <2> DEFINE X == ToSet(steps) \cup {step}
  <2>3. steps \in Seq(X) /\ step \in X
    BY ListIn DEF DagInv, IsGraph
  <2> HIDE DEF X
  <2>4. /\ steps' \in Seq(X) /\ DOMAIN steps' = 1 .. Len(steps) + 1 /\ steps'[Len(steps) + 1] = step
        /\ \A i \in 1 .. Len(steps) : steps'[i] = steps[i]
        /\ DOMAIN steps = 1 .. Len(steps) /\ Len(steps) \in Nat
    BY <2>1, <2>3, AppendedEntries
  <2>5. ASSUME NEW i \in DOMAIN steps'
        PROVE  steps'[i].step_id \in Nat /\ steps'[i].seq \in Nat /\ IsFiniteSet(steps'[i].parents)
    <3>1. CASE i = Len(steps) + 1
      BY <2>2, <2>4, <3>1
    <3>2. CASE i # Len(steps) + 1
      <4>1. i \in DOMAIN steps /\ steps'[i] = steps[i]
        BY <2>4, <3>2
      <4> QED
        BY <4>1 DEF DagInv, IsGraph
    <3> QED
      BY <3>1, <3>2
  <2>6. IsGraph(steps')
    BY <2>4, <2>5, ListsOf DEF IsGraph
  <2>7. run' = <<>> /\ shown' = <<>>
    BY <1>1 DEF Report, DagInv
  <2> QED
    BY <2>6, <2>7 DEF DagInv
<1>2. CASE SealRun
  <2>1. run' = SignChain(steps) /\ shown' = run' /\ steps' = steps /\ Sealable(steps)
    BY <1>2 DEF SealRun
  <2>2. Shows(run', run') /\ run' # <<>>
    BY <2>1, ShowsItself DEF DagInv
  <2> QED
    BY <2>1, <2>2 DEF DagInv
<1>3. CASE EditRun
  <2>1. run # <<>> /\ run' = run /\ steps' = steps /\ run = SignChain(steps) /\ Sealable(steps)
    BY <1>3 DEF EditRun, DagInv
  <2>2. Shows(shown', run)
    BY <1>3, <2>1, EditShows DEF EditRun, DagInv
  <2> QED
    BY <2>1, <2>2 DEF DagInv
<1>4. CASE UNCHANGED dagVars
  BY <1>4 DEF dagVars, DagInv
<1> QED
  BY <1>1, <1>2, <1>3, <1>4 DEF DagNext

LEMMA DagInvImplies1 == DagInv => SealedInCausalOrder
<1> SUFFICES ASSUME DagInv, DistinctIds(steps), shown = run
             PROVE  /\ Sealable(steps) <=> \E list \in Reordered(steps) : Causal(list)
                    /\ run # <<>> =>
                          /\ Causal(Records(run))
                          /\ \A list \in Reordered(steps) :
                                SignChain(list).base.causal_root = run.base.causal_root
  BY DEF SealedInCausalOrder
<1>1. IsGraph(steps)
  BY DEF DagInv
<1>2. ASSUME NEW list \in Reordered(steps), Causal(list) PROVE Sealable(steps)
  <2>1. /\ IsGraph(list) /\ Ids(list) = Ids(steps)
        /\ \A i \in DOMAIN list : \E j \in DOMAIN steps : list[i] = steps[j]
    BY <1>1, ReorderedIs
  <2>2. ASSUME NEW i \in DOMAIN list PROVE list[i].parents = Parents(steps, list[i].step_id)
    <3>1. list[i].step_id \in Ids(steps)
      BY <2>1 DEF Ids
    <3> QED
      BY <1>1, <2>1, <3>1, SingleIs DEF Parents
  <2>3. IsCausalOrderOf(list, steps)
    BY <1>2, <2>1, <2>2 DEF IsCausalOrderOf
  <2> QED
    BY <1>1, <2>3, CausalIsSealable
<1>3. Sealable(steps) => \E list \in Reordered(steps) : Causal(list)
  BY <1>1, SealableIsCausal
<1>4. ASSUME run # <<>>
      PROVE  /\ Causal(Records(run))
             /\ \A list \in Reordered(steps) :
                   SignChain(list).base.causal_root = run.base.causal_root
  <2>1. run = SignChain(steps) /\ Sealable(steps)
    BY <1>4 DEF DagInv
  <2> QED
    BY <1>1, <2>1, RecordsAreCausal, RootOfReordered
<1> QED
  BY <1>2, <1>3, <1>4

\* What a verifier reads of a receipt that he accepts.
LEMMA AcceptedIs ==
    ASSUME NEW list, IsGraph(list), Sealable(list), NEW r, r = SignChain(list),
           NEW e, Shows(e, r), VerifyChain(e)
    PROVE  /\ ToBag([i \in DOMAIN e.steps |-> e.steps[i].commit_digest]) = ToBag(Records(r))
           /\ Len(e.steps) = Len(list) /\ Ids(Records(e)) = Ids(list)
           /\ \A c \in Ids(list) : e.steps[FirstPlace(Records(e), c)] = Row(list, c)
<1> DEFINE order == TopoOrder(list)
           recs == Records(e)
           digests == [i \in DOMAIN e.steps |-> e.steps[i].commit_digest]
           commits == Commits(list)
           id(i) == e.steps[i].record.step_id
<1>1. /\ IsGraph(recs) /\ DOMAIN recs = DOMAIN e.steps /\ DOMAIN e.steps = 1 .. Len(e.steps)
      /\ \A i \in DOMAIN e.steps :
            /\ id(i) \in ToSet(order) /\ recs[i].step_id = id(i)
            /\ e.steps[i].commit_digest = commits[id(i)]
            /\ e.steps[i] = [record |-> e.steps[i].record, commit_digest |-> e.steps[i].commit_digest]
  <2>1. AreShown(list, e)
    BY ShownSteps
  <2> QED
    BY <2>1 DEF AreShown
<1>2. /\ IsGraph(Records(r)) /\ DOMAIN Records(r) = DOMAIN order /\ Len(Records(r)) = Len(order)
      /\ \A i \in DOMAIN order : Records(r)[i] = commits[order[i]]
  BY RecordsAre
<1>3. ToSet(order) = Ids(list) /\ Len(order) = Len(list)
  BY SealableOrder
<1>4. r.base.step_count = Len(order) /\ r.base.causal_root = MerkleRoot(Sorted(Records(r)))
  BY SealedChainIs DEF IsSealedChain
<1>5. \A c \in ToSet(order) : commits[c].step_id = c
  BY <1>3, CommitsAre, CommitFields, EntriesAre
<1>6. e.base = r.base /\ Len(e.steps) = e.base.step_count /\ Recomputes(e)
  BY DEF Shows, VerifyChain
<1>7. ASSUME NEW c \in Ids(recs)
      PROVE  /\ FirstPlace(recs, c) \in DOMAIN e.steps /\ id(FirstPlace(recs, c)) = c
             /\ e.steps[FirstPlace(recs, c)].record = e.steps[FirstPlace(recs, c)].commit_digest
  <2>1. FirstPlace(recs, c) \in EntriesOf(recs, c)
    BY <1>1, EntriesAre
  <2>2. FirstPlace(recs, c) \in DOMAIN e.steps /\ id(FirstPlace(recs, c)) = c
    BY <1>1, <2>1 DEF EntriesOf
  <2>3. ToSet(TopoOrder(recs)) = Ids(recs)
    BY <1>1, <1>6, OrderedIs DEF Recomputes, Ordered
  <2>4. PICK k \in DOMAIN TopoOrder(recs) : TopoOrder(recs)[k] = c
    BY <2>3 DEF ToSet
  <2> QED
    BY <1>6, <2>2, <2>4 DEF Recomputes
<1> HIDE DEF order, recs, commits
<1>8. ToBag(digests) = ToBag(Records(r))
  <2> DEFINE Y == {commits[c] : c \in ToSet(order)}
  <2>1. /\ DOMAIN digests = 1 .. Len(e.steps)
        /\ \A i \in DOMAIN digests : digests[i] = commits[id(i)] /\ digests[i] \in Y
        /\ digests = [i \in 1 .. Len(e.steps) |-> digests[i]]
    BY <1>1
  <2>2. \A i \in DOMAIN Records(r) : Records(r)[i] \in Y
    BY <1>2 DEF ToSet
  <2>3. Len(e.steps) \in Nat /\ Len(e.steps) = Len(Records(r))
    BY <1>2, <1>4, <1>6, GraphIs
  <2>4. Records(r) \in Seq(Y)
    <3>1. ToSet(Records(r)) \subseteq Y
      BY <2>2 DEF ToSet
    <3> QED
      BY <1>2, <3>1, ListIn DEF IsGraph
  <2>5. MerkleRoot(Sorted(digests)) = MerkleRoot(Sorted(Records(r)))
    BY <1>4, <1>6 DEF Recomputes
  <2> HIDE DEF digests, Y
  <2>6. digests \in Seq(Y) /\ Len(digests) = Len(e.steps)
    BY ONLY <2>1, <2>3
  <2> QED
    BY <2>3, <2>4, <2>5, <2>6, SortedRootTells
<1>9. \A c \in Ids(recs) : c \in Ids(list)
  BY <1>1, <1>3 DEF Ids
<1>10. ASSUME NEW c \in Ids(list) PROVE c \in Ids(recs)
  <2>1. PICK k \in DOMAIN order : order[k] = c
    BY <1>3 DEF ToSet
  <2>2. commits[c] \in ToSet(Records(r))
    BY <1>2, <2>1 DEF ToSet
  <2>3. ToSet(digests) = ToSet(Records(r))
    <3> DEFINE Y == ToSet(digests) \cup ToSet(Records(r))
    <3>1. IsList(Records(r)) /\ Len(e.steps) \in Nat
      BY <1>2, <1>4, <1>6, GraphIs DEF IsGraph
    <3>2. /\ digests = [i \in 1 .. Len(e.steps) |-> digests[i]]
          /\ \A i \in 1 .. Len(e.steps) : digests[i] \in ToSet(digests)
      BY <1>1 DEF ToSet
    <3> HIDE DEF digests
    <3>3. digests \in Seq(ToSet(digests))
      BY ONLY <3>1, <3>2
    <3>4. digests \in Seq(Y) /\ Records(r) \in Seq(Y)
      BY <3>1, <3>3, ListIn DEF IsList
    <3> QED
      BY <1>8, <3>4, BagTellsLength
  <2>4. PICK i \in DOMAIN e.steps : e.steps[i].commit_digest = commits[c]
    BY <2>2, <2>3 DEF ToSet
  <2>5. id(i) \in ToSet(order) /\ commits[id(i)] = commits[c] /\ recs[i].step_id = id(i)
    BY <1>1, <2>4
  <2>6. id(i) = c
    BY <1>3, <1>5, <2>5
  <2> QED
    BY <1>1, <2>5, <2>6 DEF Ids
<1>11. ASSUME NEW c \in Ids(list) PROVE e.steps[FirstPlace(recs, c)] = Row(list, c)
  <2> DEFINE f == FirstPlace(recs, c)
  <2>1. f \in DOMAIN e.steps /\ id(f) = c /\ e.steps[f].record = e.steps[f].commit_digest
    BY <1>7, <1>10
  <2> HIDE DEF f
  <2>2. e.steps[f].commit_digest = commits[c]
    BY <1>1, <2>1
  <2>3. e.steps[f] = [record |-> commits[c], commit_digest |-> commits[c]]
    BY <1>1, <2>1, <2>2
  <2> QED
    BY <2>3 DEF Row, commits, f
<1>12. Len(e.steps) = Len(list) /\ Ids(recs) = Ids(list)
  BY <1>3, <1>4, <1>6, <1>9, <1>10
<1> QED
  BY <1>8, <1>11, <1>12 DEF recs

\* What the verifier looks at is a row for each step.
LEMMA CheckedIs ==
    ASSUME NEW list, IsGraph(list), Sealable(list), NEW r, r = SignChain(list),
           NEW e, Shows(e, r), VerifyChain(e)
    PROVE  /\ Checked(e) = {Row(list, c) : c \in Ids(list)}
           /\ Checked(r) = {Row(list, c) : c \in Ids(list)}
<1>1. /\ Ids(Records(e)) = Ids(list)
      /\ \A c \in Ids(list) : e.steps[FirstPlace(Records(e), c)] = Row(list, c)
  BY AcceptedIs
<1>2. Checked(e) = {Row(list, c) : c \in Ids(list)}
  BY <1>1 DEF Checked
<1> DEFINE order == TopoOrder(list)
           recs == Records(r)
<1>3. /\ IsGraph(recs) /\ DOMAIN recs = DOMAIN order
      /\ \A i \in DOMAIN order : recs[i].step_id = order[i]
      /\ Ids(recs) = ToSet(order)
  BY RecordsAre
<1>4. ToSet(order) = Ids(list)
  BY SealableOrder
<1>5. \A i \in DOMAIN order :
          r.steps[i] = [record |-> Commits(list)[order[i]], commit_digest |-> Commits(list)[order[i]]]
  BY SealedChainIs DEF IsSealedChain
<1> HIDE DEF order, recs
<1>6. ASSUME NEW c \in Ids(list) PROVE r.steps[FirstPlace(recs, c)] = Row(list, c)
  <2>1. FirstPlace(recs, c) \in DOMAIN order /\ recs[FirstPlace(recs, c)].step_id = c
    <3>1. c \in Ids(recs)
      BY <1>3, <1>4
    <3>2. FirstPlace(recs, c) \in EntriesOf(recs, c)
      BY <1>3, <3>1, EntriesAre
    <3> QED
      BY <1>3, <3>2 DEF EntriesOf
  <2> QED
    BY <1>3, <1>5, <2>1 DEF Row
<1>7. Checked(r) = {Row(list, c) : c \in Ids(list)}
  BY <1>3, <1>4, <1>6 DEF Checked, recs
<1> QED
  BY <1>2, <1>7

LEMMA DagInvImplies2 == DagInv => VerifiedRunIsSealedRun
<1> SUFFICES ASSUME DagInv, run # <<>>, VerifyChain(shown)
             PROVE  /\ ToBag([i \in DOMAIN shown.steps |-> shown.steps[i].commit_digest])
                          = ToBag([i \in DOMAIN run.steps |-> run.steps[i].commit_digest])
                    /\ Checked(shown) = Checked(run)
                    /\ DistinctIds(steps) => ToBag(shown.steps) = ToBag(run.steps)
                    /\ \A i \in DOMAIN steps : Cardinality(EntriesOf(steps, steps[i].step_id)) = 1 =>
                          \E s \in Checked(shown) :
                              /\ s.record.step_id = steps[i].step_id
                              /\ s.record.io_digest = steps[i].io
                              /\ s.record.parents = steps[i].parents
  BY DEF VerifiedRunIsSealedRun
<1> DEFINE order == TopoOrder(steps)
           sealed == [i \in DOMAIN run.steps |-> run.steps[i].commit_digest]
           digests == [i \in DOMAIN shown.steps |-> shown.steps[i].commit_digest]
           recs == Records(shown)
<1>1. IsGraph(steps) /\ Sealable(steps) /\ run = SignChain(steps) /\ Shows(shown, run)
  BY DEF DagInv
<1>2. /\ DOMAIN run.steps = DOMAIN order
      /\ \A i \in DOMAIN order : run.steps[i].commit_digest = Records(run)[i]
      /\ Records(run) = [i \in DOMAIN order |-> Records(run)[i]]
  BY <1>1, SealedSteps
<1>3. sealed = Records(run)
  BY <1>2
<1>4. /\ ToBag(digests) = ToBag(Records(run)) /\ Len(shown.steps) = Len(steps)
      /\ Ids(recs) = Ids(steps)
      /\ \A c \in Ids(steps) : shown.steps[FirstPlace(recs, c)] = Row(steps, c)
  BY <1>1, AcceptedIs
<1>5. Checked(shown) = {Row(steps, c) : c \in Ids(steps)} /\ Checked(shown) = Checked(run)
  BY <1>1, CheckedIs
<1>6. ASSUME DistinctIds(steps) PROVE ToBag(shown.steps) = ToBag(run.steps)
  <2>1. AreShown(steps, shown)
    BY <1>1, ShownSteps
  <2>2. IsGraph(recs) /\ DOMAIN recs = DOMAIN shown.steps /\ Len(recs) = Len(shown.steps)
    BY <2>1 DEF AreShown
  <2>3. DistinctIds(recs)
    BY <1>4, <1>6, <2>2 DEF DistinctIds
  <2>4. ASSUME NEW i \in DOMAIN shown.steps
        PROVE  shown.steps[i] = [record |-> digests[i], commit_digest |-> digests[i]]
    <3> DEFINE c == recs[i].step_id
    <3>1. c \in Ids(recs) /\ i \in EntriesOf(recs, c)
      BY <2>2 DEF Ids, EntriesOf
    <3>2. i = FirstPlace(recs, c)
      BY <2>2, <2>3, <3>1, SingleIs
    <3>3. shown.steps[i] = Row(steps, c)
      BY <1>4, <3>1, <3>2
    <3> HIDE DEF c
    <3>4. shown.steps[i].commit_digest = Commits(steps)[c]
      BY <3>3 DEF Row
    <3> QED
      BY <3>3, <3>4 DEF Row
  <2>5. ASSUME NEW i \in DOMAIN run.steps
        PROVE  run.steps[i] = [record |-> Records(run)[i], commit_digest |-> Records(run)[i]]
    <3>1. run.steps[i] = [record |-> Commits(steps)[order[i]], commit_digest |-> Commits(steps)[order[i]]]
      BY <1>1, <1>2, SealedChainIs DEF IsSealedChain
    <3>2. Records(run)[i] = Commits(steps)[order[i]]
      BY <1>1, <1>2, SealedSteps
    <3> QED
      BY <3>1, <3>2
  <2>6. IsList(shown.steps) /\ IsList(run.steps)
    BY <1>1, ShowsItself DEF Shows
  <2>7. IsList(Records(run)) /\ DOMAIN Records(run) = DOMAIN run.steps
    BY <1>1, <1>2, RecordsAre DEF IsGraph
  <2>8. DOMAIN digests = DOMAIN shown.steps
    OBVIOUS
  <2>9. IsList(digests)
    <3>1. /\ digests = [i \in 1 .. Len(shown.steps) |-> digests[i]]
          /\ \A i \in 1 .. Len(shown.steps) : digests[i] \in ToSet(digests)
          /\ Len(shown.steps) \in Nat
      BY <2>6 DEF ToSet, IsList
    <3> HIDE DEF digests
    <3>2. digests \in Seq(ToSet(digests))
      BY ONLY <3>1
    <3> QED
      BY <3>2 DEF IsList
  <2> HIDE DEF digests
  <2> DEFINE X == ToSet(digests) \cup ToSet(Records(run))
             Y == ToSet(shown.steps) \cup ToSet(run.steps)
  <2>10. digests \in Seq(X) /\ Records(run) \in Seq(X) /\ shown.steps \in Seq(Y) /\ run.steps \in Seq(Y)
    BY <2>6, <2>7, <2>9, ListIn
  <2>11. MappedAlike(digests, Records(run), shown.steps, run.steps)
    <3>1. Len(shown.steps) = Len(digests) /\ Len(run.steps) = Len(Records(run))
      <4> HIDE DEF X, Y
      <4>1. /\ DOMAIN digests = 1 .. Len(digests) /\ Len(digests) \in Nat
            /\ DOMAIN shown.steps = 1 .. Len(shown.steps) /\ Len(shown.steps) \in Nat
            /\ DOMAIN Records(run) = 1 .. Len(Records(run)) /\ Len(Records(run)) \in Nat
            /\ DOMAIN run.steps = 1 .. Len(run.steps) /\ Len(run.steps) \in Nat
        BY <2>10
      <4> QED
        BY ONLY <4>1, <2>7, <2>8
    <3>2. ASSUME NEW i \in DOMAIN digests, NEW j \in DOMAIN Records(run),
                 digests[i] = Records(run)[j]
          PROVE  shown.steps[i] = run.steps[j]
      BY <2>4, <2>5, <2>7, <2>8, <3>2
    <3> QED
      BY <3>1, <3>2 DEF MappedAlike
  <2> HIDE DEF X, Y
  <2> QED
    BY <1>4, <2>10, <2>11, MappedBags DEF digests
<1>7. ASSUME NEW i \in DOMAIN steps, Cardinality(EntriesOf(steps, steps[i].step_id)) = 1
      PROVE  \E s \in Checked(shown) :
                /\ s.record.step_id = steps[i].step_id
                /\ s.record.io_digest = steps[i].io
                /\ s.record.parents = steps[i].parents
  <2> DEFINE c == steps[i].step_id
  <2>1. c \in Ids(steps) /\ i \in EntriesOf(steps, c)
    BY DEF Ids, EntriesOf
  <2>2. LastPlace(steps, c) \in EntriesOf(steps, c) /\ IsFiniteSet(EntriesOf(steps, c))
    BY <1>1, <2>1, EntriesAre
  <2>3. LastPlace(steps, c) = i
    <3>1. \E x : EntriesOf(steps, c) = {x}
      BY <1>7, <2>2, FS_Singleton
    <3> QED
      BY <2>1, <2>2, <3>1
  <2>4. ById(steps, c) = steps[i]
    BY <2>3 DEF ById
  <2>5. IsCommitOf(steps, c, Commits(steps)[c])
    BY <1>1, <2>1, CommitsAre, SealableOrder
  <2>6. /\ Commits(steps)[c].step_id = steps[i].step_id
        /\ Commits(steps)[c].io_digest = steps[i].io
        /\ Commits(steps)[c].parents = steps[i].parents
    BY <2>4, <2>5, CommitFields
  <2>7. Row(steps, c) \in Checked(shown) /\ Row(steps, c).record = Commits(steps)[c]
    BY <1>5, <2>1 DEF Row
  <2> QED
    BY <2>6, <2>7
<1> QED
  BY <1>3, <1>4, <1>5, <1>6, <1>7

\* What is gathered are reported steps; a receipt is the one that was sealed of a run
\* which has an order, and what a verifier sees of it is it or one of its edits
\* (signChain, and where the receipt is kept).
THEOREM DagInvariant == DagSpec => []DagInv
<1>1. DagInit => DagInv
  BY DagInvInit
<1>2. DagInv /\ [DagNext]_dagVars => DagInv'
  BY DagInvNext
<1> QED
  BY <1>1, <1>2, PTL DEF DagSpec

\* chain.js:82-84: a run of distinct steps is sealed exactly when its graph has a causal
\* order, in that order, with a root that does not depend on the order they arrived in.
THEOREM CausalOrders == DagSpec => []SealedInCausalOrder
<1>1. DagInv => SealedInCausalOrder
  BY DagInvImplies1
<1> QED
  BY <1>1, DagInvariant, PTL

\* chain.js:189-270: a receipt that verifies holds the commits that were sealed.
THEOREM VerifiedRuns == DagSpec => []VerifiedRunIsSealedRun
<1>1. DagInv => VerifiedRunIsSealedRun
  BY DagInvImplies2
<1> QED
  BY <1>1, DagInvariant, PTL

--------------------------------------------------------------------------------
(* Agentic runs: scopes.                                                       *)

LEMMA GreatestNat ==
    ASSUME NEW n \in Nat, NEW T, T \subseteq 1 .. n, T # {}
    PROVE  \E i \in T : \A j \in T : j <= i
<1> DEFINE U == {n - i : i \in T}
<1>1. U \in SUBSET Nat /\ U # {}
  <2>1. \A i \in T : i \in 1 .. n /\ n - i \in Nat
    OBVIOUS
  <2> QED
    BY <2>1
<1>2. PICK m \in U : \A k \in U : m <= k
  <2> HIDE DEF U
  <2> QED
    BY <1>1, LeastNat
<1>3. PICK i \in T : m = n - i
  OBVIOUS
<1>4. ASSUME NEW j \in T PROVE j <= i
  <2>1. n - i <= n - j
    BY <1>2, <1>3
  <2> QED
    BY <2>1
<1> QED
  BY <1>4

LEMMA ScopeOfIs ==
    ASSUME NEW envs, IsList(envs), NEW id, HasScope(envs, id)
    PROVE  \E i \in DOMAIN envs : ScopeOf(envs, id) = envs[i] /\ envs[i].base.scope_id = id
<1> DEFINE T == {i \in DOMAIN envs : envs[i].base.scope_id = id}
<1>1. Len(envs) \in Nat /\ DOMAIN envs = 1 .. Len(envs)
  BY DEF IsList
<1>2. T \subseteq 1 .. Len(envs) /\ T # {}
  BY <1>1 DEF HasScope
<1>3. \E i \in T : \A j \in T : j <= i
  <2> HIDE DEF T
  <2> QED
    BY <1>1, <1>2, GreatestNat
<1>4. \E i \in DOMAIN envs : envs[i].base.scope_id = id
            /\ \A j \in DOMAIN envs : envs[j].base.scope_id = id => j <= i
  BY <1>3
<1> QED
  BY <1>4 DEF ScopeOf

\* All members of a finite set are listed.
LEMMA ListOfSet ==
    ASSUME NEW S, IsFiniteSet(S)
    PROVE  SetToSeq(S) \in Seq(S) /\ ToSet(SetToSeq(S)) = S
<1> DEFINE n == Cardinality(S)
           f == SetToSeq(S)
<1>1. n \in Nat
  BY FS_CardinalityType
<1>2. f \in [1 .. n -> S] /\ IsInjective(f)
  <2>1. \E g \in [1 .. n -> S] : IsInjective(g)
    BY FS_CardinalityType DEF ExistsBijection, Bijection, Injection
  <2> QED
    BY <2>1 DEF SetToSeq
<1> HIDE DEF f
<1>3. f \in Injection(1 .. n, S)
  BY <1>2 DEF Injection
<1>4. Cardinality(1 .. n) = n
  BY <1>1, FS_Interval
<1>5. f \in Surjection(1 .. n, S)
  BY <1>3, <1>4, FS_Injection
<1>6. ToSet(f) = S
  BY <1>2, <1>5 DEF Surjection, ToSet
<1>7. f \in Seq(S)
  BY <1>1, <1>2
<1> QED
  BY <1>6, <1>7 DEF f

ToolsOf(tools) == {<<t, tools[t]>> : t \in DOMAIN tools}

LEMMA ToolsFinite ==
    ASSUME NEW tools, IsFiniteSet(DOMAIN tools)
    PROVE  IsFiniteSet(ToolsOf(tools))
<1> DEFINE f == [t \in DOMAIN tools |-> <<t, tools[t]>>]
<1>1. f \in Surjection(DOMAIN tools, ToolsOf(tools))
  BY DEF Surjection, ToolsOf
<1> HIDE DEF f
<1> QED
  BY <1>1, FS_Surjection

\* The root of a scope tells its tools.
LEMMA ScopeRootTells ==
    ASSUME NEW a, NEW b, IsFiniteSet(DOMAIN a), IsFiniteSet(DOMAIN b),
           a = [t \in DOMAIN a |-> a[t]], b = [t \in DOMAIN b |-> b[t]],
           ScopeRoot(a) = ScopeRoot(b)
    PROVE  a = b
<1> DEFINE A == ToolsOf(a)
           B == ToolsOf(b)
           X == A \cup B
<1>1. IsFiniteSet(A) /\ IsFiniteSet(B)
  BY ToolsFinite
<1>2. MerkleRoot(Sorted(SetToSeq(A))) = MerkleRoot(Sorted(SetToSeq(B)))
  BY DEF ScopeRoot, ToolsOf
<1> HIDE DEF A, B
<1>3. /\ SetToSeq(A) \in Seq(A) /\ ToSet(SetToSeq(A)) = A
      /\ SetToSeq(B) \in Seq(B) /\ ToSet(SetToSeq(B)) = B
  BY <1>1, ListOfSet
<1>4. SetToSeq(A) \in Seq(X) /\ SetToSeq(B) \in Seq(X)
  BY <1>3
<1> HIDE DEF X
<1>5. A = B
  BY <1>2, <1>3, <1>4, SortedRootMembers
<1>6. ASSUME NEW t \in DOMAIN a PROVE t \in DOMAIN b /\ a[t] = b[t]
  <2>1. <<t, a[t]>> \in ToolsOf(b)
    BY <1>5 DEF A, B, ToolsOf
  <2> QED
    BY <2>1 DEF ToolsOf
<1>7. ASSUME NEW t \in DOMAIN b PROVE t \in DOMAIN a
  <2>1. <<t, b[t]>> \in ToolsOf(a)
    BY <1>5 DEF A, B, ToolsOf
  <2> QED
    BY <2>1 DEF ToolsOf
<1>8. DOMAIN a = DOMAIN b
  BY <1>6, <1>7
<1> QED
  BY <1>6, <1>8

IsScope(env) == \E scope \in ScopeAsked : CanScope(scope) /\ env = SignToolScope(scope)

LEMMA ScopeIs ==
    ASSUME NEW env, IsScope(env)
    PROVE  /\ DOMAIN env = {"base", "tools", "payload_digest", "envelope_signature"}
           /\ env = [f \in DOMAIN env |-> env[f]]
           /\ IsFiniteSet(DOMAIN env.tools) /\ DOMAIN env.tools \subseteq Tool
           /\ env.tools \in [DOMAIN env.tools -> ToolHash]
           /\ env.base.scope_root = ScopeRoot(env.tools)
<1>1. PICK scope \in ScopeAsked : CanScope(scope) /\ env = SignToolScope(scope)
  BY DEF IsScope
<1> DEFINE base == [scope_id |-> scope.scope_id,
                    tool_count |-> Cardinality(DOMAIN scope.tools),
                    destructive_tools |-> scope.destructive_tools,
                    scope_root |-> ScopeRoot(scope.tools)]
<1>2. env = Seal([base |-> base, tools |-> scope.tools], base, base.scope_root)
  BY <1>1 DEF SignToolScope
<1>3. base.scope_root = ScopeRoot(scope.tools)
  OBVIOUS
<1> HIDE DEF base
<1>4. /\ DOMAIN env = {"base", "tools", "payload_digest", "envelope_signature"}
      /\ env = [f \in DOMAIN env |-> env[f]] /\ env.base = base /\ env.tools = scope.tools
  BY <1>2 DEF Seal
<1> QED
  BY <1>3, <1>4, AgenticAssumption

\* A scope, or one that grants more or something else.
IsShownScope(env, s) == env = s \/ \E t, h : env = [s EXCEPT !.tools = Granted(@, t, h)]

LEMMA VerifiedScopeIs ==
    ASSUME NEW s, IsScope(s), NEW env, IsShownScope(env, s), VerifyToolScope(env)
    PROVE  env = s
<1> SUFFICES ASSUME NEW t, NEW h, env = [s EXCEPT !.tools = Granted(@, t, h)]
             PROVE  env = s
  BY DEF IsShownScope
<1>1. /\ DOMAIN s = {"base", "tools", "payload_digest", "envelope_signature"}
      /\ s = [f \in DOMAIN s |-> s[f]]
      /\ IsFiniteSet(DOMAIN s.tools) /\ s.tools = [x \in DOMAIN s.tools |-> s.tools[x]]
      /\ s.base.scope_root = ScopeRoot(s.tools)
  BY ScopeIs
<1>2. env.base = s.base /\ env.tools = Granted(s.tools, t, h)
  BY <1>1
<1>3. /\ DOMAIN env.tools = DOMAIN s.tools \cup {t}
      /\ env.tools = [x \in DOMAIN env.tools |-> env.tools[x]]
  BY <1>2 DEF Granted
<1>4. IsFiniteSet(DOMAIN env.tools)
  BY <1>1, <1>3, FS_AddElement
<1>5. ScopeRoot(env.tools) = ScopeRoot(s.tools)
  BY <1>1, <1>2 DEF VerifyToolScope
<1>6. env.tools = s.tools
  BY <1>1, <1>3, <1>4, <1>5, ScopeRootTells
<1>7. env = [s EXCEPT !.tools = s.tools]
  BY <1>2, <1>6
<1> QED
  BY <1>1, <1>7

--------------------------------------------------------------------------------
(* Agentic runs: what is sealed.                                               *)

LEMMA AnnotatedIs ==
    ASSUME NEW list, IsGraph(list), NEW envs, NEW a, a = Annotated(list, envs)
    PROVE  /\ IsGraph(a) /\ Len(a) = Len(list) /\ DOMAIN a = DOMAIN list
           /\ Ids(a) = Ids(list) /\ (DistinctIds(list) => DistinctIds(a))
           /\ \A c \in Ids(list) : ById(a, c) = Annotate(ById(list, c), envs)
<1>1. /\ Len(list) \in Nat /\ DOMAIN list = 1 .. Len(list)
      /\ \A i \in DOMAIN list : /\ list[i].step_id \in Nat /\ list[i].seq \in Nat
                                /\ IsFiniteSet(list[i].parents)
  BY GraphIs DEF IsGraph
<1>2. /\ a = [i \in DOMAIN list |-> Annotate(list[i], envs)] /\ DOMAIN a = DOMAIN list
      /\ \A i \in DOMAIN list : a[i] = Annotate(list[i], envs)
  BY DEF Annotated
<1>3. \A i \in DOMAIN list : /\ a[i].step_id = list[i].step_id /\ a[i].seq = list[i].seq
                             /\ a[i].parents = list[i].parents
  BY <1>2 DEF Annotate
<1>4. a = [i \in 1 .. Len(list) |-> a[i]] /\ \A i \in 1 .. Len(list) : a[i] \in ToSet(a)
  BY <1>1, <1>2 DEF ToSet
<1>5. a \in Seq(ToSet(a)) /\ Len(a) = Len(list)
  BY ONLY <1>1, <1>4
<1>6. IsGraph(a)
  BY <1>1, <1>2, <1>3, <1>5 DEF IsGraph, IsList
<1>7. Ids(a) = Ids(list)
  BY <1>2, <1>3 DEF Ids
<1>8. ASSUME NEW c \in Ids(list) PROVE ById(a, c) = Annotate(ById(list, c), envs)
  <2>1. EntriesOf(a, c) = EntriesOf(list, c)
    BY <1>2, <1>3 DEF EntriesOf
  <2>2. LastPlace(a, c) = LastPlace(list, c)
    BY <2>1 DEF LastPlace
  <2>3. LastPlace(list, c) \in DOMAIN list
    BY EntriesAre DEF EntriesOf
  <2> QED
    BY <1>2, <2>2, <2>3 DEF ById
<1> QED
  BY <1>2, <1>5, <1>6, <1>7, <1>8 DEF DistinctIds

EntryOf(step, envs) ==
    LET output == OutputOf(step, envs)
    IN  [meta |-> output.agentic_action, input |-> step.input, output |-> output]

\* The sidecar of distinct steps.
LEMMA SidecarIs ==
    ASSUME NEW list, IsGraph(list), DistinctIds(list), NEW envs
    PROVE  /\ \A i \in DOMAIN list : IsListed(list[i]) => list[i].step_id \in DOMAIN Sidecar(list, envs)
           /\ \A id \in DOMAIN Sidecar(list, envs) :
                 /\ id \in Ids(list) /\ IsListed(ById(list, id))
                 /\ Sidecar(list, envs)[id] = EntryOf(ById(list, id), envs)
<1> DEFINE places == {i \in DOMAIN list : IsListed(list[i])}
           acts == Kept(list, places)
           X == ToSet(list)
<1>1. list \in Seq(X) /\ places \in SUBSET DOMAIN list
  BY DEF IsGraph, IsList
<1>2. acts \in Seq(X) /\ ToSet(acts) = {list[i] : i \in places}
  BY <1>1, KeptIs
<1>3. Sidecar(list, envs) =
          [id \in Ids(acts) |-> EntryOf(ById(acts, id), envs)]
  BY Zenon DEF Sidecar, EntryOf
<1>4. ASSUME NEW i \in DOMAIN acts
      PROVE  \E j \in DOMAIN list : IsListed(list[j]) /\ acts[i] = list[j]
  <2>1. acts[i] \in ToSet(acts)
    BY DEF ToSet
  <2> QED
    BY <1>2, <2>1
<1>5. ASSUME NEW i \in DOMAIN list, IsListed(list[i]) PROVE list[i].step_id \in Ids(acts)
  <2>1. list[i] \in ToSet(acts)
    BY <1>2, <1>5
  <2>2. PICK k \in DOMAIN acts : acts[k] = list[i]
    BY <2>1 DEF ToSet
  <2> QED
    BY <2>2 DEF Ids
<1>6. IsGraph(acts)
  <2>1. IsList(acts)
    BY <1>2, ListsOf
  <2> HIDE DEF acts
  <2> QED
    BY <1>4, <2>1 DEF IsGraph
<1> HIDE DEF acts
<1>7. ASSUME NEW id \in Ids(acts)
      PROVE  id \in Ids(list) /\ ById(acts, id) = ById(list, id) /\ IsListed(ById(list, id))
  <2>1. LastPlace(acts, id) \in DOMAIN acts /\ ById(acts, id).step_id = id
    BY <1>6, EntriesAre DEF EntriesOf
  <2>2. PICK j \in DOMAIN list : IsListed(list[j]) /\ ById(acts, id) = list[j]
    BY <1>4, <2>1 DEF ById
  <2>3. id \in Ids(list)
    BY <2>1, <2>2 DEF Ids
  <2> QED
    BY <2>1, <2>2, <2>3, SingleIs
<1> QED
  BY <1>3, <1>5, <1>7

SignedAs(e, list, envs) ==
    LET chain == SignChain(Annotated(list, envs))
    IN  /\ e.base = chain.base /\ e.steps = chain.steps
        /\ e.payload_digest = chain.payload_digest
        /\ e.envelope_signature = chain.envelope_signature

\* A record tells the digests that were sealed with its step.
LEMMA BoundIs ==
    ASSUME NEW list, IsGraph(list), NEW envs, Sealable(Annotated(list, envs)),
           NEW e, SignedAs(e, list, envs)
    PROVE  /\ Ids(Records(e)) = Ids(list)
           /\ \A id \in Ids(list) :
                 ById(Records(e), id).io_digest
                     = IoDigest(SealedInput(ById(list, id)), SealedOutput(ById(list, id), envs))
<1> DEFINE a == Annotated(list, envs)
           order == TopoOrder(a)
           recs == Records(SignChain(a))
<1>1. /\ IsGraph(a) /\ Ids(a) = Ids(list)
      /\ \A id \in Ids(list) : ById(a, id) = Annotate(ById(list, id), envs)
  BY AnnotatedIs
<1>2. Records(e) = recs
  BY DEF SignedAs, Records
<1>3. /\ IsGraph(recs) /\ DOMAIN recs = DOMAIN order /\ Ids(recs) = ToSet(order)
      /\ \A i \in DOMAIN order : /\ recs[i].step_id = order[i]
                                 /\ recs[i].io_digest = ById(a, order[i]).io
  BY <1>1, RecordsAre
<1>4. ToSet(order) = Ids(a)
  BY <1>1, SealableOrder
<1> HIDE DEF order, recs, a
<1>5. ASSUME NEW id \in Ids(list)
      PROVE  ById(recs, id).io_digest = Annotate(ById(list, id), envs).io
  <2>1. id \in Ids(recs)
    BY <1>1, <1>3, <1>4
  <2>2. LastPlace(recs, id) \in DOMAIN recs /\ recs[LastPlace(recs, id)].step_id = id
    BY <1>3, <2>1, EntriesAre DEF EntriesOf
  <2> QED
    BY <1>1, <1>3, <2>2 DEF ById
<1>6. \A step : Annotate(step, envs).io = IoDigest(SealedInput(step), SealedOutput(step, envs))
  BY DEF Annotate
<1> QED
  BY <1>1, <1>2, <1>3, <1>4, <1>5, <1>6

LEMMA DigestTells ==
    \A i1, i2, o1, o2 : IoDigest(i1, o1) = IoDigest(i2, o2) <=> i1 = i2 /\ o1 = o2
<1> TAKE i1, i2, o1, o2
<1>1. /\ IoDigest(i1, o1).input_digest = i1 /\ IoDigest(i1, o1).output_digest = o1
      /\ IoDigest(i2, o2).input_digest = i2 /\ IoDigest(i2, o2).output_digest = o2
  BY DEF IoDigest, Canonicalize
<1> QED
  BY <1>1

--------------------------------------------------------------------------------
(* Agentic runs: the receipt.                                                  *)

\* Scopes are sealed as they were asked for.
ScopesAreSealed == IsList(scopes) /\ \A i \in DOMAIN scopes : IsScope(scopes[i])

\* The receipt is that of the run that was sent, gated by scopes that were issued.
RunIsSealed ==
    /\ IsGraph(sent) /\ ToSet(sent) \subseteq AgentStep
    /\ IsList(given) /\ ToSet(given) \subseteq ToSet(scopes)
    /\ CanSealAgentic(sent, given)
    /\ agentic = SignAgenticRun(sent, given)

\* The verifier is given its signed part, any entries beside it, and scopes that were
\* issued or grant something else.
RunIsShown ==
    /\ SignedAs(presented.receipt, sent, given)
    /\ IsList(presented.scopes)
    /\ \A i \in DOMAIN presented.scopes :
          \E s \in ToSet(scopes) : IsShownScope(presented.scopes[i], s)

AgenticInv ==
    /\ ScopesAreSealed
    /\ agentic = <<>> => presented = <<>>
    /\ agentic # <<>> => RunIsSealed
    /\ presented # <<>> => RunIsShown

LEMMA BundleIs ==
    ASSUME NEW envs \in Bundles, IsList(scopes)
    PROVE  /\ IsList(envs) /\ ToSet(envs) \subseteq ToSet(scopes)
           /\ \A i \in DOMAIN envs : envs[i] \in ToSet(scopes)
<1>0. DOMAIN scopes = 1 .. Len(scopes) /\ Len(scopes) \in Nat
  BY DEF IsList
<1>1. PICK n \in 0 .. Len(scopes), f \in [DOMAIN scopes -> DOMAIN scopes] :
          envs = [i \in 1 .. n |-> scopes[f[i]]]
  BY DEF Bundles, Bijection, Injection
<1>2. /\ \A i \in 1 .. n : envs[i] \in ToSet(scopes) /\ envs[i] \in ToSet(envs)
      /\ DOMAIN envs = 1 .. n /\ envs = [i \in 1 .. n |-> envs[i]] /\ n \in Nat
  BY <1>0, <1>1 DEF ToSet
<1>3. envs \in Seq(ToSet(envs))
  BY ONLY <1>2
<1>4. ToSet(envs) \subseteq ToSet(scopes)
  BY <1>2 DEF ToSet
<1> QED
  BY <1>2, <1>3, <1>4 DEF IsList

LEMMA SignedRunIs ==
    ASSUME NEW list, NEW envs, NEW e, e = SignAgenticRun(list, envs)
    PROVE  /\ SignedAs(e, list, envs) /\ e.agentic_actions = Sidecar(list, envs) /\ e # <<>>
           /\ DOMAIN e = {"base", "steps", "payload_digest", "envelope_signature", "agentic_actions"}
           /\ \A acts : /\ SignedAs([e EXCEPT !.agentic_actions = acts], list, envs)
                        /\ [e EXCEPT !.agentic_actions = acts].agentic_actions = acts
<1> DEFINE chain == SignChain(Annotated(list, envs))
<1>1. e = [base |-> chain.base, steps |-> chain.steps, payload_digest |-> chain.payload_digest,
           envelope_signature |-> chain.envelope_signature,
           agentic_actions |-> Sidecar(list, envs)]
  BY DEF SignAgenticRun, WithActions
<1>2. \A d : SignedAs(d, list, envs) <=>
                /\ d.base = chain.base /\ d.steps = chain.steps
                /\ d.payload_digest = chain.payload_digest
                /\ d.envelope_signature = chain.envelope_signature
  BY DEF SignedAs
<1> HIDE DEF chain
<1>3. DOMAIN e = {"base", "steps", "payload_digest", "envelope_signature", "agentic_actions"}
  BY <1>1
<1>4. e # <<>>
  BY <1>3
<1>5. ASSUME NEW acts
      PROVE  /\ SignedAs([e EXCEPT !.agentic_actions = acts], list, envs)
             /\ [e EXCEPT !.agentic_actions = acts].agentic_actions = acts
  <2> DEFINE d == [e EXCEPT !.agentic_actions = acts]
  <2>1. /\ d.base = chain.base /\ d.steps = chain.steps
        /\ d.payload_digest = chain.payload_digest
        /\ d.envelope_signature = chain.envelope_signature /\ d.agentic_actions = acts
    BY <1>1
  <2> HIDE DEF d
  <2>2. SignedAs(d, list, envs) /\ d.agentic_actions = acts
    BY <1>2, <2>1
  <2> QED
    BY <2>2 DEF d
<1> QED
  BY <1>1, <1>2, <1>3, <1>4, <1>5

LEMMA ArrivedIs ==
    ASSUME RunIsSealed
    PROVE  /\ SignedAs(Arrived, sent, given)
           /\ DOMAIN Arrived =
                  {"base", "steps", "payload_digest", "envelope_signature", "agentic_actions"}
           /\ DOMAIN Arrived.agentic_actions = DOMAIN Sidecar(sent, given)
           /\ \A id \in DOMAIN Sidecar(sent, given) :
                 Arrived.agentic_actions[id] = ArrivedEntry(Sidecar(sent, given)[id])
           /\ \A acts : /\ SignedAs([Arrived EXCEPT !.agentic_actions = acts], sent, given)
                        /\ [Arrived EXCEPT !.agentic_actions = acts].agentic_actions = acts
<1> DEFINE side == Sidecar(sent, given)
           gone == [id \in DOMAIN side |-> ArrivedEntry(side[id])]
<1>1. /\ agentic = SignAgenticRun(sent, given) /\ agentic.agentic_actions = side
      /\ DOMAIN agentic =
             {"base", "steps", "payload_digest", "envelope_signature", "agentic_actions"}
      /\ \A acts : /\ SignedAs([agentic EXCEPT !.agentic_actions = acts], sent, given)
                   /\ [agentic EXCEPT !.agentic_actions = acts].agentic_actions = acts
  BY SignedRunIs DEF RunIsSealed
<1> HIDE DEF side
<1>2. Arrived = [agentic EXCEPT !.agentic_actions = gone]
  BY <1>1 DEF Arrived
<1>3. ASSUME NEW acts
      PROVE  [Arrived EXCEPT !.agentic_actions = acts] = [agentic EXCEPT !.agentic_actions = acts]
  <2> HIDE DEF gone
  <2> QED
    BY <1>1, <1>2
<1>4. DOMAIN Arrived = DOMAIN agentic
  BY <1>2
<1>5. SignedAs(Arrived, sent, given) /\ Arrived.agentic_actions = gone
  BY <1>1, <1>2
<1> QED
  BY <1>1, <1>3, <1>4, <1>5 DEF side

LEMMA AgenticInvInit == AgenticInit => AgenticInv
<1> SUFFICES ASSUME AgenticInit PROVE AgenticInv
  OBVIOUS
<1>1. scopes = <<>> /\ agentic = <<>> /\ presented = <<>>
  BY DEF AgenticInit
<1>2. ScopesAreSealed
  BY <1>1 DEF ScopesAreSealed, IsList
<1> QED
  BY <1>1, <1>2 DEF AgenticInv

LEMMA GraphOfSteps ==
    ASSUME NEW list \in BoundedSeq(AgentStep, MaxAgentSteps)
    PROVE  IsGraph(list) /\ ToSet(list) \subseteq AgentStep
<1>1. PICK m \in 0 .. MaxAgentSteps : list \in [1 .. m -> AgentStep]
  BY DEF BoundedSeq, SeqOf
<1>2. m \in Nat /\ DOMAIN list = 1 .. m /\ list = [i \in 1 .. m |-> list[i]]
      /\ \A i \in 1 .. m : list[i] \in ToSet(list) /\ list[i] \in AgentStep
  BY <1>1, AgenticAssumption DEF ToSet
<1>3. list \in Seq(ToSet(list))
  BY ONLY <1>2
<1>4. ToSet(list) \subseteq AgentStep
  BY <1>2 DEF ToSet
<1> QED
  BY <1>2, <1>3, <1>4, AgenticAssumption DEF IsGraph, IsList

LEMMA AgenticInvNext == AgenticInv /\ [AgenticNext]_agenticVars => AgenticInv'
<1> SUFFICES ASSUME AgenticInv, [AgenticNext]_agenticVars PROVE AgenticInv'
  OBVIOUS
<1>1. CASE IssueScope
  <2>1. PICK scope \in ScopeAsked : CanScope(scope) /\ scopes' = Append(scopes, SignToolScope(scope))
    BY <1>1 DEF IssueScope
  <2>2. sent' = sent /\ given' = given /\ agentic' = agentic /\ presented' = presented
    BY <1>1 DEF IssueScope
  <2> DEFINE env == SignToolScope(scope)
             X == ToSet(scopes) \cup {env}
  <2>3. IsScope(env)
    BY <2>1 DEF IsScope
  <2> HIDE DEF env
  <2>4. scopes \in Seq(X) /\ env \in X
    BY ListIn DEF AgenticInv, ScopesAreSealed
  <2>5. ToSet(scopes') = X /\ scopes' \in Seq(X)
    BY <2>1, <2>4, PlacesAppended DEF env
  <2>6. \A s \in ToSet(scopes) : IsScope(s)
    BY DEF AgenticInv, ScopesAreSealed, ToSet
  <2>7. ScopesAreSealed'
    <3>1. \A i \in DOMAIN scopes' : scopes'[i] \in ToSet(scopes')
      BY DEF ToSet
    <3>2. \A i \in DOMAIN scopes' : IsScope(scopes'[i])
      BY <2>3, <2>5, <2>6, <3>1
    <3> QED
      BY <2>5, <3>2, ListsOf DEF ScopesAreSealed
  <2>8. ToSet(scopes) \subseteq ToSet(scopes')
    BY <2>5
  <2>9. RunIsSealed => RunIsSealed'
    BY <2>2, <2>8 DEF RunIsSealed
  <2>10. RunIsShown => RunIsShown'
    BY <2>2, <2>8 DEF RunIsShown
  <2> QED
    BY <2>2, <2>7, <2>9, <2>10 DEF AgenticInv
<1>2. CASE SealAgenticRun
  <2>1. PICK list \in BoundedSeq(AgentStep, MaxAgentSteps), envs \in Bundles :
            /\ CanSealAgentic(list, envs) /\ sent' = list /\ given' = envs
            /\ agentic' = SignAgenticRun(list, envs)
    BY <1>2 DEF SealAgenticRun
  <2>2. scopes' = scopes /\ presented' = presented /\ presented = <<>>
    BY <1>2 DEF SealAgenticRun, AgenticInv
  <2>3. RunIsSealed'
    BY <2>1, <2>2, BundleIs, GraphOfSteps DEF RunIsSealed, AgenticInv, ScopesAreSealed
  <2> QED
    BY <2>2, <2>3 DEF AgenticInv, ScopesAreSealed
<1>3. CASE Present
  <2>1. /\ agentic # <<>> /\ scopes' = scopes /\ sent' = sent /\ given' = given
        /\ agentic' = agentic /\ RunIsSealed
    BY <1>3 DEF Present, AgenticInv
  <2> DEFINE Issued(envs) == /\ IsList(envs)
                             /\ \A i \in DOMAIN envs : \E s \in ToSet(scopes) : IsShownScope(envs[i], s)
             Edited(acts) == [Arrived EXCEPT !.agentic_actions = acts]
             Acts == Arrived.agentic_actions
             Without(id) == [Arrived EXCEPT !.agentic_actions = [x \in DOMAIN @ \ {id} |-> @[x]]]
             With(id, entry) == [Arrived EXCEPT !.agentic_actions = WithEntry(@, id, entry)]
             Copied(id, other) == [Arrived EXCEPT !.agentic_actions = WithEntry(@, other, @[id])]
  <2>2. /\ SignedAs(Arrived, sent, given)
        /\ \A id : SignedAs(Without(id), sent, given)
        /\ \A id, entry : SignedAs(With(id, entry), sent, given)
        /\ \A id, other : SignedAs(Copied(id, other), sent, given)
    <3>1. SignedAs(Arrived, sent, given) /\ \A acts : SignedAs(Edited(acts), sent, given)
      BY <2>1, ArrivedIs
    <3>2. /\ \A id : Without(id) = Edited([x \in DOMAIN Acts \ {id} |-> Acts[x]])
          /\ \A id, entry : With(id, entry) = Edited(WithEntry(Acts, id, entry))
          /\ \A id, other : Copied(id, other) = Edited(WithEntry(Acts, other, Acts[id]))
      OBVIOUS
    <3> HIDE DEF Edited, Without, With, Copied
    <3> QED
      BY <3>1, <3>2
  <2>3. ASSUME NEW e, NEW envs, SignedAs(e, sent, given), Issued(envs),
               presented' = [receipt |-> e, scopes |-> envs]
        PROVE  RunIsShown'
    <3>1. presented'.receipt = e /\ presented'.scopes = envs
      BY <2>3
    <3> QED
      BY <2>1, <2>3, <3>1 DEF RunIsShown
  <2>4. PICK envs \in Bundles :
          \/ presented' = [receipt |-> Arrived, scopes |-> envs]
          \/ \E i \in DOMAIN envs, t \in Tool, h \in ToolHash :
                presented' = [receipt |-> Arrived,
                              scopes |-> [envs EXCEPT ![i].tools = Granted(@, t, h)]]
          \/ \E id \in DOMAIN Acts :
                \/ presented' = [scopes |-> envs, receipt |-> Without(id)]
                \/ \E t \in Tool : \E entry \in Renamed(Acts[id], t) :
                      presented' = [scopes |-> envs, receipt |-> With(id, entry)]
                \/ \E other \in Ids(sent) :
                      presented' = [scopes |-> envs, receipt |-> Copied(id, other)]
    BY <1>3, Zenon DEF Present
  <2>5. /\ IsList(envs) /\ ToSet(envs) \subseteq ToSet(scopes)
        /\ \A i \in DOMAIN envs : envs[i] \in ToSet(scopes)
    BY BundleIs DEF AgenticInv, ScopesAreSealed
  <2>6. Issued(envs)
    BY <2>5 DEF IsShownScope
  <2>8. ASSUME NEW i \in DOMAIN envs, NEW t \in Tool, NEW h \in ToolHash
        PROVE  Issued([envs EXCEPT ![i].tools = Granted(@, t, h)])
    <3> DEFINE env == [envs[i] EXCEPT !.tools = Granted(@, t, h)]
               more == [envs EXCEPT ![i].tools = Granted(@, t, h)]
               Y == ToSet(envs) \cup {env}
    <3>1. more = [envs EXCEPT ![i] = env]
      OBVIOUS
    <3>2. IsShownScope(env, envs[i])
      BY DEF IsShownScope
    <3> HIDE DEF env
    <3>3. envs \in Seq(Y) /\ env \in Y
      BY <2>5, ListIn
    <3> HIDE DEF Y
    <3>4. more \in Seq(Y) /\ DOMAIN more = DOMAIN envs
      BY <3>1, <3>3
    <3>5. \A j \in DOMAIN envs : more[j] = IF j = i THEN env ELSE envs[j]
      BY <3>1, <3>3
    <3> HIDE DEF more
    <3>6. ASSUME NEW j \in DOMAIN more PROVE \E s \in ToSet(scopes) : IsShownScope(more[j], s)
      <4>1. CASE j = i
        BY <2>5, <3>2, <3>4, <3>5, <4>1
      <4>2. CASE j # i
        BY <2>5, <3>4, <3>5, <4>2 DEF IsShownScope
      <4> QED
        BY <4>1, <4>2
    <3>7. Issued(more)
      BY <3>4, <3>6, ListsOf
    <3> QED
      BY <3>7 DEF more
  <2> HIDE DEF Issued, Without, With, Copied
  <2>9. RunIsShown'
    <3>1. CASE presented' = [receipt |-> Arrived, scopes |-> envs]
      BY <2>2, <2>3, <2>6, <3>1
    <3>2. ASSUME NEW i \in DOMAIN envs, NEW t \in Tool, NEW h \in ToolHash,
                 presented' = [receipt |-> Arrived,
                               scopes |-> [envs EXCEPT ![i].tools = Granted(@, t, h)]]
          PROVE  RunIsShown'
      BY <2>2, <2>3, <2>8, <3>2
    <3>3. ASSUME NEW e, SignedAs(e, sent, given), presented' = [scopes |-> envs, receipt |-> e]
          PROVE  RunIsShown'
      BY <2>3, <2>6, <3>3
    <3> QED
      BY <2>2, <2>4, <3>1, <3>2, <3>3
  <2> QED
    BY <2>1, <2>9 DEF AgenticInv, ScopesAreSealed, RunIsSealed
<1>4. CASE UNCHANGED agenticVars
  BY <1>4 DEF agenticVars, AgenticInv, ScopesAreSealed, RunIsSealed, RunIsShown
<1> QED
  BY <1>1, <1>2, <1>3, <1>4 DEF AgenticNext

LEMMA TiersAre == \A tool, d : ArscTier(tool, d) # Undefined
<1> TAKE tool, d
<1>1. ArscTier(tool, d) \in {"rise", "sink", "float"}
  BY DEF ArscTier
<1> QED
  BY <1>1, AgenticAssumption

\* What was gated when it was sealed.
LEMMA GatedStep ==
    ASSUME AgenticInv, RunIsSealed, NEW step \in ToSet(sent), IsAction(step)
    PROVE  /\ HasScope(given, step.scope_ref) /\ step.scope_ref # Undefined
           /\ ScopeAllows(ScopeOf(given, step.scope_ref), step.action, step.tool_hash)
           /\ ScopeOf(given, step.scope_ref) \in ToSet(scopes)
           /\ IsScope(ScopeOf(given, step.scope_ref))
<1>1. PICK i \in DOMAIN sent : sent[i] = step
  BY DEF ToSet
<1>2. Gate(step, given)
  BY <1>1 DEF RunIsSealed, CanSealAgentic
<1>3. /\ HasScope(given, step.scope_ref) /\ step.scope_ref # Undefined
      /\ ScopeAllows(ScopeOf(given, step.scope_ref), step.action, step.tool_hash)
  BY <1>2 DEF Gate
<1>4. PICK k \in DOMAIN given : ScopeOf(given, step.scope_ref) = given[k]
  BY <1>3, ScopeOfIs DEF RunIsSealed
<1>5. given[k] \in ToSet(scopes)
  BY DEF RunIsSealed, ToSet
<1>6. \A s \in ToSet(scopes) : IsScope(s)
  BY DEF AgenticInv, ScopesAreSealed, ToSet
<1> QED
  BY <1>3, <1>4, <1>5, <1>6

LEMMA AgenticInvImplies1 == AgenticInv => AcceptedActionsAreInScope
<1> DEFINE e == presented.receipt
           envs == presented.scopes
<1> SUFFICES ASSUME AgenticInv, presented # <<>>, VerifyAgenticRun(e, envs), DistinctIds(sent),
                    NEW id \in DOMAIN e.agentic_actions
             PROVE  LET step == ById(sent, id)
                        meta == e.agentic_actions[id].meta
                        then == ScopeOf(given, meta.scope_ref)
                        now_ == ScopeOf(envs, meta.scope_ref)
                    IN  /\ id \in Ids(sent)
                        /\ meta = SealedOutput(step, given).agentic_action
                        /\ now_ \in ToSet(scopes)
                        /\ meta.action \in DOMAIN now_.tools
                        /\ meta.tool_hash \in {NoHash, now_.tools[meta.action]}
                        /\ IsAction(step) /\ step.output_digest = Undefined =>
                              /\ then \in ToSet(scopes)
                              /\ meta.action = step.action /\ step.action \in DOMAIN then.tools
                              /\ (step.action \in then.base.destructive_tools)
                                     <=> (step.action \in now_.base.destructive_tools)
  BY DEF AcceptedActionsAreInScope
<1> DEFINE step == ById(sent, id)
           entry == e.agentic_actions[id]
           meta == entry.meta
           then == ScopeOf(given, meta.scope_ref)
           now_ == ScopeOf(envs, meta.scope_ref)
<1>1. RunIsSealed /\ RunIsShown /\ ScopesAreSealed
  BY DEF AgenticInv
<1>2. /\ IsGraph(sent) /\ Sealable(Annotated(sent, given)) /\ SignedAs(e, sent, given)
      /\ IsList(envs)
  BY <1>1 DEF RunIsSealed, RunIsShown, CanSealAgentic
<1>3. /\ Bound(e, id, entry) /\ Regated(meta, envs) /\ SaysDestructive(meta, envs)
      /\ CanResolve(envs)
  BY DEF VerifyAgenticRun
<1>4. /\ Ids(Records(e)) = Ids(sent)
      /\ id \in Ids(sent) => ById(Records(e), id).io_digest
                                 = IoDigest(SealedInput(step), SealedOutput(step, given))
  BY <1>2, BoundIs
<1> HIDE DEF step, entry, e, envs
<1>5. /\ id \in Ids(sent)
      /\ IoDigest(entry.input, entry.output)
             = IoDigest(SealedInput(step), SealedOutput(step, given))
      /\ entry.output.agentic_action = meta
  BY <1>3, <1>4 DEF Bound
<1>6. meta = SealedOutput(step, given).agentic_action
  BY <1>5, DigestTells
<1>7. step \in ToSet(sent)
  BY <1>2, <1>5, EntriesAre DEF step
<1> HIDE DEF meta
<1>8. HasScope(envs, meta.scope_ref) /\ ScopeAllows(now_, meta.action, meta.tool_hash)
  BY <1>3 DEF Regated
<1>9. now_ \in ToSet(scopes)
  <2>1. PICK k \in DOMAIN envs : now_ = envs[k]
    BY <1>2, <1>8, ScopeOfIs
  <2>2. VerifyToolScope(envs[k])
    BY <1>3 DEF CanResolve
  <2>3. PICK s \in ToSet(scopes) : IsShownScope(envs[k], s)
    BY <1>1 DEF RunIsShown, envs
  <2>4. IsScope(s)
    BY <1>1 DEF ScopesAreSealed, ToSet
  <2>5. envs[k] = s
    BY <2>2, <2>3, <2>4, VerifiedScopeIs
  <2> QED
    BY <2>1, <2>5
<1>10. meta.action \in DOMAIN now_.tools /\ meta.tool_hash \in {NoHash, now_.tools[meta.action]}
  BY <1>8 DEF ScopeAllows
<1>11. ASSUME IsAction(step), step.output_digest = Undefined
       PROVE  /\ then \in ToSet(scopes)
              /\ meta.action = step.action /\ step.action \in DOMAIN then.tools
              /\ (step.action \in then.base.destructive_tools)
                     <=> (step.action \in now_.base.destructive_tools)
  <2>1. meta = ActionMeta(step, given)
    BY <1>6, <1>11 DEF SealedOutput, Canonicalize, OutputOf
  <2>2. /\ meta.scope_ref = step.scope_ref /\ meta.action = step.action
        /\ meta.destructive = IsDestructive(ScopeOf(given, step.scope_ref), step.action)
    BY <2>1 DEF ActionMeta
  <2>3. then \in ToSet(scopes) /\ ScopeAllows(then, step.action, step.tool_hash)
    BY <1>1, <1>7, <1>11, <2>2, GatedStep
  <2>4. IsDestructive(now_, step.action) = IsDestructive(then, step.action)
    BY <1>3, <2>2 DEF SaysDestructive
  <2> HIDE DEF then, now_
  <2> QED
    BY <2>2, <2>3, <2>4 DEF ScopeAllows, IsDestructive
<1> QED
  BY <1>5, <1>6, <1>9, <1>10, <1>11 DEF step, meta, entry, e, envs

LEMMA VerifyChainOf ==
    ASSUME NEW e, NEW d, e.base = d.base, e.steps = d.steps,
           e.payload_digest = d.payload_digest, e.envelope_signature = d.envelope_signature
    PROVE  VerifyChain(e) <=> VerifyChain(d)
<1>1. Records(e) = Records(d)
  BY DEF Records
<1>2. \A base, digest : SealHolds(e, base, digest) <=> SealHolds(d, base, digest)
  BY DEF SealHolds
<1> QED
  BY <1>1, <1>2 DEF VerifyChain, Recomputes

\* The action of a gated step travels unchanged if it says its target, and what it is
\* gated by travels in any case.
LEMMA MetaOnTheWire ==
    ASSUME AgenticInv, RunIsSealed, NEW step \in ToSet(sent), IsAction(step),
           NEW m, m = ActionMeta(step, given)
    PROVE  /\ Wire(m) = m <=> step.tool_target # Undefined
           /\ Wire(m).action = m.action /\ Wire(m).tool_hash = m.tool_hash
           /\ Wire(m).scope_ref = m.scope_ref /\ Wire(m).destructive = m.destructive
           /\ m.action = step.action /\ m.tool_hash = step.tool_hash
           /\ m.scope_ref = step.scope_ref
           /\ m.destructive = IsDestructive(ScopeOf(given, step.scope_ref), step.action)
<1> DEFINE then == ScopeOf(given, step.scope_ref)
           d == IsDestructive(then, step.action)
           tier == ArscTier(step.action, d)
           Names == {"action", "tool_target", "tool_hash", "scope_ref", "destructive", "arsc_tier"}
<1>1. /\ step.scope_ref # Undefined /\ ScopeAllows(then, step.action, step.tool_hash)
      /\ DOMAIN then.tools \subseteq Tool /\ then.tools \in [DOMAIN then.tools -> ToolHash]
  BY GatedStep, ScopeIs
<1>2. step.action # Undefined /\ step.tool_hash # Undefined
  BY <1>1, AgenticAssumption DEF ScopeAllows
<1>3. d # Undefined /\ tier # Undefined
  <2>1. d \in BOOLEAN
    BY DEF IsDestructive
  <2> QED
    BY <2>1, TiersAre, AgenticAssumption
<1>4. m = [action |-> step.action, tool_target |-> step.tool_target,
           tool_hash |-> step.tool_hash, scope_ref |-> step.scope_ref,
           destructive |-> d, arsc_tier |-> tier]
  BY DEF ActionMeta
<1> HIDE DEF then, d, tier
<1>5. /\ m = [f \in Names |-> m[f]] /\ DOMAIN m = Names
      /\ m.action # Undefined /\ m.tool_hash # Undefined /\ m.scope_ref # Undefined
      /\ m.destructive # Undefined /\ m.arsc_tier # Undefined
      /\ m.tool_target = step.tool_target
  BY <1>1, <1>2, <1>3, <1>4
<1>6. ASSUME step.tool_target # Undefined PROVE Wire(m) = m
  <2>1. {g \in DOMAIN m : m[g] # Undefined} = Names
    BY <1>5, <1>6
  <2> QED
    BY <1>5, <2>1 DEF Wire
<1>7. ASSUME step.tool_target = Undefined PROVE Wire(m) # m
  <2>1. "tool_target" \notin DOMAIN Wire(m)
    BY <1>5, <1>7 DEF Wire
  <2> QED
    BY <1>5, <2>1
<1>8. \A f \in DOMAIN m : m[f] # Undefined => Wire(m)[f] = m[f]
  BY DEF Wire
<1>9. /\ Wire(m).action = m.action /\ Wire(m).tool_hash = m.tool_hash
      /\ Wire(m).scope_ref = m.scope_ref /\ Wire(m).destructive = m.destructive
  BY <1>5, <1>8
<1>10. /\ m.action = step.action /\ m.tool_hash = step.tool_hash
       /\ m.scope_ref = step.scope_ref /\ m.destructive = d
  BY <1>4
<1> QED
  BY <1>6, <1>7, <1>9, <1>10 DEF d, then

\* What arrives of a listed step is what was sealed.
ArrivesAsSealed(step, envs) ==
    /\ step.input_digest \in {Undefined, step.input}
    /\ IF step.output_digest = Undefined
       THEN IsAction(step) => step.tool_target # Undefined
       ELSE step.output_digest = ArrivedOutput(OutputOf(step, envs))

LEMMA ArrivalIs ==
    ASSUME AgenticInv, RunIsSealed, NEW step \in ToSet(sent)
    PROVE  IoDigest(SealedInput(step), SealedOutput(step, given))
                = IoDigest(step.input, ArrivedOutput(OutputOf(step, given)))
           <=> ArrivesAsSealed(step, given)
<1> DEFINE out == OutputOf(step, given)
           act == out.agentic_action
<1>1. IoDigest(SealedInput(step), SealedOutput(step, given))
          = IoDigest(step.input, ArrivedOutput(out))
      <=> SealedInput(step) = step.input /\ SealedOutput(step, given) = ArrivedOutput(out)
  BY DigestTells
<1>2. SealedInput(step) = step.input <=> step.input_digest \in {Undefined, step.input}
  BY DEF SealedInput
<1>3. ASSUME step.output_digest = Undefined
      PROVE  SealedOutput(step, given) = ArrivedOutput(out)
                 <=> (IsAction(step) => step.tool_target # Undefined)
  <2>1. out = [output |-> step.output, agentic_action |-> act]
    BY DEF OutputOf
  <2>2. SealedOutput(step, given) = out
    BY <1>3 DEF SealedOutput, Canonicalize
  <2>3. ArrivedOutput(out) = [output |-> step.output, agentic_action |-> Wire(act)]
    BY <2>1 DEF ArrivedOutput
  <2>4. CASE IsAction(step)
    <3>1. act = ActionMeta(step, given)
      BY <2>4 DEF OutputOf
    <3>2. Wire(act) = act <=> step.tool_target # Undefined
      BY <2>4, <3>1, MetaOnTheWire
    <3> HIDE DEF act, out
    <3> QED
      BY <2>1, <2>2, <2>3, <2>4, <3>2
  <2>5. CASE ~ IsAction(step)
    <3>1. act = step.listed
      BY <2>5 DEF OutputOf
    <3>2. Wire(act) = act
      BY <3>1, AgenticAssumption DEF RunIsSealed
    <3> HIDE DEF act, out
    <3> QED
      BY <2>1, <2>2, <2>3, <2>5, <3>2
  <2> QED
    BY <2>4, <2>5
<1>4. step.output_digest # Undefined => SealedOutput(step, given) = step.output_digest
  BY DEF SealedOutput
<1> HIDE DEF out
<1> QED
  BY <1>1, <1>2, <1>3, <1>4 DEF ArrivesAsSealed, out

\* What arrives of a listed step passes the gate it passed, or the one it is put before.
LEMMA GatedAgain ==
    ASSUME AgenticInv, RunIsSealed, NEW step \in ToSet(sent),
           NEW m, m = Wire(OutputOf(step, given).agentic_action)
    PROVE  Regated(m, given) /\ SaysDestructive(m, given)
           <=> (~ IsAction(step) =>
                    Regated(step.listed, given) /\ SaysDestructive(step.listed, given))
<1>1. CASE IsAction(step)
  <2>1. m = Wire(ActionMeta(step, given))
    BY <1>1 DEF OutputOf
  <2>2. /\ m.action = step.action /\ m.tool_hash = step.tool_hash
        /\ m.scope_ref = step.scope_ref
        /\ m.destructive = IsDestructive(ScopeOf(given, step.scope_ref), step.action)
    BY <1>1, <2>1, MetaOnTheWire
  <2>3. /\ HasScope(given, step.scope_ref)
        /\ ScopeAllows(ScopeOf(given, step.scope_ref), step.action, step.tool_hash)
    BY <1>1, GatedStep
  <2> QED
    BY <1>1, <2>2, <2>3 DEF Regated, SaysDestructive
<1>2. CASE ~ IsAction(step)
  <2>1. m = step.listed
    BY <1>2, AgenticAssumption DEF OutputOf, RunIsSealed
  <2> QED
    BY <1>2, <2>1
<1> QED
  BY <1>1, <1>2

LEMMA AgenticInvImplies2 == AgenticInv => ActionsSurviveTheWire
<1> SUFFICES ASSUME AgenticInv, agentic # <<>>, DistinctIds(sent)
             PROVE  VerifyAgenticRun(Arrived, given)
                        <=> \A i \in DOMAIN sent : IsListed(sent[i]) => Confirmable(sent[i], given)
  BY DEF ActionsSurviveTheWire
<1> DEFINE chain == SignChain(Annotated(sent, given))
           side == Sidecar(sent, given)
           acts == Arrived.agentic_actions
           Accepted(id) == /\ Bound(Arrived, id, acts[id])
                           /\ Regated(acts[id].meta, given)
                           /\ SaysDestructive(acts[id].meta, given)
<1>1. RunIsSealed
  BY DEF AgenticInv
<1>2. IsGraph(sent) /\ CanSealAgentic(sent, given)
  BY <1>1 DEF RunIsSealed
<1>3. /\ SignedAs(Arrived, sent, given) /\ DOMAIN acts = DOMAIN side
      /\ \A id \in DOMAIN side : acts[id] = ArrivedEntry(side[id])
  BY <1>1, ArrivedIs
<1>4. VerifyChain(Arrived)
  <2>1. VerifyChain(chain)
    <3>1. IsGraph(Annotated(sent, given)) /\ DistinctIds(Annotated(sent, given))
      BY <1>2, AnnotatedIs
    <3> QED
      BY <1>2, <3>1, SealedVerifies DEF CanSealAgentic
  <2>2. /\ Arrived.base = chain.base /\ Arrived.steps = chain.steps
        /\ Arrived.payload_digest = chain.payload_digest
        /\ Arrived.envelope_signature = chain.envelope_signature
    BY <1>3 DEF SignedAs
  <2> HIDE DEF chain
  <2> QED
    BY <2>1, <2>2, VerifyChainOf
<1>5. CanResolve(given) /\ Sealable(Annotated(sent, given))
  BY <1>2 DEF CanSealAgentic
<1>6. /\ \A i \in DOMAIN sent : IsListed(sent[i]) => sent[i].step_id \in DOMAIN side
      /\ \A id \in DOMAIN side : /\ id \in Ids(sent) /\ IsListed(ById(sent, id))
                                 /\ side[id] = EntryOf(ById(sent, id), given)
  BY <1>2, SidecarIs
<1>7. VerifyAgenticRun(Arrived, given) <=> \A id \in DOMAIN side : Accepted(id)
  BY <1>3, <1>4, <1>5 DEF VerifyAgenticRun
<1> HIDE DEF acts, side, chain
<1>8. ASSUME NEW id \in DOMAIN side
      PROVE  Accepted(id) <=> Confirmable(ById(sent, id), given)
  <2> DEFINE step == ById(sent, id)
             out == OutputOf(step, given)
  <2>1. id \in Ids(sent) /\ step \in ToSet(sent) /\ step.step_id = id
    BY <1>2, <1>6, EntriesAre
  <2>2. /\ acts[id].meta = Wire(out.agentic_action) /\ acts[id].input = step.input
        /\ acts[id].output = ArrivedOutput(out)
        /\ ArrivedOutput(out).agentic_action = Wire(out.agentic_action)
    BY <1>3, <1>6 DEF EntryOf, ArrivedEntry, ArrivedOutput
  <2>3. /\ id \in Ids(Records(Arrived))
        /\ ById(Records(Arrived), id).io_digest
               = IoDigest(SealedInput(step), SealedOutput(step, given))
    BY <1>2, <1>3, <1>5, <2>1, BoundIs
  <2> HIDE DEF step
  <2>4. /\ IoDigest(SealedInput(step), SealedOutput(step, given))
               = IoDigest(step.input, ArrivedOutput(out))
           <=> ArrivesAsSealed(step, given)
    BY <1>1, <2>1, ArrivalIs
  <2>5. Regated(acts[id].meta, given) /\ SaysDestructive(acts[id].meta, given)
           <=> (~ IsAction(step) =>
                    Regated(step.listed, given) /\ SaysDestructive(step.listed, given))
    BY <1>1, <2>1, <2>2, GatedAgain
  <2> HIDE DEF out
  <2>6. Bound(Arrived, id, acts[id]) <=> id \notin NumberId /\ ArrivesAsSealed(step, given)
    BY <2>2, <2>3, <2>4 DEF Bound
  <2>7. Confirmable(step, given) <=>
            /\ step.step_id \notin NumberId /\ ArrivesAsSealed(step, given)
            /\ (~ IsAction(step) =>
                    Regated(step.listed, given) /\ SaysDestructive(step.listed, given))
    BY DEF Confirmable, ArrivesAsSealed, out
  <2> QED
    BY <2>1, <2>5, <2>6, <2>7 DEF step
<1> HIDE DEF Accepted
<1>9. ASSUME NEW i \in DOMAIN sent
      PROVE  sent[i].step_id \in Ids(sent) /\ ById(sent, sent[i].step_id) = sent[i]
  <2>1. sent[i].step_id \in Ids(sent)
    BY DEF Ids
  <2> QED
    BY <1>2, <2>1, SingleIs
<1>10. ASSUME NEW id \in DOMAIN side
       PROVE  \E i \in DOMAIN sent : sent[i] = ById(sent, id) /\ IsListed(sent[i])
  <2>1. ById(sent, id) \in ToSet(sent)
    BY <1>2, <1>6, EntriesAre
  <2> QED
    BY <1>6, <2>1 DEF ToSet
<1>11. (\A id \in DOMAIN side : Accepted(id))
           <=> \A i \in DOMAIN sent : IsListed(sent[i]) => Confirmable(sent[i], given)
  BY <1>6, <1>8, <1>9, <1>10
<1> QED
  BY <1>7, <1>11

\* Every scope in circulation was issued by signToolScope, the run that was sealed passed
\* the gate of the scopes it came with, and the verifier holds what was sealed as JSON
\* carries it, or one of its edits (signAgenticRun, gateAndAnnotate).
THEOREM AgenticInvariant == AgenticSpec => []AgenticInv
<1>1. AgenticInit => AgenticInv
  BY AgenticInvInit
<1>2. AgenticInv /\ [AgenticNext]_agenticVars => AgenticInv'
  BY AgenticInvNext
<1> QED
  BY <1>1, <1>2, PTL DEF AgenticSpec

\* agentic.js:165-216: the actions listed with an accepted run of distinct steps are those
\* that were sealed, and are in the scopes the verifier holds; an action that was gated
\* was in scope when it was sealed, and just as destructive, unless its step came with an
\* output digest of its own (chain.js:62).
THEOREM AcceptedActions == AgenticSpec => []AcceptedActionsAreInScope
<1>1. AgenticInv => AcceptedActionsAreInScope
  BY AgenticInvImplies1
<1> QED
  BY <1>1, AgenticInvariant, PTL

\* upstream.js:71-81: a run of distinct steps nobody touched is confirmed exactly when
\* every listed action has an id that is a string, says its target, has no digest but
\* that of what arrives and, if it was made up by its sender, is one the scopes allow.
THEOREM TravelledActions == AgenticSpec => []ActionsSurviveTheWire
<1>1. AgenticInv => ActionsSurviveTheWire
  BY AgenticInvImplies2
<1> QED
  BY <1>1, AgenticInvariant, PTL

================================================================================
