------------------------------ MODULE Consensus ------------------------------
(***************************************************************************)
(* consensus.js: a panel of models answers one question.                   *)
(*                                                                         *)
(* Every answer is sealed in a sub-receipt, the decision and the panel it  *)
(* was made over in one receipt.  The customer collects the sub-receipts   *)
(* as they come: in any order, some never, some twice.  He is shown the    *)
(* receipt, maybe with another decision written into it, and runs the      *)
(* decision again over what he collected.                                  *)
(***************************************************************************)
EXTENDS Sealed

CONSTANTS
    Member,         \* what a panel member may report
    MethodAsked, ParamsAsked,
    MaxPanel, MaxAgain      \* bounds: members, sub-receipts that come again

ASSUME ConsensusAssumption ==
    /\ \A m \in Member : /\ DOMAIN m = {"panel_id", "model_id", "output_digest", "score"}
                         /\ m.output_digest \in Nat /\ m.score \in Int
    /\ \A p \in ParamsAsked : p.quorum_n \in Int
    /\ MaxPanel \in Nat /\ MaxAgain \in Nat

VARIABLES
    panel,      \* what the members reported, in the order of the request
    verdict,    \* the consensus receipt, <<>> before it is signed
    collected,  \* the sub-receipts the customer has, by their place in the panel
    verdictShown    \* the receipt the customer is shown

consensusVars == <<panel, verdict, collected, verdictShown>>

ConsensusInit ==
    /\ panel = <<>>
    /\ verdict = <<>>
    /\ collected = <<>>
    /\ verdictShown = <<>>

--------------------------------------------------------------------------------

\* signSubReceipt; the base of a sub-receipt says nothing of its member.
SignSubReceipt(m) ==
    LET record == [m EXCEPT !.score = Int32(@)]
    IN  Seal([member |-> record, member_digest |-> Canonicalize(record)],
             "sub_receipt", Canonicalize(record))

VerifySubReceipt(env) ==
    LET digest == Canonicalize(env.member)
    IN  digest = env.member_digest /\ SealHolds(env, "sub_receipt", digest)

ModelOf(m) == IF "model_id" \in DOMAIN m THEN m.model_id ELSE Undefined

Methods == {"majority", "quorum", "weighted", "judge"}

\* Is a before b, the first key counting most?
Before(a, b) ==
    \E k \in 1 .. 3 : a[k] > b[k] /\ \A j \in 1 .. k - 1 : a[j] = b[j]

First(answers, Key(_)) ==
    CHOOSE d \in answers : \A e \in answers \ {d} : Before(Key(d), Key(e))

Tally(members) ==
    [d \in {members[i].output_digest : i \in DOMAIN members} |->
        LET for == {i \in DOMAIN members : members[i].output_digest = d}
        IN  [votes |-> Cardinality(for),
             weight |-> TotalOf(Kept([i \in DOMAIN members |-> members[i].score], for)),
             models |-> Sorted(Kept([i \in DOMAIN members |-> ModelOf(members[i])], for))]]

\* (Slip: of answers with as many votes the first to come in wins.)
FirstComeConsensus(members, method, params) ==
    LET tally == Tally(members)
        top == First(DOMAIN tally,
                     LAMBDA d : <<tally[d].votes, tally[d].weight,
                         - (CHOOSE i \in DOMAIN members : members[i].output_digest = d)>>)
    IN  [method |-> "majority", member_count |-> Len(members), tally |-> tally,
         decided |-> TRUE, params |-> params,
         winner |-> [output_digest |-> top, models |-> tally[top].models]]

\* computeConsensus and the record made of it.  Ties go to the heavier (or the more
\* voted) answer, then to the lowest digest; a judge picks the first member with his
\* model's name.  The order of the tally follows from what is in it.
ComputeConsensus(members, method, params) ==
    LET m == IF method \in Methods THEN method ELSE "majority"
        tally == Tally(members)
        heaviest == First(DOMAIN tally, LAMBDA d : <<tally[d].weight, tally[d].votes, - d>>)
        top == First(DOMAIN tally, LAMBDA d : <<tally[d].votes, tally[d].weight, - d>>)
        picked == {i \in DOMAIN members : ModelOf(members[i]) = params.judge_pick}
        decided == CASE m = "judge" -> picked # {}
                     [] m = "quorum" -> members # <<>> /\ tally[top].votes >= Int32(params.quorum_n)
                     [] OTHER -> members # <<>>
        By(d) == [output_digest |-> d, models |-> tally[d].models]
    IN  [method |-> m, member_count |-> Len(members), tally |-> tally,
         decided |-> decided, params |-> params,
         winner |->
            CASE ~ decided -> <<>>
              [] decided /\ m = "judge" ->
                    [output_digest |-> members[Min(picked)].output_digest,
                     model_id |-> params.judge_pick]
              [] decided /\ m = "weighted" -> By(heaviest)
              [] OTHER -> By(top)]

SubDigests(subs) == Sorted([i \in DOMAIN subs |-> subs[i].payload_digest])

MembersOf(subs) == [i \in DOMAIN subs |-> subs[i].member]

SignConsensus(subs, method, params) ==
    LET root == MerkleRoot(SubDigests(subs))
        decision == ComputeConsensus(MembersOf(subs), method, params)
        base == [panel_root |-> root, member_count |-> Len(subs),
                 decision_digest |-> Canonicalize(decision)]
    IN  Seal([base |-> base, decision |-> decision], base, <<root, base.decision_digest>>)

\* (Slip: the decision the receipt carries is not compared with the digest.)
VerifyConsensusUncarried(env, subs) ==
    /\ env.base.panel_root = MerkleRoot(SubDigests(subs))
    /\ env.base.member_count = Len(subs)
    /\ env.base.decision_digest
          = Canonicalize(ComputeConsensus(MembersOf(subs), env.base.decision_digest.method,
                                          env.base.decision_digest.params))
    /\ SealHolds(env, env.base, <<env.base.panel_root, env.base.decision_digest>>)

\* verifyConsensus: the sub-receipts' own digests and signatures are not looked at.
VerifyConsensus(env, subs) ==
    /\ env.base.panel_root = MerkleRoot(SubDigests(subs))
    /\ env.base.member_count = Len(subs)
    /\ env.base.decision_digest
          = Canonicalize(ComputeConsensus(MembersOf(subs), env.decision.method,
                                          env.decision.params))
    /\ env.base.decision_digest = Canonicalize(env.decision)
    /\ SealHolds(env, env.base, <<env.base.panel_root, env.base.decision_digest>>)

--------------------------------------------------------------------------------

Subs == [i \in DOMAIN panel |-> SignSubReceipt(panel[i])]

\* POST /sigr/consensus: all sub-receipts and the receipt over them in one call.
SealPanel ==
    /\ verdict = <<>>
    /\ \E list \in BoundedSeq(Member, MaxPanel), method \in MethodAsked, p \in ParamsAsked :
          /\ list # <<>>
          /\ panel' = list
          /\ verdict' = SignConsensus([i \in DOMAIN list |-> SignSubReceipt(list[i])],
                                      method, p)
    /\ UNCHANGED <<collected, verdictShown>>

Collect ==
    /\ verdictShown = <<>>
    /\ Len(collected) < Len(panel) + MaxAgain
    /\ \E i \in DOMAIN panel : collected' = Append(collected, i)
    /\ UNCHANGED <<panel, verdict, verdictShown>>

\* A missing name in a list of models travels as null.
NullNames(models) ==
    [i \in DOMAIN models |-> IF models[i] = Undefined THEN "null" ELSE models[i]]

TallyArrived(tally) == [d \in DOMAIN tally |-> [tally[d] EXCEPT !.models = NullNames(@)]]

WinnerArrived(w) == IF "models" \in DOMAIN w THEN [w EXCEPT !.models = NullNames(@)] ELSE w

DecisionArrived ==
    [verdict.decision EXCEPT !.tally = TallyArrived(@), !.winner = WinnerArrived(@)]

\* The receipt is shown as it was sealed, or with another winner.
ShowVerdict ==
    /\ verdict # <<>>
    /\ verdictShown = <<>>
    /\ \/ verdictShown' = [verdict EXCEPT !.decision = DecisionArrived]
       \/ \E m \in Member :
             /\ verdict.decision.winner # <<>>
             /\ verdictShown' = [verdict EXCEPT !.decision =
                    [DecisionArrived EXCEPT !.winner.output_digest = m.output_digest]]
    /\ UNCHANGED <<panel, verdict, collected>>

ConsensusNext == SealPanel \/ Collect \/ ShowVerdict

ConsensusSpec == ConsensusInit /\ [][ConsensusNext]_consensusVars

--------------------------------------------------------------------------------

Collected == [k \in DOMAIN collected |->
    [Subs[collected[k]] EXCEPT !.member = Wire(@)]]

AllCollected ==
    /\ verdictShown # <<>>
    /\ Len(collected) = Len(panel)
    /\ ToSet(collected) = DOMAIN panel

Honest == verdictShown # <<>> /\ verdictShown.decision = DecisionArrived

\* The panel's verdict does not depend on the order in which its sub-receipts reach
\* the customer: who has them all confirms it, when every member gave its name.
\* The exception is a judge's pick of a model that was asked twice and answered
\* differently (consensus.js:170): there the first in the customer's list decides.
\* A member without a name is hashed as undefined and travels as null; one without
\* a panel_id has a sub-receipt that no longer verifies, and a panel that does.
VerdictIsOrderFree ==
    AllCollected /\ Honest =>
        /\ VerifyConsensus(verdictShown, Collected)
              <=> /\ \A i \in DOMAIN panel : panel[i].model_id # Undefined
                  /\ verdict.decision.method = "judge" /\ verdict.decision.decided =>
                        verdict.decision.winner.output_digest
                            = Collected[Min({k \in DOMAIN collected :
                                  panel[collected[k]].model_id
                                      = verdict.decision.params.judge_pick})]
                              .member.output_digest
        /\ \A k \in DOMAIN collected :
              VerifySubReceipt(Collected[k]) <=> Undefined \notin
                  {panel[collected[k]].panel_id, panel[collected[k]].model_id}

\* A verdict that verifies names the answer the panel gave, and was made over the
\* very sub-receipts the customer has: no dissenter is missing and none counts
\* twice ("a dissenting model was not silently dropped", consensus.js:21).
AcceptedVerdictIsThePanels ==
    verdictShown # <<>> /\ VerifyConsensus(verdictShown, Collected) =>
        /\ ToBag(MembersOf(Collected)) = ToBag([i \in DOMAIN panel |-> Wire(Subs[i].member)])
        /\ verdictShown.decision.winner = verdict.decision.winner
        /\ verdictShown.decision.method \in {"majority", "quorum"}
               /\ verdictShown.decision.decided =>
              LET Votes(d) == Cardinality({i \in DOMAIN panel : panel[i].output_digest = d})
                  w == verdictShown.decision.winner.output_digest
              IN  /\ \A m \in Member : Votes(m.output_digest) <= Votes(w)
                  /\ verdictShown.decision.method = "quorum" =>
                        Votes(w) >= Int32(verdictShown.decision.params.quorum_n)
================================================================================
