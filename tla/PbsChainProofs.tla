---------------------------- MODULE PbsChainProofs ----------------------------
(***************************************************************************)
(* Theorems about PbsChain, for any number of runs, environments, beats    *)
(* and restarts, and any freshness of the receipts.                        *)
(***************************************************************************)
EXTENDS PbsChain, TLAPS

LEMMA SeqOfMore ==
    ASSUME NEW S, NEW T, S \subseteq T, NEW s \in Seq(S) PROVE s \in Seq(T)
OBVIOUS

LEMMA CheckVerdict ==
    ASSUME NEW env, NEW type, NEW allow PROVE Check(env, type, allow) \in Verdict
BY Zenon DEF Check, VerifyUpstreamReceipt, Verdict

LEMMA BeatVerdicts == ASSUME NEW hb PROVE WhyRejected(hb) \in BeatVerdict
<1>1. WhyRejected(hb) \in {Check(hb, "pbs.attestation", ver.allow), "seq_gap",
          "chain_break", "delta_mismatch", "accumulator_mismatch", "ok"}
  BY Zenon DEF WhyRejected
<1> QED
  BY <1>1, CheckVerdict DEF BeatVerdict, Verdict

LEMMA FoldHeartbeatType ==
    ASSUME NEW prior \in Root, NEW batch \in Batch, NEW seq \in Nat
    PROVE  /\ DeltaRoot(batch, seq) \in Delta
           /\ Fold(prior, DeltaRoot(batch, seq)) \in Root
<1>1. DeltaRoot(batch, seq) \in Delta
  BY DEF DeltaRoot, Delta, Batch
<1> QED
  BY <1>1 DEF Fold, Root

\* What a signed heartbeat carries.
LEMMA SignedHeartbeat ==
    ASSUME NEW r \in Run, NEW seq \in Nat, NEW prior \in Root, NEW batch \in Batch,
           now \in Nat
    PROVE  LET hb == SignPbsAttestation(r, seq, prior, batch)
           IN  /\ Heartbeat(hb)
               /\ hb.run_id = r
               /\ hb.payload.heartbeat_seq = seq
               /\ hb.payload.prior_accumulator_root = prior
               /\ hb.payload.measurements = batch
               /\ hb.payload.delta_root = DeltaRoot(batch, seq)
               /\ hb.payload.new_accumulator_root = Fold(prior, DeltaRoot(batch, seq))
<1> DEFINE p == [heartbeat_seq |-> seq, prior_accumulator_root |-> prior,
                 delta_root |-> DeltaRoot(batch, seq),
                 new_accumulator_root |-> Fold(prior, DeltaRoot(batch, seq)),
                 measurements |-> batch]
           hb == SignUpstreamReceipt("pbs.attestation", p, 0, r, ServiceKey,
                                     "sha-256", now)
<1>1. SignPbsAttestation(r, seq, prior, batch) = hb
  BY DEF SignPbsAttestation, FoldHeartbeat
<1>2. p \in [heartbeat_seq : Nat, prior_accumulator_root : Root, delta_root : Delta,
             new_accumulator_root : Root, measurements : Batch]
  BY FoldHeartbeatType
<1>3. Ttl["pbs.attestation"] \in Nat
  BY PbsAssumption, UpstreamAssumption
<1> HIDE DEF p
<1>4. Heartbeat(hb) /\ hb.payload = p /\ hb.run_id = r
  BY <1>2, <1>3 DEF Heartbeat, Receipt, SignUpstreamReceipt
<1> QED
  BY <1>1, <1>4 DEF p

\* What a signed manifest carries.
LEMMA SignedManifest ==
    ASSUME NEW r \in Run, NEW env \in Env, now \in Nat
    PROVE  LET m == SignPbsManifest(r, env)
           IN  /\ Manifest(m)
               /\ m.payload.env = env
               /\ m.payload.initial_accumulator_root = InitialRoot(env)
<1> DEFINE p == [env |-> env, initial_accumulator_root |-> InitialRoot(env)]
           m == SignUpstreamReceipt("pbs.manifest", p, 0, r, ServiceKey,
                                    "sha-256", now)
<1>1. p \in [env : Env, initial_accumulator_root : Root]
  BY DEF InitialRoot, Root
<1>2. Ttl["pbs.manifest"] \in Nat
  BY PbsAssumption, UpstreamAssumption
<1>3. SignPbsManifest(r, env) = m
  BY DEF SignPbsManifest
<1> HIDE DEF p
<1>4. Manifest(m) /\ m.payload = p
  BY <1>1, <1>2 DEF Manifest, Receipt, SignUpstreamReceipt
<1> QED
  BY <1>3, <1>4 DEF p

LEMMA TypeInit == Init => TypeOK
BY PbsAssumption DEF Init, TypeOK, Agent, InitialRoot, Root, Idle

LEMMA TypeNext == TypeOK /\ [Next]_vars => TypeOK'
<1> SUFFICES ASSUME TypeOK, [Next]_vars PROVE TypeOK'
  OBVIOUS
<1> USE DEF TypeOK
<1>0. \A S, T : S \subseteq T => Seq(S) \subseteq Seq(T)
  BY SeqOfMore
<1>1. CASE Tick
  BY <1>1 DEF Tick, Agent, Verification
<1>2. ASSUME NEW r \in Run, Provision(r) PROVE TypeOK'
  <2>1. Manifest(SignPbsManifest(r, live[r]))
    BY SignedManifest
  <2>2. InitialRoot(live[r]) \in Root
    BY DEF InitialRoot, Root
  <2> QED
    BY <1>2, <2>1, <2>2 DEF Provision, Agent, Verification
<1>3. ASSUME NEW r \in Run, Drift(r) PROVE TypeOK'
  BY <1>3 DEF Drift, Agent, Verification
<1>4. ASSUME NEW r \in Run, Beat(r) PROVE TypeOK'
  <2>1. PICK batch \in Measured(r) :
          LET hb == SignPbsAttestation(r, agent[r].seq, agent[r].prior, batch)
          IN  /\ receipts' = receipts \cup {hb}
              /\ agent' = [agent EXCEPT ![r] =
                    [seq |-> @.seq + 1,
                     prior |-> hb.payload.new_accumulator_root,
                     log |-> Append(@.log, hb)]]
    BY <1>4 DEF Beat
  <2>2. batch \in Batch
    BY DEF Measured, Batch
  <2>3. agent[r] \in Agent
    OBVIOUS
  <2> DEFINE hb == SignPbsAttestation(r, agent[r].seq, agent[r].prior, batch)
  <2>4. Heartbeat(hb) /\ hb.payload.new_accumulator_root \in Root
    <3>1. Fold(agent[r].prior, DeltaRoot(batch, agent[r].seq)) \in Root
      BY <2>2, <2>3, FoldHeartbeatType DEF Agent
    <3> QED
      BY <2>2, <2>3, <3>1, SignedHeartbeat DEF Agent
  <2> HIDE DEF hb
  <2>5. receipts' = receipts \cup {hb}
    BY <2>1 DEF hb
  <2>6. Seq(receipts) \subseteq Seq(receipts')
    BY <1>0, <2>5
  <2>7. Append(agent[r].log, hb) \in Seq(receipts')
    BY <2>3, <2>5, <2>6 DEF Agent
  <2>8. agent' \in [Run -> Agent']
    <3>1. agent' = [agent EXCEPT ![r] = [seq |-> agent[r].seq + 1,
                        prior |-> hb.payload.new_accumulator_root,
                        log |-> Append(agent[r].log, hb)]]
      BY <2>1 DEF hb
    <3> QED
      BY <3>1, <2>3, <2>4, <2>6, <2>7 DEF Agent
  <2>9. ver' \in Verification' \cup {Idle}
    BY <1>4 DEF Beat
  <2> QED
    BY <1>4, <2>4, <2>5, <2>8, <2>9 DEF Beat
<1>5. ASSUME NEW r \in Run, BeatLate(r) PROVE TypeOK'
  <2>1. PICK batch \in Measured(r) :
          receipts' = receipts \cup
              {SignPbsAttestation(r, agent[r].seq, agent[r].prior, batch)}
    BY <1>5 DEF BeatLate
  <2>2. batch \in Batch /\ agent[r] \in Agent
    BY DEF Measured, Batch
  <2>3. Heartbeat(SignPbsAttestation(r, agent[r].seq, agent[r].prior, batch))
    BY <2>2, SignedHeartbeat DEF Agent
  <2>4. Seq(receipts) \subseteq Seq(receipts')
    BY <1>0, <2>1
  <2>5. agent' \in [Run -> Agent']
    BY <1>5, <2>4 DEF BeatLate, Agent
  <2> QED
    BY <1>5, <2>1, <2>3, <2>5 DEF BeatLate
<1>6. ASSUME NEW r \in Run, Restart(r) PROVE TypeOK'
  <2>1. PICK n \in 0 .. Len(agent[r].log) - 1 :
          agent' = [agent EXCEPT ![r] =
              [seq |-> n + 1,
               prior |-> agent[r].log[n + 1].payload.prior_accumulator_root,
               log |-> SubSeq(agent[r].log, 1, n)]]
    BY <1>6 DEF Restart
  <2>2. agent[r].log \in Seq(receipts)
    BY DEF Agent
  <2>3. Heartbeat(agent[r].log[n + 1])
    BY <2>2
  <2>4. agent[r].log[n + 1].payload.prior_accumulator_root \in Root
    BY <2>3 DEF Heartbeat, Receipt
  <2>5. SubSeq(agent[r].log, 1, n) \in Seq(receipts)
    BY <2>2
  <2> QED
    BY <1>6, <2>1, <2>4, <2>5 DEF Restart, Agent, Verification
<1>7. ASSUME NEW r \in Run, NEW allow \in BOOLEAN, VerifyCall(r, allow) PROVE TypeOK'
  <2>1. Manifest(manifest[r])
    BY <1>7 DEF VerifyCall
  <2>2. manifest[r].payload.initial_accumulator_root \in Root
    BY <2>1 DEF Manifest, Receipt
  <2>3. Check(manifest[r], "pbs.manifest", allow) \in Verdict
    BY CheckVerdict
  <2>4. ver' \in Verification
    <3> DEFINE why == Check(manifest[r], "pbs.manifest", allow)
    <3>1. ver' = [phase |-> IF why = "ok" THEN "loop" ELSE "failed",
                  run |-> r, allow |-> allow, chain |-> <<>>,
                  prior |-> manifest[r].payload.initial_accumulator_root,
                  seq |-> 1, reason |-> <<"manifest", why>>]
      BY <1>7 DEF VerifyCall
    <3>2. why \in BeatVerdict
      BY <2>3 DEF BeatVerdict
    <3> HIDE DEF why
    <3>3. (IF why = "ok" THEN "loop" ELSE "failed") \in {"loop", "ok", "failed"}
      OBVIOUS
    <3>4. <<"manifest", why>> \in {"manifest", "heartbeat"} \X BeatVerdict
      BY <3>2
    <3> QED
      BY <3>1, <2>2, <3>3, <3>4 DEF Verification
  <2> QED
    BY <1>7, <2>4 DEF VerifyCall, Agent, Verification
<1>8. ASSUME NEW hb \in receipts, VerifyBeat(hb) PROVE TypeOK'
  <2>1. ver \in Verification
    BY <1>8 DEF VerifyBeat, Idle
  <2>4. Append(ver.chain, hb) \in Seq(receipts) /\ ver.seq + 1 \in Nat
    BY <2>1 DEF Verification
  <2>2. hb.payload.new_accumulator_root \in Root
    BY DEF Heartbeat, Receipt
  <2>3. ver' \in Verification
    BY <1>8, <2>1, <2>2, <2>4, Zenon DEF VerifyBeat, Verification
  <2> QED
    BY <1>8, <2>3 DEF VerifyBeat, Agent, Verification
<1>9. ASSUME NEW hb \in receipts, VerifyBreaks(hb) PROVE TypeOK'
  <2>1. ver \in Verification
    BY <1>9 DEF VerifyBreaks, Idle
  <2>4. Append(ver.chain, hb) \in Seq(receipts)
    BY <2>1 DEF Verification
  <2>5. <<"heartbeat", WhyRejected(hb)>> \in {"manifest", "heartbeat"} \X BeatVerdict
    BY BeatVerdicts
  <2>3. ver' \in Verification
    BY <1>9, <2>1, <2>4, <2>5, Zenon DEF VerifyBreaks, Verification
  <2> QED
    BY <1>9, <2>3 DEF VerifyBreaks, Agent, Verification
<1>10. CASE VerifyDone
  <2>1. ver \in Verification
    BY <1>10 DEF VerifyDone, Idle
  <2> QED
    BY <1>10, <2>1 DEF VerifyDone, Agent, Verification
<1>11. CASE VerifyReturn
  BY <1>11 DEF VerifyReturn, Agent
<1>12. CASE UNCHANGED vars
  BY <1>12 DEF vars, Agent, Verification
<1> QED
  BY <1>1, <1>2, <1>3, <1>4, <1>5, <1>6, <1>7, <1>8, <1>9, <1>10, <1>11, <1>12
     DEF Next, Verify

\* Receipts, agents and the verifier stay well-formed, whatever the bounds.
THEOREM PbsTypeCorrect == Spec => []TypeOK
BY TypeInit, TypeNext, PTL DEF Spec

--------------------------------------------------------------------------------

(***************************************************************************)
(* The final root is the history.  The argument: at the head of the loop   *)
(* the expected prior root is the root of the beats accepted so far, and   *)
(* the expected seq numbers the next one; an accepted beat folds exactly   *)
(* its own delta onto that root.  Nothing is assumed of the agents: the    *)
(* receipts may be any that were signed.                                   *)
(***************************************************************************)

LEMMA RootOfNone == ASSUME NEW env PROVE RootOf(env, <<>>) = InitialRoot(env)
BY DEF RootOf, InitialRoot

LEMMA RootOfAppend ==
    ASSUME NEW env, NEW S, NEW chain \in Seq(S), NEW hb \in S
    PROVE  RootOf(env, Append(chain, hb)) =
              Fold(RootOf(env, chain), DeltaRoot(hb.payload.measurements, Len(chain) + 1))
<1> DEFINE delta(c, i) == DeltaRoot(c[i].payload.measurements, i)
           longer == Append(chain, hb)
           old == [i \in 1 .. Len(chain) |-> delta(chain, i)]
           new == [i \in 1 .. Len(longer) |-> delta(longer, i)]
           last == DeltaRoot(hb.payload.measurements, Len(chain) + 1)
<1>1. Len(longer) = Len(chain) + 1 /\ longer[Len(chain) + 1] = hb
  OBVIOUS
<1>2. \A i \in 1 .. Len(chain) : longer[i] = chain[i]
  OBVIOUS
<1>3. old \in Seq({delta(chain, i) : i \in 1 .. Len(chain)} \cup {last}) /\ Len(old) = Len(chain)
  OBVIOUS
<1>4. new = Append(old, last)
  <2>1. Append(old, last) = [i \in 1 .. Len(chain) + 1 |->
                                IF i = Len(chain) + 1 THEN last ELSE old[i]]
    BY <1>3
  <2>2. \A i \in 1 .. Len(chain) + 1 :
           delta(longer, i) = IF i = Len(chain) + 1 THEN last ELSE old[i]
    BY <1>1, <1>2
  <2> QED
    BY <2>1, <2>2, <1>1
<1>5. RootOf(env, longer) = [env |-> env, folds |-> new]
  BY DEF RootOf
<1>6. RootOf(env, chain) = [env |-> env, folds |-> old]
  BY DEF RootOf
<1> HIDE DEF old, last
<1>7. Fold([env |-> env, folds |-> old], last) = [env |-> env, folds |-> Append(old, last)]
  BY DEF Fold
<1> QED
  BY <1>4, <1>5, <1>6, <1>7 DEF last

\* A chain starts from the environment that its manifest declares.
ManifestInv ==
    \A r \in Run : manifest[r] # Nothing =>
        manifest[r].payload.initial_accumulator_root = InitialRoot(manifest[r].payload.env)

\* What the loop of verifyPbsAttestationChain keeps.
LoopInv ==
    /\ ver # Idle => manifest[ver.run] # Nothing
    /\ ver # Idle /\ ver.phase \in {"loop", "ok"} =>
          /\ ver.seq = Len(ver.chain) + 1
          /\ ver.prior = RootOf(manifest[ver.run].payload.env, ver.chain)

HInv == TypeOK /\ ManifestInv /\ LoopInv

LEMMA HInvInit == Init => HInv
BY TypeInit DEF Init, HInv, ManifestInv, LoopInv

LEMMA HInvNext == HInv /\ [Next]_vars => HInv'
<1> SUFFICES ASSUME HInv, [Next]_vars PROVE HInv'
  OBVIOUS
<1>0. TypeOK /\ TypeOK' /\ ManifestInv /\ LoopInv
  BY TypeNext DEF HInv
<1> SUFFICES ManifestInv' /\ LoopInv'
  BY <1>0 DEF HInv
<1>1. ASSUME manifest' = manifest, ver' = ver PROVE ManifestInv' /\ LoopInv'
  BY <1>0, <1>1 DEF ManifestInv, LoopInv
<1>2. ASSUME NEW r \in Run, Provision(r) PROVE ManifestInv' /\ LoopInv'
  <2>1. SignPbsManifest(r, live[r]).payload.initial_accumulator_root
           = InitialRoot(SignPbsManifest(r, live[r]).payload.env)
    BY <1>0, SignedManifest DEF TypeOK
  <2>2. ver' = Idle
    BY <1>2 DEF Provision
  <2> QED
    BY <1>0, <1>2, <2>1, <2>2 DEF Provision, TypeOK, ManifestInv, LoopInv
<1>3. ASSUME NEW r \in Run, NEW allow \in BOOLEAN, VerifyCall(r, allow)
      PROVE  ManifestInv' /\ LoopInv'
  <2>1. /\ manifest[r] # Nothing /\ manifest' = manifest
        /\ ver'.run = r /\ ver'.chain = <<>> /\ ver'.seq = 1
        /\ ver'.prior = manifest[r].payload.initial_accumulator_root
    BY <1>3 DEF VerifyCall
  <2> QED
    BY <1>0, <2>1, RootOfNone DEF ManifestInv, LoopInv
<1>4. ASSUME NEW hb \in receipts, VerifyBeat(hb) PROVE ManifestInv' /\ LoopInv'
  <2> DEFINE env == manifest[ver.run].payload.env
             p == hb.payload
  <2>1. ver \in Verification /\ ver # Idle /\ ver.phase = "loop"
    BY <1>0, <1>4 DEF VerifyBeat, TypeOK, Idle
  <2>2. /\ manifest' = manifest
        /\ ver'.run = ver.run /\ ver'.chain = Append(ver.chain, hb)
        /\ ver'.seq = ver.seq + 1 /\ ver'.prior = p.new_accumulator_root
    BY <1>4, <2>1 DEF VerifyBeat, Verification
  <2>3. /\ p.heartbeat_seq = ver.seq
        /\ p.new_accumulator_root = Fold(ver.prior, DeltaRoot(p.measurements, ver.seq))
    BY <1>4 DEF VerifyBeat, WhyRejected, FoldHeartbeat
  <2>4. ver.seq = Len(ver.chain) + 1 /\ ver.prior = RootOf(env, ver.chain)
    BY <1>0, <2>1 DEF LoopInv
  <2>5. ver'.prior = RootOf(env, ver'.chain)
    BY <2>1, <2>2, <2>3, <2>4, RootOfAppend DEF Verification
  <2>6. ver'.seq = Len(ver'.chain) + 1
    BY <2>1, <2>2, <2>4 DEF Verification
  <2> QED
    BY <1>0, <2>1, <2>2, <2>5, <2>6 DEF ManifestInv, LoopInv
<1>5. ASSUME NEW hb \in receipts, VerifyBreaks(hb) PROVE ManifestInv' /\ LoopInv'
  <2>1. ver \in Verification /\ ver # Idle
    BY <1>0, <1>5 DEF VerifyBreaks, TypeOK, Idle
  <2>2. manifest' = manifest /\ ver'.run = ver.run /\ ver'.phase = "failed"
    BY <1>5, <2>1 DEF VerifyBreaks, Verification
  <2> QED
    BY <1>0, <2>1, <2>2 DEF ManifestInv, LoopInv
<1>6. CASE VerifyDone
  <2>1. ver \in Verification /\ ver # Idle /\ ver.phase = "loop"
    BY <1>0, <1>6 DEF VerifyDone, TypeOK, Idle
  <2>2. /\ manifest' = manifest /\ ver'.run = ver.run /\ ver'.chain = ver.chain
        /\ ver'.seq = ver.seq /\ ver'.prior = ver.prior
    BY <1>6, <2>1 DEF VerifyDone, Verification
  <2> QED
    BY <1>0, <2>1, <2>2 DEF ManifestInv, LoopInv
<1>7. CASE VerifyReturn
  BY <1>0, <1>7 DEF VerifyReturn, ManifestInv, LoopInv
<1> QED
  <2>1. ASSUME NEW r \in Run, Drift(r) \/ Beat(r) \/ BeatLate(r) \/ Restart(r)
        PROVE  manifest' = manifest /\ ver' = ver
    BY <2>1 DEF Drift, Beat, BeatLate, Restart
  <2>2. ASSUME Tick \/ UNCHANGED vars PROVE manifest' = manifest /\ ver' = ver
    BY <2>2 DEF Tick, vars
  <2> QED
    BY <1>1, <1>2, <1>3, <1>4, <1>5, <1>6, <1>7, <2>1, <2>2 DEF Next, Verify

LEMMA HInvAlways == Spec => []HInv
BY HInvInit, HInvNext, PTL DEF Spec

\* pbs.js:31-33.  The final root of an accepted chain commits to the manifest's
\* environment and to every measurement, each in its place, for chains of any
\* length, made of any receipts that were ever signed.
THEOREM FinalRootCommits == Spec => []FinalRootIsHistory
<1>1. HInv => FinalRootIsHistory
  BY DEF HInv, LoopInv, FinalRootIsHistory, Idle
<1> QED
  BY <1>1, HInvAlways, PTL

--------------------------------------------------------------------------------

(***************************************************************************)
(* Runs are told apart by their environments.  The argument: every root of *)
(* a run, in its agent's memory or in a receipt, starts from the           *)
(* environment of its manifest, and a beat is accepted only onto the root  *)
(* the verifier has, which starts from the environment of the run asked    *)
(* about.                                                                  *)
(***************************************************************************)

ReceiptEnv ==
    \A hb \in receipts :
        /\ manifest[hb.run_id] # Nothing
        /\ hb.payload.prior_accumulator_root.env = manifest[hb.run_id].payload.env

AgentEnv ==
    \A r \in Run :
        manifest[r] # Nothing =>
            /\ agent[r].prior.env = manifest[r].payload.env
            /\ \A i \in DOMAIN agent[r].log : agent[r].log[i].run_id = r

ChainEnv ==
    ver # Idle /\ ver.phase \in {"loop", "ok"} =>
        \A i \in DOMAIN ver.chain :
            manifest[ver.chain[i].run_id].payload.env = manifest[ver.run].payload.env

EInv == ReceiptEnv /\ AgentEnv /\ ChainEnv

LEMMA FoldKeepsEnv ==
    ASSUME NEW root \in Root, NEW delta PROVE Fold(root, delta).env = root.env
BY DEF Fold, Root

LEMMA EInvInit == Init => EInv
BY DEF Init, EInv, ReceiptEnv, AgentEnv, ChainEnv

LEMMA EInvNext == HInv /\ EInv /\ [Next]_vars => EInv'
<1> SUFFICES ASSUME HInv, EInv, [Next]_vars PROVE EInv'
  OBVIOUS
<1>0. TypeOK /\ TypeOK' /\ LoopInv
  BY TypeNext DEF HInv
<1> USE DEF EInv
<1>1. ASSUME NEW r \in Run, Provision(r) PROVE EInv'
  <2> DEFINE m == SignPbsManifest(r, live[r])
  <2>1. m.payload.env = live[r]
    BY <1>0, SignedManifest DEF TypeOK
  <2>2. /\ manifest[r] = Nothing /\ manifest' = [manifest EXCEPT ![r] = m]
        /\ agent' = [agent EXCEPT ![r] =
                       [seq |-> 1, prior |-> InitialRoot(live[r]), log |-> <<>>]]
        /\ receipts' = receipts /\ ver' = ver /\ ver = Idle
    BY <1>1 DEF Provision
  <2> HIDE DEF m
  <2>3. \A hb \in receipts : hb.run_id \in Run /\ hb.run_id # r
    BY <1>0, <2>2 DEF TypeOK, Heartbeat, Receipt, ReceiptEnv
  <2>4. ReceiptEnv'
    BY <1>0, <2>2, <2>3 DEF ReceiptEnv, TypeOK
  <2>5. AgentEnv'
    BY <1>0, <2>1, <2>2 DEF AgentEnv, TypeOK, InitialRoot
  <2> QED
    BY <2>2, <2>4, <2>5 DEF ChainEnv
<1>2. ASSUME NEW r \in Run, Beat(r) PROVE EInv'
  <2>1. PICK batch \in Measured(r) :
          LET hb == SignPbsAttestation(r, agent[r].seq, agent[r].prior, batch)
          IN  /\ receipts' = receipts \cup {hb}
              /\ agent' = [agent EXCEPT ![r] =
                    [seq |-> @.seq + 1,
                     prior |-> hb.payload.new_accumulator_root,
                     log |-> Append(@.log, hb)]]
    BY <1>2 DEF Beat
  <2> DEFINE hb == SignPbsAttestation(r, agent[r].seq, agent[r].prior, batch)
  <2>2. batch \in Batch /\ agent[r] \in Agent
    BY <1>0 DEF Measured, Batch, TypeOK
  <2>3. /\ hb.run_id = r
        /\ hb.payload.prior_accumulator_root = agent[r].prior
        /\ hb.payload.new_accumulator_root.env = agent[r].prior.env
    BY <1>0, <2>2, SignedHeartbeat, FoldKeepsEnv DEF TypeOK, Agent
  <2> HIDE DEF hb
  <2>4. /\ receipts' = receipts \cup {hb}
        /\ agent' = [agent EXCEPT ![r] =
              [seq |-> agent[r].seq + 1,
               prior |-> hb.payload.new_accumulator_root,
               log |-> Append(agent[r].log, hb)]]
        /\ manifest[r] # Nothing /\ manifest' = manifest /\ ver' = ver
    BY <1>2, <2>1 DEF Beat, hb
  <2>5. ReceiptEnv'
    BY <2>3, <2>4 DEF ReceiptEnv, AgentEnv
  <2>6. \A i \in DOMAIN Append(agent[r].log, hb) : Append(agent[r].log, hb)[i].run_id = r
    BY <2>2, <2>3, <2>4 DEF AgentEnv, Agent
  <2>7. AgentEnv'
    BY <1>0, <2>3, <2>4, <2>6 DEF AgentEnv, TypeOK
  <2> QED
    BY <2>4, <2>5, <2>7 DEF ChainEnv
<1>3. ASSUME NEW r \in Run, BeatLate(r) PROVE EInv'
  <2>1. PICK batch \in Measured(r) :
          receipts' = receipts \cup
              {SignPbsAttestation(r, agent[r].seq, agent[r].prior, batch)}
    BY <1>3 DEF BeatLate
  <2> DEFINE hb == SignPbsAttestation(r, agent[r].seq, agent[r].prior, batch)
  <2>2. batch \in Batch /\ agent[r] \in Agent
    BY <1>0 DEF Measured, Batch, TypeOK
  <2>3. hb.run_id = r /\ hb.payload.prior_accumulator_root = agent[r].prior
    BY <1>0, <2>2, SignedHeartbeat DEF TypeOK, Agent
  <2> HIDE DEF hb
  <2>4. /\ receipts' = receipts \cup {hb}
        /\ manifest[r] # Nothing /\ manifest' = manifest /\ agent' = agent /\ ver' = ver
    BY <1>3, <2>1 DEF BeatLate, hb
  <2>5. ReceiptEnv'
    BY <2>3, <2>4 DEF ReceiptEnv, AgentEnv
  <2> QED
    BY <2>4, <2>5 DEF AgentEnv, ChainEnv
<1>4. ASSUME NEW r \in Run, Restart(r) PROVE EInv'
  <2>1. PICK n \in 0 .. Len(agent[r].log) - 1 :
          agent' = [agent EXCEPT ![r] =
              [seq |-> n + 1,
               prior |-> agent[r].log[n + 1].payload.prior_accumulator_root,
               log |-> SubSeq(agent[r].log, 1, n)]]
    BY <1>4 DEF Restart
  <2>2. agent[r].log \in Seq(receipts) /\ DOMAIN agent = Run
    BY <1>0 DEF TypeOK, Agent
  <2>3. \A i \in DOMAIN SubSeq(agent[r].log, 1, n) :
           i \in DOMAIN agent[r].log /\ SubSeq(agent[r].log, 1, n)[i] = agent[r].log[i]
    BY <2>2
  <2>4. agent[r].log[n + 1] \in receipts /\ n + 1 \in DOMAIN agent[r].log
    BY <2>2
  <2>5. /\ manifest' = manifest /\ receipts' = receipts /\ ver' = ver
    BY <1>4 DEF Restart
  <2>6. manifest[r] # Nothing =>
           /\ agent'[r].prior.env = manifest[r].payload.env
           /\ \A i \in DOMAIN agent'[r].log : agent'[r].log[i].run_id = r
    <3>1. /\ agent'[r].prior = agent[r].log[n + 1].payload.prior_accumulator_root
          /\ agent'[r].log = SubSeq(agent[r].log, 1, n)
      BY <2>1, <2>2
    <3> SUFFICES ASSUME manifest[r] # Nothing
                 PROVE  /\ agent'[r].prior.env = manifest[r].payload.env
                        /\ \A i \in DOMAIN agent'[r].log : agent'[r].log[i].run_id = r
      OBVIOUS
    <3>2. \A i \in DOMAIN agent[r].log : agent[r].log[i].run_id = r
      BY DEF AgentEnv
    <3>3. agent'[r].prior.env = manifest[r].payload.env
      BY <3>1, <3>2, <2>4 DEF ReceiptEnv
    <3>4. \A i \in DOMAIN agent'[r].log : agent'[r].log[i].run_id = r
      BY <3>1, <3>2, <2>3
    <3> QED
      BY <3>3, <3>4
  <2> QED
    BY <2>1, <2>2, <2>5, <2>6 DEF ReceiptEnv, AgentEnv, ChainEnv
<1>5. ASSUME NEW r \in Run, NEW allow \in BOOLEAN, VerifyCall(r, allow) PROVE EInv'
  <2>1. ver'.chain = <<>> /\ manifest' = manifest /\ agent' = agent /\ receipts' = receipts
    BY <1>5 DEF VerifyCall
  <2> QED
    BY <2>1 DEF ReceiptEnv, AgentEnv, ChainEnv
<1>6. ASSUME NEW hb \in receipts, VerifyBeat(hb) PROVE EInv'
  <2>1. ver \in Verification /\ ver # Idle /\ ver.phase = "loop"
    BY <1>0, <1>6 DEF VerifyBeat, TypeOK, Idle
  <2>2. /\ manifest' = manifest /\ agent' = agent /\ receipts' = receipts
        /\ ver'.run = ver.run /\ ver'.chain = Append(ver.chain, hb)
    BY <1>6, <2>1 DEF VerifyBeat, Verification
  <2>3. hb.payload.prior_accumulator_root = ver.prior
    BY <1>6 DEF VerifyBeat, WhyRejected
  <2>4. ver.prior.env = manifest[ver.run].payload.env
    BY <1>0, <2>1 DEF LoopInv, RootOf
  <2>5. manifest[hb.run_id].payload.env = manifest[ver.run].payload.env
    BY <2>3, <2>4 DEF ReceiptEnv
  <2>6. ChainEnv'
    BY <2>1, <2>2, <2>5 DEF ChainEnv, Verification
  <2> QED
    BY <2>2, <2>6 DEF ReceiptEnv, AgentEnv
<1>7. ASSUME NEW hb \in receipts, VerifyBreaks(hb) PROVE EInv'
  <2>1. ver \in Verification
    BY <1>0, <1>7 DEF VerifyBreaks, TypeOK, Idle
  <2>2. /\ manifest' = manifest /\ agent' = agent /\ receipts' = receipts
        /\ ver'.phase = "failed"
    BY <1>7, <2>1 DEF VerifyBreaks, Verification
  <2> QED
    BY <2>2 DEF ReceiptEnv, AgentEnv, ChainEnv
<1>8. CASE VerifyDone
  <2>1. ver \in Verification /\ ver # Idle /\ ver.phase = "loop"
    BY <1>0, <1>8 DEF VerifyDone, TypeOK, Idle
  <2>2. /\ manifest' = manifest /\ agent' = agent /\ receipts' = receipts
        /\ ver'.run = ver.run /\ ver'.chain = ver.chain
    BY <1>8, <2>1 DEF VerifyDone, Verification
  <2> QED
    BY <2>1, <2>2 DEF ReceiptEnv, AgentEnv, ChainEnv
<1>9. CASE VerifyReturn
  BY <1>9 DEF VerifyReturn, ReceiptEnv, AgentEnv, ChainEnv
<1>10. ASSUME \/ Tick \/ UNCHANGED vars \/ \E r \in Run : Drift(r) PROVE EInv'
  BY <1>10 DEF Tick, vars, Drift, ReceiptEnv, AgentEnv, ChainEnv
<1> QED
  BY <1>1, <1>2, <1>3, <1>4, <1>5, <1>6, <1>7, <1>8, <1>9, <1>10 DEF Next, Verify

\* The verifier compares no run ids; yet a heartbeat that it accepts belongs to
\* a run that was provisioned with the very same environment.
THEOREM AcceptedBeatsAreAtHome == Spec => []AcceptedBeatsShareEnvironment
<1>1. Spec => []EInv
  BY EInvInit, EInvNext, HInvAlways, PTL DEF Spec
<1>2. EInv => AcceptedBeatsShareEnvironment
  BY DEF EInv, ChainEnv, AcceptedBeatsShareEnvironment, Idle
<1> QED
  BY <1>1, <1>2, PTL

--------------------------------------------------------------------------------

(***************************************************************************)
(* An agent's own log verifies.  The argument: whatever was lost or        *)
(* restarted, the i-th receipt of a log has number i and continues the     *)
(* root of the receipts before it.  The verifier's loop expects just that, *)
(* and every receipt carries the service's signature; so what is left of   *)
(* its checks is the one on age.                                           *)
(***************************************************************************)

\* A receipt is signed as it is, and not from the future.
Genuine(e) ==
    /\ e.sig = [key |-> ServiceKey, over |-> EnvelopeToSign(e)]
    /\ e.issued_at <= now

AllGenuine ==
    /\ \A r \in Run : manifest[r] # Nothing => Genuine(manifest[r])
    /\ \A hb \in receipts : Genuine(hb)

\* The root of the first k beats of a chain.
RootOfFirst(env, chain, k) ==
    [env |-> env, folds |-> [i \in 1 .. k |-> DeltaRoot(chain[i].payload.measurements, i)]]

\* The i-th receipt of a log continues the ones before it.
Continues(env, log, i) ==
    LET p == log[i].payload
        f == FoldHeartbeat(RootOfFirst(env, log, i - 1), p.measurements, i)
    IN  /\ p.heartbeat_seq = i
        /\ p.prior_accumulator_root = RootOfFirst(env, log, i - 1)
        /\ p.delta_root = f.delta_root
        /\ p.new_accumulator_root = f.new_accumulator_root

LogOf(env, a) ==
    /\ a.seq = Len(a.log) + 1
    /\ a.prior = RootOf(env, a.log)
    /\ \A i \in DOMAIN a.log : Continues(env, a.log, i)

AgentsContinue ==
    \A r \in Run : manifest[r] # Nothing => LogOf(manifest[r].payload.env, agent[r])

FailedForAge == ver # Idle => AgentLogVerifies

GInv == AllGenuine /\ AgentsContinue /\ FailedForAge

LEMMA RootOfIsFirst ==
    ASSUME NEW env, NEW chain PROVE RootOf(env, chain) = RootOfFirst(env, chain, Len(chain))
BY DEF RootOf, RootOfFirst

\* The root of the first k beats depends on these alone.
LEMMA RootOfSame ==
    ASSUME NEW env, NEW c, NEW d, NEW k \in Nat, \A i \in 1 .. k : c[i] = d[i]
    PROVE  RootOfFirst(env, c, k) = RootOfFirst(env, d, k)
BY DEF RootOfFirst

LEMMA ContinuesSame ==
    ASSUME NEW env, NEW c, NEW d, NEW i \in Nat \ {0}, \A j \in 1 .. i : c[j] = d[j],
           Continues(env, c, i)
    PROVE  Continues(env, d, i)
<1>1. RootOfFirst(env, c, i - 1) = RootOfFirst(env, d, i - 1)
  <2>1. \A j \in 1 .. i - 1 : c[j] = d[j]
    OBVIOUS
  <2> QED
    BY <2>1, RootOfSame
<1>2. c[i] = d[i]
  OBVIOUS
<1> QED
  BY <1>1, <1>2 DEF Continues

\* Of the checks on a genuine receipt only the one on age can fail.
LEMMA GenuineIsRefusedForAge ==
    ASSUME NEW e, NEW type, NEW P, NEW allow \in BOOLEAN, now \in Nat,
           Receipt(e, type, P), Genuine(e), Check(e, type, allow) # "ok"
    PROVE  ~ allow /\ Check(e, type, allow) = "expired"
<1>1. e.issued_at \in Nat /\ Leeway \in Nat
  BY UpstreamAssumption DEF Receipt
<1>2. ~ (now < e.issued_at - Leeway)
  BY <1>1 DEF Genuine
<1>3. /\ e.receipt_type = type
      /\ PayloadRoot(e.payload, "sha-256") = e.payload_root
      /\ e.sig = [key |-> ServiceKey, over |-> EnvelopeToSign(e)]
  BY DEF Receipt, Genuine
<1> QED
  BY <1>2, <1>3, Zenon DEF Check, VerifyUpstreamReceipt

\* What the service signs is genuine.
LEMMA SignedIsGenuine ==
    ASSUME NEW type, NEW payload, NEW r, now \in Nat
    PROVE  Genuine(SignUpstreamReceipt(type, payload, 0, r, ServiceKey, "sha-256", now))
BY DEF Genuine, SignUpstreamReceipt, EnvelopeToSign

LEMMA SignedBeatIsGenuine ==
    ASSUME NEW r, NEW seq, NEW prior, NEW batch, now \in Nat
    PROVE  Genuine(SignPbsAttestation(r, seq, prior, batch))
BY SignedIsGenuine DEF SignPbsAttestation

LEMMA SignedManifestIsGenuine ==
    ASSUME NEW r, NEW env, now \in Nat PROVE Genuine(SignPbsManifest(r, env))
BY SignedIsGenuine DEF SignPbsManifest

LEMMA GInvInit == Init => GInv
BY DEF Init, GInv, AllGenuine, AgentsContinue, FailedForAge

LEMMA BeatContinues ==
    ASSUME NEW env, NEW r \in Run, NEW batch \in Batch, NEW S, NEW a,
           a.log \in Seq(S), a.seq \in Nat, a.prior \in Root, now \in Nat,
           LogOf(env, a)
    PROVE  LET hb == SignPbsAttestation(r, a.seq, a.prior, batch)
           IN  LogOf(env, [seq |-> a.seq + 1,
                           prior |-> hb.payload.new_accumulator_root,
                           log |-> Append(a.log, hb)])
<1> DEFINE hb == SignPbsAttestation(r, a.seq, a.prior, batch)
           log == Append(a.log, hb)
           n == Len(a.log)
<1>1. /\ hb.payload.heartbeat_seq = a.seq
      /\ hb.payload.prior_accumulator_root = a.prior
      /\ hb.payload.measurements = batch
      /\ hb.payload.delta_root = DeltaRoot(batch, a.seq)
      /\ hb.payload.new_accumulator_root = Fold(a.prior, DeltaRoot(batch, a.seq))
  BY SignedHeartbeat
<1> HIDE DEF hb
<1>2. n \in Nat /\ a.seq = n + 1 /\ a.prior = RootOf(env, a.log)
  BY DEF LogOf
<1>3. Len(log) = n + 1 /\ log[n + 1] = hb /\ \A i \in 1 .. n : log[i] = a.log[i]
  OBVIOUS
<1>4. RootOf(env, log) = hb.payload.new_accumulator_root
  <2>1. a.log \in Seq(S \cup {hb}) /\ hb \in S \cup {hb}
    BY SeqOfMore
  <2> QED
    BY <2>1, <1>1, <1>2, RootOfAppend
<1>5. RootOfFirst(env, log, n) = a.prior
  BY <1>2, <1>3, RootOfSame, RootOfIsFirst
<1> HIDE DEF log
<1>6. Continues(env, log, n + 1)
  <2>1. (n + 1) - 1 = n
    BY <1>2
  <2> QED
    BY <2>1, <1>1, <1>2, <1>3, <1>5 DEF Continues, FoldHeartbeat
<1>7. \A i \in 1 .. n : Continues(env, log, i)
  <2> TAKE i \in 1 .. n
  <2>1. Continues(env, a.log, i)
    BY DEF LogOf
  <2>2. \A j \in 1 .. i : a.log[j] = log[j]
    BY <1>2, <1>3
  <2> QED
    BY <1>2, <2>1, <2>2, ContinuesSame
<1>8. \A i \in DOMAIN log : Continues(env, log, i)
  <2>1. DOMAIN log = 1 .. n + 1
    BY <1>3 DEF log
  <2>2. \A i \in 1 .. n + 1 : i = n + 1 \/ i \in 1 .. n
    BY <1>2
  <2> QED
    BY <2>1, <2>2, <1>6, <1>7
<1> DEFINE b == [seq |-> a.seq + 1, prior |-> hb.payload.new_accumulator_root,
                 log |-> log]
<1>9. LogOf(env, b)
  BY <1>2, <1>3, <1>4, <1>8 DEF LogOf
<1> QED
  BY <1>9 DEF log, hb

LEMMA RestartContinues ==
    ASSUME NEW env, NEW S, NEW a, a.log \in Seq(S), LogOf(env, a),
           NEW n \in 0 .. Len(a.log) - 1
    PROVE  LogOf(env, [seq |-> n + 1,
                       prior |-> a.log[n + 1].payload.prior_accumulator_root,
                       log |-> SubSeq(a.log, 1, n)])
<1> DEFINE log == SubSeq(a.log, 1, n)
<1>1. /\ n \in Nat /\ Len(log) = n /\ DOMAIN log = 1 .. n
      /\ \A i \in 1 .. n : log[i] = a.log[i]
      /\ \A i \in 1 .. n + 1 : i \in DOMAIN a.log
  OBVIOUS
<1>2. \A i \in 1 .. n + 1 : Continues(env, a.log, i)
  BY <1>1 DEF LogOf
<1> HIDE DEF log
<1>3. a.log[n + 1].payload.prior_accumulator_root = RootOf(env, log)
  <2>1. n + 1 \in 1 .. n + 1 /\ (n + 1) - 1 = n
    BY <1>1
  <2>2. a.log[n + 1].payload.prior_accumulator_root = RootOfFirst(env, a.log, n)
    BY <2>1, <1>2 DEF Continues
  <2> QED
    BY <2>2, <1>1, RootOfSame, RootOfIsFirst
<1>4. \A i \in 1 .. n : Continues(env, log, i)
  <2> TAKE i \in 1 .. n
  <2>1. i \in Nat \ {0} /\ \A j \in 1 .. i : a.log[j] = log[j]
    BY <1>1
  <2>2. Continues(env, a.log, i)
    BY <1>1, <1>2
  <2> QED
    BY <2>1, <2>2, ContinuesSame
<1> DEFINE b == [seq |-> n + 1, prior |-> a.log[n + 1].payload.prior_accumulator_root,
                 log |-> log]
<1>5. LogOf(env, b)
  BY <1>1, <1>3, <1>4 DEF LogOf
<1> QED
  BY <1>5 DEF log

\* A heartbeat that continues the verifier's chain can only fail its own check.
LEMMA OnlyItsCheckFails ==
    ASSUME NEW hb, hb.payload.heartbeat_seq = ver.seq,
           hb.payload.prior_accumulator_root = ver.prior,
           LET f == FoldHeartbeat(ver.prior, hb.payload.measurements, ver.seq)
           IN  /\ hb.payload.delta_root = f.delta_root
               /\ hb.payload.new_accumulator_root = f.new_accumulator_root
    PROVE  WhyRejected(hb) = Check(hb, "pbs.attestation", ver.allow)
BY Zenon DEF WhyRejected

LEMMA GInvNext == HInv /\ GInv /\ [Next]_vars => GInv'
<1> SUFFICES ASSUME HInv, GInv, [Next]_vars PROVE GInv'
  OBVIOUS
<1>0. TypeOK /\ TypeOK' /\ LoopInv
  BY TypeNext DEF HInv
<1> USE DEF GInv
<1>a. ASSUME now' = now, manifest' = manifest, receipts' = receipts PROVE AllGenuine'
  BY <1>a DEF AllGenuine, Genuine
<1>b. ASSUME manifest' = manifest, agent' = agent PROVE AgentsContinue'
  BY <1>b DEF AgentsContinue
<1>c. ASSUME ver' = Idle PROVE FailedForAge'
  BY <1>c DEF FailedForAge
<1>d. ASSUME agent' = agent, ver' # Idle, ver'.phase # "failed" PROVE FailedForAge'
  BY <1>d DEF FailedForAge, AgentLogVerifies
<1>1. CASE Tick
  <2>1. /\ now' = now + 1 /\ now \in Nat /\ ver' = Idle
        /\ manifest' = manifest /\ receipts' = receipts /\ agent' = agent
    BY <1>0, <1>1 DEF Tick, TypeOK
  <2>2. \A r \in Run : manifest[r] # Nothing => manifest[r].issued_at \in Nat
    BY <1>0 DEF TypeOK, Manifest, Receipt
  <2>3. \A hb \in receipts : hb.issued_at \in Nat
    BY <1>0 DEF TypeOK, Heartbeat, Receipt
  <2>4. \A e : e.issued_at \in Nat /\ e.issued_at <= now => e.issued_at <= now'
    BY <2>1
  <2>5. AllGenuine'
    BY <2>1, <2>2, <2>3, <2>4 DEF AllGenuine, Genuine
  <2> QED
    BY <2>1, <2>5, <1>b, <1>c
<1>2. ASSUME NEW r \in Run, Provision(r) PROVE GInv'
  <2> DEFINE m == SignPbsManifest(r, live[r])
             a == [seq |-> 1, prior |-> InitialRoot(live[r]), log |-> <<>>]
  <2>1. Genuine(m) /\ m.payload.env = live[r]
    BY <1>0, SignedManifest, SignedManifestIsGenuine DEF TypeOK
  <2>2. LogOf(live[r], a)
    BY RootOfNone DEF LogOf
  <2>3. /\ manifest' = [manifest EXCEPT ![r] = m] /\ agent' = [agent EXCEPT ![r] = a]
        /\ now' = now /\ receipts' = receipts /\ ver' = Idle
    BY <1>2 DEF Provision
  <2> HIDE DEF m, a
  <2>4. AllGenuine'
    BY <1>0, <2>1, <2>3 DEF AllGenuine, Genuine, TypeOK
  <2>5. AgentsContinue'
    BY <1>0, <2>1, <2>2, <2>3 DEF AgentsContinue, TypeOK
  <2> QED
    BY <2>3, <2>4, <2>5, <1>c
<1>3. ASSUME NEW r \in Run, Drift(r) PROVE GInv'
  BY <1>3, <1>a, <1>b, <1>c DEF Drift
<1>4. ASSUME NEW r \in Run, Beat(r) PROVE GInv'
  <2>1. PICK batch \in Measured(r) :
          LET hb == SignPbsAttestation(r, agent[r].seq, agent[r].prior, batch)
          IN  /\ receipts' = receipts \cup {hb}
              /\ agent' = [agent EXCEPT ![r] =
                    [seq |-> @.seq + 1,
                     prior |-> hb.payload.new_accumulator_root,
                     log |-> Append(@.log, hb)]]
    BY <1>4 DEF Beat
  <2> DEFINE hb == SignPbsAttestation(r, agent[r].seq, agent[r].prior, batch)
             a == [seq |-> agent[r].seq + 1,
                   prior |-> hb.payload.new_accumulator_root,
                   log |-> Append(agent[r].log, hb)]
             env == manifest[r].payload.env
  <2>2. /\ batch \in Batch /\ now \in Nat /\ agent[r].log \in Seq(receipts)
        /\ agent[r].seq \in Nat /\ agent[r].prior \in Root
    BY <1>0 DEF Measured, Batch, TypeOK, Agent
  <2>3. manifest[r] # Nothing
    BY <1>4 DEF Beat
  <2>4. LogOf(env, agent[r])
    BY <2>3 DEF AgentsContinue
  <2>5. LogOf(env, a)
    BY <2>2, <2>4, BeatContinues
  <2>6. Genuine(hb)
    BY <2>2, SignedBeatIsGenuine
  <2>7. /\ receipts' = receipts \cup {hb} /\ agent' = [agent EXCEPT ![r] = a]
        /\ now' = now /\ manifest' = manifest /\ ver' = Idle
    BY <1>4, <2>1 DEF Beat
  <2> HIDE DEF hb, a
  <2>8. AllGenuine'
    BY <2>6, <2>7 DEF AllGenuine, Genuine
  <2>9. AgentsContinue'
    BY <1>0, <2>5, <2>7 DEF AgentsContinue, TypeOK
  <2> QED
    BY <2>7, <2>8, <2>9, <1>c
<1>5. ASSUME NEW r \in Run, BeatLate(r) PROVE GInv'
  <2>1. PICK batch \in Measured(r) :
          receipts' = receipts \cup
              {SignPbsAttestation(r, agent[r].seq, agent[r].prior, batch)}
    BY <1>5 DEF BeatLate
  <2> DEFINE hb == SignPbsAttestation(r, agent[r].seq, agent[r].prior, batch)
  <2>2. Genuine(hb)
    BY <1>0, SignedBeatIsGenuine DEF TypeOK
  <2>3. /\ receipts' = receipts \cup {hb} /\ agent' = agent
        /\ now' = now /\ manifest' = manifest /\ ver' = Idle
    BY <1>5, <2>1 DEF BeatLate
  <2> HIDE DEF hb
  <2>4. AllGenuine'
    BY <2>2, <2>3 DEF AllGenuine, Genuine
  <2> QED
    BY <2>3, <2>4, <1>b, <1>c
<1>6. ASSUME NEW r \in Run, Restart(r) PROVE GInv'
  <2>1. PICK n \in 0 .. Len(agent[r].log) - 1 :
          agent' = [agent EXCEPT ![r] =
              [seq |-> n + 1,
               prior |-> @.log[n + 1].payload.prior_accumulator_root,
               log |-> SubSeq(@.log, 1, n)]]
    BY <1>6 DEF Restart
  <2> DEFINE a == [seq |-> n + 1,
                   prior |-> agent[r].log[n + 1].payload.prior_accumulator_root,
                   log |-> SubSeq(agent[r].log, 1, n)]
  <2>2. /\ agent' = [agent EXCEPT ![r] = a]
        /\ now' = now /\ manifest' = manifest /\ receipts' = receipts /\ ver' = Idle
    BY <1>6, <2>1 DEF Restart
  <2>3. agent[r].log \in Seq(receipts)
    BY <1>0 DEF TypeOK, Agent
  <2>4. manifest[r] # Nothing => LogOf(manifest[r].payload.env, a)
    BY <2>3, RestartContinues DEF AgentsContinue
  <2> HIDE DEF a
  <2>5. AgentsContinue'
    BY <1>0, <2>2, <2>4 DEF AgentsContinue, TypeOK
  <2> QED
    BY <2>2, <2>5, <1>a, <1>c
<1>7. ASSUME NEW r \in Run, NEW allow \in BOOLEAN, VerifyCall(r, allow) PROVE GInv'
  <2> DEFINE why == Check(manifest[r], "pbs.manifest", allow)
             P == [env : Env, initial_accumulator_root : Root]
  <2>1. /\ manifest[r] # Nothing /\ now' = now /\ manifest' = manifest
        /\ agent' = agent /\ receipts' = receipts
        /\ ver'.phase = IF why = "ok" THEN "loop" ELSE "failed"
        /\ ver'.allow = allow /\ ver'.reason[2] = why
    BY <1>7 DEF VerifyCall
  <2>2. Receipt(manifest[r], "pbs.manifest", P) /\ Genuine(manifest[r]) /\ now \in Nat
    BY <1>0, <2>1 DEF TypeOK, Manifest, AllGenuine
  <2>3. why # "ok" => ~ allow /\ why = "expired"
    BY <2>2, GenuineIsRefusedForAge
  <2> HIDE DEF why
  <2>4. FailedForAge'
    BY <2>1, <2>3 DEF FailedForAge, AgentLogVerifies
  <2> QED
    BY <2>1, <2>4, <1>a, <1>b
<1>8. ASSUME NEW hb \in receipts, VerifyBeat(hb) PROVE GInv'
  <2>1. ver \in Verification
    BY <1>0, <1>8 DEF VerifyBeat, TypeOK, Idle
  <2>2. /\ now' = now /\ manifest' = manifest /\ agent' = agent
        /\ receipts' = receipts /\ ver'.phase = "loop"
    BY <1>8, <2>1 DEF VerifyBeat, Verification
  <2> QED
    BY <2>2, <1>a, <1>b, <1>c, <1>d
<1>9. ASSUME NEW hb \in receipts, VerifyBreaks(hb) PROVE GInv'
  <2>1. ver \in Verification /\ ver # Idle /\ ver.phase = "loop"
    BY <1>0, <1>9 DEF VerifyBreaks, TypeOK, Idle
  <2>2. /\ now' = now /\ manifest' = manifest /\ agent' = agent /\ receipts' = receipts
        /\ ver'.run = ver.run /\ ver'.allow = ver.allow
        /\ ver'.chain = Append(ver.chain, hb) /\ ver'.reason[2] = WhyRejected(hb)
        /\ WhyRejected(hb) # "ok"
    BY <1>9, <2>1 DEF VerifyBreaks, Verification
  <2>3. /\ ver.run \in Run /\ ver.allow \in BOOLEAN /\ ver.chain \in Seq(receipts)
    BY <2>1 DEF Verification
  <2>4. ASSUME AgentsOwnLog' PROVE ~ ver.allow /\ WhyRejected(hb) = "expired"
    <3> DEFINE env == manifest[ver.run].payload.env
               log == agent[ver.run].log
               k == Len(ver.chain) + 1
    <3>1. manifest[ver.run] # Nothing /\ ver.seq = k /\ ver.prior = RootOf(env, ver.chain)
      BY <1>0, <2>1 DEF LoopInv
    <3>2. log \in Seq(receipts)
      BY <1>0, <2>3 DEF TypeOK, Agent
    <3>3. /\ k <= Len(log) /\ k \in DOMAIN log
          /\ \A i \in 1 .. k - 1 : log[i] = ver.chain[i]
          /\ log[k] = hb
      <4> DEFINE longer == Append(ver.chain, hb)
      <4>1. /\ Len(longer) <= Len(log)
            /\ \A i \in DOMAIN longer : longer[i] = log[i]
        BY <2>2, <2>4 DEF AgentsOwnLog
      <4>2. /\ Len(longer) = k /\ DOMAIN longer = 1 .. k /\ longer[k] = hb
            /\ k \in Nat \ {0} /\ \A i \in 1 .. k - 1 : longer[i] = ver.chain[i]
        BY <2>3
      <4>3. DOMAIN log = 1 .. Len(log) /\ Len(log) \in Nat
        BY <3>2
      <4> HIDE DEF longer, log, k
      <4> QED
        BY <4>1, <4>2, <4>3
    <3>4. Continues(env, log, k)
      BY <2>3, <3>1, <3>3 DEF AgentsContinue, LogOf
    <3>5. RootOfFirst(env, log, k - 1) = ver.prior
      BY <2>3, <3>1, <3>3, RootOfSame, RootOfIsFirst
    <3> HIDE DEF log, k
    <3>6. WhyRejected(hb) = Check(hb, "pbs.attestation", ver.allow)
      BY <3>1, <3>3, <3>4, <3>5, OnlyItsCheckFails DEF Continues
    <3>7. Heartbeat(hb) /\ Genuine(hb) /\ now \in Nat
      BY <1>0 DEF TypeOK, AllGenuine
    <3> QED
      BY <2>2, <2>3, <3>6, <3>7, GenuineIsRefusedForAge DEF Heartbeat
  <2>5. FailedForAge'
    BY <2>2, <2>4 DEF FailedForAge, AgentLogVerifies
  <2> QED
    BY <2>2, <2>5, <1>a, <1>b
<1>10. CASE VerifyDone
  <2>1. ver \in Verification
    BY <1>0, <1>10 DEF VerifyDone, TypeOK, Idle
  <2>2. /\ now' = now /\ manifest' = manifest /\ agent' = agent
        /\ receipts' = receipts /\ ver'.phase = "ok"
    BY <1>10, <2>1 DEF VerifyDone, Verification
  <2> QED
    BY <2>2, <1>a, <1>b, <1>c, <1>d
<1>11. CASE VerifyReturn
  BY <1>11, <1>a, <1>b, <1>c DEF VerifyReturn
<1>12. CASE UNCHANGED vars
  BY <1>12, <1>a, <1>b DEF vars, FailedForAge, AgentLogVerifies, AgentsOwnLog
<1> QED
  BY <1>1, <1>2, <1>3, <1>4, <1>5, <1>6, <1>7, <1>8, <1>9, <1>10, <1>11, <1>12
     DEF Next, Verify

\* Answers lost and agents restarted from older checkpoints notwithstanding,
\* the receipts an agent kept are a chain that verifyPbsAttestationChain
\* accepts: it can refuse them for their age alone, and not when it is told to
\* allow expired receipts.
THEOREM AgentsLogVerifies == Spec => []AgentLogVerifies
<1>1. Spec => []GInv
  BY GInvInit, GInvNext, HInvAlways, PTL DEF Spec
<1>2. GInv => AgentLogVerifies
  BY DEF GInv, FailedForAge, AgentLogVerifies, Idle
<1> QED
  BY <1>1, <1>2, PTL

================================================================================
