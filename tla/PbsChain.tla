------------------------------- MODULE PbsChain -------------------------------
(***************************************************************************)
(* pbs.js: the heartbeat chain of a provenance-bonded sandbox.             *)
(*                                                                         *)
(* The service is stateless: it signs whatever (seq, prior root,           *)
(* measurements) a sandbox's agent sends, and later checks a manifest with *)
(* an array of heartbeat receipts.  All the state of a chain is kept by    *)
(* the agents, which are not part of this repository: they advance when    *)
(* the answer arrives, give up on an answer and measure again, and restart *)
(* from an older checkpoint.  A verifier may be handed any heartbeats that *)
(* were ever signed, of any run, in any order.  The handlers run to        *)
(* completion, so nothing happens while verifyPbsAttestationChain loops.   *)
(*                                                                         *)
(* An accumulator root is [env, folds]: the environment root the chain     *)
(* starts from and the deltas hashed onto it, one per heartbeat.  A beat's *)
(* measurements are abstracted to the digest they found, or Nothing when   *)
(* the beat carries none: their delta is then all zeros and names no seq.  *)
(***************************************************************************)
EXTENDS Upstream, Sequences, FiniteSets

CONSTANTS
    Run,            \* sandbox runs
    Env,            \* environments (images, modules, packages, ACL, firmware)
    Nothing,        \* no measurement; no manifest
    ServiceKey,     \* the service's signing key
    MaxClock, MaxSeq,           \* bounds on time and on a run's beats,
    MaxFault, MaxReceipts       \* on restarts and lost answers, on receipts

ASSUME PbsAssumption ==
    /\ ReceiptType = {"pbs.manifest", "pbs.attestation"}
    /\ Nothing \notin Env
    /\ {MaxClock, MaxSeq, MaxFault, MaxReceipts} \subseteq Nat

VARIABLES
    now,        \* the service's clock
    live,       \* what each sandbox really contains
    manifest,   \* the manifest receipt of each run, or Nothing
    agent,      \* each agent's memory: next seq, prior root, receipts kept
    receipts,   \* every heartbeat receipt that was ever signed
    faults,     \* restarts and lost answers so far
    ver         \* verifyPbsAttestationChain: its arguments and locals

vars == <<now, live, manifest, agent, receipts, faults, ver>>

Batch == Env \cup {Nothing}
Delta == Nat \X Batch
Root == [env : Env, folds : Seq(Delta)]

Idle == [phase |-> "idle"]

--------------------------------------------------------------------------------

\* (Slip: seq and digest are hashed in the wrong order.)
DeltaRootSwapped(batch, seq) ==
    IF batch = Nothing THEN <<0, Nothing>> ELSE <<batch, seq>>

DeltaRoot(batch, seq) ==
    IF batch = Nothing THEN <<0, Nothing>> ELSE <<seq, batch>>

\* (Slip: the prior root is not hashed in.)
FoldForgets(root, delta) == [env |-> root.env, folds |-> <<delta>>]

Fold(root, delta) == [env |-> root.env, folds |-> Append(root.folds, delta)]

\* foldHeartbeat: delta_root and new_accumulator_root.
FoldHeartbeat(prior, batch, seq) ==
    [delta_root |-> DeltaRoot(batch, seq),
     new_accumulator_root |-> Fold(prior, DeltaRoot(batch, seq))]

InitialRoot(env) == [env |-> env, folds |-> <<>>]

SignPbsManifest(r, env) ==
    SignUpstreamReceipt("pbs.manifest",
        [env |-> env, initial_accumulator_root |-> InitialRoot(env)],
        0, r, ServiceKey, "sha-256", now)

SignPbsAttestation(r, seq, prior, batch) ==
    LET f == FoldHeartbeat(prior, batch, seq)
    IN  SignUpstreamReceipt("pbs.attestation",
            [heartbeat_seq |-> seq, prior_accumulator_root |-> prior,
             delta_root |-> f.delta_root,
             new_accumulator_root |-> f.new_accumulator_root,
             measurements |-> batch],
            0, r, ServiceKey, "sha-256", now)

Init ==
    /\ now = 0
    /\ live \in [Run -> Env]
    /\ manifest = [r \in Run |-> Nothing]
    /\ agent = [r \in Run |-> [seq |-> 1, prior |-> InitialRoot(live[r]), log |-> <<>>]]
    /\ receipts = {}
    /\ faults = 0
    /\ ver = Idle

Tick ==
    /\ ver = Idle
    /\ now < MaxClock
    /\ now' = now + 1
    /\ UNCHANGED <<live, manifest, agent, receipts, faults, ver>>

\* The sandbox is provisioned: its contents are signed as they are.
Provision(r) ==
    /\ ver = Idle
    /\ manifest[r] = Nothing
    /\ manifest' = [manifest EXCEPT ![r] = SignPbsManifest(r, live[r])]
    /\ agent' = [agent EXCEPT ![r] =
                    [seq |-> 1, prior |-> InitialRoot(live[r]), log |-> <<>>]]
    /\ UNCHANGED <<now, live, receipts, faults, ver>>

\* A module is swapped, a package replaced, an ACL loosened.
Drift(r) ==
    /\ ver = Idle
    /\ manifest[r] # Nothing
    /\ \E e \in Env \ {live[r]} : live' = [live EXCEPT ![r] = e]
    /\ UNCHANGED <<now, manifest, agent, receipts, faults, ver>>

Measured(r) == {live[r], Nothing}

\* The agent measures and sends a beat; the receipt arrives and it advances.
Beat(r) ==
    /\ ver = Idle
    /\ manifest[r] # Nothing
    /\ agent[r].seq <= MaxSeq
    /\ Cardinality(receipts) < MaxReceipts
    /\ \E batch \in Measured(r) :
          LET hb == SignPbsAttestation(r, agent[r].seq, agent[r].prior, batch)
          IN  /\ receipts' = receipts \cup {hb}
              /\ agent' = [agent EXCEPT ![r] =
                    [seq |-> @.seq + 1,
                     prior |-> hb.payload.new_accumulator_root,
                     log |-> Append(@.log, hb)]]
    /\ UNCHANGED <<now, live, manifest, faults, ver>>

\* The receipt is signed, but arrives after the agent stopped waiting: the
\* agent will measure again for the same seq.
BeatLate(r) ==
    /\ ver = Idle
    /\ manifest[r] # Nothing
    /\ agent[r].seq <= MaxSeq
    /\ faults < MaxFault
    /\ Cardinality(receipts) < MaxReceipts
    /\ \E batch \in Measured(r) :
          receipts' = receipts \cup
              {SignPbsAttestation(r, agent[r].seq, agent[r].prior, batch)}
    /\ faults' = faults + 1
    /\ UNCHANGED <<now, live, manifest, agent, ver>>

\* The agent comes back with the state it had after some earlier beat.
Restart(r) ==
    /\ ver = Idle
    /\ faults < MaxFault
    /\ \E n \in 0 .. Len(agent[r].log) - 1 :
          agent' = [agent EXCEPT ![r] =
              [seq |-> n + 1,
               prior |-> @.log[n + 1].payload.prior_accumulator_root,
               log |-> SubSeq(@.log, 1, n)]]
    /\ faults' = faults + 1
    /\ UNCHANGED <<now, live, manifest, receipts, ver>>

--------------------------------------------------------------------------------
(* verifyPbsAttestationChain, one action per iteration of its loop *)

Check(env, type, allow) ==
    VerifyUpstreamReceipt(env, type, ServiceKey, "sha-256", now, allow)

\* (Slip: heartbeats are counted from 0.)
VerifyCallFromZero(r, allow) ==
    /\ ver = Idle
    /\ manifest[r] # Nothing
    /\ LET why == Check(manifest[r], "pbs.manifest", allow)
       IN  ver' = [phase |-> IF why = "ok" THEN "loop" ELSE "failed",
                   run |-> r, allow |-> allow, chain |-> <<>>,
                   prior |-> manifest[r].payload.initial_accumulator_root,
                   seq |-> 0, reason |-> <<"manifest", why>>]
    /\ UNCHANGED <<now, live, manifest, agent, receipts, faults>>

\* A manifest and opts.allow_expired are handed over; the manifest is checked.
VerifyCall(r, allow) ==
    /\ ver = Idle
    /\ manifest[r] # Nothing
    /\ LET why == Check(manifest[r], "pbs.manifest", allow)
       IN  ver' = [phase |-> IF why = "ok" THEN "loop" ELSE "failed",
                   run |-> r, allow |-> allow, chain |-> <<>>,
                   prior |-> manifest[r].payload.initial_accumulator_root,
                   seq |-> 1, reason |-> <<"manifest", why>>]
    /\ UNCHANGED <<now, live, manifest, agent, receipts, faults>>

\* (Slip: a beat is only checked against the prior root it carries itself.)
WhyRejectedSelfContained(hb) ==
    LET p == hb.payload
        f == FoldHeartbeat(p.prior_accumulator_root, p.measurements, p.heartbeat_seq)
        why == Check(hb, "pbs.attestation", ver.allow)
    IN  IF why # "ok" THEN why
        ELSE IF p.heartbeat_seq # ver.seq THEN "seq_gap"
        ELSE IF p.new_accumulator_root # f.new_accumulator_root
        THEN "accumulator_mismatch"
        ELSE "ok"

\* The first check of an iteration that fails names the reason.
WhyRejected(hb) ==
    LET p == hb.payload
        f == FoldHeartbeat(ver.prior, p.measurements, p.heartbeat_seq)
        why == Check(hb, "pbs.attestation", ver.allow)
    IN  IF why # "ok" THEN why
        ELSE IF p.heartbeat_seq # ver.seq THEN "seq_gap"
        ELSE IF p.prior_accumulator_root # ver.prior THEN "chain_break"
        ELSE IF p.delta_root # f.delta_root THEN "delta_mismatch"
        ELSE IF p.new_accumulator_root # f.new_accumulator_root
        THEN "accumulator_mismatch"
        ELSE "ok"

\* One more heartbeat of the array passes every check ...
VerifyBeat(hb) ==
    /\ ver.phase = "loop"
    /\ WhyRejected(hb) = "ok"
    /\ ver' = [ver EXCEPT !.chain = Append(@, hb), !.seq = @ + 1,
                          !.prior = hb.payload.new_accumulator_root]
    /\ UNCHANGED <<now, live, manifest, agent, receipts, faults>>

\* ... or fails one, which ends the loop.
VerifyBreaks(hb) ==
    /\ ver.phase = "loop"
    /\ WhyRejected(hb) # "ok"
    /\ ver' = [ver EXCEPT !.chain = Append(@, hb), !.phase = "failed",
                          !.reason = <<"heartbeat", WhyRejected(hb)>>]
    /\ UNCHANGED <<now, live, manifest, agent, receipts, faults>>

\* The array is exhausted: ok, with final_accumulator_root.
VerifyDone ==
    /\ ver.phase = "loop"
    /\ ver' = [ver EXCEPT !.phase = "ok"]
    /\ UNCHANGED <<now, live, manifest, agent, receipts, faults>>

\* The verdict is returned.
VerifyReturn ==
    /\ ver.phase \in {"ok", "failed"}
    /\ ver' = Idle
    /\ UNCHANGED <<now, live, manifest, agent, receipts, faults>>

Verify ==
    \/ \E r \in Run, allow \in BOOLEAN : VerifyCall(r, allow)
    \/ \E hb \in receipts : VerifyBeat(hb) \/ VerifyBreaks(hb)
    \/ VerifyDone
    \/ VerifyReturn

Next ==
    \/ Tick
    \/ \E r \in Run : Provision(r) \/ Drift(r) \/ Beat(r) \/ BeatLate(r) \/ Restart(r)
    \/ Verify

Spec == Init /\ [][Next]_vars

--------------------------------------------------------------------------------

Receipt(e, type, P) ==
    /\ DOMAIN e = {"receipt_type", "receipt_id", "run_id", "issued_at", "expires_at",
                   "payload_root", "payload", "sig"}
    /\ e.receipt_type = type
    /\ e.run_id \in Run
    /\ {e.issued_at, e.expires_at} \subseteq Nat
    /\ e.payload \in P
    /\ e.payload_root = PayloadRoot(e.payload, "sha-256")

Manifest(e) ==
    Receipt(e, "pbs.manifest", [env : Env, initial_accumulator_root : Root])

Heartbeat(e) ==
    Receipt(e, "pbs.attestation",
        [heartbeat_seq : Nat, prior_accumulator_root : Root, delta_root : Delta,
         new_accumulator_root : Root, measurements : Batch])

Agent == [seq : Nat, prior : Root, log : Seq(receipts)]

BeatVerdict ==
    Verdict \cup {"seq_gap", "chain_break", "delta_mismatch", "accumulator_mismatch"}

Verification ==
    [phase : {"loop", "ok", "failed"}, run : Run, allow : BOOLEAN,
     chain : Seq(receipts), prior : Root, seq : Nat,
     reason : {"manifest", "heartbeat"} \X BeatVerdict]

\* Receipts have the form of upstream.js:20-34, agents and the verifier hold
\* receipts that were signed and well-formed roots.
TypeOK ==
    /\ now \in Nat
    /\ live \in [Run -> Env]
    /\ DOMAIN manifest = Run
    /\ \A r \in Run : manifest[r] # Nothing => Manifest(manifest[r])
    /\ agent \in [Run -> Agent]
    /\ \A hb \in receipts : Heartbeat(hb)
    /\ faults \in Nat
    /\ ver \in Verification \cup {Idle}

\* The root a chain of heartbeats must have: the i-th fold is the i-th beat's.
RootOf(env, chain) ==
    [env |-> env,
     folds |-> [i \in 1 .. Len(chain) |-> DeltaRoot(chain[i].payload.measurements, i)]]

\* pbs.js:31-33.  The final root of an accepted chain commits to the manifest's
\* environment and to everything the heartbeats measured, each in its place.
FinalRootIsHistory ==
    ver.phase = "ok" =>
        ver.prior = RootOf(manifest[ver.run].payload.env, ver.chain)

\* The verifier never compares run ids.  Still, whatever receipts of whatever
\* runs it is handed, it accepts a heartbeat of another run only if that run
\* was provisioned with the very same environment.
AcceptedBeatsShareEnvironment ==
    ver.phase = "ok" =>
        \A i \in DOMAIN ver.chain :
            manifest[ver.chain[i].run_id].payload.env = manifest[ver.run].payload.env

AgentsOwnLog ==
    LET log == agent[ver.run].log
    IN  Len(ver.chain) <= Len(log) /\ \A i \in DOMAIN ver.chain : ver.chain[i] = log[i]

\* The receipts an agent kept, late answers and restarts notwithstanding, are
\* a chain the service itself accepts: only age can make it refuse them.
AgentLogVerifies ==
    ver.phase = "failed" /\ AgentsOwnLog =>
        ~ver.allow /\ ver.reason[2] = "expired"

--------------------------------------------------------------------------------
\* pbs.js:22-24: "Silent kernel-module swap, in-memory package replacement, or
\* ACL loosen mid-run all break the accumulator chain."
DriftBreaksChain ==
    ver.phase = "ok" =>
        \A i \in DOMAIN ver.chain :
            ver.chain[i].payload.measurements \in {manifest[ver.run].payload.env, Nothing}
================================================================================
