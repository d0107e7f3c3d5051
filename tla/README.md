# A formal model of hive-typed-signer

This directory is a TLA+ development of the signing service in `src/`: modules
that model its components, TLC configurations that check them on small
instances, and proofs, checked by TLAPS, of the properties that matter most for
every instance. File references below are relative to `src/` (so `src/key.js` is
`src/src/key.js` of the working copy).

- [1. The system](#1-the-system)
- [2. Modules and how they correspond to the code](#2-modules-and-how-they-correspond-to-the-code)
- [3. What the runs check](#3-what-the-runs-check)
- [4. What is proved](#4-what-is-proved)
- [5. Abstractions and assumptions](#5-abstractions-and-assumptions)
- [6. Disagreements found](#6-disagreements-found)
- [7. Plan](#7-plan)
- [8. Not modelled, and why](#8-not-modelled-and-why)

## 1. The system

An Express server (`server.js`) on one Node process signs and verifies receipts
with ML-DSA-65 keys. Signing and verifying are synchronous: a handler, once
started, runs to its end, so one handler is one atomic step. What interleaves is
everything around them: boots of several processes over the same files, calls of
several clients, the time that passes between an answer and its use.

The service keeps very little state: two files and the keys made from them, and
the rate limiter's table (`RateLimit`). What must stay consistent over a run lives in the
receipts its clients keep and hand back; so the correctness of a component is
mostly a statement about *sequences of calls by several parties* and not about
one call.

| Component | State | Operations | Interacts with | What is hard | What makes it correct |
|---|---|---|---|---|---|
| Base key, `src/key.js` | `.seed` file, `SIGNER` | load or create the seed, sign, verify | every signing route | kill between truncate and write, concurrent first boots, swallowed errors, host crash | one published key over all restarts; a configured seed rules |
| QPUF signer, `src/qpuf/` | device secret file, enrollment file | enroll, load, derive, compare | `server.js` boot, hwsign | two files written one after the other, each may fail or tear; secret of another host | same device, same key; another device, no key; the authentic device is never refused |
| Envelope and gate, `src/upstream.js` | none | sign, verify, gate | all seven primitives below | freshness, several receipts judged at once | only what was signed, for its type and in its time, verifies |
| Pre-Boot Seal, `src/pbs.js` | none; the chain is kept by agents | manifest, heartbeat, verify chain | envelope, verify route's coupling | lost answers, resumed agents, spliced and reordered heartbeats | final root commits to the whole history; an honest log verifies |
| Diurnal Bond, `src/diurnal.js` | none | regime, attestation, k-of-n | envelope, gate | duplicates, expired or foreign countersignatures | k different attestors, lately, for this regime |
| Howler, `src/howler.js` | none | drift, capability, contamination alarms; SAE replay | envelope, gate | alarms about a run while it goes on | silence or an alarm stops the run |
| Refusal Ledger, `src/refusal.js` | none; history kept by operators | mutation, read binding, verify in history | envelope | two operators extend the same history | missing, reordered, contradictory mutations are detected |
| Perimeter Bond, `src/perimeter.js` | none | manifest, attempt, attempt against manifest | envelope | which manifest an attempt is judged by | an attempt is judged by its own run's manifest |
| Egress Bond, `src/egress.js` | none; commitments kept by the run | manifest, measurement, against manifest | envelope | cumulative totals over windows, caps and totals sent anew with each, idle classes | the window that passes a declared cap says so |
| Forensic Bond, `src/forensic.js` | none | credential, analysis, pairing | envelope | signers counted with repetition | k of n signers, parameters as credentialed |
| Availability bond, bill, reward: `src/bond.js`, `bill.js`, `reward.js` | none | measurement/line receipts, settlement, verify | typed hashing | Merkle odd leaf, 32-bit totals, empty window | a settlement is the one its window determines |
| Chained receipts, `src/chain.js` | none | sign a DAG of steps, verify, find the first break | typed | order of ready steps, duplicate ids, missing parents | one order for every verifier; any change downstream shows |
| Consensus, `src/consensus.js` | none | tally, sign, verify | typed | ties, quorum of zero | the same votes give the same winner |
| Tool reuse, scopes, agentic: `src/toolreuse.js`, `toolscope.js`, `agentic.js` | none between requests | anchor, resolve, revoke; scope gate | typed | revocation and mismatch while calls go on | a revoked or different result is never reused; what an accepted run lists is in scope |
| Typed fragments, `src/typed.js` | none | classify, gate, sign, verify | all | optional attestation per fragment | what a verifier recomputes is what was signed |
| Context ledger, `src/cern.js` | none | per-turn delta, chain of turns | typed | reorder and loss of duplicates | every loss is declared |
| MIR and GITM, `src/mir.js`, `gitm.js` | none | readings, triggers | typed | boundary of a trigger | a reading over its trigger is reported |
| CARNAC, `src/carnac.js`, `server.js:103-118` | `rlBuckets` | digest verify; rate limit | HTTP | window boundary, sweep of the table | at most the limit per window |
| Hardware signers, `src/hwsign.js` | the chosen backend | resolve, sign | boot | unknown backend, stubs | fails closed |
| Manifest, cache, temporal, GCA: `src/manifest.js`, `cachesign.js`, `temporal.js`, `gca.js` | none | sign, verify | typed | none beyond the envelope | recomputation |

Two more parts are around these: `src/perimeter.js` and `src/forensic.js` are listed
above for completeness and not modelled (section 8), as are `src/hwsign.js` and the
tests.

## 2. Modules and how they correspond to the code

```
SigningIdentity      what is promised about a published key (abstract)
  ^ implemented by SeedBoot (key.js) and QpufBoot (qpuf/)
Upstream             upstream.js: sign, verify, gate (operators)
  |- PbsChain         pbs.js with its agents and its verifier
  |- Diurnal, Howler  operators of diurnal.js and howler.js
       |- Gateway     the gate and threshold routes with what happens in between
  |- RefusalLedger    refusal.js with its operators and auditors
Sealed               typed.js: canonical form, Merkle root, binding; JSON on the wire (operators)
  |- Receipts         bill.js, bond.js, manifest.js, cachesign.js, gca.js, reward.js: one receipt and its way
  |- Settlement       bond.js, bill.js: a window settled, a period invoiced
  |- ReceiptDag       chain.js: a run of steps
       |- AgenticRun  toolscope.js and agentic.js on top of it
  |- Consensus        consensus.js: a panel and its verdict
  |- Monitors         mir.js, gitm.js and the route that joins them
  |- Typed            typed.js, temporal.js: fragments
Egress               egress.js with its meter
ContextLedger        cern.js with its agent and its auditor
ToolReuse            toolreuse.js: the index of anchors over a session
RateLimit            server.js:103-118
SeedBootProofs, QpufBootProofs, PbsChainProofs, GatewayProofs    theorems, a module each
LedgersProofs        theorems: RefusalLedger, ContextLedger, ToolReuse, RateLimit
SealedProofs         lemmas: lists, bags, sums, Merkle trees, sealing
  |- ReceiptsProofs  theorems: Settlement, Egress, Receipts, Monitors, Consensus
  |- RunsProofs      theorems: Typed, ReceiptDag, AgenticRun
MCSeedBoot, MCQpufBoot, MCPbsChain, MCGateway, MCRefusalLedger   TLC instances
MCProducts, MCLedgers                                            compositions for TLC
```

**`SigningIdentity`** has a store that is written once and never replaced nor erased,
and processes that serve, each of them under the key the store holds, until they stop.
`SeedBoot` and `QpufBoot` instantiate it with what is on disk (the seed that parses, the
key the whole enrollment record names) and with what each process signs with itself: the
seed in its memory, the key it derived from the secret it read. So the refinement says
more than that one key is published: nothing writes the store again, and no process
serves before its key is stored.

**`SeedBoot`** models `loadOrCreateSeed()` down to its file calls. A boot is
`Stat` (existsSync), `ReadSeed`/`ReadFallsThrough` (readFileSync and the test of
the 64 digits), `Draw` (randomBytes), `Open` and `Write` (the two halves of
writeFileSync, which truncates first), `WriteFails` (the empty catch), or
`UseEnv`, then `Listen`. `Kill` may come between any two, `Flush` and
`HostCrash` are the page cache. `drawn` and `published` are history variables.

**`QpufBoot`** does the same for `getQpufSigner()`, `enrollDevice()` and the
software PUF: `readPufResponse()` is a subroutine entered for three purposes
(`task`), because the code calls it three times in a first boot and each call may
manufacture a secret of its own when the file cannot be written. `Mismatch` and
`EntropyFails` end in `degraded`: `server.js` catches what is thrown and answers
503 on the QPUF routes.

**`Upstream`** has the envelope as a record and a signature as the pair of the key
and the exact content it covers. `VerifyUpstreamReceipt` keeps the order of the
code's checks, because the first failing one is the reason a client sees.

**`PbsChain`** adds to the pure functions of `pbs.js` the parties that use them:
agents that advance when an answer arrives (`Beat`), whose answer is lost
(`BeatLate`) or who resume from an earlier checkpoint (`Restart`), a sandbox that
changes under them (`Drift`), and the loop of `verifyPbsAttestationChain`, one
action per iteration, fed with *any* receipt ever signed. The verifier's locals are
the record `ver`.

**`Diurnal`**, **`Howler`** and **`Gateway`**: receipts are signed by `Watch`,
`Declare` and `Countersign`; a gateway asks `POST /sigr/upstream/gate`
(`GateAllows`) and then `POST /sigr/diurnal/regime/verify` with the attestations
(`ThresholdMet`), and the effect lands (`Land`) or not (`GiveUp`). `Rekey` is a
restart of the service under another key, which `SeedBoot` shows possible.
The gateway is not in the repository; `server.js:966-968` says what it is for.
It presents receipts of one run, does not ask for expired ones to be allowed, and
abandons calls that took longer than `MaxLatency`.

**`RefusalLedger`** puts `signPolicyMutation` and `verifyPolicyMutationInHistory`
between operators and auditors. A change of the policy (`Change`) happens in the
operators' own store; the receipt comes later (`Submit`), over the log the operator
holds by then, or its answer is lost (`SubmitUnanswered`), or it never comes
(`GiveUp`). `Fetch` copies a longer log. `Audit` is the verify route with
`prior_mutations`; `SetBack` restores an auditor from an older copy. The chained hash
of `inclusionRoot` is the sequence of leaves hashed onto it.

**`Sealed`** holds what all products share. `Canonicalize` keeps an undefined field and
`Wire` drops it, as the code and `JSON.stringify` do; that difference is the subject of
three properties. `MerkleRoot` hashes the last node of an odd level with itself, as the
code does, so a root is a sequence of leaves in which some may be repeated: a root alone
does not determine the list, and the counts that most verifiers compare matter.
`Int32` is `x | 0` at a width the instances choose.

**`Receipts`** signs one object of any of seven kinds, has it travel as JSON
(`Receive`) and come back with an edit (`EditField`, `EditList`). A sender may leave out
what the routes do not ask for, write numbers that do not fit, or send claims whose
strength is out of range; the builders' normalisations are in the model. A reward is for
steps, whose digests its receipt carries, or for a root made elsewhere, and then carries
none; `EditSteps` exchanges or drops what is carried, for `verifyReward` looks at it only
if it is there.

**`Settlement`** has two parties. Calls are sealed and the answer may be lost
(`SealCall`), sealed again (`SealAgain`), relayed to the customer late, twice or never
(`Relay`), and the provider closes the window or the billing period over any of the
receipts and under any terms he has (`Close`). The customer verifies with his own.
Terms and latencies are wrapped to 32 bits when they are sealed (`SignedTerms`,
`CallReceipt`); `terms` and `calls` are what was asked for and measured.

**`ReceiptDag`** gathers steps in the order in which they are reported, a retried step
twice, and seals the run with Kahn's algorithm as the code has it, queue and sort
included: `TopoOrder` is the order after `Len(list)` iterations of `Advance`, a recursive
function, and `Commits` the commits after the same number of `Committed`. Where an id is
there twice the code reads now the last of its entries (`byId`, `LastPlace`) and now the
first (`find` in `verifyChain`, `FirstPlace`), and the model keeps the two apart.
**`AgenticRun`** puts the scope gate in front: scopes are issued again under
the same id, the run is gated by some of them, and a verifier is handed any. A step has
what the sender says of its output: an action of his own making (`listed`), and digests
that `buildStepCommit` takes for those of input and output (`SealedInput`,
`SealedOutput`). Listed beside the run is every step with an action in its output,
gated or not (`IsListed`, `Sidecar`). The sidecar is not signed: the receipt is shown with
an entry missing, with another tool in it, or with one more under another step's id.
Its keys are strings, so the verifier does not find a step whose id is a number
(`NumberId`).

**`Consensus`** collects sub-receipts in another order than the panel had, one missing
or twice. **`Monitors`** has a provider that serves steps and swaps what serves them, and
seals lineages that leave steps out; `CrossCheckLineage` is `POST /sigr/gitm` with a
lineage and whatever signals come beside it. **`Typed`** brings a receipt back with the
fragments permuted, lost, repeated or changed. **`Egress`** has a meter that loses answers
and totals, forgets a class that was idle, and sends with each window the declared caps,
others (`CapsSent`) or none: the service never sees the manifest. **`ContextLedger`** has an agent whose
context changes with a receipt (`Mutate`) or without (`MutateSilently`) and an auditor
who is handed receipts in any order and accepts one that starts at the root he has
reached. **`ToolReuse`** is `resolveToolCall` over a session, with its three ends
(`ResolveNondeterministic`, `Chain`, `ColdMint`), while anchors are damaged and
identities revoked. **`RateLimit`** is `rateLimited` with its sweep, over time.

**`MCProducts`** and **`MCLedgers`** check several components in one run. These share
nothing but the key, so a behaviour takes one component, its `lane`, and leaves the
others alone: the states are those of each component side by side, none multiplied by
another.

`PROJECT.json` maps every definition to the lines it stands for.

In some modules an operator whose comment begins with "(Slip: ...)" stands
before the action it resembles. It is that action with one plausible mistake, and
it is not part of the specification: substituting it must make the named property
fail, which shows that the property depends on the code.

## 3. What the runs check

Run one with `tlc -workers 2 -config <run>.cfg <module>`.

| Run | Result | What it shows |
|---|---|---|
| `SeedBoot_single` | holds | one process at a time on a healthy disk, killed up to the bound at any step: one key for ever (`KeyStable`); a whole seed is never written again and a process listens under the stored one only (`ImplementsIdentity`, the refinement of `SigningIdentity`); and a process that is not killed for ever ends up serving with the key the next boot will find (`ServesWhatIsStored`, liveness) |
| `SeedBoot_shared` | holds | two processes on one file and one with a configured seed, writes fail, the host crashes: the configured seed is used by whoever has it (`ConfiguredSeedRules`), a seed that is whole, flushed and not about to be replaced is never lost (`SettledSeedKept`) |
| `SeedBoot_read_error` | **violated** | one transient read error replaces a good seed |
| `QpufBoot_single` (`MCProducts`) | holds | boot: one device, healthy disk, kills anywhere: one device-bound key, never turned away; a whole record is never written again and what a process derives for itself is the key it names. Products: the table below |
| `QpufBoot_faults` | holds | two processes, failing writes and entropy: a record that does not fit the secret keeps the signer closed for good (`ForeignStaysClosed`), and one that fits, once no process is in the middle of a boot, is never disturbed, turns nobody away and gives the enrolled key only (`EnrolledStaysOpen`) |
| `QpufBoot_lost_record` | **violated** | a record whose write failed silently: another key after restart |
| `PbsChain_runs` | holds | accepted chain's final root is its history (`FinalRootIsHistory`), foreign heartbeats are accepted only from a run with the same environment (`AcceptedBeatsShareEnvironment`), the log an honest agent keeps is refused for age and nothing else (`AgentLogVerifies`) |
| `PbsChain_drift` | **violated** | measured drift verifies |
| `Gateway_effects` | holds | however calls, expiry, new receipts and a re-keyed service interleave, an effect rests on a monitor that spoke lately (`SilentMonitorStops`) and on k different attestors who countersigned this regime lately (`ThresholdIsLive`) |
| `Gateway_alarm` | **violated** | a fresh alarm passes the gate like a report |
| `RefusalLedger_forks` (`MCLedgers`) | holds | operators change one policy at once, lose answers, give up, copy logs: auditors whose histories split never accept a common receipt afterwards (`ForkConsistency`), and what an operator holds is confirmed until it is too old (`OwnLogVerifies`). Context ledger, reuse, rate: the table below |
| `RefusalLedger_gap` | **violated** | a mutation whose predecessor has no receipt verifies as the first of a history |

What the two composed runs check of each component:

| Module | Property | What it says |
|---|---|---|
| `Receipts` | `ReceiptsSurviveTheWire` | a receipt nobody touched verifies exactly when no copied field was left out and a manifest's own handle does not begin with `null_`: an equivalence, so it also says where the code refuses honest receipts |
| | `EditsAreNoticed` | what verifies after an edit is what was signed, also when an aggregate and its list are edited; a reward's steps may be dropped, but those carried are the ones its root was made of |
| `Settlement` | `ReconcilesExactly` | the customer accepts a statement exactly when it was made over the very receipts he holds, as often as he holds them, and under his terms |
| | `PaysWhatWasPromised` | the payout against the promises as they were asked for and the calls as they were measured, by cross-multiplication; the gaps are the rounding to ppm, the empty window, and terms or latencies that do not fit 32 bits |
| `ReceiptDag` | `SealedInCausalOrder` | a run is sealed exactly when a causal order of its steps exists, in such an order, with a root that does not depend on the order of arrival |
| | `VerifiedRunIsSealedRun` | a verified receipt holds each commit as often as it was sealed, the records a verifier looks at are the sealed ones (all of them when the steps are distinct), and no step reported once is missing |
| `AgenticRun` | `AcceptedActionsAreInScope` | listed actions of an accepted run are those that were sealed and allowed by the scopes the verifier holds; gated ones were allowed by the scopes the run was sealed with, just as destructive, unless the step had an output digest of its own |
| | `ActionsSurviveTheWire` | a run nobody touched is confirmed exactly when each listed action has a string for an id, says its target, has no digest but that of what arrives and, if it was made up, is one the scopes allow |
| `Consensus` | `VerdictIsOrderFree` | who has the whole panel confirms its verdict in any order, but for named exceptions |
| | `AcceptedVerdictIsThePanels` | no dissenter dropped, none counted twice, the winner has the votes |
| `Monitors` | `SwapRaisesTheFlag` | any swap, however short, is flagged at the default trigger; one stable model never is |
| | `FindingsAreOfTheSession` | a lineage verifies exactly against the session it was sealed of, and a flag says what the signals say |
| `Typed` | `TypedVerdictIsRight` | what verifies has the attested fragments as signed; what was signed verifies but for a clash of ids |
| `Egress` | `CapIsNotPassedUnseen` | the receipt of the window that takes a class over its declared cap says so if it came with totals and a cap no higher; a break names a class over the cap that was sent; commitments that are folded open to all that left |
| `ContextLedger` | `VanishedSpansAreDisclosed`, `NewSpansAreAnnounced` | between any two ends of an accepted ledger every span is accounted for |
| `ToolReuse` | `ReuseIsOfTheLatestProof` | a reused result is the one proven last and its identity was not revoked before |
| `RateLimit` | `NoMoreThanTwiceTheRate` | of 2·max+1 requests let in, the last comes at least a window after the first |

**Bounds.** They are constants named in the modules and given in the cfg files.

- `MaxCrash`, `MaxKill` (2 to 4): a second kill can hit the recovery from the
  first, a third that of the second; the control state of a boot does not depend
  on how many came before, so no further kill reaches a new kind of state.
- Seeds, secrets and challenges: one more than the draws the kills allow in the
  runs that have to end with a key; when the pool is used up, drawing stops.
- `MaxSeq` = 2 and `MaxReceipts` = 3 in `PbsChain_runs`: two heartbeats of a chain
  plus a fork of one of them, or heartbeats of both runs. The verifier's loop has no
  memory but the prior root and the sequence number; the proofs remove the bound.
- `Gateway_effects`: a drift receipt, a regime and the two countersignatures its
  stricter entry needs, and every way to spend the four receipts otherwise: twice
  the same attestor, two regimes. The freshness of the three types keeps the order
  of the code's (60 s < 600 s < 3600 s): 1, 2 and 3 ticks, with a clock of 4 ticks
  so that all of them run out. The proofs remove these bounds too.
- `RefusalLedger_forks`: four changes, four receipts and two faults: two forks of
  length two, or a fork and a common continuation of it (which must be refused), with
  an answer lost or an auditor set back. The proofs remove the bounds.

- The product lanes of `QpufBoot_single`: `IntMax` = 4 makes numbers of one digit wrap.
  The third of `TermsAsked` has a ceiling, the second a penalty, and the last of
  `Measured` a latency that wraps. `MaxList` = 3, `MaxCalls` = 3, `MaxItems` = 3 and `MaxPanel` = 3 give Merkle trees with
  an odd level; `MaxEdits` = 1 is one edit, of any field or list, to the value it has in
  any other receipt of the product. `MaxRepeats` = 1 is one call sealed or relayed twice.
  `MaxSteps` = 4 is a diamond, and ten steps are on offer that also make cycles,
  dangling parents and retries. `MaxScopes` = 2 is a scope and its replacement,
  `MaxAgentSteps` = 2 an action and its successor, of nine: with and without a target,
  made up by the sender, with digests of their own (of another input, of the output
  without the action, of the output with another one), with a number for an id
  (`NumberId` = 3). `MaxAgain` = 1 is one sub-receipt
  collected twice. `MaxServed` = 3 is a swap of a single step and back. `MaxWindows` = 3
  windows of 3 rows of two classes with caps 2 and 3 pass a cap at once, and reach one
  exactly before it is passed; `CapsSent` are the declared caps, one raised with the
  other left out, and none.
- `RefusalLedger_forks`, other lanes: `MaxSpans` = 2 and `MaxCern` = 2: a context of up to
  two spans over two receipts, so that a span can leave and come back; `MaxLog` = 4:
  prove, revoke, damage, ask again; `Window` = 2, `RateMax` = 2, `MaxTime` = 4: three
  windows, with requests at both sides of each boundary, `MaxRequests` = 3: a bucket counts
  beyond the rate, and a sweep as soon as two clients are in the table (`SweepAbove` = 1). The proofs remove all of these.

**Fairness.** Only `SeedBoot` states liveness. It assumes weak fairness of
each process's boot as a whole (`WF_vars(BootStep(p))`): the boot is straight-line
synchronous code, which runs unless the process is killed, and kills are finitely
many. Nothing is assumed of the kernel's flushing.

**Deadlock.** It is checked except in the QPUF runs, where all processes may serve
or have given up while no kill is left and a product is over once it was signed and shown,
and in `RefusalLedger`, where all changes may be made, signed and audited. `Gateway` and `PbsChain` keep it on.

**Symmetry.** Seeds, secrets, challenges, processes, runs, environments and
attestors are permuted where the instance gives them no role and no liveness
property is checked.

## 4. What is proved

Check a module with `tlapm <module>.tla`. The theorems hold for every value of the
constants that meets the modules' `ASSUME`s.

**`SeedBootProofs`.** `TypeCorrect` states the type invariant the run checks, together with
the addition that makes it inductive: a process past the draw holds a seed.
`KeyStableOneProcess` needs the stronger statement that with one process the
published keys, the file and the seed in memory agree: once a key is published the
file holds it (it was read from the file or written to it before `Listen`), and
neither a kill nor a later boot opens the file again. Assumptions: one process, no
configured seed, no failing read or write, no host crash — `SeedBoot_read_error`
shows that the theorem is false without the second.
`SeedBootImplementsIdentity` maps each step under the same invariant: `Write` to
`Store`, `Listen` to `Serve`, `Kill` to `Stop`, every other step to a stutter; a boot
opens the file only while it holds no seed, so the store is never erased.
`ConfiguredSeedIsUsed` and `KeyStableFromEnvironment` have no assumption on failures
at all: nothing a process with a configured seed does looks at the file.
`SettledSeedIsKept` assumes only that reads do not fail.

**`QpufBootProofs`.** `QpufTypeCorrect` with what a process holds at each step.
`ForeignRecordStaysClosed` and `EnrolledDeviceStaysOpen` assume that reads do not fail
(a failing read manufactures a secret or enrolls anew) and nothing else: any processes,
kills and failing writes. When every process is at rest or past its reads of record and
secret (`AtRest`), a boot finds both whole, writes neither, and derives a key that fits
the record exactly if the secret does (`RecordFitsSecret`). `DeviceKeyStable`,
`DeviceNeverTurnedAway` and `QpufBootImplementsIdentity` are about one process on a
healthy disk. Their invariant: a whole record on disk was made with the secret on disk
(`RecordFits`), a published key is the one that record names (`PublishedIsRecord`), and
a process that enrolls or manufactures does so because there is no whole record, hence
because nothing was ever published (`Working`). `QpufBoot_lost_record` shows that the
theorems are false when the record's write may fail.

**`PbsChainProofs`.** `PbsTypeCorrect` first. `FinalRootCommits`: the invariant of
the verifier's loop is that its prior root is the root of the environment of the
manifest and of the measurements of the chain so far, each with the number of its
place, and that its sequence number is the length plus one; one iteration keeps it
because a heartbeat passes only if its new root is the fold computed from the
verifier's own prior. `AcceptedBeatsAreAtHome`: every receipt's prior root starts from
the environment its run was provisioned with — an invariant of the agents — and
the verifier requires the prior root to be its own, which starts from the manifest's.
`AgentsLogVerifies`: whatever was lost or restarted, the i-th receipt of an agent's log
has number i, starts from the root of the receipts before it and folds its own delta
onto that (`LogOf`), because a restart cuts the log where the agent's number and root
come from. When the verifier has read a prefix of that log, what it expects next is,
by the invariant of its loop, what the next receipt carries; every receipt is signed as
it is and not from the future (`AllGenuine`), so only the check on age is left.

**`GatewayProofs`.** A receipt is judged once, so the invariant keeps what later
steps cannot take back: the drift and regime receipts of a call were signed, belong
to one run, and expire no sooner than the call began (`GateWitness`); a bonded call
has a set of attestors at least as large as required, each with a countersignature
of that regime that expires no sooner than the call began (`QuorumWitness`). That
`expires_at` is the time of issue plus the freshness (part of the type invariant)
turns this into the age bounds of `SilentMonitorStops` and `ThresholdIsLive`. New
receipts, time and new keys do not disturb it. `RegimesFollowManifold` ties the
required k to the manifold.

**`LedgersProofs`**, RefusalLedger. A sequence of receipts is covered when each receipt's root
is the sequence of leaves up to and including itself. Auditors' histories are covered
because a receipt is accepted only when its root is the one computed over the
auditor's own history, and cutting a history short keeps it covered; two covered
histories that share a receipt share its root and with it the past
(`ForksStayApart`). Operators' logs are covered because the service computes the root
over the very log the receipt is appended to; together with the fact that every
signed receipt is genuine, this gives `OperatorsLogVerifies`.

ContextLedger. The auditor's ledger is linked (`LedgerIsLinked`): each receipt
starts from the context the one before it ended in, and its change passed `DeriveDelta`
(`AcceptedLedgerIsLinked`). That alone does not give the two properties, which speak of
the first and the last context only; the invariant `CernInv` therefore has them as
conjuncts, and a receipt that is accepted extends each: a span that is still there before
the last receipt and gone after it was disclosed by it, any other loss lies in the
ledger before. Nothing is assumed of the agents, who may change contexts without a
receipt (then nothing links) or declare whatever they like.

ToolReuse. `IndexHoldsLastProofs`: an anchor of the index that *verifies* is
the last proof of its identity in the log; a damaged one is exempt, for it is never
reused. `RevocationsKept` ties the set of revoked identities to the log. With both,
appending to the log keeps `ReuseFits`, because the guard of `Chain` asks for an anchor
that verifies, with the result at hand, and for an identity that is not revoked.

RateLimit. Two facts tie the table to the log of admitted requests. A request
is admitted within the window of its bucket, and `RateMax` requests later the bucket is
another one, whose window ends a whole window later or more (`LogFits`). All admitted
requests but the last ones, of which the bucket counts at least as many, were in windows
that had ended when the bucket was made (`BucketFits`); a client without a bucket is in
no window that has not ended. A sweep drops only buckets whose window has ended, so it
keeps both. `OneWindowOneRate` is the bound of one bucket, `AtMostTwiceTheRate` the one
over any stretch of time. The clock may stand still but does not go back.

**`SealedProofs`** has no theorem about a specification; it is what the products need
of their data, for lists of any length. Three inductions carry it. Over the length of a
list, written as a set of bad lengths that would have a least member
(`NaturalsInduction` takes its predicate as an operator, which the provers cannot
instantiate): what `TotalOf` and `Kept` give when a list grows by one. Over the levels of
a Merkle tree: lists of one length with the same root are the same list
(`MerkleRootTells`), and whatever their lengths they have the same members
(`MerkleRootMembers`); over sorted leaves the root tells the bag, with the number of
leaves beside it (`SortedRootTells`), as most receipts have it. Over the number of
places already visited (`TotalOfBag`): lists with one bag have one sum. Lists with one
bag are each other in another order (`BagPermutes`, `KeptPermuted`).

**`ReceiptsProofs`**, Settlement. `SettlementInv`: the parties hold bags, and a statement
was signed over the window it was closed with, under some terms. `StatementsReconcile`:
the verifier compares root and count, which tell the bag of receipts, and a bag and its
list tell each other (`BagOfItsList`). `PromisesArePaid`: `a \div b < c` exactly when
`a < c * b` (`DivBelow`), so a share misses its floor after rounding exactly when it does
before; the other direction of rounding is the gap of one ppm that the property names.
What fits 32 bits is sealed as it is, and a call that was not served cannot be slow.
Egress. `EgressHolds`: the rows that have left are the sum over the windows measured,
each measurement says what `RightlyMeasured` requires of its place, and while every
answer was folded the known commitments of a class open to that sum; `CapsAreKept`
compares the sum before a window with the sum after it and with the cap that came with
it. Receipts. `ReceiptsHolds`: the
receipt held has digest and signature of the sealed one and its fields, the lists among
them lists, and is what arrived as long as it is not edited. `NoticedEdits`: a
receipt that verifies has the base it was signed with (`AcceptedBase`), and what each
product's base says of the list it is derived from is a lemma of its own
(`CommitmentTellsBlocks`, `LeavesAre`). A reward's carried steps have the sealed root, so
they are the members of any list it was made of (`MerkleRootMembers`).
`TravelledReceipts` has one lemma per product:
a missing field arrives as no field, which is another digest; a manifest's handle is
compared as well.
Monitors. `MonitorsInv`: lineage and flag are those signed for what was asked.
`SwapIsFlagged`: the score of a lineage is 0, or 2000 and more when anything changed
(`FlickerIs`), for a session of any length, and clamping keeps that; the number of reruns
is at least 3 whatever the mean. `FindingsHold`: what was sealed verifies, and step roots
tell the steps they are made of (`StepRootTells`). Consensus. The answer that is first in
a tally exists and is unique, for the tally is finite and the digest decides ties
(`Foremost`). `AcceptedVerdicts`: root and count tell the bag of sub-receipts
(`RootOfSubs`), the winner has the most votes. `OrderFreeVerdicts`: a list in another
order has the same tally (`PermutedTally`), so only a judge's first match depends on the
order; a missing name arrives as `null` in the tally (`TallyNames`) and not at all in a
record (`TravelledRecord`).

**`RunsProofs`**, Typed. Root and mode tell the attested fragments, in linear mode with
their number (`RootTells`); if no other fragment shares an id, those chosen by id from
any order are those chosen by type (`AttestedAsSigned`), and otherwise there are more of
them.

ReceiptDag. What the queue of Kahn's algorithm does is an invariant over its iterations
(`QueueFits`): a step waits with parents that are not counted down yet, or it is in the
queue or was taken, no more often than it was reported. A step that was reported twice
without parents is there twice and counts its children down twice, below 0 even, so of
arbitrary runs no more holds; but then an order as long as the run takes every step as
often as it was reported (`AsLongIsAll`, an injection of places), and the commits of the
receipt are a fixpoint (`CommitsAre`): each says its step and the commits of its parents.
Of distinct steps the indegree counts exactly the parents not taken yet
(`QueueFitsExactly`). So if some order puts parents first, the queue is not empty before
all are taken: the first step of that order that was not taken has all its parents taken
(`CausalIsSealable`); and what is sealed is such an order (`SealableIsCausal`). Commits
are unique: two lists that are orders of the same distinct steps have the same commits,
by the first place of one order where they would differ (`CommitsAgree`), so the root
does not depend on the order of arrival (`RootOfReordered`), which gives `CausalOrders`.
`DagInvariant`: the receipt is the chain of the steps gathered, and what a verifier sees
of it has its base and no step whose commit and id are not those of a sealed one.
`VerifiedRuns`: count and root tell the bag of commits (`SortedRootTells`), a record that
is looked at is its own commit, and when the steps are distinct every record is looked at
(`AcceptedIs`, `CheckedIs`). A receipt of distinct steps that nobody edited verifies
(`SealedVerifies`).

AgenticRun. A scope's root tells its tools (`ScopeRootTells`), so a scope that verifies
is one that was issued, whatever was granted on the way (`VerifiedScopeIs`); an entry of
the sidecar that is bound to its record has the input, output and action that were sealed
(`BoundIs`, `DigestTells`). `AgenticInvariant` says that scopes are sealed as they were
asked for, that the run was gated by scopes that were issued, and what a verifier can be
given. `AcceptedActions` then compares the gate before sealing with the one at the
verifier; what was gated is what is sealed only of a step without an output digest of its
own. `TravelledActions`: the receipt's chain verifies by `SealedVerifies`, an entry fits its
record exactly when its id is a string and what was sealed is the digest of what arrives
(`ArrivalIs`), which a field that JSON drops prevents (`MetaOnTheWire`), and a gated
action passes the gate again (`GatedAgain`). `DagSpec` and `AgenticSpec` are the lanes `dag` and
`agentic` of `MCProducts`, each by itself.

**Only model-checked:** `ServesWhatIsStored`, for liveness is beyond the proof system;
and the runs that expect a violation, which are counterexamples.

## 5. Abstractions and assumptions

- The modules' named `ASSUME`s: bounds are numbers; the value `Undefined` is no number,
  no list, no text `null` and no handle (`SealedAssumption`, `ValuesAssumption`); what is
  served, and a panel's member, has the fields the routes take (`MonitorsAssumption`,
  `ConsensusAssumption`); a step has finitely many parents and a scope finitely many tools
  (`ReceiptDagAssumption`, `AgenticAssumption`), and an action its sender makes up has no
  undefined field, since it came as JSON (`AgenticAssumption`). TLC evaluates each on the instance it checks.
- Hashes are injective and signatures cannot be made without the key: a digest is
  the tuple that was hashed, a signature the key and the content.
- `canonicalize`, `pruneUndefined`, the hexadecimal codings and the Merkle tree over
  named fields are abstracted into that injectivity in the modules of the upstream
  primitives. In `Sealed` and the modules on top of it what matters of them is kept:
  undefined fields, and the odd leaf of a Merkle tree.
- Products are signed with the key they carry, so their signature is the payload it
  covers. Sorting by digest is some order of the members. Output and cached tokens of a
  bill count as input tokens do; fields a builder always fills in are left out unless a
  verifier derives them again.
- A context is hashed span by span and compared by its spans; one hash suite is used
  but in `Typed`.
- Receipts of the primitives are signed and verified with the default suite and
  freshness, by the service's own key (their envelopes carry no `public_key`, so
  `pubFromEnv` falls back to it).
- The trigger of the anomaly monitor fits 32 bits (`src/gitm.js:125`); readings are clamped
  and `Consensus` wraps its quorum as the code does.
- A step id that is a number and one that is the same number as a string are different
  ids of `AgenticRun`; a run with both is not modelled.
- Handlers are atomic; file calls of the boot are not.
- A malformed `DEMO_SIGNER_SEED_HEX` is the same as none, as in the code.
- `randomBytes` never repeats. The quality of the entropy, and the statistics of
  its health checks, are left out; that a check fails is the fault `entropy`.
- HTTP, CORS, logging, discovery documents and timing figures are left out.

## 6. Disagreements found

1. `src/key.js:4-5` promises a key that is generated once; `src/key.js:31` treats a
   read that throws like a missing file and overwrites the seed
   (`SeedBoot_read_error`).
2. `test_qpuf.mjs:8-9` promises the same key after a restart on the same device;
   `src/qpuf/index.js:75` swallows a failed write of the enrollment record and serves
   the key regardless (`QpufBoot_lost_record`).
3. `src/pbs.js:22-24` says drift breaks the chain; nothing compares a measurement
   with the manifest (`PbsChain_drift`).
4. `src/howler.js:53-55` says the gate refuses when the alarm receipts are not below
   threshold; `src/upstream.js:206-213` never reads the disposition
   (`Gateway_alarm`).
5. `src/refusal.js:21-23` says a missing mutation breaks the chain; neither signing nor
   verifying looks at the sequence number or the prior state
   (`RefusalLedger_gap`).

6. `src/upstream.js:71-81` describes a fault (an omitted field is hashed and does not
   travel) and cures it for the upstream primitives only; `src/typed.js:46` has it for the
   products: bills without `request_id` or `model_id`, bonds without a window,
   measurements without `request_id`, actions without `tool_target`, panel members
   without a name and context receipts whose `altered_spans` omit `original_hash`
   (`ReceiptsSurviveTheWire`, `ActionsSurviveTheWire`, `VerdictIsOrderFree`).
7. `src/chain.js:97` says ready steps are sorted by seq then id; the first queue is sorted
   by id alone. The order is causal all the same (`SealedInCausalOrder`).
8. `src/gitm.js:118` says a signal must exceed the trigger; `:131` takes one that equals it.
9. `src/cern.js:22-27` promises that every undisclosed mutation is detected; the comparison
   of sets passes a reordered context and the loss of one of two equal spans as a
   lossless append. `VanishedSpansAreDisclosed` is what remains.
10. `src/agentic.js:29-32` says each action is confirmed again; an action that is missing
    in the unsigned sidecar is not (`AcceptedActionsAreInScope` is about those listed). Nor
    was every action gated: a step that is no tool call may carry one in its output, and
    a step with an `output_digest` is sealed by that (`src/chain.js:62`), whatever was folded in.
11. `src/consensus.js:38-40` says every sub-receipt's digest is recomputed; it is taken as
    it stands.
12. `src/chain.js:187` says any edit fails; `src/chain.js:213` looks records up by id, so of two
    records with one id the second is never read but for its commit, and an edit of it
    verifies. `VerifiedRunIsSealedRun` speaks of the records that are read, `Checked`; of
    the whole list of records it holds only for distinct steps.

The models show more behaviour that no line of the repository contradicts, and that a
reader should know. A manifest whose own handle begins with `null_` is refused unless it
is the derived one. The steps of a reward are not counted, so one may be repeated, and a
reward without them verifies (`src/reward.js:144`). Honest agentic runs are refused when
a step's id is a number, for the keys of the sidecar are strings (`src/agentic.js:154`,
`:182`), and when a step comes with digests, for the verifier hashes input and output
only (`src/agentic.js:46-52`). A bond's terms and a latency of 2^31 or more are wrapped
(`src/bond.js:55-58`, `:144`): under a ceiling that becomes negative every served call
is slow. A fragment that is not attested but shares the id of one that is makes a typed
receipt nobody can verify, and in merkle mode the last attested fragment may come twice.
The first step of a run that is reported twice is sealed twice, with the last report's
content. A judge's pick of a model that was asked twice depends on the order of the
list. Flat signals sent beside a lineage are dropped, a trigger of `null` is 0, and a
weak signal beside a strong one lowers the severity. An egress class that is idle in a
window loses its commitment if the meter keeps the answer alone, a window without totals
or without a cap breaks nothing, whatever the manifest declares (`src/egress.js:86`,
`:95`), and a break is not repeated by later windows. A window without calls counts as
down and pays. The verify route of the primitives passes no hash suite, so a receipt
signed over HTTP with sha-384 is refused (`server.js:952`). A rate limit that is not a
number never limits, and a restart empties the table. Bounds sent to the refusal ledger
as `min_bp`/`max_bp` become NaN, and all envelopes of one metric have one digest
(`src/refusal.js:79`).

## 7. Plan

Done: all components with state or order of their own, and a theorem for every safety
property a run checks. What is left, in this order: the replay checks of Howler's
capability alarms and the read bindings of the Refusal Ledger; a clock for the windows of
`Diurnal`'s regimes.

## 8. Not modelled, and why

- `src/perimeter.js`: manifest and attempt are signed as sent, `resolution` is whatever
  the caller says and is compared with no rule, and the coupling is two equalities after
  two envelope checks, which `Upstream` models.
- `src/forensic.js`: a count and a membership test at the moment of signing, over key ids
  that may repeat; the dual-key proof itself is not in the repository.
- `src/hwsign.js`: only the software backend signs, the others are stubs that throw.
- `src/carnac.js`: a digest binding is one equality of a digest that is carried, the
  internal token one comparison.
- `src/temporal.js`: reads clocks and asks a time server; its result is an input of
  `Typed`.
- Discovery, self-description and benchmark routes, CORS and logging: output only. Tests
  and docs were read as statements about the program.
