------------------------------- MODULE SeedBoot -------------------------------
(***************************************************************************)
(* key.js: how a process finds the seed of the base signing key at boot.   *)
(*                                                                         *)
(* loadOrCreateSeed() runs while the module is loaded, long before the     *)
(* server listens.  It prefers a well-formed DEMO_SIGNER_SEED_HEX, then a  *)
(* well-formed seed file, and otherwise draws a seed and writes the file,  *)
(* ignoring every error.  The file calls are the steps: existsSync,        *)
(* readFileSync, and writeFileSync as its open (which truncates) and its   *)
(* write.  Processes share the file (same working directory), may be       *)
(* killed between any two calls, and the host may lose what writeFileSync  *)
(* left in the page cache, for nothing is synced.                          *)
(*                                                                         *)
(* A seed stands for the key pair keygen() makes of it.  A malformed       *)
(* environment value behaves exactly like a missing one and is covered by  *)
(* EnvSeed[p] = NoSeed.                                                    *)
(***************************************************************************)
EXTENDS Naturals, FiniteSets

CONSTANTS
    Proc,           \* processes started on the host, at once or in turn
    Seed,           \* 32-byte seeds
    NoSeed,         \* no seed
    EnvSeed,        \* each one's DEMO_SIGNER_SEED_HEX: a seed, or NoSeed
    Absent, Torn,   \* seed file missing; present but not 64 hex digits
    ReadMayFail,    \* may readFileSync throw on a file that is there?
    WriteMayFail,   \* may mkdirSync, open or write throw?
    HostMayCrash,   \* may the host lose its page cache?
    MaxCrash        \* bound on kills and host crashes together

ASSUME SeedAssumption ==
    /\ NoSeed \notin Seed
    /\ Absent \notin Seed \cup {NoSeed, Torn}
    /\ Torn \notin Seed \cup {NoSeed}
    /\ EnvSeed \in [Proc -> Seed \cup {NoSeed}]

ASSUME SwitchAssumption ==
    /\ {ReadMayFail, WriteMayFail, HostMayCrash} \subseteq BOOLEAN
    /\ MaxCrash \in Nat

VARIABLES
    file,       \* what the seed file holds
    disk,       \* what of it has reached the disk
    pc,         \* where each process is in its boot
    mine,       \* the seed each process will sign with, or NoSeed
    drawn,      \* history: every seed randomBytes() ever returned
    published,  \* history: every seed a listening process had
    crashes     \* kills and host crashes so far

vars == <<file, disk, pc, mine, drawn, published, crashes>>

Boot == {"start", "read", "draw", "open", "write", "ready"}

TypeOK ==
    /\ file \in Seed \cup {Absent, Torn}
    /\ disk \in Seed \cup {Absent, Torn}
    /\ pc \in [Proc -> Boot \cup {"up"}]
    /\ mine \in [Proc -> Seed \cup {NoSeed}]
    /\ drawn \in SUBSET Seed
    /\ published \in SUBSET Seed
    /\ crashes \in Nat

Init ==
    /\ file = Absent
    /\ disk = Absent
    /\ pc = [p \in Proc |-> "start"]
    /\ mine = [p \in Proc |-> NoSeed]
    /\ drawn = {}
    /\ published = {}
    /\ crashes = 0

Goto(p, l) == pc' = [pc EXCEPT ![p] = l]

Take(p, s) == mine' = [mine EXCEPT ![p] = s]

--------------------------------------------------------------------------------

\* 1. A well-formed environment seed wins, and the disk is never looked at.
UseEnv(p) ==
    /\ pc[p] = "start"
    /\ EnvSeed[p] # NoSeed
    /\ Take(p, EnvSeed[p])
    /\ Goto(p, "ready")
    /\ UNCHANGED <<file, disk, drawn, published, crashes>>

\* 2. existsSync.  (Slip: the environment is not preferred.)
StatWhateverEnv(p) ==
    /\ pc[p] = "start"
    /\ Goto(p, IF file = Absent THEN "draw" ELSE "read")
    /\ UNCHANGED <<file, disk, mine, drawn, published, crashes>>

Stat(p) ==
    /\ pc[p] = "start"
    /\ EnvSeed[p] = NoSeed
    /\ Goto(p, IF file = Absent THEN "draw" ELSE "read")
    /\ UNCHANGED <<file, disk, mine, drawn, published, crashes>>

\* A seed file that reads as 64 hex digits is used.
\* (Slip: it is then saved again, like a fresh one.)
ReadSeedResaved(p) ==
    /\ pc[p] = "read"
    /\ file \in Seed
    /\ Take(p, file)
    /\ Goto(p, "open")
    /\ UNCHANGED <<file, disk, drawn, published, crashes>>

ReadSeed(p) ==
    /\ pc[p] = "read"
    /\ file \in Seed
    /\ Take(p, file)
    /\ Goto(p, "ready")
    /\ UNCHANGED <<file, disk, drawn, published, crashes>>

\* Anything else, an exception included, falls through to a fresh seed.
\* (Slip: the test of the digits rejects a good file too.)
ReadRejects(p) ==
    /\ pc[p] = "read"
    /\ Goto(p, "draw")
    /\ UNCHANGED <<file, disk, mine, drawn, published, crashes>>

ReadFallsThrough(p) ==
    /\ pc[p] = "read"
    /\ file \in Seed => ReadMayFail
    /\ Goto(p, "draw")
    /\ UNCHANGED <<file, disk, mine, drawn, published, crashes>>

\* randomBytes(32) never repeats and hits no configured seed.
Fresh == Seed \ (drawn \cup {EnvSeed[p] : p \in Proc})

\* 3. A fresh seed is drawn.  (Slip: it is not saved.)
DrawUnsaved(p) ==
    /\ pc[p] = "draw"
    /\ \E s \in Fresh :
          /\ Take(p, s)
          /\ drawn' = drawn \cup {s}
    /\ Goto(p, "ready")
    /\ UNCHANGED <<file, disk, published, crashes>>

Draw(p) ==
    /\ pc[p] = "draw"
    /\ \E s \in Fresh :
          /\ Take(p, s)
          /\ drawn' = drawn \cup {s}
    /\ Goto(p, "open")
    /\ UNCHANGED <<file, disk, published, crashes>>

\* writeFileSync opens with O_TRUNC ...  (Slip: an empty seed is left.)
OpenEmpty(p) ==
    /\ pc[p] = "open"
    /\ file' = NoSeed
    /\ Goto(p, "write")
    /\ UNCHANGED <<disk, mine, drawn, published, crashes>>

Open(p) ==
    /\ pc[p] = "open"
    /\ file' = Torn
    /\ Goto(p, "write")
    /\ UNCHANGED <<disk, mine, drawn, published, crashes>>

\* ... then writes ...
Write(p) ==
    /\ pc[p] = "write"
    /\ file' = mine[p]
    /\ Goto(p, "ready")
    /\ UNCHANGED <<disk, mine, drawn, published, crashes>>

\* ... and an error of mkdirSync, of the open or of the write is swallowed:
\* the process goes on with a seed the disk does not hold.
WriteFails(p) ==
    /\ WriteMayFail
    /\ pc[p] \in {"open", "write"}
    /\ Goto(p, "ready")
    /\ UNCHANGED <<file, disk, mine, drawn, published, crashes>>

\* app.listen: from here on the key answers GET /pubkey and signs receipts.
Listen(p) ==
    /\ pc[p] = "ready"
    /\ Goto(p, "up")
    /\ published' = published \cup {mine[p]}
    /\ UNCHANGED <<file, disk, mine, drawn, crashes>>

--------------------------------------------------------------------------------

\* A process is killed, or redeployed, and starts over.
Kill(p) ==
    /\ crashes < MaxCrash
    /\ crashes' = crashes + 1
    /\ Goto(p, "start")
    /\ Take(p, NoSeed)
    /\ UNCHANGED <<file, disk, drawn, published>>

\* The kernel writes the page back.
Flush ==
    /\ disk' = file
    /\ UNCHANGED <<file, pc, mine, drawn, published, crashes>>

\* The host goes down: unsynced contents may be gone, in whole or in part.
HostCrash ==
    /\ HostMayCrash
    /\ crashes < MaxCrash
    /\ crashes' = crashes + 1
    /\ file' \in {file, disk} \cup (IF file = disk THEN {} ELSE {Torn})
    /\ disk' = file'
    /\ pc' = [p \in Proc |-> "start"]
    /\ mine' = [p \in Proc |-> NoSeed]
    /\ UNCHANGED <<drawn, published>>

BootStep(p) ==
    \/ UseEnv(p)
    \/ Stat(p)
    \/ ReadSeed(p)
    \/ ReadFallsThrough(p)
    \/ Draw(p)
    \/ Open(p)
    \/ Write(p)
    \/ WriteFails(p)
    \/ Listen(p)

Next ==
    \/ \E p \in Proc : BootStep(p) \/ Kill(p)
    \/ Flush
    \/ HostCrash

Spec == Init /\ [][Next]_vars

\* A process that is not killed runs: its boot is straight-line code.
FairSpec == Spec /\ \A p \in Proc : WF_vars(BootStep(p))

--------------------------------------------------------------------------------

\* key.js:4-5: "The demo signer key is generated ONCE and persisted to disk so
\* the published public key stays stable across restarts".  No two processes,
\* at whatever time, listened with different keys.
KeyStable == \A k, l \in published : k = l

\* README.md:67-68: a configured seed makes the published key reproducible across
\* deploys.  Whatever the file holds and whatever fails, a process that has one
\* listens with it.
ConfiguredSeedRules ==
    \A p \in Proc :
        EnvSeed[p] # NoSeed /\ pc[p] = "up" => mine[p] = EnvSeed[p]

\* A whole seed is on disk and no boot is on its way to replace it.
Settled(s) ==
    /\ file = s
    /\ disk = s
    /\ \A p \in Proc : pc[p] \notin {"draw", "open", "write"}

\* A settled seed stays settled: no later boot, kill or host crash, in any
\* interleaving of any number of processes, puts it in danger again.
SettledSeedKept == [][\A s \in Seed : Settled(s) => Settled(s)']_vars

\* However often it is killed, the service ends up listening with the very
\* seed the next boot will find.
ServesWhatIsStored ==
    <>[](\A p \in Proc : pc[p] = "up" /\ mine[p] = file)

\* The file is the store of SigningIdentity, and a process that listens serves the
\* seed it holds itself: once whole, the file is neither truncated nor replaced,
\* and whoever listens has the seed the next boot will find.
Identity == INSTANCE SigningIdentity WITH
    Key <- Seed, NoKey <- NoSeed,
    stored <- IF file \in Seed THEN file ELSE NoSeed,
    serving <- [p \in Proc |-> IF pc[p] = "up" THEN mine[p] ELSE NoSeed]

ImplementsIdentity == Identity!IdSpec
================================================================================
