---------------------------- MODULE SeedBootProofs ----------------------------
(***************************************************************************)
(* Theorems about SeedBoot, for every set of processes and of seeds and    *)
(* every number of kills.                                                  *)
(***************************************************************************)
EXTENDS SeedBoot, TLAPS

\* From the moment it has one, a process keeps a seed until it is killed.
HasSeed ==
    \A p \in Proc : pc[p] \in {"open", "write", "ready", "up"} => mine[p] \in Seed

TInv == TypeOK /\ HasSeed

LEMMA TInvInit == Init => TInv
BY SeedAssumption DEF Init, TInv, TypeOK, HasSeed, Boot

LEMMA TInvNext == TInv /\ [Next]_vars => TInv'
<1> SUFFICES ASSUME TInv, [Next]_vars PROVE TInv'
  OBVIOUS
<1> USE SeedAssumption, SwitchAssumption DEF TInv, TypeOK, HasSeed, Boot, Goto, Take
<1>1. ASSUME NEW p \in Proc, UseEnv(p) PROVE TInv'
  <2>1. EnvSeed[p] \in Seed
    BY <1>1 DEF UseEnv
  <2> QED
    BY <1>1, <2>1 DEF UseEnv
<1>2. ASSUME NEW p \in Proc, Stat(p) PROVE TInv'
  BY <1>2 DEF Stat
<1>3. ASSUME NEW p \in Proc, ReadSeed(p) PROVE TInv'
  BY <1>3 DEF ReadSeed
<1>4. ASSUME NEW p \in Proc, ReadFallsThrough(p) PROVE TInv'
  BY <1>4 DEF ReadFallsThrough
<1>5. ASSUME NEW p \in Proc, Draw(p) PROVE TInv'
  BY <1>5 DEF Draw, Fresh
<1>6. ASSUME NEW p \in Proc, Open(p) PROVE TInv'
  BY <1>6 DEF Open
<1>7. ASSUME NEW p \in Proc, Write(p) PROVE TInv'
  BY <1>7 DEF Write
<1>8. ASSUME NEW p \in Proc, WriteFails(p) PROVE TInv'
  BY <1>8 DEF WriteFails
<1>9. ASSUME NEW p \in Proc, Listen(p) PROVE TInv'
  BY <1>9 DEF Listen
<1>10. ASSUME NEW p \in Proc, Kill(p) PROVE TInv'
  BY <1>10 DEF Kill
<1>11. CASE Flush
  BY <1>11 DEF Flush
<1>12. CASE HostCrash
  BY <1>12 DEF HostCrash
<1>13. CASE UNCHANGED vars
  BY <1>13 DEF vars
<1> QED
  BY <1>1, <1>2, <1>3, <1>4, <1>5, <1>6, <1>7, <1>8, <1>9, <1>10, <1>11, <1>12,
     <1>13 DEF Next, BootStep

LEMMA TInvAlways == Spec => []TInv
BY TInvInit, TInvNext, PTL DEF Spec

\* Every variable keeps its type, and no process ever listens without a seed.
THEOREM TypeCorrect == Spec => [](TypeOK /\ HasSeed)
BY TInvAlways, PTL DEF TInv

--------------------------------------------------------------------------------

(***************************************************************************)
(* One process at a time on a healthy disk.  The argument: a process       *)
(* listens only after its seed is wholly in the file, so from the first    *)
(* publication on the file holds the published key, and a boot that finds  *)
(* a whole seed never writes.  Kills before that point may leave the file  *)
(* torn, but then nothing was published yet.                               *)
(***************************************************************************)
OneHealthyProcess ==
    /\ \A p, q \in Proc : p = q
    /\ ~ReadMayFail
    /\ ~WriteMayFail
    /\ ~HostMayCrash
    /\ \A p \in Proc : EnvSeed[p] = NoSeed

StoredBeforeServed ==
    \A p \in Proc : pc[p] \in {"ready", "up"} => mine[p] = file

PublishedIsStored ==
    published # {} =>
        /\ file \in Seed
        /\ published = {file}
        /\ \A p \in Proc : pc[p] \in {"start", "read", "ready", "up"}

\* A whole seed is never drawn over.
WritesOverNothing ==
    \A p \in Proc : pc[p] \in {"draw", "open", "write"} => file \notin Seed

KInv == TInv /\ StoredBeforeServed /\ PublishedIsStored /\ WritesOverNothing

LEMMA KInvInit == Init => KInv
BY TInvInit DEF Init, KInv, StoredBeforeServed, PublishedIsStored, WritesOverNothing

LEMMA KInvNext ==
    ASSUME OneHealthyProcess
    PROVE  KInv /\ [Next]_vars => KInv'
<1> SUFFICES ASSUME KInv, [Next]_vars PROVE KInv'
  OBVIOUS
<1>0. TInv'
  BY TInvNext DEF KInv
<1> USE <1>0, OneHealthyProcess, SeedAssumption
    DEF OneHealthyProcess, KInv, TInv, TypeOK, HasSeed, Boot, Goto, Take,
        StoredBeforeServed, PublishedIsStored, WritesOverNothing
<1>1. ASSUME NEW p \in Proc, UseEnv(p) PROVE KInv'
  BY <1>1 DEF UseEnv
<1>2. ASSUME NEW p \in Proc, Stat(p) PROVE KInv'
  BY <1>2 DEF Stat
<1>3. ASSUME NEW p \in Proc, ReadSeed(p) PROVE KInv'
  BY <1>3 DEF ReadSeed
<1>4. ASSUME NEW p \in Proc, ReadFallsThrough(p) PROVE KInv'
  BY <1>4 DEF ReadFallsThrough
<1>5. ASSUME NEW p \in Proc, Draw(p) PROVE KInv'
  BY <1>5 DEF Draw
<1>6. ASSUME NEW p \in Proc, Open(p) PROVE KInv'
  BY <1>6 DEF Open
<1>7. ASSUME NEW p \in Proc, Write(p) PROVE KInv'
  BY <1>7 DEF Write
<1>8. ASSUME NEW p \in Proc, WriteFails(p) PROVE KInv'
  BY <1>8 DEF WriteFails
<1>9. ASSUME NEW p \in Proc, Listen(p) PROVE KInv'
  BY <1>9 DEF Listen
<1>10. ASSUME NEW p \in Proc, Kill(p) PROVE KInv'
  BY <1>10 DEF Kill
<1>11. CASE Flush
  BY <1>11 DEF Flush
<1>12. CASE HostCrash
  BY <1>12 DEF HostCrash
<1>13. CASE UNCHANGED vars
  BY <1>13 DEF vars
<1> QED
  BY <1>1, <1>2, <1>3, <1>4, <1>5, <1>6, <1>7, <1>8, <1>9, <1>10, <1>11, <1>12,
     <1>13 DEF Next, BootStep

LEMMA KInvAlways ==
    ASSUME OneHealthyProcess
    PROVE  Spec => []KInv
BY KInvInit, KInvNext, PTL DEF Spec

\* One process, killed and restarted at any point any number of times on a
\* disk that works, never publishes a second key (key.js:4-5).
THEOREM KeyStableOneProcess ==
    ASSUME OneHealthyProcess
    PROVE  Spec => []KeyStable
<1>1. KInv => KeyStable
  BY DEF KInv, PublishedIsStored, KeyStable
<1> QED
  BY <1>1, KInvAlways, PTL

\* The file that once held a seed is left alone, and a process that listens has
\* its seed: every step of the boot is a step of SigningIdentity or no step of it.
THEOREM SeedBootImplementsIdentity ==
    ASSUME OneHealthyProcess
    PROVE  Spec => ImplementsIdentity
<1>1. Init => Identity!IdInit
  BY SeedAssumption DEF Init, Identity!IdInit
<1>2. KInv /\ KInv' /\ [Next]_vars => [Identity!IdNext]_(Identity!idvars)
  <2> SUFFICES ASSUME KInv, KInv', [Next]_vars
               PROVE  Identity!IdNext \/ UNCHANGED Identity!idvars
    OBVIOUS
  <2> DEFINE stored == IF file \in Seed THEN file ELSE NoSeed
             serving == [q \in Proc |-> IF pc[q] = "up" THEN mine[q] ELSE NoSeed]
  <2> USE SeedAssumption, SwitchAssumption, OneHealthyProcess
          DEF OneHealthyProcess, KInv, TInv, TypeOK, HasSeed, Boot, Goto, Take,
              StoredBeforeServed, WritesOverNothing
  <2>1. ASSUME NEW p \in Proc, Listen(p) PROVE Identity!Serve(p)
    <3>1. mine[p] \in Seed /\ mine[p] = file /\ file' = file /\ mine' = mine
      BY <2>1 DEF Listen
    <3>2. pc[p] # "up" /\ pc' = [pc EXCEPT ![p] = "up"]
      BY <2>1 DEF Listen
    <3> QED
      BY <3>1, <3>2 DEF Identity!Serve
  <2>2. ASSUME NEW p \in Proc, Write(p) PROVE \E k \in Seed : Identity!Store(k)
    <3>1. file \notin Seed /\ mine[p] \in Seed /\ file' = mine[p] /\ mine' = mine
      BY <2>2 DEF Write
    <3>2. serving' = serving
      BY <2>2 DEF Write
    <3> QED
      BY <3>1, <3>2 DEF Identity!Store
  <2>3. ASSUME NEW p \in Proc, Kill(p) PROVE Identity!Stop({p})
    BY <2>3 DEF Kill, Identity!Stop
  <2>4. ASSUME NEW p \in Proc,
               \/ UseEnv(p) \/ Stat(p) \/ ReadSeed(p) \/ ReadFallsThrough(p)
               \/ Draw(p) \/ Open(p) \/ WriteFails(p)
        PROVE  UNCHANGED Identity!idvars
    <3>1. stored' = stored
      BY <2>4 DEF UseEnv, Stat, ReadSeed, ReadFallsThrough, Draw, Open, WriteFails
    <3>2. serving' = serving
      BY <2>4 DEF UseEnv, Stat, ReadSeed, ReadFallsThrough, Draw, Open, WriteFails
    <3> QED
      BY <3>1, <3>2 DEF Identity!idvars
  <2>5. ASSUME Flush \/ UNCHANGED vars PROVE UNCHANGED Identity!idvars
    BY <2>5 DEF Flush, vars, Identity!idvars
  <2> QED
    BY <2>1, <2>2, <2>3, <2>4, <2>5 DEF Next, BootStep, Identity!IdNext, HostCrash
<1> QED
  BY <1>1, <1>2, KInvAlways, PTL DEF Spec, ImplementsIdentity, Identity!IdSpec

--------------------------------------------------------------------------------

\* A process with a seed in its environment never looks at the disk.
EInv ==
    \A p \in Proc :
        EnvSeed[p] # NoSeed =>
            /\ pc[p] \in {"start", "ready", "up"}
            /\ pc[p] # "start" => mine[p] = EnvSeed[p]

LEMMA EInvAlways == Spec => []EInv
<1>1. Init => EInv
  BY DEF Init, EInv
<1>2. TInv /\ EInv /\ [Next]_vars => EInv'
  BY SeedAssumption
     DEF EInv, TInv, TypeOK, Next, BootStep, UseEnv, Stat, ReadSeed,
      ReadFallsThrough, Draw, Open, Write, WriteFails, Listen, Kill, Flush,
      HostCrash, vars, Goto, Take
<1> QED
  BY <1>1, <1>2, TInvAlways, PTL DEF Spec

\* A process that was given a seed listens with it, whatever fails and whatever
\* other processes do to the file (src/README.md:67-68).
THEOREM ConfiguredSeedIsUsed == Spec => []ConfiguredSeedRules
<1>1. EInv => ConfiguredSeedRules
  BY DEF EInv, ConfiguredSeedRules
<1> QED
  BY <1>1, EInvAlways, PTL

\* Given the same seed, any number of processes publish one key, whatever fails.
THEOREM KeyStableFromEnvironment ==
    ASSUME NEW s \in Seed, \A p \in Proc : EnvSeed[p] = s
    PROVE  Spec => []KeyStable
<1> DEFINE OnlyS == published \subseteq {s}
<1>1. Init => OnlyS
  BY DEF Init
<1>2. EInv /\ OnlyS /\ [Next]_vars => OnlyS'
  BY SeedAssumption
     DEF EInv, Next, BootStep, UseEnv, Stat, ReadSeed, ReadFallsThrough, Draw, Open,
      Write, WriteFails, Listen, Kill, Flush, HostCrash, vars
<1>3. OnlyS => KeyStable
  BY DEF KeyStable
<1> QED
  BY <1>1, <1>2, <1>3, EInvAlways, PTL DEF Spec

\* As long as a file that is there can be read, a settled seed stays settled,
\* for any number of processes and through write errors and host crashes.
THEOREM SettledSeedIsKept ==
    ASSUME ~ReadMayFail
    PROVE  Spec => SettledSeedKept
<1>1. TInv /\ [Next]_vars => [\A s \in Seed : Settled(s) => Settled(s)']_vars
  <2> SUFFICES ASSUME TInv, Next, NEW s \in Seed, Settled(s)
               PROVE  Settled(s)'
    OBVIOUS
  <2>1. file = s /\ disk = s /\ file # Absent
    BY SeedAssumption DEF Settled
  <2> QED
    BY <2>1 DEF Settled, TInv, TypeOK, Next, BootStep, UseEnv, Stat, ReadSeed,
        ReadFallsThrough, Draw, Open, Write, WriteFails, Listen, Kill, Flush,
        HostCrash, Goto
<1> QED
  BY <1>1, TInvAlways, PTL DEF Spec, SettledSeedKept
================================================================================
