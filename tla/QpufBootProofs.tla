---------------------------- MODULE QpufBootProofs ----------------------------
(***************************************************************************)
(* Theorems about QpufBoot, for any secrets, challenges and kills.         *)
(***************************************************************************)
EXTENDS QpufBoot, TLAPS

InPuf == {"puf", "pufOpen", "pufWrite"}

\* What a process holds by the time it is at some step.
Holds(p) ==
    /\ pc[p] \in {"pufOpen", "pufWrite", "enroll", "bind", "check"} => fp[p] \in Secret
    /\ (pc[p] \in InPuf /\ task[p] = "bind") \/ pc[p] = "bind" => helper[p] \in Challenge
    /\ (pc[p] \in InPuf /\ task[p] = "check")
          \/ pc[p] \in {"saveOpen", "saveWrite", "check"} => enr[p] \in Enrollment

TInv == TypeOK /\ \A p \in Proc : Holds(p)

LEMMA NewEnrollmentType ==
    ASSUME NEW p \in Proc, helper[p] \in Challenge, fp[p] \in Secret
    PROVE  /\ NewEnrollment(p) \in Enrollment
           /\ NewEnrollment(p).helper = helper[p]
           /\ NewEnrollment(p).device_public_id = Response(helper[p], fp[p])
BY DEF NewEnrollment, Enrollment, Response, Key

LEMMA LiveKeyType ==
    ASSUME NEW p \in Proc, enr[p] \in Enrollment, fp[p] \in Secret
    PROVE  [enr |-> enr[p], key |-> LiveKey(p)] \in [enr : Enrollment, key : Key]
BY DEF LiveKey, Enrollment, Response, Key

LEMMA TInvInit == Init => TInv
BY DEF Init, TInv, TypeOK, Holds, InPuf, Steps

LEMMA TInvNext == TInv /\ [Next]_vars => TInv'
<1> SUFFICES ASSUME TInv, [Next]_vars PROVE TInv'
  OBVIOUS
<1> USE DEF TInv, TypeOK, Holds, InPuf, Steps, Goto, AskPuf, files, locals
<1>1. ASSUME NEW p \in Proc, PufRead(p) PROVE TInv'
  BY <1>1 DEF PufRead
<1>2. ASSUME NEW p \in Proc, PufMake(p) PROVE TInv'
  BY <1>2 DEF PufMake
<1>3. ASSUME NEW p \in Proc, PufOpen(p) PROVE TInv'
  BY <1>3 DEF PufOpen
<1>4. ASSUME NEW p \in Proc, PufWrite(p) PROVE TInv'
  BY <1>4 DEF PufWrite
<1>5. ASSUME NEW p \in Proc, PufWriteFails(p) PROVE TInv'
  BY <1>5 DEF PufWriteFails
<1>6. ASSUME NEW p \in Proc, LoadEnrollment(p) PROVE TInv'
  BY <1>6 DEF LoadEnrollment
<1>7. ASSUME NEW p \in Proc, LoadNull(p) PROVE TInv'
  BY <1>7 DEF LoadNull
<1>8. ASSUME NEW p \in Proc, DrawEntropy(p) PROVE TInv'
  BY <1>8 DEF DrawEntropy
<1>9. ASSUME NEW p \in Proc, EntropyFails(p) PROVE TInv'
  BY <1>9 DEF EntropyFails
<1>10. ASSUME NEW p \in Proc, MixChallenge(p) PROVE TInv'
  BY <1>10 DEF MixChallenge
<1>11. ASSUME NEW p \in Proc, Bind(p) PROVE TInv'
  <2>1. NewEnrollment(p) \in Enrollment
    BY <1>11, NewEnrollmentType DEF Bind
  <2> QED
    BY <1>11, <2>1 DEF Bind
<1>12. ASSUME NEW p \in Proc, SaveOpen(p) PROVE TInv'
  BY <1>12 DEF SaveOpen
<1>13. ASSUME NEW p \in Proc, SaveWrite(p) PROVE TInv'
  BY <1>13 DEF SaveWrite
<1>14. ASSUME NEW p \in Proc, SaveFails(p) PROVE TInv'
  BY <1>14 DEF SaveFails
<1>15. ASSUME NEW p \in Proc, Serve(p) PROVE TInv'
  <2>1. [enr |-> enr[p], key |-> LiveKey(p)] \in [enr : Enrollment, key : Key]
    BY <1>15, LiveKeyType DEF Serve
  <2> QED
    BY <1>15, <2>1 DEF Serve
<1>16. ASSUME NEW p \in Proc, Mismatch(p) PROVE TInv'
  BY <1>16 DEF Mismatch
<1>17. ASSUME NEW p \in Proc, Kill(p) PROVE TInv'
  BY <1>17 DEF Kill
<1>18. CASE UNCHANGED vars
  BY <1>18 DEF vars
<1> QED
  BY <1>1, <1>2, <1>3, <1>4, <1>5, <1>6, <1>7, <1>8, <1>9, <1>10, <1>11, <1>12,
     <1>13, <1>14, <1>15, <1>16, <1>17, <1>18 DEF Next, BootStep

LEMMA TInvAlways == Spec => []TInv
BY TInvInit, TInvNext, PTL DEF Spec

\* Files, locals and published records keep their types, and each step of the
\* boot finds what it needs.
THEOREM QpufTypeCorrect == Spec => []TypeOK
<1>1. TInv => TypeOK
  BY DEF TInv
<1> QED
  BY <1>1, TInvAlways, PTL

--------------------------------------------------------------------------------

(* A whole record and a whole secret on disk, fitting or not *)

LEMMA ForeignStep ==
    ASSUME {"secret_read", "enroll_read"} \cap Faults = {}, TInv, Foreign, [Next]_vars
    PROVE  Foreign' /\ published' = published
<1> USE DEF Foreign, AtRest, RecordFitsSecret, TInv, TypeOK, Steps, Goto, AskPuf,
            files, locals
<1>1. ASSUME NEW p \in Proc, PufRead(p) PROVE Foreign' /\ published' = published
  BY <1>1 DEF PufRead
<1>2. ASSUME NEW p \in Proc, LoadEnrollment(p) PROVE Foreign' /\ published' = published
  BY <1>2 DEF LoadEnrollment
<1>3. ASSUME NEW p \in Proc, Mismatch(p) PROVE Foreign' /\ published' = published
  BY <1>3 DEF Mismatch
<1>4. ASSUME NEW p \in Proc, Kill(p) PROVE Foreign' /\ published' = published
  BY <1>4 DEF Kill
<1>5. ASSUME NEW p \in Proc, Serve(p) PROVE FALSE
  <2>1. pc[p] = "check" /\ LiveKey(p) = enr[p].device_public_id
    BY <1>5 DEF Serve
  <2>2. enr[p] = enroll /\ fp[p] = secret
    BY <2>1
  <2> QED
    BY <2>1, <2>2 DEF LiveKey
<1>6. ASSUME NEW p \in Proc,
             \/ PufMake(p) \/ PufOpen(p) \/ PufWrite(p) \/ PufWriteFails(p)
             \/ LoadNull(p) \/ DrawEntropy(p) \/ EntropyFails(p) \/ MixChallenge(p)
             \/ Bind(p) \/ SaveOpen(p) \/ SaveWrite(p) \/ SaveFails(p)
      PROVE  FALSE
  BY <1>6 DEF PufMake, PufOpen, PufWrite, PufWriteFails, LoadNull, DrawEntropy,
              EntropyFails, MixChallenge, Bind, SaveOpen, SaveWrite, SaveFails
<1>7. CASE UNCHANGED vars
  BY <1>7 DEF vars
<1> QED
  BY <1>1, <1>2, <1>3, <1>4, <1>5, <1>6, <1>7 DEF Next, BootStep

\* A record that does not fit the secret on disk keeps the signer closed for
\* good, for any number of processes and kills, as long as the files can be
\* read (index.js:105-109).
THEOREM ForeignRecordStaysClosed ==
    ASSUME {"secret_read", "enroll_read"} \cap Faults = {}
    PROVE  Spec => ForeignStaysClosed
<1>1. TInv /\ [Next]_vars => [Foreign => Foreign' /\ published' = published]_vars
  BY ForeignStep
<1> QED
  BY <1>1, TInvAlways, PTL DEF Spec, ForeignStaysClosed

\* What EnrolledStaysOpen says of a step from an enrolled device.
KeptOpen ==
    /\ Enrolled'
    /\ UNCHANGED files
    /\ \A p \in Proc : pc'[p] = "degraded" => pc[p] = "degraded"
    /\ published' \subseteq
          published \cup {[enr |-> enroll, key |-> enroll.device_public_id]}

LEMMA EnrolledStep ==
    ASSUME {"secret_read", "enroll_read"} \cap Faults = {}, TInv, Enrolled, [Next]_vars
    PROVE  KeptOpen
<1> USE DEF Enrolled, KeptOpen, AtRest, RecordFitsSecret, TInv, TypeOK, Steps, Goto,
            AskPuf, files, locals
<1>1. ASSUME NEW p \in Proc, PufRead(p) PROVE KeptOpen
  BY <1>1 DEF PufRead
<1>2. ASSUME NEW p \in Proc, LoadEnrollment(p) PROVE KeptOpen
  BY <1>2 DEF LoadEnrollment
<1>3. ASSUME NEW p \in Proc, Mismatch(p) PROVE FALSE
  <2>1. pc[p] = "check" /\ LiveKey(p) # enr[p].device_public_id
    BY <1>3 DEF Mismatch
  <2>2. enr[p] = enroll /\ fp[p] = secret
    BY <2>1
  <2> QED
    BY <2>1, <2>2 DEF LiveKey
<1>4. ASSUME NEW p \in Proc, Kill(p) PROVE KeptOpen
  BY <1>4 DEF Kill
<1>5. ASSUME NEW p \in Proc, Serve(p) PROVE KeptOpen
  <2>1. enr[p] = enroll /\ LiveKey(p) = enroll.device_public_id
    BY <1>5 DEF Serve
  <2> QED
    BY <1>5, <2>1 DEF Serve
<1>6. ASSUME NEW p \in Proc,
             \/ PufMake(p) \/ PufOpen(p) \/ PufWrite(p) \/ PufWriteFails(p)
             \/ LoadNull(p) \/ DrawEntropy(p) \/ EntropyFails(p) \/ MixChallenge(p)
             \/ Bind(p) \/ SaveOpen(p) \/ SaveWrite(p) \/ SaveFails(p)
      PROVE  FALSE
  BY <1>6 DEF PufMake, PufOpen, PufWrite, PufWriteFails, LoadNull, DrawEntropy,
              EntropyFails, MixChallenge, Bind, SaveOpen, SaveWrite, SaveFails
<1>7. CASE UNCHANGED vars
  BY <1>7 DEF vars
<1> QED
  BY <1>1, <1>2, <1>3, <1>4, <1>5, <1>6, <1>7 DEF Next, BootStep

\* An enrolled device is never turned away again and never loses its record, for
\* any number of processes, kills, failing writes and failing entropy sources, as
\* long as the files can be read (index.js:97-109).
THEOREM EnrolledDeviceStaysOpen ==
    ASSUME {"secret_read", "enroll_read"} \cap Faults = {}
    PROVE  Spec => EnrolledStaysOpen
<1>1. TInv /\ [Next]_vars => [Enrolled => KeptOpen]_vars
  BY EnrolledStep
<1> QED
  BY <1>1, TInvAlways, PTL DEF Spec, EnrolledStaysOpen, KeptOpen

--------------------------------------------------------------------------------
(***************************************************************************)
(* One process at a time on a healthy disk.  A whole record on disk was    *)
(* always made with the secret on disk, and a process that enrolls does so *)
(* because no key was ever published.                                      *)
(***************************************************************************)

OneHealthyDevice == Faults = {} /\ \E p \in Proc : Proc = {p}

Authentic(e) == e.device_public_id = Response(e.helper, secret)

Enrolling(p) ==
    \/ pc[p] \in {"entropy", "enroll", "bind", "saveOpen", "saveWrite"}
    \/ pc[p] \in InPuf /\ task[p] # "check"

RecordFits == enroll \in Enrollment => secret \in Secret /\ Authentic(enroll)

PublishedIsRecord ==
    published # {} =>
        /\ enroll \in Enrollment
        /\ \A r \in published : r.key = enroll.device_public_id

Working(p) ==
    /\ pc[p] # "degraded"
    /\ Enrolling(p) => enroll \notin Enrollment
    /\ pc[p] \in {"pufOpen", "pufWrite"} => secret \notin Secret
    /\ pc[p] \in {"enroll", "bind", "saveOpen", "saveWrite", "check"} =>
          secret \in Secret /\ fp[p] = secret
    /\ pc[p] \in {"saveOpen", "saveWrite"} => enr[p] \in Enrollment /\ Authentic(enr[p])
    /\ (pc[p] \in InPuf /\ task[p] = "check") \/ pc[p] = "check" =>
          enr[p] = enroll /\ enroll \in Enrollment

DInv == TInv /\ RecordFits /\ PublishedIsRecord /\ \A p \in Proc : Working(p)

LEMMA DInvInit == Init => DInv
BY TInvInit, FileAssumption
   DEF Init, DInv, RecordFits, PublishedIsRecord, Working, Enrolling, InPuf

LEMMA DInvNext ==
    ASSUME OneHealthyDevice, DInv, [Next]_vars PROVE DInv'
<1>0. TInv'
  BY TInvNext DEF DInv
<1>1. PICK p \in Proc : Proc = {p}
  BY DEF OneHealthyDevice
<1>2. Faults = {} /\ Working(p) /\ Holds(p) /\ TypeOK /\ RecordFits /\ PublishedIsRecord
  BY DEF OneHealthyDevice, DInv, TInv
<1> SUFFICES RecordFits' /\ PublishedIsRecord' /\ Working(p)'
  BY <1>0, <1>1 DEF DInv
<1> USE <1>1, <1>2, QpufAssumption, FileAssumption
    DEF TypeOK, Holds, InPuf, Steps, Goto, AskPuf, files, locals, RecordFits,
        PublishedIsRecord, Working, Enrolling, Authentic
<1>3. CASE PufRead(p)
  BY <1>3 DEF PufRead
<1>4. CASE PufMake(p)
  BY <1>4 DEF PufMake
<1>5. CASE PufOpen(p)
  BY <1>5 DEF PufOpen
<1>6. CASE PufWrite(p)
  BY <1>6 DEF PufWrite
<1>7. CASE LoadEnrollment(p)
  BY <1>7 DEF LoadEnrollment
<1>8. CASE LoadNull(p)
  BY <1>8 DEF LoadNull
<1>9. CASE DrawEntropy(p)
  BY <1>9 DEF DrawEntropy
<1>10. CASE MixChallenge(p)
  BY <1>10 DEF MixChallenge
<1>11. CASE Bind(p)
  <2>1. NewEnrollment(p) \in Enrollment /\ Authentic(NewEnrollment(p))
    BY <1>11, NewEnrollmentType DEF Bind
  <2> QED
    BY <1>11, <2>1 DEF Bind
<1>12. CASE SaveOpen(p)
  BY <1>12 DEF SaveOpen
<1>13. CASE SaveWrite(p)
  BY <1>13 DEF SaveWrite
<1>14. CASE Serve(p)
  BY <1>14 DEF Serve
<1>15. CASE Mismatch(p)
  BY <1>15 DEF Mismatch, LiveKey
<1>16. CASE Kill(p)
  BY <1>16 DEF Kill
<1>17. CASE UNCHANGED vars
  BY <1>17 DEF vars
<1>18. ~PufWriteFails(p) /\ ~EntropyFails(p) /\ ~SaveFails(p)
  BY DEF PufWriteFails, EntropyFails, SaveFails
<1> QED
  BY <1>3, <1>4, <1>5, <1>6, <1>7, <1>8, <1>9, <1>10, <1>11, <1>12, <1>13,
     <1>14, <1>15, <1>16, <1>17, <1>18 DEF Next, BootStep

LEMMA DInvAlways ==
    ASSUME OneHealthyDevice
    PROVE  Spec => []DInv
BY DInvInit, DInvNext, PTL DEF Spec

\* One device, killed and restarted at any point any number of times, has one
\* key (test_qpuf.mjs, T4).
THEOREM DeviceKeyStable ==
    ASSUME OneHealthyDevice
    PROVE  Spec => []KeyStable
<1>1. DInv => KeyStable
  BY DEF DInv, PublishedIsRecord, KeyStable
<1> QED
  BY <1>1, DInvAlways, PTL

\* ... and is never refused as if it were another.
THEOREM DeviceNeverTurnedAway ==
    ASSUME OneHealthyDevice
    PROVE  Spec => []NeverTurnedAway
<1>1. DInv => NeverTurnedAway
  BY DEF DInv, Working, NeverTurnedAway
<1> QED
  BY <1>1, DInvAlways, PTL

\* Its boot is a refinement of SigningIdentity: the record, once written, is left
\* alone, and a process serves under the key it names.
THEOREM QpufBootImplementsIdentity ==
    ASSUME OneHealthyDevice
    PROVE  Spec => ImplementsIdentity
<1>1. Init => Identity!IdInit
  BY FileAssumption DEF Init, Identity!IdInit
<1>2. DInv /\ DInv' /\ [Next]_vars => [Identity!IdNext]_(Identity!idvars)
  <2> SUFFICES ASSUME DInv, DInv', [Next]_vars
               PROVE  Identity!IdNext \/ UNCHANGED Identity!idvars
    OBVIOUS
  <2> DEFINE stored == IF enroll \in Enrollment THEN enroll.device_public_id ELSE None
             serving == [q \in Proc |-> IF pc[q] = "up" THEN LiveKey(q) ELSE None]
  <2>0. PICK p \in Proc : Proc = {p}
    BY DEF OneHealthyDevice
  <2>a. Faults = {} /\ Working(p) /\ Holds(p) /\ TypeOK /\ RecordFits
    BY DEF OneHealthyDevice, DInv, TInv
  <2> USE <2>0, <2>a, FileAssumption
          DEF TypeOK, Holds, InPuf, Steps, Goto, AskPuf, files, locals, RecordFits,
              Working, Enrolling, Authentic
  <2>1. CASE Serve(p)
    <3>1. /\ enroll \in Enrollment /\ enroll' = enroll
          /\ pc[p] = "check" /\ pc' = [pc EXCEPT ![p] = "up"]
          /\ LiveKey(p) = enroll.device_public_id
      BY <2>1 DEF Serve
    <3>2. enroll.device_public_id # None
      BY <3>1 DEF Enrollment
    <3>3. LiveKey(p)' = LiveKey(p)
      BY <2>1 DEF Serve, LiveKey
    <3>4. serving' = [serving EXCEPT ![p] = stored]
      BY <3>1, <3>3
    <3> QED
      BY <3>1, <3>2, <3>4 DEF Identity!Serve, Identity!IdNext
  <2>2. CASE SaveWrite(p)
    <3>1. enroll \notin Enrollment /\ enr[p] \in Enrollment /\ enroll' = enr[p]
      BY <2>2 DEF SaveWrite
    <3>2. serving' = serving
      BY <2>2 DEF SaveWrite
    <3>3. enr[p].device_public_id \in Key
      BY <3>1 DEF Enrollment
    <3> QED
      BY <3>1, <3>2, <3>3 DEF Identity!Store, Identity!IdNext
  <2>3. CASE Kill(p)
    <3>1. stored' = stored /\ serving' = [q \in Proc |-> None]
      BY <2>3 DEF Kill
    <3>2. Identity!Stop({p})
      BY <3>1 DEF Identity!Stop
    <3> QED
      BY <3>2 DEF Identity!IdNext
  <2>4. CASE \/ PufRead(p) \/ PufMake(p) \/ PufOpen(p) \/ PufWrite(p)
             \/ PufWriteFails(p) \/ LoadEnrollment(p) \/ LoadNull(p) \/ DrawEntropy(p)
             \/ EntropyFails(p) \/ MixChallenge(p) \/ Bind(p) \/ SaveOpen(p)
             \/ SaveFails(p) \/ Mismatch(p)
    <3>1. stored' = stored
      BY <2>4 DEF PufRead, PufMake, PufOpen, PufWrite, PufWriteFails, LoadEnrollment,
          LoadNull, DrawEntropy, EntropyFails, MixChallenge, Bind, SaveOpen,
          SaveFails, Mismatch
    <3>2. pc[p] # "up" /\ pc'[p] # "up"
      BY <2>4 DEF PufRead, PufMake, PufOpen, PufWrite, PufWriteFails, LoadEnrollment,
          LoadNull, DrawEntropy, EntropyFails, MixChallenge, Bind, SaveOpen,
          SaveFails, Mismatch
    <3>3. serving' = serving
      BY <3>2
    <3> QED
      BY <3>1, <3>3 DEF Identity!idvars
  <2>5. CASE UNCHANGED vars
    BY <2>5 DEF vars, Identity!idvars, LiveKey
  <2> QED
    BY <2>1, <2>2, <2>3, <2>4, <2>5 DEF Next, BootStep
<1> QED
  BY <1>1, <1>2, DInvAlways, PTL DEF Spec, ImplementsIdentity, Identity!IdSpec
================================================================================
