------------------------------- MODULE QpufBoot -------------------------------
(***************************************************************************)
(* qpuf/index.js and qpuf/puf.js: how a process obtains the device-bound   *)
(* signer at boot.                                                         *)
(*                                                                         *)
(* getQpufSigner() loads the enrollment record or enrolls the device, asks *)
(* the simulated PUF for its response to the enrolled challenge, and       *)
(* throws when the fingerprint is not the enrolled one; server.js then     *)
(* runs on without a QPuF signer (503 on its routes).  The PUF is a secret *)
(* in a file that readPufResponse() "manufactures" whenever it cannot read *)
(* it.  Both files are written by writeFileSync with errors swallowed, so  *)
(* each write is an open that truncates and a write, either may fail, and  *)
(* a kill may fall anywhere.                                               *)
(*                                                                         *)
(* The response of secret s to challenge c is the pair <<c, s>>: the hash  *)
(* is injective, and so are the fingerprint (device_public_id) and the key *)
(* pair derived from it, which the same pair therefore stands for.         *)
(***************************************************************************)
EXTENDS Naturals

CONSTANTS
    Proc, Secret, Challenge,
    None,           \* no value
    Absent, Torn,   \* a file that is missing; present but not well formed
    Faults,         \* which calls may fail, see AllFaults
    MaxKill         \* bound on kills

AllFaults == {"secret_read", "secret_write", "enroll_read", "enroll_write", "entropy"}

ASSUME QpufAssumption ==
    /\ Faults \subseteq AllFaults
    /\ MaxKill \in Nat
    /\ Absent # Torn
    /\ {None, Absent, Torn} \cap Secret = {}

Response(c, s) == <<c, s>>

Key == Challenge \X Secret

\* What qpuf_enrollment.json holds: the public helper and the fingerprint.
Enrollment == [helper : Challenge, device_public_id : Key]

ASSUME FileAssumption ==
    /\ {None, Absent, Torn} \cap Enrollment = {}
    /\ None \notin Challenge
    /\ None \notin Key

VARIABLES
    secret,     \* device_puf_secret.bin
    enroll,     \* qpuf_enrollment.json
    pc,         \* where each process is in getQpufSigner()
    task,       \* what readPufResponse() was called for
    fp,         \* the secret its last call answered with, or None
    helper,     \* the challenge being enrolled, or None
    enr,        \* the enrollment record in memory, or None
    used,       \* history: the secrets and challenges drawn at random
    published,  \* history: [enr, key] of every QPuF signer that served
    kills

files == <<secret, enroll>>
locals == <<task, fp, helper, enr>>
vars == <<files, pc, locals, used, published, kills>>

Steps == {"start", "entropy", "puf", "pufOpen", "pufWrite", "enroll", "bind",
          "saveOpen", "saveWrite", "check", "up", "degraded"}

TypeOK ==
    /\ secret \in Secret \cup {Absent, Torn}
    /\ enroll \in Enrollment \cup {Absent, Torn}
    /\ pc \in [Proc -> Steps]
    /\ task \in [Proc -> {"enroll", "bind", "check"}]
    /\ fp \in [Proc -> Secret \cup {None}]
    /\ helper \in [Proc -> Challenge \cup {None}]
    /\ enr \in [Proc -> Enrollment \cup {None}]
    /\ used \in SUBSET (Secret \cup Challenge)
    /\ published \in SUBSET [enr : Enrollment, key : Key]
    /\ kills \in Nat

Init ==
    /\ secret = Absent
    /\ enroll = Absent
    /\ pc = [p \in Proc |-> "start"]
    /\ task = [p \in Proc |-> "check"]
    /\ fp = [p \in Proc |-> None]
    /\ helper = [p \in Proc |-> None]
    /\ enr = [p \in Proc |-> None]
    /\ used = {}
    /\ published = {}
    /\ kills = 0

Goto(p, l) == pc' = [pc EXCEPT ![p] = l]

\* readPufResponse() is called, to come back at step t.
AskPuf(p, t) ==
    /\ Goto(p, "puf")
    /\ task' = [task EXCEPT ![p] = t]

--------------------------------------------------------------------------------
(* readPufResponse (puf.js) *)

PufRead(p) ==
    /\ pc[p] = "puf"
    /\ secret \in Secret
    /\ fp' = [fp EXCEPT ![p] = secret]
    /\ Goto(p, task[p])
    /\ UNCHANGED <<files, task, helper, enr, used, published, kills>>

\* (Slip: the manufactured secret is kept in memory only.)
PufMakeUnsaved(p) ==
    /\ pc[p] = "puf"
    /\ secret \in Secret => "secret_read" \in Faults
    /\ \E s \in Secret \ used :
          /\ fp' = [fp EXCEPT ![p] = s]
          /\ used' = used \cup {s}
    /\ Goto(p, task[p])
    /\ UNCHANGED <<files, task, helper, enr, published, kills>>

\* Missing, unreadable or of the wrong length: a new secret is drawn.
PufMake(p) ==
    /\ pc[p] = "puf"
    /\ secret \in Secret => "secret_read" \in Faults
    /\ \E s \in Secret \ used :
          /\ fp' = [fp EXCEPT ![p] = s]
          /\ used' = used \cup {s}
    /\ Goto(p, "pufOpen")
    /\ UNCHANGED <<files, task, helper, enr, published, kills>>

\* (Slip: an empty secret counts as one.)
PufOpenEmpty(p) ==
    /\ pc[p] = "pufOpen"
    /\ secret' = None
    /\ Goto(p, "pufWrite")
    /\ UNCHANGED <<enroll, locals, used, published, kills>>

PufOpen(p) ==
    /\ pc[p] = "pufOpen"
    /\ secret' = Torn
    /\ Goto(p, "pufWrite")
    /\ UNCHANGED <<enroll, locals, used, published, kills>>

PufWrite(p) ==
    /\ pc[p] = "pufWrite"
    /\ secret' = fp[p]
    /\ Goto(p, task[p])
    /\ UNCHANGED <<enroll, locals, used, published, kills>>

PufWriteFails(p) ==
    /\ "secret_write" \in Faults
    /\ pc[p] \in {"pufOpen", "pufWrite"}
    /\ Goto(p, task[p])
    /\ UNCHANGED <<files, locals, used, published, kills>>

--------------------------------------------------------------------------------
(* getQpufSigner and enrollDevice (index.js) *)

\* A record that parses is used as it is.  (Slip: every boot saves it anew.)
LoadResaved(p) ==
    /\ pc[p] = "start"
    /\ enroll \in Enrollment
    /\ enr' = [enr EXCEPT ![p] = enroll]
    /\ Goto(p, "saveOpen")
    /\ UNCHANGED <<files, task, fp, helper, used, published, kills>>

LoadEnrollment(p) ==
    /\ pc[p] = "start"
    /\ enroll \in Enrollment
    /\ enr' = [enr EXCEPT ![p] = enroll]
    /\ AskPuf(p, "check")
    /\ UNCHANGED <<files, fp, helper, used, published, kills>>

\* A missing file and every error make loadEnrollment() return null.
\* (Slip: its test of the record rejects a good one too.)
LoadRejects(p) ==
    /\ pc[p] = "start"
    /\ Goto(p, "entropy")
    /\ UNCHANGED <<files, locals, used, published, kills>>

LoadNull(p) ==
    /\ pc[p] = "start"
    /\ enroll \in Enrollment => "enroll_read" \in Faults
    /\ Goto(p, "entropy")
    /\ UNCHANGED <<files, locals, used, published, kills>>

\* drawEntropy() passes its health checks; enroll() asks the PUF.
DrawEntropy(p) ==
    /\ pc[p] = "entropy"
    /\ AskPuf(p, "enroll")
    /\ UNCHANGED <<files, fp, helper, enr, used, published, kills>>

\* drawEntropy() throws on a failed health check.
EntropyFails(p) ==
    /\ "entropy" \in Faults
    /\ pc[p] = "entropy"
    /\ Goto(p, "degraded")
    /\ UNCHANGED <<files, locals, used, published, kills>>

\* The response to enroll()'s own challenge is not kept: the challenge is
\* mixed with the entropy, and the mixed one is put to the PUF again.
MixChallenge(p) ==
    /\ pc[p] = "enroll"
    /\ \E c \in Challenge \ used :
          /\ helper' = [helper EXCEPT ![p] = c]
          /\ used' = used \cup {c}
    /\ AskPuf(p, "bind")
    /\ UNCHANGED <<files, fp, enr, published, kills>>

NewEnrollment(p) ==
    [helper |-> helper[p], device_public_id |-> Response(helper[p], fp[p])]

\* (Slip: the record is never written.)
BindUnsaved(p) ==
    /\ pc[p] = "bind"
    /\ enr' = [enr EXCEPT ![p] = NewEnrollment(p)]
    /\ AskPuf(p, "check")
    /\ UNCHANGED <<files, fp, helper, used, published, kills>>

Bind(p) ==
    /\ pc[p] = "bind"
    /\ enr' = [enr EXCEPT ![p] = NewEnrollment(p)]
    /\ Goto(p, "saveOpen")
    /\ UNCHANGED <<files, task, fp, helper, used, published, kills>>

SaveOpen(p) ==
    /\ pc[p] = "saveOpen"
    /\ enroll' = Torn
    /\ Goto(p, "saveWrite")
    /\ UNCHANGED <<secret, locals, used, published, kills>>

SaveWrite(p) ==
    /\ pc[p] = "saveWrite"
    /\ enroll' = enr[p]
    /\ AskPuf(p, "check")
    /\ UNCHANGED <<secret, fp, helper, enr, used, published, kills>>

SaveFails(p) ==
    /\ "enroll_write" \in Faults
    /\ pc[p] \in {"saveOpen", "saveWrite"}
    /\ AskPuf(p, "check")
    /\ UNCHANGED <<files, fp, helper, enr, used, published, kills>>

LiveKey(p) == Response(enr[p].helper, fp[p])

\* The live fingerprint is the enrolled one: the signer is handed out.
Serve(p) ==
    /\ pc[p] = "check"
    /\ LiveKey(p) = enr[p].device_public_id
    /\ Goto(p, "up")
    /\ published' = published \cup {[enr |-> enr[p], key |-> LiveKey(p)]}
    /\ UNCHANGED <<files, locals, used, kills>>

\* (Slip: a mismatch enrolls the device anew instead of failing.)
MismatchReenrolls(p) ==
    /\ pc[p] = "check"
    /\ LiveKey(p) # enr[p].device_public_id
    /\ Goto(p, "entropy")
    /\ UNCHANGED <<files, locals, used, published, kills>>

\* qpuf_device_mismatch: server.js catches it and runs without the signer.
Mismatch(p) ==
    /\ pc[p] = "check"
    /\ LiveKey(p) # enr[p].device_public_id
    /\ Goto(p, "degraded")
    /\ UNCHANGED <<files, locals, used, published, kills>>

Kill(p) ==
    /\ kills < MaxKill
    /\ kills' = kills + 1
    /\ Goto(p, "start")
    /\ task' = [task EXCEPT ![p] = "check"]
    /\ fp' = [fp EXCEPT ![p] = None]
    /\ helper' = [helper EXCEPT ![p] = None]
    /\ enr' = [enr EXCEPT ![p] = None]
    /\ UNCHANGED <<files, used, published>>

BootStep(p) ==
    \/ PufRead(p) \/ PufMake(p) \/ PufOpen(p) \/ PufWrite(p) \/ PufWriteFails(p)
    \/ LoadEnrollment(p) \/ LoadNull(p) \/ DrawEntropy(p) \/ EntropyFails(p)
    \/ MixChallenge(p) \/ Bind(p) \/ SaveOpen(p) \/ SaveWrite(p) \/ SaveFails(p)
    \/ Serve(p) \/ Mismatch(p)

Next == \E p \in Proc : BootStep(p) \/ Kill(p)

Spec == Init /\ [][Next]_vars

--------------------------------------------------------------------------------

\* src/test_qpuf.mjs, T4: the same device has the same key after a restart.
KeyStable == \A r, t \in published : r.key = t.key

\* The authentic device is never turned away: as long as nothing fails, no
\* boot, whatever kills preceded it, ends without a QPuF signer.
NeverTurnedAway == \A p \in Proc : pc[p] # "degraded"

\* Secret and record are whole on disk, and every process that is past loading
\* the record works from that same pair.
AtRest ==
    /\ enroll \in Enrollment
    /\ secret \in Secret
    /\ \A p \in Proc :
          \/ pc[p] \in {"start", "up", "degraded"}
          \/ /\ pc[p] \in {"puf", "check"}
             /\ task[p] = "check"
             /\ enr[p] = enroll
             /\ pc[p] = "check" => fp[p] = secret

RecordFitsSecret == enroll.device_public_id = Response(enroll.helper, secret)

\* The record on disk was made with another secret than the one on disk.
Foreign == AtRest /\ ~RecordFitsSecret

\* index.js:105-109, FAIL CLOSED: from then on no process of that host ever
\* gets a QPuF signer, and nothing repairs, replaces or re-enrolls the record.
ForeignStaysClosed ==
    [][Foreign => Foreign' /\ published' = published]_vars

\* The device at rest with a record of its own.
Enrolled == AtRest /\ RecordFitsSecret

\* index.js:97-109, the other way round: whatever fails but a read, whoever boots
\* or is killed, an enrolled device keeps its record and its secret, no process
\* of it is turned away any more, and every one that serves has the enrolled key.
EnrolledStaysOpen ==
    [][Enrolled =>
          /\ Enrolled'
          /\ UNCHANGED files
          /\ \A p \in Proc : pc'[p] = "degraded" => pc[p] = "degraded"
          /\ published' \subseteq
                published \cup {[enr |-> enroll, key |-> enroll.device_public_id]}]_vars

\* The record is the store of SigningIdentity, and a process that serves signs
\* with what it derived itself from the secret it read.
Identity == INSTANCE SigningIdentity WITH
    NoKey <- None,
    stored <- IF enroll \in Enrollment THEN enroll.device_public_id ELSE None,
    serving <- [p \in Proc |-> IF pc[p] = "up" THEN LiveKey(p) ELSE None]

\* A device on a healthy disk keeps the identity SigningIdentity promises.
ImplementsIdentity == Identity!IdSpec
================================================================================
