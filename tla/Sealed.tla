-------------------------------- MODULE Sealed --------------------------------
(***************************************************************************)
(* What every product of the service is made of: objects are put into      *)
(* canonical form and hashed, lists of digests become a Merkle root, the   *)
(* digests are bound to one payload and the payload is signed.  Receipts   *)
(* travel as JSON.                                                         *)
(*                                                                         *)
(* Hashes are injective, so a digest is what was hashed.  All receipts are *)
(* signed with the key they carry (pubFromEnv reads it from the receipt),  *)
(* so a signature is the payload it covers.                                *)
(***************************************************************************)
EXTENDS Integers, Sequences, FiniteSets, SequencesExt

CONSTANTS
    Undefined,      \* the JavaScript value
    IntMax          \* 2^31 in the code

ASSUME SealedAssumption ==
    /\ IntMax \in Nat \ {0}
    /\ Undefined \notin Int /\ Undefined # "null"

\* x | 0
Int32(x) == ((x + IntMax) % (2 * IntMax)) - IntMax

\* canonicalize writes a field that is undefined as "name:undefined": an object
\* with such a field and the object without it have different digests.
Canonicalize(o) == o

\* JSON.stringify drops the fields that are undefined.
Wire(o) == [f \in {g \in DOMAIN o : o[g] # Undefined} |-> o[f]]

\* One round of merkleRoot: nodes are hashed in pairs, and the last node of an odd
\* level is paired with itself.  A node is the sequence of the leaves under it.
LevelAbove(nodes) ==
    [i \in 1 .. (Len(nodes) + 1) \div 2 |->
        nodes[2 * i - 1] \o nodes[IF 2 * i <= Len(nodes) THEN 2 * i ELSE 2 * i - 1]]

\* The levels of the tree, from the leaves upwards.
Levels(digests) ==
    LET level[k \in Nat] == IF k = 0 THEN [i \in DOMAIN digests |-> <<digests[i]>>]
                            ELSE LevelAbove(level[k - 1])
    IN  level

\* merkleRoot: the first level of one node is the root; the empty list has the empty
\* string for a root.
MerkleRoot(digests) ==
    LET level == Levels(digests)
        top == CHOOSE k \in 0 .. Len(digests) :
                  Len(level[k]) = 1 /\ (k > 0 => Len(level[k - 1]) > 1)
    IN  IF digests = <<>> THEN <<>> ELSE level[top][1]

\* [...digests].sort(): equal digests are neighbours; which digest comes first is
\* up to the hash, so it is any order that depends on the members alone.
Sorted(digests) ==
    CHOOSE list \in [DOMAIN digests -> ToSet(digests)] : ToBag(list) = ToBag(digests)

\* The members at some places of a list, in order: list.filter.
Kept(list, places) ==
    LET kept[n \in 0 .. Len(list)] ==
            IF n = 0 THEN <<>>
            ELSE IF n \in places THEN Append(kept[n - 1], list[n]) ELSE kept[n - 1]
    IN  kept[Len(list)]

\* A running total.
TotalOf(counts) ==
    LET total[n \in 0 .. Len(counts)] == IF n = 0 THEN 0 ELSE total[n - 1] + counts[n]
    IN  total[Len(counts)]

\* H(base || digest), signed: what the sign functions add to the other fields.
Seal(fields, base, digest) ==
    [f \in DOMAIN fields \cup {"payload_digest", "envelope_signature"} |->
        IF f \in DOMAIN fields THEN fields[f] ELSE <<base, digest>>]

\* The last two checks of the verify functions, over what they recomputed.
SealHolds(e, base, digest) ==
    /\ e.payload_digest = <<base, digest>>
    /\ e.envelope_signature = <<base, digest>>
================================================================================
