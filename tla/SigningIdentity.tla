---------------------------- MODULE SigningIdentity ----------------------------
(***************************************************************************)
(* What the service promises about its published key, whatever mechanism   *)
(* keeps it: a store that is written once and never replaced nor erased,   *)
(* and processes that come and go, each of which signs, for as long as it  *)
(* serves, under the key the store gives to the next boot (src/README.md:  *)
(* "the published key stays stable across restarts"; src/test_qpuf.mjs,    *)
(* T4).                                                                    *)
(*                                                                         *)
(* SeedBoot (key.js) and QpufBoot (qpuf/) are shown to implement it.       *)
(***************************************************************************)
CONSTANTS Proc, Key, NoKey

VARIABLES
    stored,     \* the key the next boot will find, or NoKey
    serving     \* the key each process answers under, or NoKey while it does not

idvars == <<stored, serving>>

IdInit ==
    /\ stored = NoKey
    /\ serving = [p \in Proc |-> NoKey]

\* A key is stored, once and for all.
Store(k) ==
    /\ stored = NoKey
    /\ stored' = k
    /\ UNCHANGED serving

\* A process starts to answer, under the stored key.
Serve(p) ==
    /\ stored # NoKey
    /\ serving[p] = NoKey
    /\ serving' = [serving EXCEPT ![p] = stored]
    /\ UNCHANGED stored

\* Processes stop, together when the host goes down.
Stop(P) ==
    /\ serving' = [p \in Proc |-> IF p \in P THEN NoKey ELSE serving[p]]
    /\ UNCHANGED stored

IdNext ==
    \/ \E k \in Key : Store(k)
    \/ \E p \in Proc : Serve(p)
    \/ \E P \in SUBSET Proc : Stop(P)

IdSpec == IdInit /\ [][IdNext]_idvars
================================================================================
