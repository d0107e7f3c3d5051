------------------------------ MODULE ReceiptDag ------------------------------
(***************************************************************************)
(* chain.js: the steps of an agent's run sealed as a graph.                *)
(*                                                                         *)
(* Steps are reported by parts of the agent that run side by side, so they *)
(* arrive in any order, and a step that was retried arrives twice, perhaps *)
(* with another output.  The run is sealed as it was gathered; the receipt *)
(* is kept and may come back with an edit.                                 *)
(*                                                                         *)
(* Step ids are numbers; they are sorted as such.  The kind of a step and  *)
(* its input are part of its io.                                           *)
(***************************************************************************)
EXTENDS Sealed

CONSTANTS
    Io,             \* inputs and outputs of steps
    Reported,       \* the steps the parts of an agent may report
    MaxSteps        \* bound

ASSUME ReceiptDagAssumption ==
    /\ Reported \subseteq [step_id : Nat, seq : Nat, parents : SUBSET Nat, io : Io]
    /\ \A step \in Reported : IsFiniteSet(step.parents)
    /\ MaxSteps \in Nat

VARIABLES
    steps,      \* the steps gathered so far, as they were sent
    run,        \* the receipt, <<>> before the run is sealed
    shown       \* the receipt as a verifier sees it

dagVars == <<steps, run, shown>>

DagInit ==
    /\ steps = <<>>
    /\ run = <<>>
    /\ shown = <<>>

--------------------------------------------------------------------------------

Ids(list) == {list[i].step_id : i \in DOMAIN list}

EntriesOf(list, id) == {i \in DOMAIN list : list[i].step_id = id}

\* Map(step_id -> step): the last step with an id is kept.
LastPlace(list, id) ==
    CHOOSE i \in EntriesOf(list, id) : \A j \in EntriesOf(list, id) : j <= i

ById(list, id) == list[LastPlace(list, id)]

\* list.find: the first one is found.
FirstPlace(list, id) ==
    CHOOSE i \in EntriesOf(list, id) : \A j \in EntriesOf(list, id) : i <= j

\* How many entries of `parents' lead from p to c, and how many lead to c.
Edges(list, p, c) == Cardinality({i \in EntriesOf(list, c) : p \in list[i].parents})

Indegree(list, c) ==
    TotalOf([i \in DOMAIN list |->
                IF list[i].step_id = c THEN Cardinality(list[i].parents) ELSE 0])

Dangling(list) ==
    \E i \in DOMAIN list : ~ list[i].parents \subseteq Ids(list)

\* (Slip: a step is taken as soon as one of its parents is.)
FreedByOne(indegree, edges) == indegree > 0 /\ edges > 0

\* Counting a step's parents down by `edges' comes to 0 on the way.
Freed(indegree, edges) == indegree \in 1 .. edges

\* The head of the queue.  The first queue is sorted by id alone; whenever a step is
\* added, all of it is sorted by seq and id.
HeadOf(list, q) ==
    LET waiting == {id \in Ids(list) : q.ready[id] > 0}
        Before(a, b) ==
            \/ q.resorted /\ ById(list, a).seq < ById(list, b).seq
            \/ (q.resorted => ById(list, a).seq = ById(list, b).seq) /\ a < b
    IN  CHOOSE id \in waiting : \A other \in waiting \ {id} : Before(id, other)

\* The queue says how often each step is in it: one that was reported twice and has no
\* parents is there twice.
Start(list) ==
    [ready |-> [c \in Ids(list) |->
                   IF Indegree(list, c) = 0 THEN Cardinality(EntriesOf(list, c)) ELSE 0],
     resorted |-> FALSE,
     order |-> <<>>,
     indegree |-> [c \in Ids(list) |-> Indegree(list, c)]]

Take(list, q) ==
    LET id == HeadOf(list, q)
        freed == {c \in Ids(list) : Freed(q.indegree[c], Edges(list, id, c))}
    IN  [ready |-> [c \in Ids(list) |->
                       q.ready[c] + (IF c \in freed THEN 1 ELSE 0) - (IF c = id THEN 1 ELSE 0)],
         resorted |-> q.resorted \/ freed # {},
         order |-> Append(q.order, id),
         indegree |-> [c \in Ids(list) |-> q.indegree[c] - Edges(list, id, c)]]

\* Kahn's algorithm, one step taken from the queue at a time.
Advance(list, q) == IF \A c \in Ids(list) : q.ready[c] = 0 THEN q ELSE Take(list, q)

TopoOrder(list) ==
    LET queue[n \in 0 .. Len(list)] ==
            IF n = 0 THEN Start(list) ELSE Advance(list, queue[n - 1])
    IN  queue[Len(list)].order

\* Otherwise topoOrder throws.
Ordered(list) == ~ Dangling(list) /\ Len(TopoOrder(list)) = Len(list)

\* The parents are there when the k-th of an order is taken.
ParentsBefore(order, k, parents) == \A p \in parents : \E j \in 1 .. k - 1 : order[j] = p

\* signChain throws at a parent that is not sealed yet: an id that is there twice counts
\* down the steps after it twice, so these may be taken too early.
Sealable(list) ==
    /\ Ordered(list)
    /\ \A k \in DOMAIN TopoOrder(list) :
          ParentsBefore(TopoOrder(list), k, ById(list, TopoOrder(list)[k]).parents)

\* The root over the commits of some steps.
ParentRoot(commits, parents) ==
    LET ids == SetToSeq(parents)
    IN  MerkleRoot(Sorted([i \in DOMAIN ids |-> commits[ids[i]]]))

\* buildStepCommit: the record is its own digest.
StepCommit(step, commits) ==
    [step_id |-> step.step_id, seq |-> step.seq, parents |-> step.parents,
     io_digest |-> step.io, parent_commit_root |-> ParentRoot(commits, step.parents)]

\* commitById.set
Committed(list, id, commits) ==
    [x \in DOMAIN commits \cup {id} |->
        IF x = id THEN StepCommit(ById(list, id), commits) ELSE commits[x]]

\* The commits of a list in causal order, by step.
Commits(list) ==
    LET order == TopoOrder(list)
        known[n \in 0 .. Len(order)] ==
            IF n = 0 THEN <<>> ELSE Committed(list, order[n], known[n - 1])
    IN  known[Len(order)]

SignChain(list) ==
    LET order == TopoOrder(list)
        commits == Commits(list)
        sealed_steps == [i \in DOMAIN order |->
            [record |-> commits[order[i]], commit_digest |-> commits[order[i]]]]
        base == [step_count |-> Len(order),
                 causal_root |-> MerkleRoot(Sorted(
                     [i \in DOMAIN order |-> commits[order[i]]]))]
    IN  Seal([base |-> base, steps |-> sealed_steps], base, base.causal_root)

Records(e) == [i \in DOMAIN e.steps |-> e.steps[i].record]

\* verifyChain but for the count: the graph is ordered again, and of the records with an
\* id the first is committed again.
Recomputes(e) ==
    LET records == Records(e)
        order == TopoOrder(records)
        commits == [id \in Ids(records) |-> records[FirstPlace(records, id)]]
    IN  /\ Ordered(records)
        /\ \A k \in DOMAIN order :
              LET step == e.steps[FirstPlace(records, order[k])]
              IN  /\ ParentsBefore(order, k, step.record.parents)
                  /\ step.record.parent_commit_root = ParentRoot(commits, step.record.parents)
                  /\ step.record = step.commit_digest
        /\ MerkleRoot(Sorted([i \in DOMAIN e.steps |-> e.steps[i].commit_digest]))
               = e.base.causal_root
        /\ SealHolds(e, e.base, e.base.causal_root)

\* (Slip: the steps are not counted.)
VerifyChainUncounted(e) == Recomputes(e)

VerifyChain(e) == Len(e.steps) = e.base.step_count /\ Recomputes(e)

--------------------------------------------------------------------------------

\* A part of the agent reports a step, a new one or one reported before.
Report ==
    /\ run = <<>>
    /\ Len(steps) < MaxSteps
    /\ \E step \in Reported : steps' = Append(steps, step)
    /\ UNCHANGED <<run, shown>>

SealRun ==
    /\ run = <<>>
    /\ steps # <<>>
    /\ Sealable(steps)
    /\ run' = SignChain(steps)
    /\ shown' = run'
    /\ UNCHANGED steps

\* Records are lost, repeated or exchanged, or one of them is changed.
EditRun ==
    /\ run # <<>>
    /\ shown = run
    /\ \/ \E i \in DOMAIN run.steps :
             \/ shown' = [run EXCEPT !.steps = RemoveAt(@, i)]
             \/ shown' = [run EXCEPT !.steps = Append(@, @[i])]
             \/ \E io \in Io : shown' = [run EXCEPT !.steps[i].record.io_digest = io]
             \/ \E j \in DOMAIN run.steps :
                    shown' = [run EXCEPT !.steps[i].record.parents =
                                  @ \cup {run.steps[j].record.step_id}]
       \/ shown' = [run EXCEPT !.steps = Reverse(@)]
    /\ UNCHANGED <<steps, run>>

DagNext == Report \/ SealRun \/ EditRun

DagSpec == DagInit /\ [][DagNext]_dagVars

--------------------------------------------------------------------------------

DistinctIds(list) == Cardinality(Ids(list)) = Len(list)

Reordered(list) ==
    {[i \in DOMAIN list |-> list[f[i]]] : f \in Bijection(DOMAIN list, DOMAIN list)}

Causal(list) ==
    \A i \in DOMAIN list : \A p \in list[i].parents :
        \E j \in 1 .. i - 1 : list[j].step_id = p

\* chain.js:82-84.  A run of distinct steps is sealed exactly when its graph has
\* an order in which all parents exist and come first; that is then the order it
\* is sealed in, and the root is the same in whatever order the steps arrived.
SealedInCausalOrder ==
    DistinctIds(steps) /\ shown = run =>
        /\ Sealable(steps) <=> \E list \in Reordered(steps) : Causal(list)
        /\ run # <<>> =>
              /\ Causal(Records(run))
              /\ \A list \in Reordered(steps) :
                    SignChain(list).base.causal_root = run.base.causal_root

\* The records a verifier looks at: of each id the first.
Checked(e) == {e.steps[FirstPlace(Records(e), id)] : id \in Ids(Records(e))}

\* A receipt that verifies holds the commits that were sealed, each as often, and its
\* records are the sealed ones as far as the verifier looks at them: of records with
\* one id he looks at the first (chain.js:213), of distinct steps at all.  A step that
\* was reported once is among them as it was reported; of a first step reported twice
\* the last report replaces the others, and the receipt says that twice (chain.js:98).
VerifiedRunIsSealedRun ==
    run # <<>> /\ VerifyChain(shown) =>
        /\ ToBag([i \in DOMAIN shown.steps |-> shown.steps[i].commit_digest])
              = ToBag([i \in DOMAIN run.steps |-> run.steps[i].commit_digest])
        /\ Checked(shown) = Checked(run)
        /\ DistinctIds(steps) => ToBag(shown.steps) = ToBag(run.steps)
        /\ \A i \in DOMAIN steps : Cardinality(EntriesOf(steps, steps[i].step_id)) = 1 =>
              \E s \in Checked(shown) :
                  /\ s.record.step_id = steps[i].step_id
                  /\ s.record.io_digest = steps[i].io
                  /\ s.record.parents = steps[i].parents
================================================================================
