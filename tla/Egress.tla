-------------------------------- MODULE Egress --------------------------------
(***************************************************************************)
(* egress.js: rows of several classes leave a sandbox, each class under a  *)
(* cap declared at the start; every window is measured and signed.         *)
(*                                                                         *)
(* The service keeps nothing between two measurements and never looks at   *)
(* the manifest: the meter sends the caps, the running totals and the      *)
(* commitments of the last answer it heard.  It may feed back that answer  *)
(* alone, or fold it into what it had, and it may leave totals and caps    *)
(* out, which the route does not ask for (server.js:904), or send other    *)
(* caps than were declared.  A cap that is no integer is one left out.     *)
(* A commitment opens to the counts it was made of, oldest first.          *)
(***************************************************************************)
EXTENDS Sealed

CONSTANTS
    Class,
    Caps,               \* the caps the manifest declares
    CapsSent,           \* the caps a measurement may come with
    Rows,               \* how many rows of a class may leave in a window
    NoBreak,
    MaxWindows          \* bound

ASSUME EgressAssumption ==
    /\ \A caps \in {Caps} \cup CapsSent :
          DOMAIN caps \subseteq Class /\ caps \in [DOMAIN caps -> Int]
    /\ Rows \subseteq Nat
    /\ NoBreak \notin Class
    /\ MaxWindows \in Nat

VARIABLES
    left,           \* the rows of a class that have left in all
    known,          \* the commitments the meter holds
    measured        \* the measurement receipts, in order, and how each was made

egressVars == <<left, known, measured>>

EgressInit ==
    /\ left = [c \in Class |-> 0]
    /\ known = [c \in {} |-> <<>>]
    /\ measured = <<>>

--------------------------------------------------------------------------------

\* The rows of a class, none where it is not listed.
RowsIn(rows, class) == IF class \in DOMAIN rows THEN rows[class] ELSE 0

CommitmentAdd(prior, class, rows) ==
    Append(IF class \in DOMAIN prior THEN prior[class] ELSE <<>>, rows)

\* (Slip: the rows of the window are held against the cap.)
OverCapInWindow(window, totals, caps) ==
    {c \in DOMAIN window \cap DOMAIN caps : window[c] > caps[c]}

\* The classes over the cap that was sent, of those this window lists.
OverCap(window, totals, caps) ==
    {c \in DOMAIN window \cap DOMAIN caps : RowsIn(totals, c) > caps[c]}

\* signEgressMeasurement.  The break names the last class over its cap in the order
\* the meter listed them.
SignEgressMeasurement(window, totals, caps, prior, break) ==
    [per_class_row_commitments |->
        [c \in DOMAIN window |-> CommitmentAdd(prior, c, window[c])],
     per_class_rows_total |-> totals,
     per_class_row_caps |-> caps,
     bond_break_detected |-> break,
     disposition |-> IF break = NoBreak THEN "continue" ELSE "invalidate_dag"]

\* What a meter makes of its commitments and those of an answer.
Folded(answer, prior) ==
    [c \in DOMAIN answer \cup DOMAIN prior |->
        IF c \in DOMAIN answer THEN answer[c] ELSE prior[c]]

--------------------------------------------------------------------------------

\* POST /sigr/egress/measurement, and what the meter keeps of the answer, which may be
\* lost.
MeasureWindow(window, totals, caps) ==
    LET over == OverCap(window, totals, caps)
    IN  \E break \in IF over = {} THEN {NoBreak} ELSE over :
            LET receipt == SignEgressMeasurement(window, totals, caps, known, break)
                answer == receipt.per_class_row_commitments
            IN  /\ known' \in {known, answer, Folded(answer, known)}
                /\ measured' = Append(measured,
                      [receipt |-> receipt, window |-> window,
                       folded |-> known' = Folded(answer, known)])

\* A window ends: rows left, they are measured and signed.
Measure ==
    /\ Len(measured) < MaxWindows
    /\ \E classes \in SUBSET Class : \E window \in [classes -> Rows] :
          LET total == [c \in Class |-> left[c] + RowsIn(window, c)]
          IN  /\ left' = total
              /\ \E totals \in {total, <<>>}, caps \in CapsSent :
                    MeasureWindow(window, totals, caps)

EgressNext == Measure

EgressSpec == EgressInit /\ [][EgressNext]_egressVars

--------------------------------------------------------------------------------

\* The rows of a class that have left by the end of the n-th window.
Left(c, n) == TotalOf([k \in 1 .. n |-> RowsIn(measured[k].window, c)])

\* "Exceeding a class-specific cap triggers retroactive invalidation" (egress.js:38),
\* and a drip of rows below the cap is no way around it: once more rows of a class
\* have left than the manifest allows, the receipt of the window that took it over
\* says so, if that window came with totals and with a cap for the class no higher
\* than the declared one; and a receipt that says so names a class that is over the
\* cap the receipt carries.  An earlier break is not repeated by a window that does
\* not list the class.
CapIsNotPassedUnseen ==
    \A i \in DOMAIN measured :
        LET r == measured[i].receipt
            sent == r.per_class_row_caps
            passed == {c \in DOMAIN Caps : Left(c, i - 1) <= Caps[c] /\ Left(c, i) > Caps[c]}
        IN  /\ r.per_class_rows_total # <<>>
                  /\ (\E c \in passed \cap DOMAIN sent : sent[c] <= Caps[c]) =>
                  r.disposition = "invalidate_dag"
            /\ r.disposition = "invalidate_dag" =>
                  /\ r.bond_break_detected \in DOMAIN sent
                  /\ Left(r.bond_break_detected, i) > sent[r.bond_break_detected]
            \* The commitments open to all that left, while the meter hears every
            \* answer and folds it in; otherwise windows are missing from them.
            /\ (\A k \in 1 .. i - 1 : measured[k].folded) =>
                  \A c \in DOMAIN measured[i].window :
                      TotalOf(r.per_class_row_commitments[c]) = Left(c, i)
================================================================================
