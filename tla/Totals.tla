------------------------------- MODULE Totals -------------------------------
(***************************************************************************)
(* The total of an order (PlaceOrder, order/service.go): the price of each *)
(* line times its quantity, and what its modifiers add (see Pricing), as a *)
(* Go int that goes into an INT column.  Nothing bounds the number of      *)
(* lines, nor what modifiers add.  Widths are scaled: IntLimit stands for  *)
(* the 2^31 of the column, so that the 2^63 of a Go int is 2 * IntLimit^2. *)
(***************************************************************************)
EXTENDS Sequences, Words

CONSTANTS
    IntLimit,          \* a column holds -IntLimit .. IntLimit - 1
    Cents, Counts,     \* price_cents and quantities of lines
    Deltas,            \* what the modifiers of a line add
    MaxLines           \* bound: lines of an order

ASSUME TotalsAssumption ==
    /\ IntLimit \in Nat \ {0}
    /\ Cents \subseteq Nat /\ Counts \subseteq Nat \ {0} /\ Deltas \subseteq Int
    /\ MaxLines \in Nat

VARIABLES
    added,             \* the lines of an order that have been added up
    totalCents,        \* their sum, as a Go int
    sumCents           \* history: their sum

totalVars == <<added, totalCents, sumCents>>

TotalInit == added = <<>> /\ totalCents = 0 /\ sumCents = 0

\* Another order: the sum starts over.
BeginTotal ==
    /\ added # <<>>
    /\ added' = <<>>
    /\ totalCents' = 0
    /\ sumCents' = 0

Line == [cents : Cents, count : Counts, delta : Deltas]

\* What a line adds.  Wrapping it before it is added would make no difference.
AmountOf(l) == l.cents * l.count + l.delta

\* Mutant of AddLine: the sum has the width of the column.
AddLineNarrow(l) ==
    /\ Len(added) < MaxLines
    /\ added' = Append(added, l)
    /\ totalCents' = Wrap(totalCents + AmountOf(l), IntLimit)
    /\ sumCents' = sumCents + AmountOf(l)

\* The next line is added to the total, in the arithmetic of a Go int.
AddLine(l) ==
    /\ Len(added) < MaxLines
    /\ added' = Append(added, l)
    /\ totalCents' = Wrap(totalCents + AmountOf(l), 2 * IntLimit * IntLimit)
    /\ sumCents' = sumCents + AmountOf(l)

TotalNext == BeginTotal \/ \E l \in Line : AddLine(l)

TotalSpec == TotalInit /\ [][TotalNext]_totalVars

FitsColumn(n) == -IntLimit <= n /\ n < IntLimit

\* The transaction stores the order and its lines only if every column holds its value.
Storable ==
    /\ FitsColumn(totalCents)
    /\ \A i \in DOMAIN added : FitsColumn(added[i].cents) /\ FitsColumn(added[i].count)

-----------------------------------------------------------------------------
(* Properties.                                                             *)

\* The modifiers of a line add, or take away, less than a column holds.
SmallDelta(l) == -IntLimit < l.delta /\ l.delta < IntLimit

\* A stored order has the total that its lines come to, or one that is off by a
\* multiple of 2^64 cents, which is what a Go int loses.  A total that is wrong comes
\* from more than four lines, or from modifiers that add more to a line than a
\* column holds (order/service.go:146-152, README.md:150).
TotalTrueUnlessSumWraps ==
    Storable =>
        /\ (sumCents - totalCents) % (4 * IntLimit * IntLimit) = 0
        /\ totalCents # sumCents =>
              Len(added) > 4 \/ \E i \in DOMAIN added : ~SmallDelta(added[i])
=============================================================================
