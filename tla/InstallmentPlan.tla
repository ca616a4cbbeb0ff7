--------------------------- MODULE InstallmentPlan ---------------------------
(***************************************************************************)
(* The installment schedules of a debit note and the oldest-first spread   *)
(* of collected money over them, as finance.service.ts computes them.      *)
(* Money is counted in halalas (the cent of the riyal), the unit that the  *)
(* code's r2 rounds to; its 0.001 tolerances are therefore zero and its    *)
(* 0.01 tolerance is one halala. Due dates are month numbers.              *)
(***************************************************************************)
EXTENDS Integers, Sequences, FiniteSets, Functions

\* Math.round(total / count): half a halala rounds up.
PerMonth(total, count) == (2 * total + count) \div (2 * count)

\* Quick mode: `count` monthly amounts, the last one absorbs the rounding.
QuickAmount(total, count, i) ==
    IF i = count THEN total - (count - 1) * PerMonth(total, count)
                 ELSE PerMonth(total, count)

QuickRows(total, count) ==
    {[seq |-> i, due |-> i - 1, amount |-> QuickAmount(total, count, i)] : i \in 1..count}

\* Custom mode: the rows as the clerk gave them, numbered in due-date order;
\* rows due on the same day keep their order (JavaScript's sort is stable).
CustomRows(rows) ==
    LET before(j, i) == rows[j].due < rows[i].due \/ (rows[j].due = rows[i].due /\ j <= i)
    IN  {[seq |-> Cardinality({j \in DOMAIN rows : before(j, i)}),
          due |-> rows[i].due, amount |-> rows[i].amount] : i \in DOMAIN rows}

Total(rows) == SumFunction([x \in rows |-> x.amount])

\* A custom schedule one halala off the total passes or fails the double
\* comparison |sum - total| > 0.01 depending on how the two amounts round, so
\* it may be accepted; further off, it never is.
Accepts(total, dto) ==
    IF dto.mode = "custom"
    THEN /\ \A i \in DOMAIN dto.rows : dto.rows[i].amount > 0
         /\ Total(CustomRows(dto.rows)) - total \in -1..1
    ELSE dto.count \in 2..36

\* buildInstallmentRows
InstallmentRows(total, dto) ==
    IF dto.mode = "custom" THEN CustomRows(dto.rows) ELSE QuickRows(total, dto.count)

-----------------------------------------------------------------------------

\* What a row can still take; a paid row is skipped by the waterfall.
Open(row) == IF row.amount > row.settled THEN row.amount - row.settled ELSE 0

\* ORDER BY dueDate, seq; rows of two batches that tie come in arrival order.
Older(x, y) ==
    \/ x.due < y.due
    \/ x.due = y.due /\ x.seq < y.seq
    \/ x.due = y.due /\ x.seq = y.seq /\ x.batch < y.batch

Smaller(a, b) == IF a < b THEN a ELSE b

\* Mutant: what the older rows took is not deducted.
Share_Undeducted(rows, row, money) == Smaller(money, Open(row))

\* What reaches a row once every older row has taken what it was open for.
Share(rows, row, money) ==
    LET older == {x \in rows : Older(x, row)}
        left == money - SumFunction([x \in older |-> Open(x)])
    IN  IF left > 0 THEN Smaller(left, Open(row)) ELSE 0

\* The rows the waterfall writes, with the absolute settledAmount it writes.
Waterfall(rows, money) ==
    {[row EXCEPT !.settled = @ + Share(rows, row, money)] :
        row \in {x \in rows : Share(rows, x, money) > 0}}

Settled(rows) == SumFunction([x \in rows |-> x.settled])
=============================================================================
