-------------------------------- MODULE Cents --------------------------------
(***************************************************************************)
(* The arithmetic of money and weight: whole cents, grams and basis        *)
(* points, rounded half up as JavaScript's Math.round does, which is       *)
(* packing.ts's Math.floor(value + 0.5).  TLC's integers are 32 bits wide, *)
(* so the instances keep cents times basis points below 2^30.              *)
(***************************************************************************)
EXTENDS Integers, SequencesExt

RoundHalfUp(n, d) == (2 * n + d) \div (2 * d)

\* The part of n that bps basis points are.
Share(n, bps) == RoundHalfUp(n * bps, 10000)

Abs(n) == IF n < 0 THEN -n ELSE n

Greater(a, b) == IF a > b THEN a ELSE b

\* The sum of Of(x) over the elements of the sequence s.
Total(s, Of(_)) == SumFunction([i \in DOMAIN s |-> Of(s[i])])

(***************************************************************************)
(* What a customs entry costs (customs/duty-calculator.ts): duty on the    *)
(* customs value, then import VAT on the added tax value, which is the     *)
(* value with the duty and, for goods from outside the customs union, a    *)
(* tenth more.  Each step is rounded by itself.                            *)
(***************************************************************************)
VatRateBps == 1500
AtvUpliftBps == 1000

\* A line is a record of its customs value, its rate of duty and whether the
\* goods are of the union's origin.
ComputeDutyLine(line) ==
  LET duty == Share(line.value, line.rateBps)
      uplift == IF line.sacu THEN 0 ELSE Share(line.value, AtvUpliftBps)
      atv == line.value + uplift + duty
  IN [value |-> line.value, duty |-> duty, atv |-> atv, vat |-> Share(atv, VatRateBps)]

\* lines are the results of ComputeDutyLine.
ComputeEntryTotals(lines) ==
  [duties |-> Total(lines, LAMBDA l : l.duty), vat |-> Total(lines, LAMBDA l : l.vat)]
=============================================================================
