------------------------------- MODULE Floats -------------------------------
(***************************************************************************)
(* The arithmetic of float in C on numbers of a moderate size: binary, a   *)
(* mantissa of 24 bits, rounded to nearest and to even.  A number is       *)
(* m * 2^e.  No intermediate result is above 2^30.                         *)
(***************************************************************************)
EXTENDS Integers

Mantissa == 24

Float(n) == [m |-> n, e |-> 0]
Neg(a) == [a EXCEPT !.m = -@]

Abs(n) == IF n < 0 THEN -n ELSE n

Rounded(m, e) ==
  LET k == CHOOSE k \in 0..6 :
             /\ Abs(m) < 2 ^ (Mantissa + k)
             /\ k = 0 \/ Abs(m) >= 2 ^ (Mantissa + k - 1)
      q == Abs(m) \div 2 ^ k
      rest == 2 * (Abs(m) % 2 ^ k)
      up == IF rest > 2 ^ k \/ (rest = 2 ^ k /\ q % 2 = 1) THEN 1 ELSE 0
  IN [m |-> (IF m < 0 THEN -1 ELSE 1) * (q + up), e |-> e + k]

\* The same number with a mantissa of full length.
Normal(a) ==
  LET k == CHOOSE k \in 0..(Mantissa - 1) :
             a.m < 2 ^ (Mantissa - k) /\ a.m >= 2 ^ (Mantissa - 1 - k)
  IN IF a.m >= 2 ^ Mantissa THEN a ELSE [m |-> a.m * 2 ^ k, e |-> a.e - k]

\* The one with the larger exponent is written with up to 29 bits; what the
\* other has below them shows as one bit more.
Plus(a, b) ==
  LET hi == IF a.e >= b.e THEN a ELSE b
      lo == IF a.e >= b.e THEN b ELSE a
      gap == hi.e - lo.e
      k == CHOOSE k \in 0..gap :
             /\ Abs(hi.m) * 2 ^ k < 2 ^ 28
             /\ k = gap \/ Abs(hi.m) * 2 ^ (k + 1) >= 2 ^ 28
      below == 2 ^ (gap - k)
      sticky == IF lo.m % below = 0 THEN 0 ELSE 1
  IN CASE a.m = 0 -> b
       [] b.m = 0 -> a
       [] OTHER -> IF k = gap THEN Rounded(hi.m * 2 ^ k + lo.m, lo.e)
                   ELSE Rounded(hi.m * 2 ^ (k + 1) + 2 * (lo.m \div below) + sticky,
                                hi.e - k - 1)

Minus(a, b) == Plus(a, Neg(b))

\* Of positive numbers, or zero by one: two bits more than the mantissa has,
\* and one for what is left.
Over(a, b) ==
  LET n == Normal(a)
      d == Normal(b)
      Bits == Mantissa + 1
      long[i \in 0..Bits] ==
        IF i = 0 THEN [q |-> n.m \div d.m, r |-> n.m % d.m]
        ELSE LET s == long[i - 1]
             IN [q |-> 2 * s.q + (2 * s.r) \div d.m, r |-> (2 * s.r) % d.m]
      sticky == IF long[Bits].r = 0 THEN 0 ELSE 1
  IN IF a.m = 0 THEN a
     ELSE Rounded(2 * long[Bits].q + sticky, n.e - d.e - Bits - 1)

Floor(a) == IF a.e >= 0 THEN a.m * 2 ^ a.e ELSE a.m \div 2 ^ (-a.e)
Ceil(a) == -Floor(Neg(a))
Below(a, b) == Minus(a, b).m < 0
=============================================================================
