--------------------------- MODULE HeavyOperation ---------------------------
(***************************************************************************)
(* The integer branch of compute_heavy_operation in src/compile-time-      *)
(* dispatch-hft/compile_time_dispatch.cpp: result = 1, then result *=     *)
(* value + i for i = 1 .. 10, in a long long.  Its products pass 2^31, so *)
(* a number is a little-endian sequence of 21-bit limbs; three limbs hold *)
(* exactly the 63 bits of a non-negative long long.                       *)
(***************************************************************************)
EXTENDS Naturals, Sequences

Base == 2^21

\* limbs * k + carry, for a small k
RECURSIVE MulSmall(_, _, _)
MulSmall(limbs, k, carry) ==
  IF limbs = <<>>
  THEN IF carry = 0 THEN <<>> ELSE <<carry % Base>> \o MulSmall(<<>>, k, carry \div Base)
  ELSE LET t == Head(limbs) * k + carry
       IN <<t % Base>> \o MulSmall(Tail(limbs), k, t \div Base)

\* a non-negative value fits in long long (at most 2^63 - 1)
FitsLongLong(limbs) == Len(limbs) <= 3

\* for (int i = 1; i <= 10; ++i) result *= value + i; the sequence of the
\* values result takes after each multiplication
RECURSIVE Products(_, _, _)
Products(result, value, i) ==
  IF i > 10 THEN <<>>
  ELSE LET next == MulSmall(result, value + i, 0)
       IN <<next>> \o Products(next, value, i + 1)

\* compute_heavy_operation<int>(value), from result = 1
HeavyProducts(value) == Products(<<1>>, value, 1)

\* no multiplication of compute_heavy_operation<int>(value) leaves long long
HeavyFits(value) == \A k \in 1..10 : FitsLongLong(HeavyProducts(value)[k])
=============================================================================
