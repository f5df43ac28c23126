--------------------------- MODULE BranchlessAbs ---------------------------
(***************************************************************************)
(* compute_abs_branchless of src/branch-reduction-hft/branch_reduction.cpp *)
(* on one element: mask = x >> 31; output = (x + mask) ^ mask, on ints of  *)
(* Width bits in two's complement.  The identity is bit-parallel, so a     *)
(* small Width shows it for every value of that width; TLC's integers      *)
(* stop short of 2^32.                                                     *)
(***************************************************************************)
EXTENDS Integers, Bitwise

CONSTANT Width    \* bits of int (32 in the build)

MinInt == -(2^(Width - 1))
MaxInt == 2^(Width - 1) - 1
Word   == MinInt..MaxInt

\* the bit pattern of a signed value, and the signed value of a pattern
Bits(x)   == x % (2^Width)
Signed(b) == IF b > MaxInt THEN b - 2^Width ELSE b

\* fault variant: the shift done on the unsigned pattern (a logical shift)
MaskLogical(x) == Bits(x) \div 2^(Width - 1)

\* x >> 31: GCC shifts a signed int arithmetically, i.e. rounds x / 2^31
\* down, giving -1 for a negative x and 0 otherwise
Mask(x) == x \div 2^(Width - 1)

\* x + mask overflows int exactly when it leaves Word (undefined behaviour)
Overflows(x) == x + Mask(x) \notin Word

\* (x + mask) ^ mask, with ^ on the two's-complement patterns
ComputeAbs(x) == Signed(Bits(x + Mask(x)) ^^ Bits(Mask(x)))

\* the reference: the absolute value
AbsRef(x) == IF x < 0 THEN -x ELSE x

\* output[i] is |input[i]|, computed without a signed overflow
AbsCorrect(x) == ~Overflows(x) /\ ComputeAbs(x) = AbsRef(x)

=============================================================================
