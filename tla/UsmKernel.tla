------------------------------ MODULE UsmKernel ------------------------------
(***************************************************************************)
(* The arithmetic of src/src/usm.h on one sample: the [1 2 1] taps, the    *)
(* fixed-point detail and its two roundings.  A team of some shapes uses   *)
(* the biased rounding, which shifts where the plain one divides.          *)
(***************************************************************************)
EXTENDS Integers

MaxAmount == 4096      \* UP_USM_AMOUNT_Q8_MAX
Byte == 0 .. 255

\* Wrong variant: only negative amounts are clamped.
ClampLow(a) == IF a < 0 THEN 0 ELSE a

\* up_usm__clamp_amount_q8
ClampAmount(a) == IF a < 0 THEN 0 ELSE IF a > MaxAmount THEN MaxAmount ELSE a

\* A row of up_usm__hblur_row, and the column of up_usm__combine_row_mode; an
\* edge stands in for its missing neighbour.
Taps(a, b, c) == (a + 2 * b + c + 2) \div 4

\* C divides towards zero.
Quotient(v) == IF v >= 0 THEN v \div 256 ELSE -((-v) \div 256)

\* up_usm__floor_div_q8
FloorDiv(v) == IF v < 0 /\ v % 256 # 0 THEN Quotient(v) - 1 ELSE Quotient(v)

\* up_usm__floor_div_q8_biased shifts this right by eight ...
Biased(v) == v + MaxAmount * 256

\* ... which C defines for a value that is not negative.
FloorDivBiased(v) == Biased(v) \div 256 - MaxAmount

Saturated(v) == IF v < 0 THEN 0 ELSE IF v > 255 THEN 255 ELSE v

\* up_usm__combine_row_mode, for the sample s and its blur.
Sharpen(s, blur, amount, biased) ==
    LET product == amount * (s - blur)
    IN  Saturated(s + IF biased THEN FloorDivBiased(product) ELSE FloorDiv(product))
=============================================================================
