----------------------------- MODULE MCChannel -----------------------------
(***************************************************************************)
(* Channel with a unit of 2048 cycles: the default period, interval and    *)
(* jitter of fr_util.h, 0x4000, 0x3000 and 0x1000, are 8, 6 and 2.  Chars  *)
(* have two bits.                                                          *)
(***************************************************************************)
EXTENDS Channel, Bitwise

MCBitAnd(x, y) == x & y
MCMasks == {3, 5}
MCIntervals == {1}
MCTexts == {<<1, 2>>, <<3, 0>>}
MCBeyond == {<<>>, <<1>>}
=============================================================================
