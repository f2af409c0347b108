------------------------- MODULE MCResponseScanner -------------------------
(* ResponseScanner for TLC: a two-byte magic in a header of five bytes, over *)
(* the smallest alphabet in which a rejected header can contain the          *)
(* beginning of the right one at every offset.                               *)
EXTENDS ResponseScanner

MCByte  == 0..2
MCMagic == <<1, 2>>

=============================================================================
