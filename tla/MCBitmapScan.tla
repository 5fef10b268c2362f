---------------------------- MODULE MCBitmapScan ----------------------------
(* BitmapScan for TLC: every map of TSize bits and every request from one   *)
(* bit to one more than the map has.                                        *)
EXTENDS BitmapScan

MCCounts == 1 .. 8
=============================================================================
