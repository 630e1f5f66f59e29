---------------------------- MODULE MCAddonBrief ----------------------------
(* AddonBrief with two commands, one request, two generations, one sender.  *)
EXTENDS AddonBrief

CONSTANTS k1, k2, r1, g1, g2, s1
=============================================================================
