---------------------------- MODULE MCRateCards ----------------------------
(* Instances of RateCards for TLC: two of the columns, three values. *)
EXTENDS RateCards

CONSTANTS h1, h2, vcpu, floor, low, high, top
=============================================================================
