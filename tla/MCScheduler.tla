---------------------------- MODULE MCScheduler ----------------------------
(* A site of three pages and a page of another, which lead to probes of    *)
(* two foreign hosts.                                                      *)
EXTENDS Scheduler

CONSTANTS a, b, x, y, a1, a2, a3, b1, x1, x2, x3, x4, y1

MCPageHost(u)  == IF u = b1 THEN b ELSE a
MCProbeHost(u) == IF u = y1 THEN y ELSE x
MCSeeds        == <<a1, a2>>
MCFound(u)     == CASE u = a1 -> <<x1, a3>>
                    [] u = a3 -> <<x1, x2, y1, x3, b1, x4>>
                    [] OTHER  -> <<>>
=============================================================================
