---------------------------- MODULE MCStemFetch ----------------------------
(* Five providers, two of them faulty: those stay silent, or send a bad proof, *)
(* a foreign and a stale packet, or two valid packets for another key.        *)
EXTENDS StemFetch, TLC

CONSTANTS p1, p2, p3, p4, p5

MCHonest == {p1, p2, p3}
MCFaulty == {p4, p5}
MCAnswer == {<<>>,
             <<Packet(Target, FALSE, TRUE, "verifies"), Packet(Target, TRUE, FALSE, "verifies")>>,
             <<Packet(Target, TRUE, TRUE, "fails")>>,
             <<Packet(Target, TRUE, TRUE, "verifies"), Packet("short", TRUE, TRUE, "raises")>>,
             <<Packet("other", TRUE, TRUE, "verifies"), Packet("other", TRUE, TRUE, "verifies")>>}
MCMinRate == <<7, 10>>

Symmetric == Permutations(MCHonest) \cup Permutations(MCFaulty)
=============================================================================
