----------------------------- MODULE MCProgress -----------------------------
(* What must come to an end: a fetch from three honest and two faulty providers, *)
(* the draw of a cover set of three buckets, and a script on the release       *)
(* files.  They share nothing: a behaviour is one of the three.                *)
EXTENDS StemFetch, CoverSet, Release

VARIABLE part

MCAnswer == {<<>>,
             <<Packet(Target, TRUE, FALSE, "verifies"), Packet("short", TRUE, TRUE, "raises")>>,
             <<Packet("other", TRUE, TRUE, "verifies"), Packet("other", TRUE, TRUE, "verifies")>>}
MCMinRate == <<7, 10>>

ProgressInit ==
  /\ part \in {"fetch", "cover", "release"}
  /\ Init /\ CoverInit /\ ReleaseInit
  /\ part # "release" => policy = [eligible |-> FALSE, blocking |-> {}, notes |-> "complete"]

ProgressNext ==
  /\ \/ part = "fetch" /\ Next /\ UNCHANGED <<draw, release>>
     \/ part = "cover" /\ CoverNext /\ UNCHANGED <<vars, release>>
     \/ part = "release" /\ ReleaseNext /\ UNCHANGED <<vars, draw>>
  /\ UNCHANGED part

ProgressSpec ==
  /\ ProgressInit /\ [][ProgressNext]_<<part, vars, draw, release>>
  /\ FetchFairness /\ CoverFairness /\ ReleaseFairness
=============================================================================
