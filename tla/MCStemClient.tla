---------------------------- MODULE MCStemClient ----------------------------
(* Three stems of two leaves for a cache of two.  The records its packets     *)
(* travel in keep no state: a behaviour is one of the client, or one letter.  *)
EXTENDS StemClient, WireDamage

CONSTANTS a, b, c

Symmetric == Permutations({a, b, c})

\* What stems hold, and the packets that arrive, made of the honest ones of all blocks.
MCContents  == {<<"v", "w">>, <<"w", "v">>}
MadePackets == MadeOfTwo(OneSwap \cup TiedSwaps)
MCSent      == MadePackets

N(n) == Num(n)

ProofOf(key, path) ==
  [key |-> key, value |-> N(3), stemValues |-> <<N(3), N(0)>>,
   siblings |-> [n \in 1..path |-> N(2)], bits |-> [n \in 1..path |-> N(n % 2)]]

PacketOf(epoch, key, path) ==
  [epoch |-> N(epoch), blockNumber |-> N(2), blockRoot |-> N(3), bucket |-> N(1),
   stemPrefix |-> Front(key), key |-> key, value |-> N(3), proof |-> ProofOf(key, path)]

Packets == {PacketOf(1, <<N(0), N(1)>>, 0), PacketOf(1, <<N(1), N(0), N(1)>>, 2),
            PacketOf(2, <<N(1)>>, 1)}

\* A writer writes them: a key and a path too long, and a value that is not the proof's.
Unread == {PacketOf(1, <<N(1), N(0), N(1), N(0)>>, 0), PacketOf(1, <<N(1)>>, 3),
           [PacketOf(1, <<N(1)>>, 0) EXCEPT !.value = N(2)]}

Registrations ==
  {[commitment |-> SubscriptionCommitment(<<N(1)>>, <<N(2)>>, 1, end, 1), windowStart |-> N(1),
    windowEnd |-> N(end), maxBuckets |-> N(buckets), pubkey |-> key] :
     end \in 1..2, buckets \in 0..1, key \in {<<>>, <<N(2), N(1)>>}}

MCField == {N(n) : n \in 0..3} \cup {r.commitment : r \in Registrations}

Published ==
  {<<>>, <<PacketOf(1, <<N(0), N(1)>>, 0)>>,
   <<PacketOf(1, <<N(0), N(1)>>, 0), PacketOf(1, <<N(1), N(0), N(1)>>, 2)>>}

Bundles ==
  {[epoch |-> N(1), blockNumber |-> N(2), blockRoot |-> N(3), provider |-> <<N(1), N(2)>>,
    blobHash |-> N(0), commitments |-> <<N(2), N(1)>>, locator |-> locator] :
     locator \in {<<>>, <<N(2)>>}}

Letters ==
       {[kind |-> "packet", body |-> p] : p \in Packets \cup Unread}
  \cup {[kind |-> "registration", body |-> r] : r \in Registrations}
  \cup {[kind |-> "manifest", body |-> BuildManifest(N(1), N(1), ps), packets |-> ps] : ps \in Published}
  \cup {[kind |-> "envelope", body |-> w] : w \in {<<>>, <<N(1), N(0)>>, <<N(1), N(2), N(3)>>}}
  \cup {[kind |-> "bundle", body |-> x] : x \in Bundles}

ClientInit ==
  /\ Init
  /\ LetterInit
  /\ letter # NoLetter => trusted = [s \in Stem |-> <<"v", "w">>]

ClientNext ==
  \/ letter = NoLetter /\ Next /\ UNCHANGED letter
  \/ letter # NoLetter /\ UNCHANGED <<vars, letter>>

ClientSpec == ClientInit /\ [][ClientNext]_<<vars, letter>>
=============================================================================
