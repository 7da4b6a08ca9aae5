--------------------------- MODULE MCWalletSession ---------------------------
(* Two stems of two leaves and a cache of one; the costs are StemGasPolicy's. *)
EXTENDS WalletSession, Embedding, TLC

VARIABLE received

Rpc == INSTANCE VerifiedRpc

CONSTANTS a, b

Symmetric == Permutations({a, b})

\* What stems hold, and the packets that arrive, made of the honest ones of all blocks.
MCContents  == {<<"v", "w">>, <<"w", "v">>}
MadePackets == MadeOfTwo({<<{}, {}>>, <<{"stemPrefix"}, {}>>})
MCSent      == MadePackets

\* Keys, leaves and answers keep no state: a behaviour is one of the session, or one
\* input or answer.
Idle == input # NoInput \/ received # Rpc!Nothing

SetupInit ==
  /\ SessionInit
  /\ \/ EmbeddingInit /\ received = Rpc!Nothing
     \/ Rpc!RpcInit /\ input = NoInput
  /\ Idle => trusted = [s \in Stem |-> <<"v", "w">>]

SetupNext ==
  \/ ~ Idle /\ SessionNext /\ UNCHANGED <<input, received>>
  \/ Idle /\ UNCHANGED <<session, input, received>>

SetupSpec == SetupInit /\ [][SetupNext]_<<session, input, received>>

AnswerIsTrue == Rpc!AnswerIsTrue

\* Layouts that pass the check, and layouts of which one slot is taken, too large
\* or given twice.
MCLayouts == {<<240, 241, 242, 243>>, <<24, 25, 26, 255>>, <<239, 19, 2, 243>>,
              <<23, 240, 241, 242>>, <<240, 241, 242, 256>>, <<240, 240, 241, 242>>}

\* Slices of one, one, two and two bytes.
MCBasicEnds == <<1, 2, 4, 6>>
=============================================================================
