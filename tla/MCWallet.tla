------------------------------ MODULE MCWallet ------------------------------
(* Three guardians, any of them corrupt; one unit of time is half a timelock. *)
(* The account, the engine and the registry share nothing: a behaviour is one *)
(* of the account, one query of the engine for lists of up to four providers, *)
(* or one of the registry.                                                    *)
EXTENDS SmartAccount, RedundantQuery, SLARegistry, TLC

VARIABLE part

CONSTANTS g1, g2, g3

MCQuorums == {None, -1, 0, 1, 2, 4}

Symmetric == Permutations({g1, g2, g3})

WalletInit ==
  /\ Init /\ RegistryInit
  /\ part # "account" => corrupt = {} /\ given = None /\ owner = "alice"

PartInit ==
  /\ part \in {"account", "query", "registry"}
  /\ answers \in IF part = "query" THEN Answers ELSE {<<>>}
  /\ WalletInit

WalletNext ==
  /\ \/ part = "account" /\ Next /\ UNCHANGED registry
     \/ part = "registry" /\ RegistryNext /\ UNCHANGED vars
  /\ UNCHANGED <<part, answers>>

WalletSpec == PartInit /\ [][WalletNext]_<<part, vars, answers, registry>>
=============================================================================
