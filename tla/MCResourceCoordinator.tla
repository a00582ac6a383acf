------------------------ MODULE MCResourceCoordinator ------------------------
(* Small instances of ResourceCoordinator: the API key list, and with it the *)
(* subscription list, of one account, and the mutations of keys_service.rs   *)
(* that invalidate them.                                                     *)
EXTENDS ResourceCoordinator, TLC

MCInvalidationOrder ==
  [op \in Operations |->
     IF op = "create" THEN <<"keys">> ELSE <<"keys", "subscriptions">>]

Symmetry == Permutations(Requests) \cup Permutations(Writers)

=============================================================================
