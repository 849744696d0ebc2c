------------------------------ MODULE MCLobby -------------------------------
EXTENDS Lobby

(* A request that may be admitted and one that never is. *)
MCRequests == {{}, {"kPackMismatch", "kUnknownCharacter"}}

Symmetry == Permutations(Peers)
=============================================================================
