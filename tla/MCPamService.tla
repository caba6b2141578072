----------------------------- MODULE MCPamService -----------------------------
(* PamService with the symmetry of its identifiers, for TLC. *)
EXTENDS PamService, TLC

EmptyOrFirst == {{}, Active}

PamSymmetry == Permutations(Requests) \cup Permutations(Handlers) \cup Permutations(Tokens)
=============================================================================
