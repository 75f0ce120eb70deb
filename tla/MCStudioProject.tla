----------------------------- MODULE MCStudioProject -----------------------------
EXTENDS StudioProject, TLC

MCFiles == <<"capability_map", "contract_bundle">>
Symmetry == Permutations(Requests)
=============================================================================
