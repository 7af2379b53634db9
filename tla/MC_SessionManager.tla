------------------------- MODULE MC_SessionManager -------------------------
EXTENDS SessionManager, TLC

(* Pairs, session objects and handlers are interchangeable: only safety is *)
(* checked under this symmetry.                                            *)
Symmetry == Permutations(Pairs) \union Permutations(Sess) \union Permutations(Handlers)
=============================================================================
