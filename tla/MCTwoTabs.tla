----------------------------- MODULE MCTwoTabs ------------------------------
(* Two tabs of one browser, for TLC.                                       *)
EXTENDS ProjectPersistence, TLC

TabSymmetry == Permutations(Tabs)
=============================================================================
