------------------------- MODULE MC_FactoryLifecycle -------------------------
(* The factory with up to five live Rust handles at once.                  *)
EXTENDS FactoryLifecycle
=============================================================================
