---------------------- MODULE MCRecommendationLifecycle ----------------------
(***************************************************************************)
(* Instances of RecommendationLifecycle for TLC.                           *)
(***************************************************************************)
EXTENDS RecommendationLifecycle
=============================================================================
