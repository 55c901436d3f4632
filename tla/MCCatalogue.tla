---------------------------- MODULE MCCatalogue ----------------------------
(* The default model, one uploaded model, one nanochat model and one        *)
(* fine-tuning job; a dataset of one batch an epoch and one too small for a *)
(* batch, and one pipeline of two layers.                                   *)
EXTENDS CatalogueProps

MCTerms == {1, 3}
MCEpochSteps == [d \in Datasets |-> IF d = "ample" THEN 1 ELSE 0]
MCConditions == <<"count", "time">>
=============================================================================
