--------------------------- MODULE MCInvestigation ---------------------------
(* One investigation of two providers whose agents ask the same model.      *)
EXTENDS Investigation

CONSTANTS aws, azure

TwoAndOne == aws :> {1, 2} @@ azure :> {1}
SameModel == aws :> "openai" @@ azure :> "openai"
=============================================================================
