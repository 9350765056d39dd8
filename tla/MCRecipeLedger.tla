--------------------------- MODULE MCRecipeLedger ---------------------------
(* Instance of RecipeLedger for TLC. *)
EXTENDS RecipeLedger
=============================================================================
