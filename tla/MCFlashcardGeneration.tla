----------------------- MODULE MCFlashcardGeneration -----------------------
(* An instance of FlashcardGeneration for TLC.                             *)
EXTENDS FlashcardGeneration
=============================================================================
