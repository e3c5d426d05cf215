---------------------------- MODULE PureFunctions ----------------------------
(***************************************************************************)
(* The pure functions that the program leans on: whether two payloads are  *)
(* the same, how long to wait for the next try, and what the fallback says *)
(* while the AI is out of reach.                                           *)
(***************************************************************************)

CONSTANTS Uses, Draws, Vocabulary, Atoms, Json, Height, Payloads

VARIABLES use, attempt, delay, text, sent, resent

Retries == INSTANCE Backoff

Rules == INSTANCE FallbackClassifier

Hash == INSTANCE CanonicalHash

ASSUME InputsAssumption ==
    Retries!BackoffAssumption /\ Rules!VocabularyAssumption /\ Hash!JsonAssumption

\* See Backoff: while the cap is not reached each delay is longer than the last,
\* however the jitter of the two fell.
SpreadsOut == Retries!SpreadsOut

\* See FallbackClassifier: saying more moves a category only to an earlier rule
\* and never calms a priority.
SayingMoreEscalates == Rules!SayingMoreEscalates

\* See CanonicalHash: two payloads hash alike exactly when their content is the
\* same.
HashIsContent == Hash!HashIsContent
=============================================================================
