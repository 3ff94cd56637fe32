----------------------------- MODULE MCQqSends -----------------------------
(* A post of two chunks, the second without text, and a note with a video.  *)
EXTENDS QqSends

CONSTANTS post, note

MCText == [m \in Message |-> m]
MCChunks == [m \in Message |-> IF m = post THEN 2 ELSE 1]
MCMedia == [m \in Message |->
  [mode |-> "auto", type |-> IF m = note THEN "video" ELSE "photo",
   small |-> TRUE, urlBase |-> FALSE, fallback |-> m # note]]

\* Muted; a business failure that may pass; an internal error, answered with
\* a status and without; a token that is wrong.
MCAnswers ==
  {ClassifyResponse([status |-> "failed", retcode |-> 100, refused |-> FALSE, wording |-> {"muted", "temporary"}]),
   ClassifyResponse([status |-> "failed", retcode |-> 1200, refused |-> FALSE, wording |-> {}]),
   ClassifyHttp(502), ClassifyHttp(401)}
=============================================================================
