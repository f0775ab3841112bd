------------------------------- MODULE MCFetcher -------------------------------
EXTENDS Fetcher

CONSTANTS j1, j2, j3, j4, city, state, b1, b2

\* Two pages of one host in two batches, one of them with a page elsewhere
\* whose robots.txt, if there is one, forbids it, and a job nobody can parse beside the first.
MCHost  == j1 :> city @@ j2 :> city @@ j3 :> state @@ j4 :> state
MCBatch == j1 :> b1 @@ j2 :> b2 @@ j3 :> b2 @@ j4 :> b1
=============================================================================
