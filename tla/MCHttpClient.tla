---------------------------- MODULE MCHttpClient ----------------------------
(***************************************************************************)
(* Values for the constants of HttpClient.                                 *)
(***************************************************************************)
EXTENDS HttpClient, TLC

\* A reset that has passed, and nothing; the default of 30 is beyond MaxWait.
MCAsked == {-1, 0}
=============================================================================
