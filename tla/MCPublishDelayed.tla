-------------------------- MODULE MCPublishDelayed --------------------------
(***************************************************************************)
(* The values of MCPublish for PublishDelayed.                             *)
(***************************************************************************)
EXTENDS MCPublish, DelayedInvariant
=============================================================================
