----------------------------- MODULE MCDelivery -----------------------------
(***************************************************************************)
(* Values for the constants of Delivery.                                   *)
(***************************************************************************)
EXTENDS DeliveryInvariant, TLC

CONSTANTS main, side, early   \* a commit that may be released, one that is not on the
                              \* branch, and one from before the changelog was ready

ThisTag == [tag |-> "v2", uri |-> "repo@v2", type |-> "release-me"]

\* Another tag of the repository, and what some other tool says of this tag.
OtherTag  == [tag |-> "v1", uri |-> "repo@v1", type |-> "release-me"]
OtherTool == [tag |-> "v2", uri |-> "repo@v2", type |-> "unknown"]

OtherReleases ==
  {[origin |-> OtherTag, commit |-> early, outcome |-> 0],
   [origin |-> OtherTool, commit |-> side, outcome |-> 0]}

NoOthers == {}

\* One mechanism, the other one; one policy names the source, the other has an identity
\* for any tag.
OneMechanism ==
  {[signs |-> {"sigstore"}, requires |-> {"sigstore"}, digests |-> TRUE,
    source |-> FALSE, identities |-> {ThisTag, OtherTag}],
   [signs |-> {"sshsig"}, requires |-> {"sshsig"}, digests |-> FALSE,
    source |-> TRUE, identities |-> {ThisTag}]}

BothMechanisms ==
  {[signs |-> {"sshsig", "sigstore"}, requires |-> {"sshsig", "sigstore"}, digests |-> TRUE,
    source |-> TRUE, identities |-> {ThisTag}]}
=============================================================================
