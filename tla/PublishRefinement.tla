------------------------- MODULE PublishRefinement -------------------------
(***************************************************************************)
(* The runs of Publish implement Publication: drafts, listings, downloads, *)
(* rounds, faults and crashes are invisible, and what becomes visible does *)
(* so in one step and stays.                                               *)
(***************************************************************************)
EXTENDS Publish

CONSTANTS Nothing, Corrupt

\* The files of release r, or Corrupt when they are not one whole file per name.
FilesOf(r) ==
  LET names == {assets[a].name : a \in AssetsOf(r)}
      the(n) == CHOOSE a \in AssetsOf(r) : assets[a].name = n
  IN IF \A a, b \in AssetsOf(r) :
          assets[a].state = "uploaded" /\ (assets[a].name = assets[b].name => a = b)
       THEN [n \in names |-> assets[the(n)].content]
       ELSE Corrupt

Visible(t) ==
  IF PublishedOf(t) = {} THEN Nothing ELSE FilesOf(CHOOSE r \in PublishedOf(t) : TRUE)

StateOf(pc) ==
  CASE pc \in {"idle", "failed"} -> "resting"
    [] pc = "succeeded"          -> "succeeded"
    [] OTHER                     -> "working"

Promise == INSTANCE Publication WITH
  visible <- [t \in Tags |-> Visible(t)],
  state   <- [p \in Publishers |-> StateOf(run[p].pc)],
  files   <- [p \in Publishers |-> run[p].local]

(* The publisher, with everything that can be lost or killed on the way,   *)
(* implements the promise: a tag's files appear at once, as one run had    *)
(* them, never change again, and success is reported only of them.         *)
ImplementsPublication == Promise!PSpec
=============================================================================
