----------------------------- MODULE MCMaintainer ---------------------------
(***************************************************************************)
(* Values of the constants of Maintainer.                                  *)
(***************************************************************************)
EXTENDS Maintainer

CONSTANTS main, side, early, create1, create2

MCChars == {48, 49, 97, 43, 45, 46}   \* 0 1 a + - .
MCStarts == {<<>>, <<48, 46, 49, 46>>, <<49, 46, 48, 46, 49>>}

MCCores == {<<0, 1, 0>>, <<0, 0, 2>>}
MCIdentifiers == {<<48>>, <<50>>, <<49, 48>>, <<97>>, <<97, 49>>, <<65>>, <<45, 49>>}

MCFileNames == 1 .. 4
MCOtherLists == UpTo(3, [name : {1, 3}, sum : Sums])

Yes(t) == [negate |-> FALSE, text |-> t]
No(t)  == [negate |-> TRUE, text |-> t]
PatternLists == {<<Yes(<<1>>)>>, <<Yes(<<Star>>), No(<<1, Any>>)>>, <<No(<<1>>), Yes(<<1, Star>>)>>}
MCSignerLines ==
  [key : {1, 2}, principals : PatternLists, namespaces : {<<>>, <<Yes(<<2>>)>>},
   after : {0, 2}, before : {0, 3}]
MCRequests ==
  [revoked : {{}, {2}}, key : {1, 2}, principal : {None, <<1>>, <<1, 2>>},
   namespace : {<<1>>, <<2>>}, now : 1 .. 3]

\* A first release, a second one, and the file before either.
MCFiles ==
  LET old == <<C!ReleaseHead(2), [is |-> "sub", good |-> TRUE], [is |-> "text"]>>
      top == <<[is |-> "heading"], C!Unreleased>>
  IN  {top \o <<[is |-> "text"], C!Blank, C!Link(0)>>,
       top \o <<[is |-> "text"]>> \o old \o <<C!Link(0), C!Link(2)>>,
       top \o old \o <<C!Link(2), C!Link(0)>>}

MCLines ==
  {C!Unreleased, C!Blank, C!ReleaseHead(1), C!ReleaseHead(3), C!Link(0), C!Link(3),
   [is |-> "text"], [is |-> "heading"], [is |-> "odd"],
   [is |-> "sub", good |-> TRUE], [is |-> "sub", good |-> FALSE],
   [is |-> "link", v |-> 3, good |-> FALSE], [is |-> "release", v |-> 1, good |-> FALSE]}

MCReleases == 1 .. 4
=============================================================================
