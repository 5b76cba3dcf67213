--------------------------- MODULE AllowedSigners ---------------------------
(***************************************************************************)
(* internal/sshsig, allowed.go: which line of an allowed-signers file      *)
(* accepts a signature.  A text is a sequence of letters; a pattern is     *)
(* [negate, text], with Star and Any as wildcards in its text.  The        *)
(* signature itself is valid: this is what Verify does after that.         *)
(***************************************************************************)
EXTENDS Integers, Sequences

CONSTANTS Star, Any, None  \* '*', '?', and no principal asked for

\* Mutant: a star stands for at least one letter.
WildcardMatchSome(pattern, s) ==
  LET np == Len(pattern)
      ns == Len(s)
      match[i \in 1 .. np + 1] ==
        [j \in 1 .. ns + 1 |->
           IF i > np THEN j > ns
           ELSE IF pattern[i] = Star THEN \E k \in j + 1 .. ns + 1 : match[i + 1][k]
           ELSE /\ j <= ns
                /\ pattern[i] \in {Any, s[j]}
                /\ match[i + 1][j + 1]]
  IN  match[1][1]

\* wildcardMatch, for the rests of the pattern from i and of the text from j.
WildcardMatch(pattern, s) ==
  LET np == Len(pattern)
      ns == Len(s)
      match[i \in 1 .. np + 1] ==
        [j \in 1 .. ns + 1 |->
           IF i > np THEN j > ns
           ELSE IF pattern[i] = Star THEN \E k \in j .. ns + 1 : match[i + 1][k]
           ELSE /\ j <= ns
                /\ pattern[i] \in {Any, s[j]}
                /\ match[i + 1][j + 1]]
  IN  match[1][1]

\* Mutant: the first pattern that matches decides, as in most such lists.
MatchFirst(patterns, s) ==
  \E i \in DOMAIN patterns :
    /\ WildcardMatch(patterns[i].text, s) /\ ~patterns[i].negate
    /\ \A j \in 1 .. i - 1 : ~WildcardMatch(patterns[j].text, s)

\* Match walks the patterns; matched so far, or rejected for good.
Match(patterns, s) ==
  LET walk[i \in 0 .. Len(patterns)] ==
        IF i = 0 THEN "no"
        ELSE LET p == patterns[i]
             IN  IF walk[i - 1] = "never" \/ ~WildcardMatch(p.text, s) THEN walk[i - 1]
                 ELSE IF p.negate THEN "never" ELSE "yes"
  IN  walk[Len(patterns)] = "yes"

\* The cases of Verify for a line that holds the key; time 0 is no bound.
Refuses(l, principal, namespace, now) ==
  \/ principal # None /\ ~Match(l.principals, principal)
  \/ l.namespaces # <<>> /\ ~Match(l.namespaces, namespace)
  \/ l.after # 0 /\ now < l.after
  \/ l.before # 0 /\ now >= l.before

\* The line at which the loop of Verify returns, if any.
Accepting(lines, key, principal, namespace, now) ==
  {i \in DOMAIN lines :
     /\ lines[i].key = key /\ ~Refuses(lines[i], principal, namespace, now)
     /\ \A j \in 1 .. i - 1 :
          lines[j].key = key => Refuses(lines[j], principal, namespace, now)}

Verify(lines, revoked, key, principal, namespace, now) ==
  key \notin revoked /\ Accepting(lines, key, principal, namespace, now) # {}

(***************************************************************************)
(* The same in terms of sets, as ssh-keygen(1) describes the file.         *)
(***************************************************************************)
\* Some way to cut s into one piece per pattern letter.
InLanguage(pattern, s) ==
  \E cut \in [0 .. Len(pattern) -> 0 .. Len(s)] :
    /\ cut[0] = 0 /\ cut[Len(pattern)] = Len(s)
    /\ \A i \in DOMAIN pattern :
         IF pattern[i] = Star THEN cut[i - 1] <= cut[i]
         ELSE cut[i] = cut[i - 1] + 1 /\ pattern[i] \in {Any, s[cut[i]]}

Allows(patterns, s) ==
  /\ \E i \in DOMAIN patterns : ~patterns[i].negate /\ InLanguage(patterns[i].text, s)
  /\ \A i \in DOMAIN patterns : patterns[i].negate => ~InLanguage(patterns[i].text, s)

Authorized(lines, revoked, key, principal, namespace, now) ==
  /\ key \notin revoked
  /\ \E i \in DOMAIN lines :
       /\ lines[i].key = key
       /\ principal = None \/ Allows(lines[i].principals, principal)
       /\ lines[i].namespaces = <<>> \/ Allows(lines[i].namespaces, namespace)
       /\ lines[i].after <= now
       /\ lines[i].before = 0 \/ now < lines[i].before
=============================================================================
