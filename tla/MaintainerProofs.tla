-------------------------- MODULE MaintainerProofs --------------------------
(***************************************************************************)
(* The maintainer's side, for any repository, any invocations and faults,  *)
(* and for texts of any length.                                            *)
(*                                                                         *)
(* The argument for the texts.  A loop of the code is a function of the    *)
(* number of its rounds (LoopDefined); what holds before the first round   *)
(* and is kept by each holds after the last (Rounds): the least round      *)
(* where it fails would have a predecessor where it holds.  So each        *)
(* algorithm is given what its rounds keep, the algorithm is compared with *)
(* its definition, and the invariant Written says what texts there are.    *)
(***************************************************************************)
EXTENDS Maintainer, SemverProofs

\* Whose the local tag is, and that the tag about to be pushed is valid.
Held ==
  \A c \in Creates :
    /\ create[c].pc \in {"verify", "delete", "push"} => local # NoTag /\ local.by = c
    /\ create[c].pc = "push" => ValidTag(local, create[c].branch)

Remote ==
  remote # NoTag => create[remote.by].pc # "idle" /\ ValidTag(remote, create[remote.by].branch)

LEMMA TagInvParts == TagInv <=> TagTypeOK /\ Held /\ Remote
  BY DEF TagInv, Held, Remote

LEMMA NoTagIsNone == NoTag \notin TagObject
  BY TaggingAssumption DEF TagObject

\* One invocation moves to another place and the tags stay as they are.
LEMMA Moves ==
  ASSUME TagInv, NEW c \in Creates, NEW pc \in {"ended"} \union Busy, Goto(c, pc),
         UNCHANGED <<local, remote>>,
         pc \in {"verify", "delete"} => create[c].pc \in {"verify", "delete"},
         pc # "push", create[c].pc # "idle"
  PROVE  Held' /\ Remote' /\ create' \in [Creates -> Creation]
  <1>1. TagTypeOK /\ Held /\ Remote
    BY TagInvParts
  <1>2. create \in [Creates -> Creation]
    BY <1>1 DEF TagTypeOK
  <1>3. create' = [create EXCEPT ![c].pc = pc]
    BY DEF Goto
  <1>4. create' \in [Creates -> Creation]
    BY <1>2, <1>3 DEF Creation
  <1>5. /\ \A d \in Creates : create'[d].branch = create[d].branch
        /\ \A d \in Creates \ {c} : create'[d].pc = create[d].pc
        /\ create'[c].pc = pc
    BY <1>2, <1>3 DEF Creation
  <1>6. Held'
    BY <1>1, <1>5 DEF Held
  <1>7. Remote'
    <2>1. remote # NoTag => remote.by \in Creates
      BY <1>1 DEF TagTypeOK, TagObject
    <2> QED
      BY <1>1, <1>5, <2>1 DEF Remote, Busy
  <1> QED
    BY <1>4, <1>6, <1>7

LEMMA TagStepInv == TagInv /\ [TagStep]_tagVars => TagInv'
  <1> SUFFICES ASSUME TagInv, [TagStep]_tagVars
               PROVE  TagTypeOK' /\ Held' /\ Remote'
    BY DEF TagInv, Held, Remote
  <1>1. TagTypeOK /\ Held /\ Remote
    BY TagInvParts
  <1>2. create \in [Creates -> Creation] /\ (remote # NoTag => remote.by \in Creates)
    BY <1>1 DEF TagTypeOK, TagObject
  <1>3. CASE UNCHANGED tagVars
    BY <1>1, <1>3 DEF tagVars, TagTypeOK, Held, Remote
  <1>4. CASE Work
    BY <1>1, <1>4 DEF Work, TagTypeOK, Held, Remote
  <1>5. CASE CleanUp
    <2>1. Held'
      BY <1>1, <1>5 DEF CleanUp, Held, Busy
    <2> QED
      BY <1>1, <1>5, <2>1 DEF CleanUp, TagTypeOK, Remote
  <1>6. ASSUME NEW c \in Creates, Begin(c)
        PROVE  TagTypeOK' /\ Held' /\ Remote'
    <2>1. PICK b \in BOOLEAN :
            create' = [create EXCEPT ![c].pc = "changelog", ![c].branch = b]
      BY <1>6 DEF Begin
    <2>2. create[c].pc = "idle" /\ UNCHANGED <<head, dirty, local, remote, faults>>
      BY <1>6 DEF Begin
    <2>3. create' \in [Creates -> Creation] /\ create'[c].pc = "changelog"
      BY <1>2, <2>1 DEF Creation, Busy
    <2>4. \A d \in Creates \ {c} : create'[d] = create[d]
      BY <1>2, <2>1
    <2> QED
      BY <1>1, <1>2, <2>2, <2>3, <2>4 DEF TagTypeOK, Held, Remote
  <1>7. ASSUME NEW c \in Creates, ReadChangelog(c) \/ CheckClean(c)
        PROVE  TagTypeOK' /\ Held' /\ Remote'
    <2>1. UNCHANGED <<head, dirty, local, remote, faults>> /\ create[c].pc # "idle"
      BY <1>7 DEF ReadChangelog, CheckClean
    <2>2. Goto(c, "status") \/ Goto(c, "tag") \/ Goto(c, "ended")
      BY <1>7 DEF ReadChangelog, CheckClean
    <2>3. Held' /\ Remote' /\ create' \in [Creates -> Creation]
      BY <2>1, <2>2, Moves DEF Busy
    <2> QED
      BY <1>1, <2>1, <2>3 DEF TagTypeOK
  <1>8. ASSUME NEW c \in Creates, GitTag(c)
        PROVE  TagTypeOK' /\ Held' /\ Remote'
    <2>1. create[c].pc = "tag" /\ UNCHANGED <<head, dirty, remote, faults>>
      BY <1>8 DEF GitTag
    <2>2. CASE local # NoTag
      <3>1. Goto(c, "ended") /\ local' = local
        BY <1>8, <2>2 DEF GitTag
      <3>2. Held' /\ Remote' /\ create' \in [Creates -> Creation]
        BY <2>1, <3>1, Moves
      <3> QED
        BY <1>1, <2>1, <3>1, <3>2 DEF TagTypeOK
    <2>3. CASE local = NoTag
      <3>1. /\ create' = [create EXCEPT ![c].pc = "verify"]
            /\ \E l \in BOOLEAN : local' = [commit |-> head, listed |-> l, by |-> c]
        BY <1>8, <2>3 DEF GitTag, Goto
      <3>2. local' \in TagObject /\ local'.by = c
        BY <1>1, <3>1 DEF TagTypeOK, TagObject
      <3>3. local' # NoTag
        BY <3>2, NoTagIsNone
      <3>4. create' \in [Creates -> Creation] /\ create'[c].pc = "verify"
        BY <1>2, <3>1 DEF Creation, Busy
      <3>5. \A d \in Creates : d # c => create'[d] = create[d]
        BY <1>2, <3>1
      <3>6. \A d \in Creates : create'[d].branch = create[d].branch
        BY <1>2, <3>1 DEF Creation
      <3>7. \A d \in Creates : create[d].pc \notin {"verify", "delete", "push"}
        BY <1>1, <2>3 DEF Held
      <3>8. Held'
        BY <3>2, <3>3, <3>4, <3>5, <3>7 DEF Held
      <3>9. Remote'
        BY <1>1, <1>2, <2>1, <3>4, <3>5, <3>6 DEF Remote
      <3> QED
        BY <1>1, <2>1, <3>2, <3>4, <3>8, <3>9 DEF TagTypeOK
    <2> QED
      BY <2>2, <2>3
  <1>9. ASSUME NEW c \in Creates, VerifyTag(c)
        PROVE  TagTypeOK' /\ Held' /\ Remote'
    <2>1. create[c].pc = "verify" /\ UNCHANGED <<head, dirty, local, remote>>
      BY <1>9 DEF VerifyTag
    <2>2. local \in TagObject /\ local.by = c
      BY <1>1, <2>1 DEF Held, TagTypeOK
    <2>3. faults' \in 0 .. MaxFaults
      BY <1>1, <1>9, TaggingAssumption DEF VerifyTag, TagTypeOK
    <2>4. CASE /\ ValidTag(local, create[c].branch)
               /\ create' = [create EXCEPT ![c].pc = "push", ![c].tag = local]
      <3>1. create' \in [Creates -> Creation] /\ create'[c].pc = "push"
        BY <1>2, <2>2, <2>4 DEF Creation, Busy
      <3>2. \A d \in Creates : d # c => create'[d] = create[d]
        BY <1>2, <2>4
      <3>3. \A d \in Creates : create'[d].branch = create[d].branch
        BY <1>2, <2>4 DEF Creation
      <3>4. Held'
        BY <1>1, <2>1, <2>2, <2>4, <3>1, <3>2, <3>3 DEF Held
      <3>5. Remote'
        BY <1>1, <1>2, <2>1, <3>1, <3>2, <3>3 DEF Remote
      <3> QED
        BY <1>1, <2>1, <2>3, <3>1, <3>4, <3>5 DEF TagTypeOK
    <2>5. CASE Goto(c, "delete")
      <3>1. Held' /\ Remote' /\ create' \in [Creates -> Creation]
        BY <2>1, <2>5, Moves DEF Busy
      <3> QED
        BY <1>1, <2>1, <2>3, <3>1 DEF TagTypeOK
    <2> QED
      BY <1>9, <2>4, <2>5 DEF VerifyTag
  <1>10. ASSUME NEW c \in Creates, DeleteTag(c)
         PROVE  TagTypeOK' /\ Held' /\ Remote'
    <2>1. /\ create[c].pc = "delete" /\ UNCHANGED <<head, dirty, remote>>
          /\ create' = [create EXCEPT ![c].pc = "ended"]
          /\ local' \in {NoTag, local}
          /\ faults' = faults \/ (faults < MaxFaults /\ faults' = faults + 1)
      BY <1>10 DEF DeleteTag, Goto
    <2>2. create' \in [Creates -> Creation] /\ create'[c].pc = "ended"
      BY <1>2, <2>1 DEF Creation
    <2>3. \A d \in Creates : d # c => create'[d] = create[d]
      BY <1>2, <2>1
    <2>4. \A d \in Creates : create'[d].branch = create[d].branch
      BY <1>2, <2>1 DEF Creation
    <2>5. \A d \in Creates : d # c => create[d].pc \notin {"verify", "delete", "push"}
      BY <1>1, <2>1 DEF Held
    <2>6. Held'
      BY <2>2, <2>3, <2>5 DEF Held
    <2>7. Remote'
      BY <1>1, <1>2, <2>1, <2>2, <2>3, <2>4 DEF Remote
    <2>8. faults' \in 0 .. MaxFaults
      BY <1>1, <2>1, TaggingAssumption DEF TagTypeOK
    <2> QED
      BY <1>1, <2>1, <2>2, <2>6, <2>7, <2>8 DEF TagTypeOK
  <1>11. ASSUME NEW c \in Creates, PushTag(c)
         PROVE  TagTypeOK' /\ Held' /\ Remote'
    <2>1. /\ create[c].pc = "push" /\ UNCHANGED <<head, dirty, local>>
          /\ create' = [create EXCEPT ![c].pc = "ended"]
          /\ remote' = remote \/ remote' = local
          /\ faults' = faults \/ (faults < MaxFaults /\ faults' = faults + 1)
      BY <1>11 DEF PushTag, Goto
    <2>2. local # NoTag /\ local.by = c /\ ValidTag(local, create[c].branch)
      BY <1>1, <2>1 DEF Held
    <2>3. create' \in [Creates -> Creation] /\ create'[c].pc = "ended"
      BY <1>2, <2>1 DEF Creation
    <2>4. \A d \in Creates : d # c => create'[d] = create[d]
      BY <1>2, <2>1
    <2>5. \A d \in Creates : create'[d].branch = create[d].branch
      BY <1>2, <2>1 DEF Creation
    <2>6. Held'
      BY <1>1, <2>1, <2>3, <2>4 DEF Held
    <2>7. Remote'
      BY <1>1, <1>2, <2>1, <2>2, <2>3, <2>4, <2>5 DEF Remote
    <2>8. faults' \in 0 .. MaxFaults
      BY <1>1, <2>1, TaggingAssumption DEF TagTypeOK
    <2> QED
      BY <1>1, <2>1, <2>3, <2>6, <2>7, <2>8 DEF TagTypeOK
  <1>12. ASSUME NEW c \in Creates, Killed(c)
         PROVE  TagTypeOK' /\ Held' /\ Remote'
    <2>1. /\ create[c].pc \in Busy /\ Goto(c, "ended") /\ UNCHANGED <<head, dirty, local, remote>>
          /\ faults < MaxFaults /\ faults' = faults + 1
      BY <1>12 DEF Killed
    <2>2. Held' /\ Remote' /\ create' \in [Creates -> Creation]
      BY <2>1, Moves DEF Busy
    <2>3. faults' \in 0 .. MaxFaults
      BY <1>1, <2>1, TaggingAssumption DEF TagTypeOK
    <2> QED
      BY <1>1, <2>1, <2>2, <2>3 DEF TagTypeOK
  <1> QED
    BY <1>3, <1>4, <1>5, <1>6, <1>7, <1>8, <1>9, <1>10, <1>11, <1>12 DEF TagStep

\* The type invariant, and that from git tag to the push the local tag is the one
\* the invocation made.
THEOREM TagHeld == TagSpec => []TagInv
  <1>1. TagInit => TagInv
    BY TaggingAssumption DEF TagInit, TagInv, TagTypeOK, Creation
  <1> QED
    BY <1>1, TagStepInv, PTL DEF TagSpec

\* What the maintainer does in a repository is what Tagging describes.
LEMMA InTheRepository == Spec => TagSpec
  <1>1. Init => TagInit
    BY DEF Init
  <1>2. [Next]_vars => [TagStep]_tagVars
    BY DEF Next, InRepository, WriteChar, WriteIdentifier, WriteEntry, WriteSigner,
           WritePattern, EditLine, Write, vars
  <1> QED
    BY <1>1, <1>2, PTL DEF Spec, TagSpec

\* No tag reaches the remote but one that passed verifyTag with the options of the
\* invocation that made it, however the checkout moves and whatever fails.
THEOREM PushedIsVerifiedHolds == Spec => []PushedIsVerified
  <1>1. TagInv => PushedIsVerified
    BY DEF TagInv, PushedIsVerified
  <1> QED
    BY <1>1, TagHeld, InTheRepository, PTL
-----------------------------------------------------------------------------
\* wildcardMatch accepts the language of its pattern.
LEMMA WildcardIsLanguage ==
  ASSUME NEW pattern \in PatternText, NEW s \in Seq(Letters)
  PROVE  S!WildcardMatch(pattern, s) <=> S!InLanguage(pattern, s)
<1> DEFINE np == Len(pattern)
           ns == Len(s)
           \* cut divides the rest of s from j on for the rest of the pattern from i on
           Cuts(cut, i, j) ==
             /\ cut \in [i - 1 .. np -> 0 .. ns]
             /\ cut[i - 1] = j - 1 /\ cut[np] = ns
             /\ \A k \in i .. np :
                  IF pattern[k] = Star THEN cut[k - 1] <= cut[k]
                  ELSE cut[k] = cut[k - 1] + 1 /\ pattern[k] \in {Any, s[cut[k]]}
           Rest(i, j) == \E cut : Cuts(cut, i, j)
           Here(m, i, j) ==
             IF i > np THEN j > ns
             ELSE IF pattern[i] = Star THEN \E k \in j .. ns + 1 : m[i + 1][k]
             ELSE /\ j <= ns
                  /\ pattern[i] \in {Any, s[j]}
                  /\ m[i + 1][j + 1]
           Walk(m) == m = [i \in 1 .. np + 1 |-> [j \in 1 .. ns + 1 |-> Here(m, i, j)]]
<1>1. np \in Nat /\ DOMAIN pattern = 1 .. np /\ ns \in Nat
  BY LenProperties DEF PatternText
<1>2. S!InLanguage(pattern, s) <=> Rest(1, 1)
  <2>1. ASSUME NEW cut PROVE (cut[0] = 0) <=> (cut[1 - 1] = 1 - 1)
    OBVIOUS
  <2>2. 0 .. np = 1 - 1 .. np
    OBVIOUS
  <2> QED
    BY <1>1, <2>1, <2>2, Zenon DEF S!InLanguage
<1> HIDE DEF np, ns
<1>3. ASSUME NEW j \in 1 .. ns + 1 PROVE Rest(np + 1, j) <=> j > ns
  <2>1. ASSUME NEW cut, Cuts(cut, np + 1, j) PROVE j > ns
    BY <1>1, <2>1
  <2>2. ASSUME j > ns PROVE Cuts([k \in np .. np |-> ns], np + 1, j)
    BY <1>1, <2>2
  <2> HIDE DEF Cuts
  <2> QED
    BY <2>1, <2>2
<1>4. ASSUME NEW i \in 1 .. np, NEW j \in 1 .. ns + 1
      PROVE  Rest(i, j) <=> IF pattern[i] = Star THEN \E k \in j .. ns + 1 : Rest(i + 1, k)
                            ELSE /\ j <= ns
                                 /\ pattern[i] \in {Any, s[j]}
                                 /\ Rest(i + 1, j + 1)
  <2>1. ASSUME NEW cut, Cuts(cut, i, j)
        PROVE  /\ cut[i] \in 0 .. ns /\ Rest(i + 1, cut[i] + 1)
               /\ pattern[i] = Star => j <= cut[i] + 1
               /\ pattern[i] # Star => cut[i] = j /\ pattern[i] \in {Any, s[j]}
    <3> DEFINE rest == [k \in i .. np |-> cut[k]]
    <3>1. i \in i - 1 .. np /\ np \in i .. np /\ i \in i .. np /\ cut[i] \in 0 .. ns
          /\ (i + 1) - 1 = i /\ (cut[i] + 1) - 1 = cut[i] /\ i .. np \subseteq i - 1 .. np
      BY <1>1, <2>1
    <3>2. rest \in [i .. np -> 0 .. ns] /\ rest[i] = cut[i] /\ rest[np] = ns
      BY <2>1, <3>1
    <3>3. \A k \in i + 1 .. np : k \in i .. np /\ rest[k - 1] = cut[k - 1] /\ rest[k] = cut[k]
      BY <1>1
    <3> HIDE DEF rest
    <3>4. Cuts(rest, i + 1, cut[i] + 1)
      BY <2>1, <3>1, <3>2, <3>3
    <3>5. /\ pattern[i] = Star => j <= cut[i] + 1
          /\ pattern[i] # Star => cut[i] = j /\ pattern[i] \in {Any, s[j]}
      BY <1>1, <2>1, <3>1
    <3> HIDE DEF Cuts
    <3> QED
      BY <3>1, <3>4, <3>5
  <2>2. ASSUME NEW k \in j .. ns + 1, Rest(i + 1, k),
               pattern[i] # Star => k = j + 1 /\ pattern[i] \in {Any, s[j]}
        PROVE  Rest(i, j)
    <3>1. PICK cut : Cuts(cut, i + 1, k)
      BY <2>2
    <3>2. Cuts([x \in i - 1 .. np |-> IF x = i - 1 THEN j - 1 ELSE cut[x]], i, j)
      BY <1>1, <2>2, <3>1
    <3> QED
      BY <3>2
  <2>3. ASSUME Rest(i, j)
        PROVE  \E k \in j .. ns + 1 :
                 /\ Rest(i + 1, k)
                 /\ pattern[i] # Star => k = j + 1 /\ j <= ns /\ pattern[i] \in {Any, s[j]}
    <3>1. PICK cut : Cuts(cut, i, j)
      BY <2>3
    <3> HIDE DEF Cuts, Rest
    <3>2. /\ cut[i] \in 0 .. ns /\ Rest(i + 1, cut[i] + 1)
          /\ pattern[i] = Star => j <= cut[i] + 1
          /\ pattern[i] # Star => cut[i] = j /\ pattern[i] \in {Any, s[j]}
      BY <2>1, <3>1
    <3>3. cut[i] + 1 \in j .. ns + 1
      BY <1>1, <3>2
    <3> QED
      BY <1>1, <3>2, <3>3
  <2> HIDE DEF Rest
  <2>4. CASE pattern[i] = Star
    BY <2>2, <2>3, <2>4
  <2>5. CASE pattern[i] # Star
    <3>1. j <= ns => j + 1 \in j .. ns + 1
      BY <1>1
    <3> QED
      BY <2>2, <2>3, <2>5, <3>1
  <2> QED
    BY <2>4, <2>5
<1>0. \A i, j : Rest(i, j) \in BOOLEAN
  OBVIOUS
<1> HIDE DEF Rest
<1>5. \E m : Walk(m)
  <2> DEFINE w == [i \in 1 .. np + 1 |-> [j \in 1 .. ns + 1 |-> Rest(i, j)]]
  <2>1. \A i \in 1 .. np + 1, j \in 1 .. ns + 1 : w[i][j] = Rest(i, j)
    OBVIOUS
  <2> HIDE DEF w
  <2>2. ASSUME NEW i \in 1 .. np + 1, NEW j \in 1 .. ns + 1
        PROVE  Rest(i, j) <=> Here(w, i, j)
    <3>1. CASE i = np + 1
      BY <1>1, <1>3, <3>1
    <3>2. CASE i # np + 1
      <4>1. i \in 1 .. np /\ i + 1 \in 1 .. np + 1 /\ ~(i > np)
        BY <1>1, <3>2
      <4>2. /\ \A k \in j .. ns + 1 : w[i + 1][k] = Rest(i + 1, k)
            /\ j <= ns => w[i + 1][j + 1] = Rest(i + 1, j + 1)
        BY <1>1, <2>1, <4>1
      <4> QED
        BY <1>4, <4>1, <4>2
    <3> QED
      BY <3>1, <3>2
  <2>3. ASSUME NEW i \in 1 .. np + 1, NEW j \in 1 .. ns + 1 PROVE Here(w, i, j) \in BOOLEAN
    <3>1. CASE i > np
      BY <1>1, <3>1
    <3>2. CASE ~(i > np) /\ pattern[i] = Star
      BY <3>2
    <3>3. CASE ~(i > np) /\ pattern[i] # Star
      BY <3>3
    <3> QED
      BY <3>1, <3>2, <3>3
  <2> HIDE DEF Here
  <2>4. \A i \in 1 .. np + 1, j \in 1 .. ns + 1 : Rest(i, j) = Here(w, i, j)
    BY <1>0, <2>2, <2>3
  <2>5. Walk(w)
    BY <2>4 DEF w
  <2> QED
    BY <2>5
<1>6. PICK m : Walk(m) /\ (S!WildcardMatch(pattern, s) <=> m[1][1])
  BY <1>5 DEF S!WildcardMatch, np, ns
<1>7. \A k \in 0 .. np : \A j \in 1 .. ns + 1 : m[np + 1 - k][j] <=> Rest(np + 1 - k, j)
  <2> DEFINE T == {k \in 0 .. np : \A j \in 1 .. ns + 1 : m[np + 1 - k][j] <=> Rest(np + 1 - k, j)}
  <2>1. \A i \in 1 .. np + 1, j \in 1 .. ns + 1 : m[i][j] = Here(m, i, j)
    <3> HIDE DEF Here
    <3>1. \A i \in 1 .. np + 1 : m[i] = [j \in 1 .. ns + 1 |-> Here(m, i, j)]
      BY <1>6
    <3> QED
      BY <3>1
  <2>2. 0 \in T
    <3>1. np + 1 - 0 = np + 1 /\ np + 1 \in 1 .. np + 1 /\ np + 1 > np /\ 0 \in 0 .. np
      BY <1>1
    <3>2. \A j \in 1 .. ns + 1 : m[np + 1][j] <=> j > ns
      BY <2>1, <3>1
    <3> QED
      BY <1>3, <3>1, <3>2
  <2>3. ASSUME NEW k \in 1 .. np, k - 1 \in T PROVE k \in T
    <3> DEFINE i == np + 1 - k
    <3>1. i \in 1 .. np /\ i \in 1 .. np + 1 /\ ~(i > np)
          /\ np + 1 - (k - 1) = i + 1
      BY <1>1
    <3>2. \A j \in 1 .. ns + 1 : m[i + 1][j] <=> Rest(i + 1, j)
      BY <2>3, <3>1
    <3>3. \A j \in 1 .. ns + 1 : j <= ns => j + 1 \in 1 .. ns + 1
      BY <1>1
    <3>4. \A j \in 1 .. ns + 1 : \A x \in j .. ns + 1 : x \in 1 .. ns + 1
      BY <1>1
    <3> HIDE DEF i, T
    <3>5. ASSUME NEW j \in 1 .. ns + 1 PROVE Here(m, i, j) <=> Rest(i, j)
      <4>1. CASE pattern[i] = Star
        BY <1>4, <3>1, <3>2, <3>4, <4>1
      <4>2. CASE pattern[i] # Star
        BY <1>4, <3>1, <3>2, <3>3, <4>2
      <4> QED
        BY <4>1, <4>2
    <3> HIDE DEF Here
    <3>6. \A j \in 1 .. ns + 1 : m[i][j] <=> Rest(i, j)
      BY <2>1, <3>1, <3>5
    <3>7. k \in 0 .. np
      BY <1>1
    <3> QED
      BY <3>6, <3>7 DEF i, T
  <2> HIDE DEF T
  <2>4. \A k \in 0 .. np : k \in T
    BY <1>1, <2>2, <2>3, Rounds
  <2> QED
    BY <2>4 DEF T
<1>8. m[1][1] <=> Rest(1, 1)
  <2>1. np \in 0 .. np /\ np + 1 - np = 1 /\ 1 \in 1 .. ns + 1
    BY <1>1
  <2> QED
    BY <1>7, <2>1
<1> QED
  BY <1>2, <1>6, <1>8

\* Match accepts the texts that some pattern of the list accepts, and none that a
\* negated one accepts, in whatever order they stand.
LEMMA MatchIsAllows ==
  ASSUME NEW ps \in PatternList, NEW s \in Seq(Letters)
  PROVE  S!Match(ps, s) <=> S!Allows(ps, s)
<1> DEFINE n == Len(ps)
           hit(i) == S!InLanguage(ps[i].text, s)
           Never(k) == \E i \in 1 .. k : ps[i].negate /\ hit(i)
           Yes(k) == \E i \in 1 .. k : ~ps[i].negate /\ hit(i)
           Decided(k) == IF Never(k) THEN "never" ELSE IF Yes(k) THEN "yes" ELSE "no"
           Follow(i, v) == IF v = "never" \/ ~S!WildcardMatch(ps[i].text, s) THEN v
                           ELSE IF ps[i].negate THEN "never" ELSE "yes"
           Walk(g) == g = [i \in 0 .. n |-> IF i = 0 THEN "no" ELSE Follow(i, g[i - 1])]
<1>1. n \in Nat /\ DOMAIN ps = 1 .. n
  BY LenProperties DEF PatternList
<1>2. ASSUME NEW i \in 1 .. n
      PROVE  ps[i].negate \in BOOLEAN /\ (S!WildcardMatch(ps[i].text, s) <=> hit(i))
  <2>1. ps[i] \in [negate : BOOLEAN, text : PatternText]
    BY ElementOfSeq DEF PatternList
  <2> QED
    BY <2>1, WildcardIsLanguage
<1> HIDE DEF n, hit
<1>3. ASSUME NEW i \in 1 .. n
      PROVE  /\ Never(i) <=> Never(i - 1) \/ (ps[i].negate /\ hit(i))
             /\ Yes(i) <=> Yes(i - 1) \/ (~ps[i].negate /\ hit(i))
  <2>1. \A j : j \in 1 .. i <=> j \in 1 .. i - 1 \/ j = i
    BY <1>1
  <2> QED
    BY <2>1
<1> HIDE DEF Never, Yes
<1>4. ASSUME NEW i \in 1 .. n PROVE Decided(i) = Follow(i, Decided(i - 1))
  BY <1>2, <1>3
<1>5. Decided(0) = "no"
  BY DEF Never, Yes
<1>6. \E g : Walk(g)
  <2> DEFINE w == [i \in 0 .. n |-> Decided(i)]
  <2>1. \A i \in 0 .. n : i = 0 \/ (i \in 1 .. n /\ i - 1 \in 0 .. n)
    BY <1>1
  <2> HIDE DEF Decided, Follow
  <2>2. Walk(w)
    BY <1>4, <1>5, <2>1
  <2> QED
    BY <2>2
<1>7. PICK g : Walk(g) /\ (S!Match(ps, s) <=> g[n] = "yes")
  BY <1>6 DEF S!Match, n
<1>8. \A i \in 0 .. n : g[i] = Decided(i)
  <2> DEFINE T == {i \in 0 .. n : g[i] = Decided(i)}
  <2> HIDE DEF Decided, Follow
  <2>1. 0 \in T
    BY <1>1, <1>5, <1>7
  <2>2. \A i \in 1 .. n : i - 1 \in T => i \in T
    BY <1>1, <1>4, <1>7
  <2> HIDE DEF T
  <2>3. \A i \in 0 .. n : i \in T
    BY <1>1, <2>1, <2>2, Rounds
  <2> QED
    BY <2>3 DEF T
<1>9. S!Match(ps, s) <=> ~Never(n) /\ Yes(n)
  BY <1>1, <1>7, <1>8
<1> QED
  BY <1>1, <1>9 DEF S!Allows, Never, Yes, hit

\* Verify authorizes a key where some line of the file allows the use.
LEMMA VerifyIsAuthorized ==
  ASSUME NEW lines \in Seq(SignerLine), NEW revoked, NEW key, NEW principal,
         principal # None => principal \in Seq(Letters),
         NEW namespace \in Seq(Letters), NEW now \in Nat
  PROVE  S!Verify(lines, revoked, key, principal, namespace, now)
           <=> S!Authorized(lines, revoked, key, principal, namespace, now)
<1> DEFINE n == Len(lines)
           allowed(l) ==
             /\ principal = None \/ S!Allows(l.principals, principal)
             /\ l.namespaces = <<>> \/ S!Allows(l.namespaces, namespace)
             /\ l.after <= now
             /\ l.before = 0 \/ now < l.before
           refused(l) == S!Refuses(l, principal, namespace, now)
           Good == {i \in 1 .. n : lines[i].key = key /\ ~refused(lines[i])}
<1>1. n \in Nat /\ DOMAIN lines = 1 .. n /\ \A i \in 1 .. n : lines[i] \in SignerLine
  BY LenProperties, ElementOfSeq
<1>2. ASSUME NEW l \in SignerLine PROVE refused(l) <=> ~allowed(l)
  <2>1. /\ l.principals \in PatternList /\ l.namespaces \in PatternList
        /\ l.after \in Nat /\ l.before \in Nat
    BY DEF SignerLine
  <2>2. /\ principal # None =>
             (S!Match(l.principals, principal) <=> S!Allows(l.principals, principal))
        /\ S!Match(l.namespaces, namespace) <=> S!Allows(l.namespaces, namespace)
    BY <2>1, MatchIsAllows
  <2> QED
    BY <2>1, <2>2 DEF S!Refuses
<1>3. S!Verify(lines, revoked, key, principal, namespace, now)
        <=> key \notin revoked /\ Good # {}
  <2> DEFINE Accepting == S!Accepting(lines, key, principal, namespace, now)
  <2>1. Accepting = {i \in 1 .. n : /\ lines[i].key = key /\ ~refused(lines[i])
                                   /\ \A j \in 1 .. i - 1 : lines[j].key = key => refused(lines[j])}
    BY <1>1 DEF S!Accepting
  <2> HIDE DEF refused
  <2>2. Accepting # {} => Good # {}
    BY <2>1
  <2>3. ASSUME Good # {} PROVE Accepting # {}
    <3>1. Good \in SUBSET Nat
      BY <1>1
    <3>2. PICK i \in Good : \A j \in Good : i <= j
      BY <2>3, <3>1, LeastOf
    <3>3. \A j \in 1 .. i - 1 : j \in 1 .. n /\ ~(i <= j)
      BY <1>1
    <3>4. i \in Accepting
      BY <2>1, <3>2, <3>3
    <3> QED
      BY <3>4
  <2> QED
    BY <2>2, <2>3 DEF S!Verify
<1>4. Good # {} <=> \E i \in 1 .. n : lines[i].key = key /\ allowed(lines[i])
  <2> HIDE DEF allowed, refused
  <2> QED
    BY <1>1, <1>2
<1> QED
  BY <1>1, <1>3, <1>4 DEF S!Authorized
-----------------------------------------------------------------------------
FileText == Seq(C!Line)

\* What a text is made of.
Written ==
  /\ kind = "version" => text \in Raw
  /\ kind = "identifiers" => text \in Seq(Identifiers)
  /\ kind = "manifest" => text \in Seq(ManifestLine)
  /\ kind = "signers" => text \in Seq(SignerLine)
  /\ kind = "pattern" => text \in PatternText
  /\ kind = "changelog" => text \in FileText

\* A line inserted into a changelog, or removed from it.
LEMMA Edited ==
  ASSUME NEW s \in FileText, NEW i \in 1 .. Len(s) + 1
  PROVE  /\ \A l \in C!Line : SubSeq(s, 1, i - 1) \o <<l>> \o SubSeq(s, i, Len(s)) \in FileText
         /\ SubSeq(s, 1, i - 1) \o SubSeq(s, i + 1, Len(s)) \in FileText
<1>1. Len(s) \in Nat /\ \A k \in 1 .. Len(s) : s[k] \in C!Line
  BY SeqIndices DEF FileText
<1>2. ASSUME NEW a \in Nat \ {0}, NEW b \in 0 .. Len(s) PROVE SubSeq(s, a, b) \in FileText
  <2>1. \A k \in a .. b : s[k] \in C!Line
    BY <1>1
  <2>2. a \in Int /\ b \in Int
    BY <1>1
  <2> QED
    BY <2>1, <2>2, SubSeqProperties DEF FileText
<1>3. i \in Nat \ {0} /\ i + 1 \in Nat \ {0} /\ 1 \in Nat \ {0}
      /\ i - 1 \in 0 .. Len(s) /\ Len(s) \in 0 .. Len(s)
  BY <1>1
<1>4. /\ SubSeq(s, 1, i - 1) \in FileText /\ SubSeq(s, i, Len(s)) \in FileText
      /\ SubSeq(s, i + 1, Len(s)) \in FileText
  BY <1>2, <1>3
<1>5. \A l \in C!Line : <<l>> \in FileText
  BY DEF FileText
<1>6. \A x, y \in FileText : x \o y \in FileText
  BY ConcatProperties DEF FileText
<1> HIDE DEF FileText
<1> QED
  BY <1>4, <1>5, <1>6

LEMMA WrittenHolds == Spec => []Written
<1>1. Init => Written
  <2>1. Init /\ kind \notin {"version", "changelog"} => text = <<>>
    BY DEF Init
  <2>2. \A X : <<>> \in Seq(X)
    OBVIOUS
  <2>3. Init /\ kind = "version" => text \in Raw
    BY MaintainerAssumption DEF Init, Raw
  <2>4. Init /\ kind = "changelog" => text \in FileText
    BY MaintainerAssumption DEF Init, FileText
  <2> QED
    BY <2>1, <2>2, <2>3, <2>4 DEF Written, PatternText
<1>2. Written /\ [Next]_vars => Written'
  <2> SUFFICES ASSUME Written, [Next]_vars PROVE Written'
    OBVIOUS
  <2>1. \A X : \A s \in Seq(X), x \in X : Append(s, x) \in Seq(X)
    OBVIOUS
  <2>2. CASE UNCHANGED textVars
    BY <2>2 DEF Written, textVars
  <2>3. CASE WriteIdentifier
    BY <2>1, <2>3 DEF WriteIdentifier, Write, Written
  <2>4. CASE WriteEntry
    BY <2>1, <2>4 DEF WriteEntry, Write, Written
  <2>5. CASE WriteSigner
    BY <2>1, <2>5, MaintainerAssumption DEF WriteSigner, Write, Written
  <2>6. CASE WritePattern
    BY <2>1, <2>6 DEF WritePattern, Write, Written, PatternText
  <2>7. CASE WriteChar
    BY <2>1, <2>7, MaintainerAssumption DEF WriteChar, Write, Written, Raw
  <2>8. CASE EditLine
    <3>1. kind = "changelog" /\ kind' = kind /\ text \in FileText
      BY <2>8 DEF EditLine, Written
    <3>2. PICK i \in 1 .. Len(text) + 1 :
            \/ \E l \in Lines : text' = SubSeq(text, 1, i - 1) \o <<l>> \o SubSeq(text, i, Len(text))
            \/ text' = SubSeq(text, 1, i - 1) \o SubSeq(text, i + 1, Len(text))
      BY <2>8 DEF EditLine
    <3>3. Lines \subseteq C!Line
      BY MaintainerAssumption
    <3>4. text' \in FileText
      BY <3>1, <3>2, <3>3, Edited
    <3> QED
      BY <3>1, <3>4 DEF Written
  <2> QED
    BY <2>2, <2>3, <2>4, <2>5, <2>6, <2>7, <2>8 DEF Next, InRepository, vars, textVars
<1> QED
  BY <1>1, <1>2, PTL DEF Spec

(* For lines, keys and uses of any number and any kind: Verify accepts a   *)
(* key exactly when some line allows the use and no negated pattern of it  *)
(* matches (allowed.go:76-170, sshsig.go:235-304).                         *)
THEOREM SignersSoundHolds == Spec => []SignersSound
<1>1. Written => SignersSound
  <2> SUFFICES ASSUME Written, kind = "signers", NEW r \in Requests
               PROVE  S!Verify(text, r.revoked, r.key, r.principal, r.namespace, r.now)
                        <=> S!Authorized(text, r.revoked, r.key, r.principal, r.namespace, r.now)
    BY DEF SignersSound
  <2>1. /\ r.now \in Nat /\ r.namespace \in Seq(Letters)
        /\ r.principal # None => r.principal \in Seq(Letters)
    BY MaintainerAssumption
  <2>2. text \in Seq(SignerLine)
    BY DEF Written
  <2> QED
    BY <2>1, <2>2, VerifyIsAuthorized
<1> QED
  BY WrittenHolds, <1>1, PTL

(* For patterns and texts of any length: wildcardMatch accepts the texts   *)
(* that can be cut into one piece per letter of the pattern                *)
(* (allowed.go:117-140).                                                   *)
THEOREM WildcardsSoundHolds == Spec => []WildcardsSound
<1>1. Written => WildcardsSound
  <2>1. \A s \in UpTo(MaxName, Letters) : s \in Seq(Letters)
    <3>1. ASSUME NEW k \in Nat, NEW f \in [1 .. k -> Letters] PROVE f \in Seq(Letters)
      OBVIOUS
    <3>2. \A k \in 0 .. MaxName : k \in Nat
      BY MaintainerAssumption
    <3> QED
      BY <3>1, <3>2 DEF UpTo
  <2> QED
    BY <2>1, WildcardIsLanguage DEF WildcardsSound, Written
<1> QED
  BY WrittenHolds, <1>1, PTL
-----------------------------------------------------------------------------
Sorted(m) == \A i, j \in DOMAIN m : i < j => m[i].name < m[j].name

\* The manifests that Add makes.
Manifests == {m \in Seq(M!Entry) : Sorted(m)}

LEMMA ManifestFacts ==
  ASSUME NEW m \in Manifests
  PROVE  /\ m \in Seq(M!Entry) /\ Len(m) \in Nat /\ DOMAIN m = 1 .. Len(m)
         /\ \A i \in 1 .. Len(m) : m[i] \in M!Entry /\ m[i].name \in Nat /\ m[i].name \in FileNames
         /\ \A i, j \in 1 .. Len(m) : i < j => m[i].name < m[j].name
<1>1. m \in Seq(M!Entry) /\ Len(m) \in Nat /\ DOMAIN m = 1 .. Len(m)
  BY LenProperties DEF Manifests
<1>2. \A i \in 1 .. Len(m) : m[i] \in M!Entry
  BY <1>1, ElementOfSeq
<1>3. \A e \in M!Entry : e.name \in FileNames /\ e.name \in Nat
  BY MaintainerAssumption DEF M!Entry
<1> QED
  BY <1>1, <1>2, <1>3 DEF Manifests, Sorted

\* The binary search ends at the first entry that is not below the name.
LEMMA PlaceFound ==
  ASSUME NEW m \in Manifests, NEW name \in Int
  PROVE  /\ M!Place(m, name) \in 1 .. Len(m) + 1
         /\ \A k \in 1 .. Len(m) : m[k].name >= name <=> k >= M!Place(m, name)
<1> DEFINE n == Len(m)
           B == {x \in 0 .. n : x < n => m[x + 1].name >= name}
<1>1. n \in Nat /\ \A i \in 1 .. n : m[i].name \in Nat
  BY ManifestFacts
<1>2. \A i, j \in 1 .. n : i < j => m[i].name < m[j].name
  BY ManifestFacts
<1> HIDE DEF n
<1>3. PICK c \in 0 .. n : \A x \in 0 .. n - 1 : m[x + 1].name >= name <=> x >= c
  <2>1. B \in SUBSET Nat /\ n \in B
    BY <1>1
  <2>2. PICK c \in B : \A x \in B : c <= x
    BY <2>1, LeastOf
  <2>3. ASSUME NEW x \in 0 .. n - 1 PROVE m[x + 1].name >= name <=> x >= c
    <3>1. CASE x < c
      BY <1>1, <2>2, <3>1
    <3>2. CASE x = c
      BY <1>1, <2>2, <3>2
    <3>3. CASE x > c
      <4>1. m[c + 1].name < m[x + 1].name /\ m[c + 1].name >= name
        BY <1>1, <1>2, <2>2, <3>3
      <4> QED
        BY <1>1, <2>2, <3>3, <4>1
    <3> QED
      BY <1>1, <2>2, <3>1, <3>2, <3>3
  <2> QED
    BY <2>2, <2>3
<1> DEFINE End(i, j) == IF i >= j \/ c <= i THEN i ELSE IF c >= j THEN j ELSE c
           Walk(g) == g = [i \in 0 .. n |-> [j \in 0 .. n |->
             IF i >= j THEN i
             ELSE LET h == (i + j) \div 2
                  IN  IF m[h + 1].name >= name THEN g[i][h] ELSE g[h + 1][j]]]
<1>4. ASSUME NEW i \in 0 .. n, NEW j \in 0 .. n, i < j
      PROVE  LET h == (i + j) \div 2
             IN  /\ h \in 0 .. n - 1 /\ i <= h /\ h < j
                 /\ m[h + 1].name >= name => End(i, j) = End(i, h)
                 /\ ~(m[h + 1].name >= name) => End(i, j) = End(h + 1, j)
  <2> DEFINE h == (i + j) \div 2
  <2>1. h \in 0 .. n - 1 /\ i <= h /\ h < j
    BY <1>1, <1>4
  <2>2. m[h + 1].name >= name <=> h >= c
    BY <1>3, <2>1
  <2> HIDE DEF h
  <2>3. /\ m[h + 1].name >= name => End(i, j) = End(i, h)
        /\ ~(m[h + 1].name >= name) => End(i, j) = End(h + 1, j)
    BY <1>1, <1>4, <2>1, <2>2
  <2> QED
    BY <2>1, <2>3 DEF h
<1>5. \E g : Walk(g)
  <2> DEFINE w == [i \in 0 .. n |-> [j \in 0 .. n |-> End(i, j)]]
  <2>1. ASSUME NEW i \in 0 .. n, NEW j \in 0 .. n
        PROVE  End(i, j) = IF i >= j THEN i
                           ELSE LET h == (i + j) \div 2
                                IN  IF m[h + 1].name >= name THEN w[i][h] ELSE w[h + 1][j]
    <3>1. CASE i >= j
      BY <3>1
    <3>2. CASE ~(i >= j)
      <4> DEFINE h == (i + j) \div 2
      <4>1. /\ h \in 0 .. n - 1 /\ h \in 0 .. n /\ h + 1 \in 0 .. n
            /\ m[h + 1].name >= name => End(i, j) = End(i, h)
            /\ ~(m[h + 1].name >= name) => End(i, j) = End(h + 1, j)
        BY <1>1, <1>4, <3>2
      <4> HIDE DEF h, End
      <4>2. w[i][h] = End(i, h) /\ w[h + 1][j] = End(h + 1, j)
        BY <4>1
      <4> QED
        BY <3>2, <4>1, <4>2 DEF h
    <3> QED
      BY <3>1, <3>2
  <2> HIDE DEF End
  <2>2. Walk(w)
    BY <2>1
  <2> QED
    BY <2>2
<1>6. PICK g : Walk(g) /\ M!Place(m, name) = g[0][n] + 1
  BY <1>5 DEF M!Place, M!Search, n
<1>7. ASSUME NEW i \in 0 .. n, NEW j \in 0 .. n
      PROVE  g[i][j] = IF i >= j THEN i
                       ELSE LET h == (i + j) \div 2
                            IN  IF m[h + 1].name >= name THEN g[i][h] ELSE g[h + 1][j]
  BY <1>6
<1> HIDE DEF Walk
<1>8. \A d \in 0 .. n : \A i, j \in 0 .. n : j - i <= d => g[i][j] = End(i, j)
  <2> DEFINE T == {d \in 0 .. n : \A i, j \in 0 .. n : j - i <= d => g[i][j] = End(i, j)}
  <2>1. 0 \in T
    BY <1>1, <1>7
  <2>2. ASSUME NEW d \in 1 .. n, d - 1 \in T PROVE d \in T
    <3> SUFFICES ASSUME NEW i \in 0 .. n, NEW j \in 0 .. n, j - i <= d, i < j
                 PROVE  g[i][j] = End(i, j)
      BY <1>1, <1>7
    <3> DEFINE h == (i + j) \div 2
    <3>1. /\ h \in 0 .. n - 1 /\ h \in 0 .. n /\ h + 1 \in 0 .. n /\ i <= h /\ h < j
          /\ m[h + 1].name >= name => End(i, j) = End(i, h)
          /\ ~(m[h + 1].name >= name) => End(i, j) = End(h + 1, j)
      BY <1>1, <1>4
    <3>2. g[i][j] = IF m[h + 1].name >= name THEN g[i][h] ELSE g[h + 1][j]
      BY <1>7
    <3> HIDE DEF h, End
    <3>3. g[i][h] = End(i, h) /\ g[h + 1][j] = End(h + 1, j)
      BY <2>2, <3>1
    <3> QED
      BY <3>1, <3>2, <3>3
  <2> HIDE DEF T
  <2>3. \A d \in 0 .. n : d \in T
    BY <1>1, <2>1, <2>2, Rounds
  <2> QED
    BY <2>3 DEF T
<1>9. M!Place(m, name) = c + 1
  <2>1. g[0][n] = End(0, n)
    BY <1>1, <1>8
  <2> QED
    BY <1>1, <1>3, <1>6, <2>1
<1>10. ASSUME NEW k \in 1 .. n PROVE m[k].name >= name <=> k >= M!Place(m, name)
  <2>1. k - 1 \in 0 .. n - 1 /\ m[(k - 1) + 1].name = m[k].name
    BY <1>1
  <2>2. m[(k - 1) + 1].name >= name <=> k - 1 >= c
    BY <1>3, <2>1
  <2> QED
    BY <1>1, <1>9, <2>1, <2>2
<1> QED
  BY <1>1, <1>9, <1>10 DEF n

\* Where a name stands is where the search ends.
LEMMA LookupFound ==
  ASSUME NEW m \in Manifests, NEW name \in Nat
  PROVE  /\ M!Listed(m, name) <=> \E i \in 1 .. Len(m) : m[i].name = name
         /\ \A i \in 1 .. Len(m) : m[i].name = name =>
              M!Place(m, name) = i /\ M!Lookup(m, name) = m[i].sum
<1> DEFINE n == Len(m)
           p == M!Place(m, name)
<1>1. /\ n \in Nat /\ \A i \in 1 .. n : m[i].name \in Nat
      /\ \A i, j \in 1 .. n : i < j => m[i].name < m[j].name
  BY ManifestFacts
<1>2. p \in 1 .. n + 1 /\ \A k \in 1 .. n : m[k].name >= name <=> k >= p
  BY PlaceFound
<1>3. /\ M!Listed(m, name) <=> p <= n /\ m[p].name = name
      /\ M!Lookup(m, name) = m[p].sum
  BY DEF M!Listed, M!IsAt, M!Lookup
<1> HIDE DEF n, p
<1>4. ASSUME NEW i \in 1 .. n, m[i].name = name PROVE p = i
  <2>1. i >= p /\ p \in 1 .. n
    BY <1>1, <1>2, <1>4
  <2>2. m[p].name >= name
    BY <1>2, <2>1
  <2>3. ~(p < i)
    BY <1>1, <1>4, <2>1, <2>2
  <2> QED
    BY <2>1, <2>3
<1>5. p <= n => p \in 1 .. n
  BY <1>1, <1>2
<1> QED
  BY <1>1, <1>3, <1>4, <1>5 DEF n, p

\* Add puts an entry in its place, instead of one of the same name.
LEMMA EntryAdded ==
  ASSUME NEW m \in Manifests, NEW name \in FileNames, NEW sum \in Sums
  PROVE  /\ M!Add(m, name, sum) \in Manifests
         /\ Content(M!Add(m, name, sum))
              = {e \in Content(m) : e.name # name} \union {[name |-> name, sum |-> sum]}
<1> DEFINE n == Len(m)
           p == M!Place(m, name)
           e == [name |-> name, sum |-> sum]
           a == M!Add(m, name, sum)
<1>1. /\ m \in Seq(M!Entry) /\ n \in Nat /\ DOMAIN m = 1 .. n
      /\ \A i \in 1 .. n : m[i] \in M!Entry /\ m[i].name \in Nat
      /\ \A i, j \in 1 .. n : i < j => m[i].name < m[j].name
  BY ManifestFacts
<1>2. name \in Nat /\ name \in Int
  BY MaintainerAssumption
<1>3. p \in 1 .. n + 1 /\ \A k \in 1 .. n : m[k].name >= name <=> k >= p
  BY <1>2, PlaceFound
<1>4. e \in M!Entry /\ e.name = name
  BY DEF M!Entry
<1>5. CASE M!IsAt(m, p, name)
  <2>1. p \in 1 .. n /\ m[p].name = name
    BY <1>1, <1>3, <1>5 DEF M!IsAt
  <2>2. [m[p] EXCEPT !.sum = sum] = e
    BY <1>1, <2>1 DEF M!Entry
  <2>3. a = [m EXCEPT ![p] = [m[p] EXCEPT !.sum = sum]]
    BY <1>5 DEF M!Add
  <2>4. a = [m EXCEPT ![p] = e]
    BY <2>2, <2>3
  <2> HIDE DEF e, a, p, n
  <2>5. /\ a \in Seq(M!Entry) /\ Len(a) = n
        /\ \A j \in 1 .. n : a[j] = IF j = p THEN e ELSE m[j]
    BY <1>1, <1>4, <2>1, <2>4, ExceptSeq DEF n
  <2>6. DOMAIN a = 1 .. n
    BY <2>5, LenProperties
  <2>7. \A j \in 1 .. n : a[j].name = m[j].name
    BY <1>4, <2>1, <2>5
  <2>8. a \in Manifests
    BY <1>1, <2>5, <2>6, <2>7 DEF Manifests, Sorted
  <2>9. \A j \in 1 .. n : m[j].name = name <=> j = p
    BY <1>1, <2>1
  <2>10. Content(a) = {x \in Content(m) : x.name # name} \union {e}
    BY <1>1, <2>1, <2>5, <2>6, <2>9 DEF Content
  <2> QED
    BY <2>8, <2>10 DEF a, e
<1>6. CASE ~M!IsAt(m, p, name)
  <2> DEFINE s1 == SubSeq(m, 1, p - 1)
             s2 == SubSeq(m, p, n)
  <2>1. a = (s1 \o <<e>>) \o s2
    BY <1>6 DEF M!Add
  <2> HIDE DEF e, a, p, n
  <2>2. /\ s1 \in Seq(M!Entry) /\ Len(s1) = p - 1
        /\ \A i \in 1 .. p - 1 : s1[i] = m[i]
    <3>1. \A i \in 1 .. p - 1 : m[i] \in M!Entry
      BY <1>1, <1>3
    <3>2. /\ s1 \in Seq(M!Entry)
          /\ Len(s1) = IF 1 <= p - 1 THEN (p - 1) - 1 + 1 ELSE 0
          /\ \A i \in 1 .. (p - 1) - 1 + 1 : s1[i] = m[1 + i - 1]
      BY <1>1, <1>3, <3>1, SubSeqProperties
    <3>3. (p - 1) - 1 + 1 = p - 1 /\ \A i \in 1 .. p - 1 : 1 + i - 1 = i
      BY <1>1, <1>3
    <3> QED
      BY <1>1, <1>3, <3>2, <3>3
  <2>3. /\ s2 \in Seq(M!Entry) /\ Len(s2) = n - p + 1
        /\ \A i \in 1 .. n - p + 1 : s2[i] = m[p + i - 1]
    <3>1. \A i \in p .. n : m[i] \in M!Entry
      BY <1>1, <1>3
    <3>2. /\ s2 \in Seq(M!Entry)
          /\ Len(s2) = IF p <= n THEN n - p + 1 ELSE 0
          /\ \A i \in 1 .. n - p + 1 : s2[i] = m[p + i - 1]
      BY <1>1, <1>3, <3>1, SubSeqProperties
    <3> QED
      BY <1>1, <1>3, <3>2
  <2> HIDE DEF s1, s2
  <2>4. /\ s1 \o <<e>> \in Seq(M!Entry) /\ Len(s1 \o <<e>>) = p
        /\ \A i \in 1 .. p : (s1 \o <<e>>)[i] = IF i < p THEN m[i] ELSE e
    <3>1. <<e>> \in Seq(M!Entry) /\ Len(<<e>>) = 1 /\ <<e>>[1] = e
      BY <1>4
    <3>2. /\ s1 \o <<e>> \in Seq(M!Entry)
          /\ Len(s1 \o <<e>>) = Len(s1) + Len(<<e>>)
          /\ \A i \in 1 .. Len(s1) + Len(<<e>>) : (s1 \o <<e>>)[i] =
               IF i <= Len(s1) THEN s1[i] ELSE <<e>>[i - Len(s1)]
      BY <2>2, <3>1, ConcatProperties
    <3>3. ASSUME NEW i \in 1 .. p PROVE (s1 \o <<e>>)[i] = IF i < p THEN m[i] ELSE e
      <4>1. CASE i < p
        BY <1>1, <1>3, <2>2, <3>1, <3>2, <4>1
      <4>2. CASE ~(i < p)
        <5>1. i = p /\ i - Len(s1) = 1 /\ ~(i <= Len(s1))
          BY <1>1, <1>3, <2>2, <4>2
        <5> QED
          BY <2>2, <3>1, <3>2, <5>1
      <4> QED
        BY <4>1, <4>2
    <3> QED
      BY <1>1, <1>3, <2>2, <3>1, <3>2, <3>3
  <2> DEFINE s == s1 \o <<e>>
  <2> HIDE DEF s
  <2>5. /\ a \in Seq(M!Entry) /\ Len(a) = n + 1
        /\ \A i \in 1 .. n + 1 : a[i] = IF i < p THEN m[i] ELSE IF i = p THEN e ELSE m[i - 1]
    <3>1. s \in Seq(M!Entry) /\ Len(s) = p
      BY <2>4 DEF s
    <3> DEFINE b == s \o s2
    <3>2. /\ b \in Seq(M!Entry)
          /\ Len(b) = Len(s) + Len(s2)
          /\ \A i \in 1 .. Len(s) + Len(s2) : b[i] = IF i <= Len(s) THEN s[i] ELSE s2[i - Len(s)]
      BY <2>3, <3>1, ConcatProperties
    <3> HIDE DEF b
    <3>3. Len(s) + Len(s2) = n + 1
      BY <1>1, <1>3, <2>3, <3>1
    <3>4. ASSUME NEW i \in 1 .. n + 1
          PROVE  b[i] = IF i < p THEN m[i] ELSE IF i = p THEN e ELSE m[i - 1]
      <4>1. CASE i <= p
        <5>1. b[i] = s[i] /\ i \in 1 .. p
          BY <1>1, <1>3, <3>1, <3>2, <3>3, <4>1
        <5>2. s[i] = IF i < p THEN m[i] ELSE e
          BY <2>4, <5>1 DEF s
        <5> QED
          BY <1>1, <1>3, <4>1, <5>1, <5>2
      <4>2. CASE i > p
        <5>1. i - p \in 1 .. n - p + 1 /\ p + (i - p) - 1 = i - 1
          BY <1>1, <1>3, <4>2
        <5>2. b[i] = s2[i - p]
          BY <1>1, <1>3, <3>1, <3>2, <3>3, <4>2
        <5>3. s2[i - p] = m[i - 1]
          BY <2>3, <5>1
        <5> QED
          BY <1>1, <1>3, <4>2, <5>2, <5>3
      <4>3. i <= p \/ i > p
        BY <1>1, <1>3
      <4> QED
        BY <4>1, <4>2, <4>3
    <3> QED
      BY <2>1, <3>2, <3>3, <3>4 DEF s, b
  <2>6. DOMAIN a = 1 .. n + 1
    BY <2>5, LenProperties
  <2>7. \A k \in 1 .. n : (k < p => m[k].name < name) /\ (k >= p => name < m[k].name)
    <3>1. p \in 1 .. n => m[p].name > name
      <4>1. p \in 1 .. n => m[p].name # name /\ m[p].name >= name
        BY <1>3, <1>6 DEF M!IsAt, n
      <4> QED
        BY <1>1, <1>2, <4>1
    <3>2. ASSUME NEW k \in 1 .. n, k >= p PROVE name < m[k].name
      <4>1. p \in 1 .. n
        BY <1>1, <1>3, <3>2
      <4>2. m[k].name >= m[p].name
        BY <1>1, <1>3, <3>2, <4>1
      <4> QED
        BY <1>1, <1>2, <3>1, <4>1, <4>2
    <3>3. ASSUME NEW k \in 1 .. n, k < p PROVE m[k].name < name
      BY <1>1, <1>2, <1>3, <3>3
    <3> QED
      BY <3>2, <3>3
  <2>8. ASSUME NEW i \in 1 .. n + 1, NEW j \in 1 .. n + 1, i < j
        PROVE  a[i].name < a[j].name
    <3>1. CASE j < p
      BY <1>1, <1>3, <2>5, <2>8, <3>1
    <3>2. CASE j = p
      <4>1. i \in 1 .. n /\ i < p /\ a[i] = m[i] /\ a[j] = e
        BY <1>1, <1>3, <2>5, <2>8, <3>2
      <4> QED
        BY <1>4, <2>7, <4>1
    <3>3. CASE j > p /\ i < p
      <4>1. i \in 1 .. n /\ j - 1 \in 1 .. n /\ i < j - 1 /\ a[i] = m[i] /\ a[j] = m[j - 1]
        BY <1>1, <1>3, <2>5, <2>8, <3>3
      <4> QED
        BY <1>1, <4>1
    <3>4. CASE j > p /\ i = p
      <4>1. j - 1 \in 1 .. n /\ j - 1 >= p /\ a[i] = e /\ a[j] = m[j - 1]
        BY <1>1, <1>3, <2>5, <2>8, <3>4
      <4> QED
        BY <1>4, <2>7, <4>1
    <3>5. CASE i > p
      <4>1. i - 1 \in 1 .. n /\ j - 1 \in 1 .. n /\ i - 1 < j - 1 /\ a[i] = m[i - 1] /\ a[j] = m[j - 1]
        BY <1>1, <1>3, <2>5, <2>8, <3>5
      <4> QED
        BY <1>1, <4>1
    <3> QED
      BY <1>1, <1>3, <2>8, <3>1, <3>2, <3>3, <3>4, <3>5
  <2>9. a \in Manifests
    BY <2>5, <2>6, <2>8 DEF Manifests, Sorted
  <2>10. Content(a) = {x \in Content(m) : x.name # name} \union {e}
    <3>1. \A k \in 1 .. n : m[k].name # name
      BY <1>1, <1>2, <1>3, <2>7
    <3>2. \A k \in 1 .. n : \E i \in 1 .. n + 1 : a[i] = m[k]
      <4>1. ASSUME NEW k \in 1 .. n, k < p PROVE k \in 1 .. n + 1 /\ a[k] = m[k]
        BY <1>1, <1>3, <2>5, <4>1
      <4>2. ASSUME NEW k \in 1 .. n, k >= p PROVE k + 1 \in 1 .. n + 1 /\ a[k + 1] = m[k]
        BY <1>1, <1>3, <2>5, <4>2
      <4> QED
        BY <1>1, <1>3, <4>1, <4>2
    <3>3. \A i \in 1 .. n + 1 : i # p => \E k \in 1 .. n : a[i] = m[k]
      <4>1. ASSUME NEW i \in 1 .. n + 1, i < p PROVE i \in 1 .. n /\ a[i] = m[i]
        BY <1>1, <1>3, <2>5, <4>1
      <4>2. ASSUME NEW i \in 1 .. n + 1, i > p PROVE i - 1 \in 1 .. n /\ a[i] = m[i - 1]
        BY <1>1, <1>3, <2>5, <4>2
      <4> QED
        BY <1>1, <1>3, <4>1, <4>2
    <3>4. a[p] = e
      BY <1>1, <1>3, <2>5
    <3>5. p \in 1 .. n + 1
      BY <1>3
    <3>6. Content(m) = {m[k] : k \in 1 .. n} /\ Content(a) = {a[i] : i \in 1 .. n + 1}
      BY <1>1, <2>6 DEF Content
    <3>7. ASSUME NEW x, x \in Content(a) PROVE x = e \/ (x \in Content(m) /\ x.name # name)
      BY <3>1, <3>3, <3>4, <3>6, <3>7
    <3>8. ASSUME NEW x, x = e \/ x \in Content(m) PROVE x \in Content(a)
      BY <3>2, <3>4, <3>5, <3>6, <3>8
    <3> QED
      BY <3>7, <3>8
  <2> QED
    BY <2>9, <2>10 DEF a, e
<1> QED
  BY <1>5, <1>6

LEMMA NothingAdded == <<>> \in Manifests /\ Content(<<>>) = {}
<1>1. <<>> \in Seq(M!Entry) /\ DOMAIN <<>> = {}
  OBVIOUS
<1> QED
  BY <1>1 DEF Manifests, Sorted, Content

LEMMA NoManifestIsNone == M!NoManifest \notin Manifests
<1> SUFFICES ASSUME M!NoManifest \in Manifests PROVE FALSE
  OBVIOUS
<1>1. Len(M!NoManifest) = 1 /\ M!NoManifest[1].name = -1
  BY DEF M!NoManifest
<1>2. 1 \in 1 .. Len(M!NoManifest)
  BY <1>1
<1>3. M!NoManifest[1].name \in Nat
  BY <1>2, ManifestFacts
<1> QED
  BY <1>1, <1>3

\* Parse adds the lines one after another, and ends at the first that is bad.
LEMMA ParseAdds ==
  ASSUME NEW lines \in Seq(ManifestLine)
  PROVE  /\ Valid(lines) => M!Parse(lines) \in Manifests /\ Content(M!Parse(lines)) = Content(lines)
         /\ ~Valid(lines) => M!Parse(lines) = M!NoManifest
<1> DEFINE n == Len(lines)
           Bad(i, m) == m = M!NoManifest \/ lines[i].name \notin FileNames \/ M!Listed(m, lines[i].name)
           Round(i, m) == IF Bad(i, m) THEN M!NoManifest ELSE M!Add(m, lines[i].name, lines[i].sum)
           W == Manifests \union {M!NoManifest}
           F == [q \in (1 .. n) \X W |-> Round(q[1], q[2])]
           Walk(g) == g = [i \in 0 .. n |-> IF i = 0 THEN <<>> ELSE Round(i, g[i - 1])]
           Fine(k) == /\ \A i \in 1 .. k : lines[i].name \in FileNames
                      /\ \A i, j \in 1 .. k : lines[i].name = lines[j].name => i = j
           First(k) == {lines[i] : i \in 1 .. k}
<1>1. n \in Nat /\ DOMAIN lines = 1 .. n
  BY LenProperties
<1>2. ASSUME NEW i \in 1 .. n
      PROVE  /\ lines[i].sum \in Sums
             /\ lines[i] = [name |-> lines[i].name, sum |-> lines[i].sum]
  <2>1. lines[i] \in ManifestLine
    BY ElementOfSeq
  <2> QED
    BY <2>1 DEF ManifestLine
<1>3. ASSUME NEW i \in 1 .. n, NEW m \in W, ~Bad(i, m)
      PROVE  /\ Round(i, m) \in Manifests
             /\ Content(Round(i, m)) = {e \in Content(m) : e.name # lines[i].name} \union {lines[i]}
  <2>1. lines[i].name \in FileNames /\ m \in Manifests
    BY <1>3
  <2>2. Round(i, m) = M!Add(m, lines[i].name, lines[i].sum)
    BY <1>3
  <2> HIDE DEF Round, W, Bad
  <2>3. ASSUME NEW name, NEW sum, name = lines[i].name, sum = lines[i].sum
        PROVE  /\ M!Add(m, name, sum) \in Manifests
               /\ Content(M!Add(m, name, sum))
                    = {e \in Content(m) : e.name # name} \union {[name |-> name, sum |-> sum]}
    <3>1. name \in FileNames /\ sum \in Sums /\ m \in Manifests
      BY <1>2, <2>1, <2>3
    <3> QED
      BY <3>1, EntryAdded
  <2>4. /\ Round(i, m) \in Manifests
        /\ Content(Round(i, m))
             = {e \in Content(m) : e.name # lines[i].name}
                 \union {[name |-> lines[i].name, sum |-> lines[i].sum]}
    BY <2>2, <2>3
  <2> QED
    BY <1>2, <2>4
<1>4. \E g : Walk(g)
  <2>1. \A i \in 1 .. n, m \in W : Round(i, m) \in W
    BY <1>3
  <2> HIDE DEF Round
  <2>2. F \in Rule(n, W)
    BY <2>1 DEF Rule
  <2> DEFINE none == <<>>
  <2>3. none \in W
    BY NothingAdded
  <2>4. \A i \in 1 .. n, m \in W : F[<<i, m>>] = Round(i, m)
    OBVIOUS
  <2> HIDE DEF F, W, none, n
  <2>5. PICK g \in [0 .. n -> W] : IsLoop(g, n, none, F)
    BY <1>1, <2>2, <2>3, LoopDefined
  <2>6. \A i \in 0 .. n : i # 0 => i \in 1 .. n /\ i - 1 \in 0 .. n
    BY <1>1
  <2>7. \A i \in 0 .. n : i # 0 => F[<<i, g[i - 1]>>] = Round(i, g[i - 1])
    BY <2>4, <2>5, <2>6
  <2>8. Walk(g)
    BY <2>5, <2>7 DEF none, IsLoop
  <2> QED
    BY <2>8
<1> HIDE DEF n
<1>5. PICK g : Walk(g) /\ M!Parse(lines) = IF lines = <<>> THEN M!NoManifest ELSE g[n]
  BY <1>4 DEF M!Parse, n
<1>6. g[0] = <<>> /\ \A i \in 1 .. n : g[i] = Round(i, g[i - 1])
  BY <1>1, <1>5
<1>7. \A k \in 0 .. n : IF Fine(k) THEN g[k] \in Manifests /\ Content(g[k]) = First(k)
                        ELSE g[k] = M!NoManifest
  <2> DEFINE T == {k \in 0 .. n : IF Fine(k) THEN g[k] \in Manifests /\ Content(g[k]) = First(k)
                                  ELSE g[k] = M!NoManifest}
  <2>1. 0 \in T
    BY <1>1, <1>6, NothingAdded
  <2>2. ASSUME NEW k \in 1 .. n, k - 1 \in T PROVE k \in T
    <3>1. k \in 0 .. n /\ k - 1 \in 0 .. n
      BY <1>1
    <3>2. \A i : i \in 1 .. k <=> i \in 1 .. k - 1 \/ i = k
      BY <1>1
    <3>3. k \notin 1 .. k - 1
      BY <1>1
    <3>4. Fine(k) <=> /\ Fine(k - 1) /\ lines[k].name \in FileNames
                      /\ \A i \in 1 .. k - 1 : lines[i].name # lines[k].name
      BY <3>2, <3>3
    <3>5. First(k) = First(k - 1) \union {lines[k]}
      BY <3>2
    <3>6. IF Fine(k - 1) THEN g[k - 1] \in Manifests /\ Content(g[k - 1]) = First(k - 1)
          ELSE g[k - 1] = M!NoManifest
      BY <2>2
    <3>7. g[k] = Round(k, g[k - 1])
      BY <1>6
    <3> HIDE DEF T, First, Fine
    <3>8. CASE ~Fine(k - 1)
      <4>1. Bad(k, g[k - 1])
        BY <3>6, <3>8
      <4>2. g[k] = M!NoManifest /\ ~Fine(k)
        BY <3>4, <3>7, <3>8, <4>1
      <4> QED
        BY <3>1, <4>2 DEF T
    <3>9. CASE Fine(k - 1)
      <4>1. g[k - 1] \in Manifests /\ Content(g[k - 1]) = First(k - 1) /\ g[k - 1] # M!NoManifest
        BY <3>6, <3>9, NoManifestIsNone
      <4>2. lines[k].name \in FileNames =>
              (M!Listed(g[k - 1], lines[k].name)
                 <=> \E i \in 1 .. k - 1 : lines[i].name = lines[k].name)
        <5> SUFFICES ASSUME lines[k].name \in FileNames
                     PROVE  M!Listed(g[k - 1], lines[k].name)
                              <=> \E e \in First(k - 1) : e.name = lines[k].name
          BY DEF First
        <5>1. lines[k].name \in Nat
          BY MaintainerAssumption
        <5>2. DOMAIN g[k - 1] = 1 .. Len(g[k - 1])
          BY <4>1, ManifestFacts
        <5>3. M!Listed(g[k - 1], lines[k].name)
                <=> \E i \in 1 .. Len(g[k - 1]) : g[k - 1][i].name = lines[k].name
          BY <4>1, <5>1, LookupFound
        <5> QED
          BY <4>1, <5>2, <5>3 DEF Content
      <4>3. Bad(k, g[k - 1]) <=> ~Fine(k)
        BY <3>4, <3>9, <4>1, <4>2
      <4>4. CASE Fine(k)
        <5>1. ~Bad(k, g[k - 1]) /\ g[k - 1] \in W
          BY <4>1, <4>3, <4>4
        <5>2. /\ g[k] \in Manifests
              /\ Content(g[k]) = {e \in First(k - 1) : e.name # lines[k].name} \union {lines[k]}
          <6> HIDE DEF Bad, Round
          <6> QED
            BY <1>3, <3>7, <4>1, <5>1
        <5>3. \A e \in First(k - 1) : e.name # lines[k].name
          BY <3>4, <4>4 DEF First
        <5>4. Content(g[k]) = First(k)
          BY <3>5, <5>2, <5>3
        <5> QED
          BY <3>1, <4>4, <5>2, <5>4 DEF T
      <4>5. CASE ~Fine(k)
        BY <3>1, <3>7, <4>3, <4>5 DEF T
      <4> QED
        BY <4>4, <4>5
    <3> QED
      BY <3>8, <3>9
  <2> HIDE DEF T
  <2>3. \A k \in 0 .. n : k \in T
    BY <1>1, <2>1, <2>2, Rounds
  <2> QED
    BY <2>3 DEF T
<1>8. n \in 0 .. n /\ (Valid(lines) <=> lines # <<>> /\ Fine(n)) /\ Content(lines) = First(n)
  BY <1>1 DEF Valid, Content
<1>9. IF Fine(n) THEN g[n] \in Manifests /\ Content(g[n]) = First(n) ELSE g[n] = M!NoManifest
  BY <1>7, <1>8
<1> HIDE DEF Fine, First
<1> QED
  BY <1>5, <1>8, <1>9

\* The subjects of a statement make a manifest.
LEMMA SubjectsListed ==
  ASSUME NEW lines \in Seq(M!Entry)
  PROVE  M!Subjects(lines) \in Manifests
<1> DEFINE n == Len(lines)
           Round(i, m) == M!Add(m, lines[i].name, lines[i].sum)
           F == [q \in (1 .. n) \X Manifests |-> Round(q[1], q[2])]
           Walk(g) == g = [i \in 0 .. n |-> IF i = 0 THEN <<>> ELSE Round(i, g[i - 1])]
<1>1. n \in Nat /\ \A i \in 1 .. n : lines[i] \in M!Entry
  BY LenProperties, ElementOfSeq
<1>2. \A i \in 1 .. n, m \in Manifests : Round(i, m) \in Manifests
  BY <1>1, EntryAdded DEF M!Entry
<1> HIDE DEF Round
<1>3. F \in Rule(n, Manifests)
  BY <1>2 DEF Rule
<1>4. \A i \in 1 .. n, m \in Manifests : F[<<i, m>>] = Round(i, m)
  OBVIOUS
<1> DEFINE none == <<>>
<1>0. none \in Manifests
  BY NothingAdded
<1> HIDE DEF F, n, none
<1>5. PICK g \in [0 .. n -> Manifests] : IsLoop(g, n, none, F)
  BY <1>0, <1>1, <1>3, LoopDefined
<1>6. \A i \in 0 .. n : i # 0 => F[<<i, g[i - 1]>>] = Round(i, g[i - 1])
  <2>1. \A i \in 0 .. n : i # 0 => i \in 1 .. n /\ i - 1 \in 0 .. n
    BY <1>1
  <2> QED
    BY <1>4, <1>5, <2>1
<1>7. Walk(g) /\ g \in [0 .. n -> Manifests]
  BY <1>5, <1>6 DEF none, IsLoop
<1>8. PICK f : Walk(f) /\ M!Subjects(lines) = f[n]
  BY <1>7 DEF M!Subjects, Round, n
<1>9. \A i \in 0 .. n : f[i] \in Manifests
  <2> DEFINE T == {i \in 0 .. n : f[i] \in Manifests}
  <2>1. 0 \in T
    BY <1>1, <1>8, NothingAdded
  <2>2. ASSUME NEW i \in 1 .. n, i - 1 \in T PROVE i \in T
    BY <1>1, <1>2, <1>8, <2>2
  <2> HIDE DEF T
  <2>3. \A i \in 0 .. n : i \in T
    BY <1>1, <2>1, <2>2, Rounds
  <2> QED
    BY <2>3 DEF T
<1> QED
  BY <1>1, <1>8, <1>9

\* Diff finds nothing where both list the same.
LEMMA SameContent ==
  ASSUME NEW a \in Manifests, NEW b \in Manifests
  PROVE  M!Same(a, b) <=> Content(a) = Content(b)
<1>1. ASSUME NEW x \in Manifests, NEW y \in Manifests, NEW i \in 1 .. Len(x)
      PROVE  /\ M!Listed(y, x[i].name) <=> \E j \in 1 .. Len(y) : y[j].name = x[i].name
             /\ M!Listed(y, x[i].name) =>
                  (M!Lookup(y, x[i].name) = x[i].sum <=> x[i] \in Content(y))
  <2>1. /\ x[i].name \in Nat /\ x[i] \in M!Entry /\ DOMAIN y = 1 .. Len(y)
        /\ \A j \in 1 .. Len(y) : y[j] \in M!Entry
    BY ManifestFacts
  <2>2. /\ M!Listed(y, x[i].name) <=> \E j \in 1 .. Len(y) : y[j].name = x[i].name
        /\ \A j \in 1 .. Len(y) : y[j].name = x[i].name => M!Lookup(y, x[i].name) = y[j].sum
    BY <2>1, LookupFound
  <2>3. \A j \in 1 .. Len(y) : y[j].name = x[i].name /\ y[j].sum = x[i].sum <=> y[j] = x[i]
    BY <2>1 DEF M!Entry
  <2>4. x[i] \in Content(y) <=> \E j \in 1 .. Len(y) : y[j] = x[i]
    BY <2>1 DEF Content
  <2> QED
    BY <2>2, <2>3, <2>4
<1>2. DOMAIN a = 1 .. Len(a) /\ DOMAIN b = 1 .. Len(b)
  BY ManifestFacts
<1>3. ASSUME Content(a) = Content(b) PROVE M!Same(a, b)
  <2>1. ASSUME NEW i \in 1 .. Len(a)
        PROVE  M!Listed(b, a[i].name) /\ M!Lookup(b, a[i].name) = a[i].sum
    <3>1. a[i] \in Content(b)
      BY <1>2, <1>3 DEF Content
    <3>2. M!Listed(b, a[i].name)
      BY <1>1, <1>2, <3>1 DEF Content
    <3> QED
      BY <1>1, <3>1, <3>2
  <2>2. ASSUME NEW i \in 1 .. Len(b) PROVE M!Listed(a, b[i].name)
    <3>1. b[i] \in Content(a)
      BY <1>2, <1>3 DEF Content
    <3> QED
      BY <1>1, <1>2, <3>1 DEF Content
  <2> QED
    BY <1>2, <2>1, <2>2 DEF M!Same
<1>4. ASSUME M!Same(a, b) PROVE Content(a) = Content(b)
  <2>1. \A i \in 1 .. Len(a) : a[i] \in Content(b)
    BY <1>1, <1>2, <1>4 DEF M!Same
  <2>2. ASSUME NEW i \in 1 .. Len(b) PROVE b[i] \in Content(a)
    <3>1. PICK j \in 1 .. Len(a) : a[j].name = b[i].name
      BY <1>1, <1>2, <1>4 DEF M!Same
    <3>2. M!Lookup(b, a[j].name) = a[j].sum
      BY <1>2, <1>4 DEF M!Same
    <3>3. M!Lookup(b, b[i].name) = b[i].sum
      BY ManifestFacts, LookupFound
    <3>4. a[j] \in M!Entry /\ b[i] \in M!Entry
      BY ManifestFacts
    <3>5. a[j] = b[i]
      BY <3>1, <3>2, <3>3, <3>4 DEF M!Entry
    <3> QED
      BY <1>2, <3>5 DEF Content
  <2> QED
    BY <1>2, <2>1, <2>2 DEF Content
<1> QED
  BY <1>3, <1>4

(* For lists of any length: Parse refuses exactly the lists that name      *)
(* nothing, a bad name or a name twice; what it returns is sorted and      *)
(* Lookup finds in it the entries of the list; Diff finds no difference    *)
(* exactly where both manifests list the same (manifest.go:80-226).        *)
THEOREM ManifestFaithfulHolds == Spec => []ManifestFaithful
<1>1. Written => ManifestFaithful
  <2> SUFFICES ASSUME Written, kind = "manifest"
               PROVE  /\ RefusesInvalid(text)
                      /\ Valid(text) => /\ FindsEntries(M!Parse(text), text)
                                        /\ \A l \in OtherLists :
                                             DiffsContent(M!Parse(text), M!Subjects(l))
    BY DEF ManifestFaithful
  <2>1. /\ Valid(text) => M!Parse(text) \in Manifests /\ Content(M!Parse(text)) = Content(text)
        /\ ~Valid(text) => M!Parse(text) = M!NoManifest
    BY ParseAdds DEF Written
  <2>2. RefusesInvalid(text)
    BY <2>1, NoManifestIsNone DEF RefusesInvalid
  <2> DEFINE m == M!Parse(text)
  <2>3. ASSUME m \in Manifests, Content(m) = Content(text) PROVE FindsEntries(m, text)
    <3> HIDE DEF m
    <3>1. /\ Len(m) \in Nat /\ DOMAIN m = 1 .. Len(m)
          /\ \A i \in 1 .. Len(m) : m[i] \in M!Entry
          /\ \A i, j \in 1 .. Len(m) : i < j => m[i].name < m[j].name
      BY <2>3, ManifestFacts
    <3>2. \A i \in 1 .. Len(m) - 1 : m[i].name < m[i + 1].name
      BY <3>1
    <3>3. ASSUME NEW n \in FileNames
          PROVE  /\ M!Listed(m, n) <=> \E e \in Content(text) : e.name = n
                 /\ M!Listed(m, n) => [name |-> n, sum |-> M!Lookup(m, n)] \in Content(text)
      <4>1. n \in Nat
        BY MaintainerAssumption
      <4>2. /\ M!Listed(m, n) <=> \E i \in 1 .. Len(m) : m[i].name = n
            /\ \A i \in 1 .. Len(m) : m[i].name = n => M!Lookup(m, n) = m[i].sum
        BY <2>3, <4>1, LookupFound
      <4>3. \A i \in 1 .. Len(m) : m[i] = [name |-> m[i].name, sum |-> m[i].sum]
        BY <3>1 DEF M!Entry
      <4>4. Content(text) = {m[i] : i \in 1 .. Len(m)}
        BY <2>3, <3>1 DEF Content
      <4> QED
        BY <4>2, <4>3, <4>4
    <3> QED
      BY <2>3, <3>2, <3>3 DEF FindsEntries
  <2>4. ASSUME m \in Manifests, NEW l \in OtherLists PROVE DiffsContent(m, M!Subjects(l))
    BY <2>4, MaintainerAssumption, SubjectsListed, SameContent DEF DiffsContent
  <2> QED
    BY <2>1, <2>2, <2>3, <2>4
<1> QED
  BY WrittenHolds, <1>1, PTL

(* For versions with identifiers and numbers of any length: Compare        *)
(* decides the precedence of item 11 of the specification, though it       *)
(* compares numbers by their length and their digits                       *)
(* (semver.go:129-181).                                                    *)
THEOREM VersionsCompareHolds == Spec => []VersionsCompare
<1>1. Written => VersionsCompare
  <2> SUFFICES ASSUME Written, kind = "identifiers"
               PROVE  ComparesAsSpecified(
                        [core : Cores, pre : {text}, build : {<<>>}]
                          \union [core : Cores, pre : UpTo(2, Identifiers), build : {text}])
    BY DEF VersionsCompare
  <2>1. Identifiers \subseteq Proper /\ Identifiers \subseteq Identifier
    BY MaintainerAssumption DEF Proper
  <2>2. text \in Seq(Proper) /\ text \in Seq(Identifier) /\ <<>> \in Seq(Identifier)
    BY <2>1, SeqMonotonic DEF Written
  <2>3. \A pre \in UpTo(2, Identifiers) : pre \in Seq(Proper)
    <3>1. ASSUME NEW k \in 0 .. 2, NEW f \in [1 .. k -> Identifiers] PROVE f \in Seq(Identifiers)
      OBVIOUS
    <3> QED
      BY <2>1, <3>1, SeqMonotonic DEF UpTo
  <2>4. Cores \subseteq [1 .. 3 -> Nat]
    BY MaintainerAssumption
  <2> DEFINE V == [core : Cores, pre : {text}, build : {<<>>}]
                    \union [core : Cores, pre : UpTo(2, Identifiers), build : {text}]
  <2>5. \A v \in V : /\ v.core \in [1 .. 3 -> Nat]
                     /\ v.pre \in Seq(Proper) /\ v.build \in Seq(Identifier)
                     /\ v = [core |-> v.core, pre |-> v.pre, build |-> v.build]
    <3>1. ASSUME NEW v \in [core : Cores, pre : {text}, build : {<<>>}]
          PROVE  /\ v.core \in Cores /\ v.pre = text /\ v.build = <<>>
                 /\ v = [core |-> v.core, pre |-> v.pre, build |-> v.build]
      OBVIOUS
    <3>2. ASSUME NEW v \in [core : Cores, pre : UpTo(2, Identifiers), build : {text}]
          PROVE  /\ v.core \in Cores /\ v.pre \in UpTo(2, Identifiers) /\ v.build = text
                 /\ v = [core |-> v.core, pre |-> v.pre, build |-> v.build]
      OBVIOUS
    <3> QED
      BY <2>2, <2>3, <2>4, <3>1, <3>2
  <2> HIDE DEF V
  <2>6. ComparesAsSpecified(V)
    BY <2>5, ComparesVersions
  <2> QED
    BY <2>6 DEF V
<1> QED
  BY WrittenHolds, <1>1, PTL

(* For texts of any length: Parse accepts the texts of the grammar and no  *)
(* other, however '-' and '+' are mixed, and String gives back the text    *)
(* (semver.go:29-123).                                                     *)
THEOREM VersionsParseHolds == Spec => []VersionsParse
<1>1. Written => VersionsParse
  <2> SUFFICES ASSUME Written, kind = "version" PROVE ParsesGrammar({text})
    BY DEF VersionsParse
  <2>1. {text} \in SUBSET Raw
    BY DEF Written
  <2> QED
    BY <2>1, ParsesTexts
<1> QED
  BY WrittenHolds, <1>1, PTL
-----------------------------------------------------------------------------
(* What Release does to the lines of a changelog.  q[i] is where the new   *)
(* file has come to when line i is done (MovesTo), so each line of the new *)
(* file comes from one of the old (Origin), lines keep their order         *)
(* (PlacesOrder) and sections end where they ended (NewEnds).              *)

Versions == Nat \ {0}

\* The first of a set of places.
LEMMA FirstFound ==
  ASSUME NEW T \in SUBSET Nat, T # {}
  PROVE  C!First(T) \in T /\ \A k \in T : C!First(T) <= k
<1>1. \E m \in T : \A k \in T : m <= k
  BY LeastOf
<1> QED
  BY <1>1 DEF C!First

LEMMA FirstIs ==
  ASSUME NEW T \in SUBSET Nat, NEW m \in T, \A k \in T : m <= k
  PROVE  C!First(T) = m
<1>1. C!First(T) \in T /\ C!First(T) <= m /\ m <= C!First(T)
  BY FirstFound
<1>2. m \in Nat /\ C!First(T) \in Nat
  BY <1>1
<1> HIDE DEF C!First
<1> QED
  BY <1>1, <1>2

\* The fields of a line.
LEMMA LineFacts ==
  ASSUME NEW l \in C!Line
  PROVE  /\ l.is \in {"unreleased", "odd", "heading", "text", "blank", "sub", "release", "link"}
         /\ l.is = "release" => l.v \in Versions
         /\ l.is = "link" => l.v \in Nat
BY DEF C!Line, Versions

LEMMA NewLines ==
  ASSUME NEW v \in Versions
  PROVE  /\ C!Unreleased \in C!Line /\ C!Blank \in C!Line /\ C!ReleaseHead(v) \in C!Line
         /\ C!Link(0) \in C!Line /\ C!Link(v) \in C!Line
         /\ C!Unreleased.is = "unreleased" /\ C!Blank.is = "blank"
         /\ C!ReleaseHead(v).is = "release" /\ C!ReleaseHead(v).v = v /\ C!ReleaseHead(v).good
         /\ \A w \in {0, v} : C!Link(w).is = "link" /\ C!Link(w).v = w /\ C!Link(w).good
<1>1. C!Unreleased \in C!Line /\ C!Blank \in C!Line
  BY DEF C!Line, C!Unreleased, C!Blank
<1>2. C!ReleaseHead(v) \in C!Line
  BY DEF C!Line, C!ReleaseHead, Versions
<1>3. \A w \in Nat : C!Link(w) \in C!Line
  BY DEF C!Line, C!Link
<1> QED
  BY <1>1, <1>2, <1>3 DEF C!Unreleased, C!Blank, C!ReleaseHead, C!Link, Versions

\* What a line becomes.
IsLink0(l) == l.is = "link" /\ l.v = 0
Kept(l) == l.is # "unreleased" /\ ~IsLink0(l)

LEMMA MovedFacts ==
  ASSUME NEW l \in C!Line, NEW v \in Versions
  PROVE  /\ C!Moved(l, v) \in FileText /\ Len(C!Moved(l, v)) \in Nat
         /\ l.is = "unreleased" => /\ Len(C!Moved(l, v)) = 3
                                   /\ C!Moved(l, v)[1] = C!Unreleased
                                   /\ C!Moved(l, v)[2] = C!Blank
                                   /\ C!Moved(l, v)[3] = C!ReleaseHead(v)
         /\ IsLink0(l) => /\ Len(C!Moved(l, v)) = 2
                          /\ C!Moved(l, v)[1] = C!Link(0) /\ C!Moved(l, v)[2] = C!Link(v)
         /\ Kept(l) => Len(C!Moved(l, v)) = 1 /\ C!Moved(l, v)[1] = l
<1>1. CASE l.is = "unreleased"
  <2>1. C!Moved(l, v) = <<C!Unreleased, C!Blank, C!ReleaseHead(v)>>
    BY <1>1 DEF C!Moved
  <2> QED
    BY <1>1, <2>1, NewLines DEF FileText, IsLink0, Kept
<1>2. CASE IsLink0(l)
  <2>1. C!Moved(l, v) = <<C!Link(0), C!Link(v)>>
    BY <1>2 DEF C!Moved, IsLink0
  <2> QED
    BY <1>2, <2>1, NewLines DEF FileText, IsLink0, Kept
<1>3. CASE Kept(l)
  <2>1. C!Moved(l, v) = <<l>>
    BY <1>3 DEF C!Moved, IsLink0, Kept
  <2> QED
    BY <1>3, <2>1 DEF FileText, Kept
<1> QED
  BY <1>1, <1>2, <1>3 DEF Kept

(***************************************************************************)
(* new is what Release makes of lines; q[i] is where it has come to when   *)
(* line i is done.                                                         *)
(***************************************************************************)
MovesTo(lines, new, v, q) ==
  /\ q \in [0 .. Len(lines) -> Nat] /\ q[0] = 0 /\ q[Len(lines)] = Len(new)
  /\ \A i \in 1 .. Len(lines) :
       /\ q[i] = q[i - 1] + Len(C!Moved(lines[i], v))
       /\ \A k \in 1 .. Len(C!Moved(lines[i], v)) : new[q[i - 1] + k] = C!Moved(lines[i], v)[k]

LEMMA ReleaseMoves ==
  ASSUME NEW lines \in FileText, NEW v \in Versions
  PROVE  C!Release(lines, v) \in FileText /\ \E q : MovesTo(lines, C!Release(lines, v), v, q)
<1> DEFINE n == Len(lines)
           Out(i) == C!Moved(lines[i], v)
           Round(i, t) == t \o Out(i)
           F == [p \in (1 .. n) \X FileText |-> Round(p[1], p[2])]
           Walk(g) == g = [i \in 0 .. n |-> IF i = 0 THEN <<>> ELSE Round(i, g[i - 1])]
           none == <<>>
<1>1. n \in Nat /\ \A i \in 1 .. n : lines[i] \in C!Line
  BY SeqIndices DEF FileText
<1>2. \A i \in 1 .. n : Out(i) \in FileText /\ Len(Out(i)) \in Nat
  BY <1>1, MovedFacts
<1> HIDE DEF Out
<1>3. none \in FileText
  BY DEF FileText
<1>4. \A i \in 1 .. n, t \in FileText : Round(i, t) \in FileText
  BY <1>2, ConcatProperties DEF FileText
<1> HIDE DEF Round
<1>5. F \in Rule(n, FileText)
  BY <1>4 DEF Rule
<1>6. \A i \in 1 .. n, t \in FileText : F[<<i, t>>] = Round(i, t)
  OBVIOUS
<1> HIDE DEF F, n, none
<1>7. PICK g \in [0 .. n -> FileText] : IsLoop(g, n, none, F)
  BY <1>1, <1>3, <1>5, LoopDefined
<1>8. \A i \in 0 .. n : i # 0 => F[<<i, g[i - 1]>>] = Round(i, g[i - 1])
  <2>1. \A i \in 0 .. n : i # 0 => i \in 1 .. n /\ i - 1 \in 0 .. n
    BY <1>1
  <2> QED
    BY <1>6, <1>7, <2>1
<1>9. Walk(g)
  BY <1>7, <1>8 DEF IsLoop, none
<1>10. PICK f : Walk(f) /\ C!Release(lines, v) = f[n]
  BY <1>9 DEF C!Release, Round, Out, n
<1>11. f[0] = <<>> /\ \A i \in 1 .. n : f[i] = Round(i, f[i - 1])
  BY <1>1, <1>10
<1> DEFINE q == [i \in 0 .. n |-> Len(f[i])]
           Fits(m, s) ==
             q[m] = q[m - 1] + Len(Out(m)) /\ \A k \in 1 .. Len(Out(m)) : s[q[m - 1] + k] = Out(m)[k]
           Made(i) == /\ f[i] \in FileText
                      /\ \A m \in 0 .. i : q[m] \in Nat /\ q[m] <= q[i]
                      /\ \A m \in 1 .. i : Fits(m, f[i])
           T == {i \in 0 .. n : Made(i)}
<1>12. \A i \in 0 .. n : q[i] = Len(f[i])
  OBVIOUS
<1>13. ASSUME \A i \in 0 .. n : Len(f[i]) \in Nat PROVE q \in [0 .. n -> Nat]
  BY <1>13
<1> HIDE DEF q
<1>14. ASSUME NEW i \in 1 .. n, i - 1 \in T PROVE i \in T
  <2> DEFINE s == f[i - 1]
             t == Out(i)
  <2>1. i - 1 \in 0 .. n /\ i \in 0 .. n /\ i \in Nat /\ Made(i - 1)
    BY <1>1, <1>14
  <2>2. s \in FileText /\ t \in FileText /\ Len(t) \in Nat /\ f[i] = s \o t
    BY <1>2, <1>11, <2>1 DEF Round
  <2>3. /\ f[i] \in FileText /\ Len(f[i]) = Len(s) + Len(t) /\ Len(s) \in Nat
        /\ \A k \in 1 .. Len(s) + Len(t) :
             f[i][k] = IF k <= Len(s) THEN s[k] ELSE t[k - Len(s)]
    BY <2>2, ConcatProperties, SeqIndices DEF FileText
  <2>4. q[i] = Len(s) + Len(t) /\ q[i - 1] = Len(s)
    BY <1>12, <2>1, <2>3
  <2>5. \A m \in 0 .. i - 1 : q[m] \in Nat /\ q[m] <= Len(s)
    BY <2>1, <2>4
  <2>6. \A m \in 1 .. i - 1 : Fits(m, s)
    BY <2>1
  <2> HIDE DEF s, t
  <2>7. \A m \in 0 .. i : q[m] \in Nat /\ q[m] <= q[i]
    <3> SUFFICES ASSUME NEW m \in 0 .. i PROVE q[m] \in Nat /\ q[m] <= q[i]
      OBVIOUS
    <3>1. CASE m = i
      BY <2>2, <2>3, <2>4, <3>1
    <3>2. CASE m # i
      <4>1. m \in 0 .. i - 1
        BY <2>1, <3>2
      <4> QED
        BY <2>2, <2>3, <2>4, <2>5, <4>1
    <3> QED
      BY <3>1, <3>2
  <2>8. Fits(i, f[i])
    <3>1. ASSUME NEW k \in 1 .. Len(t) PROVE f[i][q[i - 1] + k] = t[k]
      <4>1. Len(s) + k \in 1 .. Len(s) + Len(t) /\ ~(Len(s) + k <= Len(s))
            /\ (Len(s) + k) - Len(s) = k
        BY <2>2, <2>3
      <4> QED
        BY <2>3, <2>4, <4>1
    <3> QED
      BY <2>4, <3>1 DEF t
  <2>9. ASSUME NEW m \in 1 .. i - 1 PROVE Fits(m, f[i])
    <3>1. Fits(m, s) /\ q[m - 1] \in Nat /\ q[m] <= Len(s)
      <4>1. m - 1 \in 0 .. i - 1 /\ m \in 0 .. i - 1
        BY <2>1
      <4> QED
        BY <2>5, <2>6, <4>1
    <3>2. ASSUME NEW k \in 1 .. Len(Out(m)) PROVE f[i][q[m - 1] + k] = Out(m)[k]
      <4>1. Len(Out(m)) \in Nat
        BY <1>2, <2>1
      <4>2. q[m - 1] + k \in 1 .. Len(s) + Len(t) /\ q[m - 1] + k <= Len(s)
        BY <2>2, <2>3, <3>1, <4>1
      <4> QED
        BY <2>3, <3>1, <4>2
    <3> QED
      BY <3>1, <3>2
  <2>10. \A m \in 1 .. i : m = i \/ m \in 1 .. i - 1
    BY <2>1
  <2>11. \A m \in 1 .. i : Fits(m, f[i])
    BY <2>8, <2>9, <2>10
  <2> HIDE DEF Fits
  <2> QED
    BY <2>1, <2>3, <2>7, <2>11
<1>15. 0 \in T
  <2>1. 0 \in 0 .. n /\ q[0] = 0 /\ f[0] \in FileText
    BY <1>1, <1>3, <1>11, <1>12 DEF none
  <2>2. \A m \in 0 .. 0 : m = 0
    OBVIOUS
  <2>3. \A m \in 1 .. 0 : FALSE
    OBVIOUS
  <2> HIDE DEF Fits
  <2> QED
    BY <2>1, <2>2, <2>3
<1> HIDE DEF T
<1>16. \A i \in 0 .. n : i \in T
  BY <1>1, <1>14, <1>15, Rounds
<1>17. \A i \in 0 .. n : Made(i)
  BY <1>16 DEF T
<1>18. n \in 0 .. n /\ q[0] = 0 /\ 0 \in 0 .. n
  BY <1>1, <1>11, <1>12
<1>19. f[n] \in FileText /\ q[n] = Len(f[n])
  BY <1>12, <1>17, <1>18
<1>20. q \in [0 .. n -> Nat]
  <2>1. \A i \in 0 .. n : Len(f[i]) \in Nat
    BY <1>17, SeqIndices DEF FileText
  <2> QED
    BY <1>13, <2>1
<1>21. \A m \in 1 .. n : Fits(m, f[n])
  BY <1>17, <1>18
<1>22. MovesTo(lines, f[n], v, q)
  BY <1>18, <1>19, <1>20, <1>21 DEF MovesTo, Out, n
<1> QED
  BY <1>10, <1>19, <1>22

\* Where the lines of the old file are in the new one.
LEMMA PlacesFollow ==
  ASSUME NEW lines \in FileText, NEW new, NEW v \in Versions, NEW q, MovesTo(lines, new, v, q)
  PROVE  \A i, k \in 0 .. Len(lines) : i < k => q[i] < q[k]
<1> DEFINE n == Len(lines)
           T(i) == {k \in 0 .. n : i < k => q[i] < q[k]}
<1>1. n \in Nat /\ \A i \in 1 .. n : lines[i] \in C!Line
  BY SeqIndices DEF FileText
<1>2. \A i \in 0 .. n : q[i] \in Nat
  BY DEF MovesTo
<1>3. ASSUME NEW i \in 1 .. n PROVE q[i - 1] < q[i]
  <2>1. lines[i] \in C!Line
    BY <1>1
  <2>2. q[i] = q[i - 1] + Len(C!Moved(lines[i], v))
    BY DEF MovesTo
  <2>3. Len(C!Moved(lines[i], v)) \in {1, 2, 3}
    BY <2>1, MovedFacts DEF Kept
  <2>4. i - 1 \in 0 .. n
    BY <1>1
  <2>5. q[i - 1] \in Nat
    BY <1>2, <2>4
  <2>6. PICK d \in {1, 2, 3} : q[i] = q[i - 1] + d
    BY <2>2, <2>3
  <2> HIDE DEF T, n
  <2> QED
    BY <2>5, <2>6
<1>4. ASSUME NEW i \in 0 .. n PROVE \A k \in 0 .. n : k \in T(i)
  <2>1. 0 \in T(i)
    BY <1>1
  <2>2. ASSUME NEW k \in 1 .. n, k - 1 \in T(i) PROVE k \in T(i)
    <3>1. k \in 0 .. n /\ k - 1 \in 0 .. n
      BY <1>1
    <3>2. q[k - 1] < q[k] /\ q[i] \in Nat /\ q[k] \in Nat /\ q[k - 1] \in Nat
      BY <1>2, <1>3, <3>1
    <3>3. i < k - 1 => q[i] < q[k - 1]
      BY <2>2
    <3>4. i < k => i < k - 1 \/ i = k - 1
      BY <1>1
    <3>5. i < k => q[i] < q[k]
      BY <3>2, <3>3, <3>4
    <3> QED
      BY <3>1, <3>5
  <2> HIDE DEF T
  <2> QED
    BY <1>1, <2>1, <2>2, Rounds
<1> QED
  BY <1>4

LEMMA PlacesCover ==
  ASSUME NEW lines \in FileText, NEW new \in FileText, NEW v \in Versions, NEW q,
         MovesTo(lines, new, v, q), NEW j \in 1 .. Len(new)
  PROVE  \E i \in 1 .. Len(lines) : q[i - 1] < j /\ j <= q[i]
<1> DEFINE n == Len(lines)
           T == {i \in 0 .. n : j <= q[i]}
<1>1. n \in Nat /\ Len(new) \in Nat
  BY SeqIndices DEF FileText
<1>2. q[0] = 0 /\ q[n] = Len(new) /\ \A i \in 0 .. n : q[i] \in Nat
  BY DEF MovesTo
<1>3. n \in T /\ T \in SUBSET Nat
  BY <1>1, <1>2
<1>4. PICK i \in T : \A k \in T : i <= k
  BY <1>3, LeastOf
<1>5. i \in 0 .. n /\ j <= q[i] /\ i # 0
  BY <1>2, <1>4
<1>6. i \in 1 .. n /\ i - 1 \in 0 .. n /\ ~(i <= i - 1)
  BY <1>1, <1>5
<1>7. i - 1 \notin T
  BY <1>4, <1>6
<1>8. ~(j <= q[i - 1]) /\ q[i - 1] \in Nat
  BY <1>2, <1>6, <1>7
<1> QED
  BY <1>5, <1>6, <1>8

\* What the places hold: of the unreleased heading, of the link to what is unreleased,
\* and of every other line.
HeadAt(new, q, i, v) ==
  /\ q[i] = q[i - 1] + 3
  /\ new[q[i] - 2] = C!Unreleased /\ new[q[i] - 1] = C!Blank /\ new[q[i]] = C!ReleaseHead(v)

LinksAt(new, q, i, v) ==
  q[i] = q[i - 1] + 2 /\ new[q[i] - 1] = C!Link(0) /\ new[q[i]] = C!Link(v)

LineAt(new, q, i, l) == q[i] = q[i - 1] + 1 /\ new[q[i]] = l

LEMMA PlacesHold ==
  ASSUME NEW lines \in FileText, NEW new, NEW v \in Versions, NEW q,
         MovesTo(lines, new, v, q), NEW i \in 1 .. Len(lines)
  PROVE  /\ lines[i] \in C!Line /\ q[i] \in Nat /\ q[i - 1] \in Nat
         /\ lines[i].is = "unreleased" => HeadAt(new, q, i, v)
         /\ IsLink0(lines[i]) => LinksAt(new, q, i, v)
         /\ Kept(lines[i]) => LineAt(new, q, i, lines[i])
<1> DEFINE out == C!Moved(lines[i], v)
<1>1. lines[i] \in C!Line /\ i - 1 \in 0 .. Len(lines) /\ i \in 0 .. Len(lines)
  BY SeqIndices DEF FileText
<1>2. q[i] \in Nat /\ q[i - 1] \in Nat
  BY <1>1 DEF MovesTo
<1>3. q[i] = q[i - 1] + Len(out) /\ \A k \in 1 .. Len(out) : new[q[i - 1] + k] = out[k]
  BY DEF MovesTo
<1>4. CASE lines[i].is = "unreleased"
  <2>1. /\ Len(out) = 3 /\ out[1] = C!Unreleased /\ out[2] = C!Blank /\ out[3] = C!ReleaseHead(v)
    BY <1>1, <1>4, MovedFacts
  <2>2. ~IsLink0(lines[i]) /\ ~Kept(lines[i])
    BY <1>4 DEF IsLink0, Kept
  <2> HIDE DEF out
  <2>3. q[i] = q[i - 1] + 3 /\ new[q[i - 1] + 1] = out[1] /\ new[q[i - 1] + 2] = out[2]
        /\ new[q[i - 1] + 3] = out[3]
    BY <1>3, <2>1
  <2>4. q[i] - 2 = q[i - 1] + 1 /\ q[i] - 1 = q[i - 1] + 2
    BY <1>2, <2>3
  <2> QED
    BY <1>1, <1>2, <2>1, <2>2, <2>3, <2>4 DEF HeadAt
<1>5. CASE IsLink0(lines[i])
  <2>1. Len(out) = 2 /\ out[1] = C!Link(0) /\ out[2] = C!Link(v)
    BY <1>1, <1>5, MovedFacts
  <2>2. lines[i].is # "unreleased" /\ ~Kept(lines[i])
    BY <1>5 DEF IsLink0, Kept
  <2> HIDE DEF out
  <2>3. q[i] = q[i - 1] + 2 /\ new[q[i - 1] + 1] = out[1] /\ new[q[i - 1] + 2] = out[2]
    BY <1>3, <2>1
  <2>4. q[i] - 1 = q[i - 1] + 1
    BY <1>2, <2>3
  <2> QED
    BY <1>1, <1>2, <1>5, <2>1, <2>2, <2>3, <2>4 DEF LinksAt
<1>6. CASE Kept(lines[i])
  <2>1. Len(out) = 1 /\ out[1] = lines[i]
    BY <1>1, <1>6, MovedFacts
  <2>2. lines[i].is # "unreleased" /\ ~IsLink0(lines[i])
    BY <1>6 DEF Kept
  <2> HIDE DEF out
  <2>3. q[i] = q[i - 1] + 1 /\ new[q[i - 1] + 1] = out[1]
    BY <1>3, <2>1
  <2> QED
    BY <1>1, <1>2, <2>1, <2>2, <2>3 DEF LineAt
<1> QED
  BY <1>4, <1>5, <1>6 DEF Kept

\* Where a line of the new file comes from.
FromHead(new, lines, q, j, i, v) ==
  /\ lines[i].is = "unreleased"
  /\ \/ j = q[i] - 2 /\ new[j] = C!Unreleased
     \/ j = q[i] - 1 /\ new[j] = C!Blank
     \/ j = q[i] /\ new[j] = C!ReleaseHead(v)

FromLink(new, lines, q, j, i, v) ==
  /\ IsLink0(lines[i])
  /\ \/ j = q[i] - 1 /\ new[j] = C!Link(0)
     \/ j = q[i] /\ new[j] = C!Link(v)

FromLine(new, lines, q, j, i) == Kept(lines[i]) /\ j = q[i] /\ new[j] = lines[i]

LEMMA ComesFrom ==
  ASSUME NEW lines \in FileText, NEW new \in FileText, NEW v \in Versions, NEW q,
         MovesTo(lines, new, v, q), NEW j \in 1 .. Len(new)
  PROVE  \E i \in 1 .. Len(lines) :
           /\ q[i - 1] < j /\ j <= q[i]
           /\ \/ FromHead(new, lines, q, j, i, v)
              \/ FromLink(new, lines, q, j, i, v)
              \/ FromLine(new, lines, q, j, i)
<1>1. PICK i \in 1 .. Len(lines) : q[i - 1] < j /\ j <= q[i]
  BY PlacesCover
<1>2. q[i] \in Nat /\ q[i - 1] \in Nat
  BY PlacesHold
<1>3. CASE lines[i].is = "unreleased"
  <2>1. HeadAt(new, q, i, v)
    BY <1>3, PlacesHold
  <2>2. q[i] = q[i - 1] + 3
    BY <2>1 DEF HeadAt
  <2>3. j = q[i] - 2 \/ j = q[i] - 1 \/ j = q[i]
    BY <1>1, <1>2, <2>2
  <2> QED
    BY <1>1, <1>3, <2>1, <2>3 DEF HeadAt, FromHead
<1>4. CASE IsLink0(lines[i])
  <2>1. LinksAt(new, q, i, v)
    BY <1>4, PlacesHold
  <2>2. j = q[i] - 1 \/ j = q[i]
    BY <1>1, <1>2, <2>1 DEF LinksAt
  <2> QED
    BY <1>1, <1>4, <2>1, <2>2 DEF LinksAt, FromLink
<1>5. CASE Kept(lines[i])
  <2>1. LineAt(new, q, i, lines[i])
    BY <1>5, PlacesHold
  <2>2. j = q[i]
    BY <1>1, <1>2, <2>1 DEF LineAt
  <2> QED
    BY <1>1, <1>5, <2>1, <2>2 DEF LineAt, FromLine
<1> QED
  BY <1>3, <1>4, <1>5 DEF Kept

\* A file, and the file made of it for version v.
Makes(lines, new, v, q) ==
  lines \in FileText /\ new \in FileText /\ v \in Versions /\ MovesTo(lines, new, v, q)

LEMMA FileFacts ==
  ASSUME NEW s \in FileText
  PROVE  /\ Len(s) \in Nat /\ DOMAIN s = 1 .. Len(s) /\ DOMAIN s \subseteq Nat
         /\ \A i \in DOMAIN s : s[i] \in C!Line
  BY SeqIndices DEF FileText

LEMMA InTheNewFile ==
  ASSUME NEW lines, NEW new, NEW v, NEW q, Makes(lines, new, v, q), NEW i \in DOMAIN lines
  PROVE  /\ q[i] \in DOMAIN new
         /\ lines[i].is = "unreleased" => q[i] - 1 \in DOMAIN new /\ q[i] - 2 \in DOMAIN new
         /\ IsLink0(lines[i]) => q[i] - 1 \in DOMAIN new
<1> DEFINE n == Len(lines)
<1>1. lines \in FileText /\ new \in FileText /\ v \in Versions /\ MovesTo(lines, new, v, q)
  BY DEF Makes
<1>2. n \in Nat /\ i \in 1 .. n /\ Len(new) \in Nat /\ DOMAIN new = 1 .. Len(new)
  BY <1>1, FileFacts
<1>3. i - 1 \in 0 .. n /\ i \in 0 .. n /\ 0 \in 0 .. n /\ n \in 0 .. n /\ i - 1 < i
  BY <1>2
<1>4. q[0] = 0 /\ q[n] = Len(new) /\ q[i] \in Nat /\ q[i - 1] \in Nat
  BY <1>1, <1>3 DEF MovesTo
<1>5. q[i - 1] < q[i] /\ (i < n => q[i] < q[n])
  BY <1>1, <1>3, PlacesFollow
<1>6. q[i] <= Len(new)
  <2>1. i < n \/ i = n
    BY <1>2
  <2> QED
    BY <1>2, <1>4, <1>5, <2>1
<1>7. q[i] \in DOMAIN new
  BY <1>2, <1>4, <1>5, <1>6
<1>8. ASSUME lines[i].is = "unreleased" PROVE q[i] = q[i - 1] + 3
  <2>1. HeadAt(new, q, i, v)
    BY <1>1, <1>2, <1>8, PlacesHold
  <2> QED
    BY <2>1 DEF HeadAt
<1>9. ASSUME IsLink0(lines[i]) PROVE q[i] = q[i - 1] + 2
  <2>1. LinksAt(new, q, i, v)
    BY <1>1, <1>2, <1>9, PlacesHold
  <2> QED
    BY <2>1 DEF LinksAt
<1>10. ASSUME lines[i].is = "unreleased"
       PROVE  q[i] - 1 \in DOMAIN new /\ q[i] - 2 \in DOMAIN new
  <2>1. q[i] = q[i - 1] + 3
    BY <1>8, <1>10
  <2>2. q[i] - 1 \in 1 .. Len(new) /\ q[i] - 2 \in 1 .. Len(new)
    BY <1>2, <1>4, <1>6, <2>1
  <2> QED
    BY <1>2, <2>2
<1>11. ASSUME IsLink0(lines[i]) PROVE q[i] - 1 \in DOMAIN new
  BY <1>2, <1>4, <1>6, <1>9, <1>11
<1> QED
  BY <1>7, <1>10, <1>11

\* The lines of each kind in the new file.
LEMMA NewKept ==
  ASSUME NEW lines, NEW new, NEW v, NEW q, Makes(lines, new, v, q),
         NEW i \in DOMAIN lines, Kept(lines[i])
  PROVE  q[i] \in DOMAIN new /\ new[q[i]] = lines[i]
<1>1. lines \in FileText /\ new \in FileText /\ v \in Versions /\ MovesTo(lines, new, v, q)
  BY DEF Makes
<1>2. i \in 1 .. Len(lines)
  BY <1>1, FileFacts
<1>3. LineAt(new, q, i, lines[i])
  BY <1>1, <1>2, PlacesHold
<1> QED
  BY <1>3, InTheNewFile DEF LineAt

LEMMA NewHead ==
  ASSUME NEW lines, NEW new, NEW v, NEW q, Makes(lines, new, v, q),
         NEW u \in C!Is(lines, "unreleased")
  PROVE  /\ q[u] \in DOMAIN new /\ q[u] - 1 \in DOMAIN new /\ q[u] - 2 \in DOMAIN new
         /\ new[q[u] - 2] = C!Unreleased /\ new[q[u] - 1] = C!Blank
         /\ new[q[u]] = C!ReleaseHead(v)
<1>1. lines \in FileText /\ new \in FileText /\ v \in Versions /\ MovesTo(lines, new, v, q)
  BY DEF Makes
<1>2. u \in DOMAIN lines /\ lines[u].is = "unreleased"
  BY DEF C!Is
<1>3. u \in 1 .. Len(lines)
  BY <1>1, <1>2, FileFacts
<1>4. HeadAt(new, q, u, v)
  BY <1>1, <1>2, <1>3, PlacesHold
<1> QED
  BY <1>2, <1>4, InTheNewFile DEF HeadAt

LEMMA NewLinks ==
  ASSUME NEW lines, NEW new, NEW v, NEW q, Makes(lines, new, v, q),
         NEW i \in DOMAIN lines, IsLink0(lines[i])
  PROVE  /\ q[i] \in DOMAIN new /\ q[i] - 1 \in DOMAIN new
         /\ new[q[i] - 1] = C!Link(0) /\ new[q[i]] = C!Link(v)
<1>1. lines \in FileText /\ new \in FileText /\ v \in Versions /\ MovesTo(lines, new, v, q)
  BY DEF Makes
<1>2. i \in 1 .. Len(lines)
  BY <1>1, FileFacts
<1>3. LinksAt(new, q, i, v)
  BY <1>1, <1>2, PlacesHold
<1> QED
  BY <1>3, InTheNewFile DEF LinksAt

LEMMA Origin ==
  ASSUME NEW lines, NEW new, NEW v, NEW q, Makes(lines, new, v, q), NEW j \in DOMAIN new
  PROVE  \E i \in DOMAIN lines : /\ q[i - 1] < j /\ j <= q[i]
                                 /\ \/ FromHead(new, lines, q, j, i, v)
                                    \/ FromLink(new, lines, q, j, i, v)
                                    \/ FromLine(new, lines, q, j, i)
<1>1. lines \in FileText /\ new \in FileText /\ v \in Versions /\ MovesTo(lines, new, v, q)
  BY DEF Makes
<1>2. j \in 1 .. Len(new) /\ DOMAIN lines = 1 .. Len(lines)
  BY <1>1, FileFacts
<1> QED
  BY <1>1, <1>2, ComesFrom

\* Where a line of a kind of its own comes from.
LEMMA OriginOfKept ==
  ASSUME NEW lines, NEW new, NEW v, NEW q, Makes(lines, new, v, q), NEW j \in DOMAIN new,
         new[j].is \in {"odd", "sub", "heading", "text"}
  PROVE  \E i \in DOMAIN lines : Kept(lines[i]) /\ j = q[i] /\ new[j] = lines[i]
<1>1. v \in Versions
  BY DEF Makes
<1>2. PICK i \in DOMAIN lines : \/ FromHead(new, lines, q, j, i, v)
                                \/ FromLink(new, lines, q, j, i, v)
                                \/ FromLine(new, lines, q, j, i)
  BY Origin
<1>3. ~FromHead(new, lines, q, j, i, v)
  BY <1>1, NewLines DEF FromHead
<1>4. ~FromLink(new, lines, q, j, i, v)
  BY <1>1, NewLines DEF FromLink
<1> QED
  BY <1>2, <1>3, <1>4 DEF FromLine

LEMMA OriginOfUnreleased ==
  ASSUME NEW lines, NEW new, NEW v, NEW q, Makes(lines, new, v, q),
         NEW j \in C!Is(new, "unreleased")
  PROVE  \E i \in C!Is(lines, "unreleased") : j = q[i] - 2
<1>1. v \in Versions /\ j \in DOMAIN new /\ new[j].is = "unreleased"
  BY DEF Makes, C!Is
<1>2. PICK i \in DOMAIN lines : \/ FromHead(new, lines, q, j, i, v)
                                \/ FromLink(new, lines, q, j, i, v)
                                \/ FromLine(new, lines, q, j, i)
  BY <1>1, Origin
<1>3. ~FromLine(new, lines, q, j, i) /\ ~FromLink(new, lines, q, j, i, v)
  BY <1>1, NewLines DEF FromLine, FromLink, Kept
<1>4. C!ReleaseHead(v).is # "unreleased" /\ C!Blank.is # "unreleased"
  BY <1>1, NewLines
<1> QED
  BY <1>1, <1>2, <1>3, <1>4 DEF FromHead, C!Is

LEMMA OriginOfRelease ==
  ASSUME NEW lines, NEW new, NEW v, NEW q, Makes(lines, new, v, q),
         NEW j \in C!Is(new, "release")
  PROVE  \/ \E i \in C!Is(lines, "unreleased") : j = q[i] /\ new[j] = C!ReleaseHead(v)
         \/ \E i \in C!Is(lines, "release") : j = q[i] /\ new[j] = lines[i]
<1>1. v \in Versions /\ j \in DOMAIN new /\ new[j].is = "release"
  BY DEF Makes, C!Is
<1>2. PICK i \in DOMAIN lines : \/ FromHead(new, lines, q, j, i, v)
                                \/ FromLink(new, lines, q, j, i, v)
                                \/ FromLine(new, lines, q, j, i)
  BY <1>1, Origin
<1>3. ~FromLink(new, lines, q, j, i, v)
  BY <1>1, NewLines DEF FromLink
<1>4. C!Unreleased.is # "release" /\ C!Blank.is # "release"
  BY <1>1, NewLines
<1>5. CASE FromHead(new, lines, q, j, i, v)
  BY <1>1, <1>4, <1>5 DEF FromHead, C!Is
<1>6. CASE FromLine(new, lines, q, j, i)
  BY <1>1, <1>6 DEF FromLine, C!Is
<1> QED
  BY <1>2, <1>3, <1>5, <1>6

LEMMA OriginOfLink ==
  ASSUME NEW lines, NEW new, NEW v, NEW q, Makes(lines, new, v, q), NEW j \in C!Is(new, "link")
  PROVE  \/ new[j] \in {C!Link(0), C!Link(v)}
         \/ \E i \in C!Is(lines, "link") : lines[i].v # 0 /\ j = q[i] /\ new[j] = lines[i]
<1>1. v \in Versions /\ j \in DOMAIN new /\ new[j].is = "link"
  BY DEF Makes, C!Is
<1>2. PICK i \in DOMAIN lines : \/ FromHead(new, lines, q, j, i, v)
                                \/ FromLink(new, lines, q, j, i, v)
                                \/ FromLine(new, lines, q, j, i)
  BY <1>1, Origin
<1>3. ~FromHead(new, lines, q, j, i, v)
  BY <1>1, NewLines DEF FromHead
<1>4. CASE FromLink(new, lines, q, j, i, v)
  BY <1>4 DEF FromLink
<1>5. CASE FromLine(new, lines, q, j, i)
  BY <1>1, <1>5 DEF FromLine, Kept, IsLink0, C!Is
<1> QED
  BY <1>2, <1>3, <1>4, <1>5

\* Lines keep their order.
LEMMA PlacesOrder ==
  ASSUME NEW lines, NEW new, NEW v, NEW q, Makes(lines, new, v, q),
         NEW i \in DOMAIN lines, NEW k \in DOMAIN lines
  PROVE  /\ q[i] \in Nat /\ q[k] \in Nat /\ i \in Nat /\ k \in Nat
         /\ q[i] < q[k] <=> i < k
         /\ q[i] = q[k] <=> i = k
         /\ i < k => q[i] <= q[k - 1]
<1>1. lines \in FileText /\ v \in Versions /\ MovesTo(lines, new, v, q)
  BY DEF Makes
<1>2. i \in 0 .. Len(lines) /\ k \in 0 .. Len(lines) /\ i \in Nat /\ k \in Nat /\ k # 0
      /\ Len(lines) \in Nat
  BY <1>1, FileFacts
<1>3. q[i] \in Nat /\ q[k] \in Nat
  BY <1>1, <1>2 DEF MovesTo
<1>4. (i < k => q[i] < q[k]) /\ (k < i => q[k] < q[i])
  BY <1>1, <1>2, PlacesFollow
<1>5. ASSUME i < k PROVE q[i] <= q[k - 1]
  <2>1. k - 1 \in 0 .. Len(lines) /\ (i < k - 1 \/ i = k - 1)
    BY <1>2, <1>5
  <2>2. q[k - 1] \in Nat
    BY <1>1, <2>1 DEF MovesTo
  <2>3. i < k - 1 => q[i] < q[k - 1]
    BY <1>1, <1>2, <2>1, PlacesFollow
  <2> QED
    BY <1>3, <2>1, <2>2, <2>3
<1>6. i < k \/ k < i \/ i = k
  BY <1>2
<1>7. (i < k => ~(k < i) /\ i # k) /\ (q[i] < q[k] => ~(q[k] < q[i]) /\ q[i] # q[k])
      /\ (q[k] < q[i] => q[i] # q[k]) /\ (k < i => i # k)
  BY <1>2, <1>3
<1> QED
  BY <1>2, <1>3, <1>4, <1>5, <1>6, <1>7

\* A section starts at a line that starts with "## ".
LEMMA SectionIs ==
  ASSUME NEW s, NEW i
  PROVE  i \in C!Sections(s) <=> i \in DOMAIN s /\ s[i].is \in {"unreleased", "release", "odd"}
  BY DEF C!Sections, C!Is

\* e is the last line of the section that starts at i.
Ends(s, i, e) ==
  /\ e \in Nat /\ i <= e /\ e <= Len(s)
  /\ \A k \in C!Sections(s) : i < k => e < k
  /\ e = Len(s) \/ e + 1 \in C!Sections(s)

LEMMA EndFound ==
  ASSUME NEW s \in FileText, NEW i \in DOMAIN s
  PROVE  Ends(s, i, C!EndOf(s, i))
<1> DEFINE later == {j \in C!Sections(s) : j > i}
<1>1. /\ Len(s) \in Nat /\ i \in Nat /\ i <= Len(s)
      /\ \A j \in C!Sections(s) : j \in Nat /\ j <= Len(s)
  BY FileFacts, SectionIs
<1>2. CASE later = {}
  <2>1. C!EndOf(s, i) = Len(s)
    BY <1>2 DEF C!EndOf
  <2>2. \A k \in C!Sections(s) : ~(k > i)
    BY <1>2
  <2> QED
    BY <1>1, <2>1, <2>2 DEF Ends
<1>3. CASE later # {}
  <2>1. C!EndOf(s, i) = C!First(later) - 1
    BY <1>3 DEF C!EndOf
  <2>2. C!First(later) \in later /\ \A k \in later : C!First(later) <= k
    BY <1>1, <1>3, FirstFound
  <2>3. PICK f : f = C!First(later)
    OBVIOUS
  <2>4. /\ f \in C!Sections(s) /\ f > i /\ f \in Nat /\ f <= Len(s)
        /\ \A k \in C!Sections(s) : k > i => f <= k
    BY <1>1, <2>2, <2>3
  <2> HIDE DEF later
  <2>5. (f - 1) + 1 = f /\ f - 1 \in Nat /\ i <= f - 1 /\ f - 1 <= Len(s)
    BY <1>1, <2>4
  <2>6. \A k \in C!Sections(s) : i < k => f - 1 < k
    BY <1>1, <2>4
  <2>7. Ends(s, i, f - 1)
    BY <2>4, <2>5, <2>6 DEF Ends
  <2> QED
    BY <2>1, <2>3, <2>7
<1> QED
  BY <1>2, <1>3

LEMMA EndIs ==
  ASSUME NEW s \in FileText, NEW i \in DOMAIN s, NEW e, Ends(s, i, e)
  PROVE  C!EndOf(s, i) = e
<1>1. PICK d : d = C!EndOf(s, i)
  OBVIOUS
<1>2. Ends(s, i, d)
  BY <1>1, EndFound
<1>3. i \in Nat /\ Len(s) \in Nat /\ \A j \in C!Sections(s) : j \in Nat /\ j <= Len(s)
  BY FileFacts, SectionIs
<1>4. /\ e \in Nat /\ i <= e /\ e <= Len(s) /\ d \in Nat /\ i <= d /\ d <= Len(s)
      /\ (e + 1 \in C!Sections(s) => d < e + 1) /\ (d + 1 \in C!Sections(s) => e < d + 1)
      /\ (e = Len(s) \/ e + 1 \in C!Sections(s)) /\ (d = Len(s) \/ d + 1 \in C!Sections(s))
  BY <1>2, <1>3 DEF Ends
<1>5. d = e
  BY <1>3, <1>4
<1> QED
  BY <1>1, <1>5

\* A section of the new file starts where one of the old file did, or just before.
LEMMA SectionFrom ==
  ASSUME NEW lines, NEW new, NEW v, NEW q, Makes(lines, new, v, q), NEW j \in C!Sections(new)
  PROVE  \E k \in C!Sections(lines) : q[k - 1] < j /\ j <= q[k]
<1>1. v \in Versions /\ j \in DOMAIN new /\ new[j].is \in {"unreleased", "release", "odd"}
  BY SectionIs DEF Makes
<1>2. PICK k \in DOMAIN lines : /\ q[k - 1] < j /\ j <= q[k]
                                /\ \/ FromHead(new, lines, q, j, k, v)
                                   \/ FromLink(new, lines, q, j, k, v)
                                   \/ FromLine(new, lines, q, j, k)
  BY <1>1, Origin
<1>3. ~FromLink(new, lines, q, j, k, v)
  BY <1>1, NewLines DEF FromLink
<1>4. CASE FromHead(new, lines, q, j, k, v)
  BY <1>2, <1>4, SectionIs DEF FromHead
<1>5. CASE FromLine(new, lines, q, j, k)
  BY <1>1, <1>2, <1>5, SectionIs DEF FromLine
<1> QED
  BY <1>2, <1>3, <1>4, <1>5

\* A section ends in the new file where the place of its last line is.
LEMMA NewEnds ==
  ASSUME NEW lines, NEW new, NEW v, NEW q, Makes(lines, new, v, q), NEW i \in C!Sections(lines)
  PROVE  Ends(new, q[i], q[C!EndOf(lines, i)])
<1>1. lines \in FileText /\ new \in FileText /\ v \in Versions /\ MovesTo(lines, new, v, q)
  BY DEF Makes
<1>2. i \in DOMAIN lines /\ i \in Nat /\ Len(lines) \in Nat /\ DOMAIN lines = 1 .. Len(lines)
      /\ Len(new) \in Nat /\ DOMAIN new = 1 .. Len(new)
  BY <1>1, SectionIs, FileFacts
<1>3. PICK e : e = C!EndOf(lines, i)
  OBVIOUS
<1>4. Ends(lines, i, e)
  BY <1>1, <1>2, <1>3, EndFound
<1>5. e \in DOMAIN lines /\ i <= e /\ e \in Nat
  <2>1. e \in Nat /\ i <= e /\ e <= Len(lines)
    BY <1>4 DEF Ends
  <2>2. i \in 1 .. Len(lines)
    BY <1>2
  <2>3. e \in 1 .. Len(lines)
    BY <1>2, <2>1, <2>2
  <2> QED
    BY <1>2, <2>1, <2>3
<1>6. q[e] \in DOMAIN new /\ q[e] \in Nat /\ q[e] <= Len(new) /\ q[i] \in Nat
  BY <1>2, <1>5, InTheNewFile
<1>7. q[i] <= q[e]
  <2>1. i = e \/ i < e
    BY <1>2, <1>5
  <2> QED
    BY <1>2, <1>5, <1>6, <2>1, PlacesOrder
<1>8. ASSUME NEW j \in C!Sections(new), q[i] < j PROVE q[e] < j
  <2>1. PICK k \in C!Sections(lines) : q[k - 1] < j /\ j <= q[k]
    BY SectionFrom
  <2>2. k \in DOMAIN lines /\ j \in DOMAIN new /\ j \in Nat /\ k \in Nat /\ k - 1 \in 0 .. Len(lines)
    BY <1>1, <1>2, <2>1, SectionIs
  <2>3. q[k] \in Nat /\ (q[i] < q[k] <=> i < k) /\ (e < k => q[e] <= q[k - 1])
    BY <1>2, <1>5, <2>2, PlacesOrder
  <2>4. q[i] < q[k]
    BY <1>6, <1>8, <2>1, <2>2, <2>3
  <2>5. e < k
    BY <1>4, <2>1, <2>3, <2>4 DEF Ends
  <2>6. q[k - 1] \in Nat /\ q[e] <= q[k - 1]
    BY <1>1, <2>2, <2>3, <2>5 DEF MovesTo
  <2> QED
    BY <1>6, <2>1, <2>2, <2>6
<1>9. q[e] = Len(new) \/ q[e] + 1 \in C!Sections(new)
  <2>1. CASE e = Len(lines)
    BY <1>1, <2>1 DEF MovesTo
  <2>2. CASE e + 1 \in C!Sections(lines)
    <3>1. PICK k : k = e + 1
      OBVIOUS
    <3>2. k \in DOMAIN lines /\ k \in 1 .. Len(lines) /\ k - 1 = e
          /\ lines[k].is \in {"unreleased", "release", "odd"}
      BY <1>2, <1>5, <2>2, <3>1, SectionIs
    <3>3. CASE lines[k].is = "unreleased"
      <4>1. HeadAt(new, q, k, v)
        BY <1>1, <3>2, <3>3, PlacesHold
      <4>2. q[k] = q[e] + 3 /\ new[q[k] - 2] = C!Unreleased
        BY <3>2, <4>1 DEF HeadAt
      <4>3. q[k] - 2 = q[e] + 1
        BY <1>6, <4>2
      <4>4. q[k] - 2 \in DOMAIN new
        BY <3>2, <3>3, InTheNewFile
      <4> QED
        BY <1>1, <4>2, <4>3, <4>4, NewLines, SectionIs
    <3>4. CASE lines[k].is \in {"release", "odd"}
      <4>1. Kept(lines[k])
        BY <3>4 DEF Kept, IsLink0
      <4>2. LineAt(new, q, k, lines[k])
        BY <1>1, <3>2, <4>1, PlacesHold
      <4>3. q[k] = q[e] + 1 /\ new[q[k]] = lines[k] /\ q[k] \in DOMAIN new
        BY <3>2, <4>2, InTheNewFile DEF LineAt
      <4> QED
        BY <3>4, <4>3, SectionIs
    <3> QED
      BY <3>2, <3>3, <3>4
  <2> QED
    BY <1>4, <2>1, <2>2 DEF Ends
<1>10. Ends(new, q[i], q[e])
  BY <1>6, <1>7, <1>8, <1>9 DEF Ends
<1> QED
  BY <1>3, <1>10

\* kept is what the loop of stripLinks has after each line.
Strips(s, kept) ==
  /\ kept \in [0 .. Len(s) -> FileText] /\ kept[0] = <<>>
  /\ \A i \in 1 .. Len(s) :
       kept[i] = IF s[i].is = "link" THEN kept[i - 1] ELSE Append(kept[i - 1], s[i])

LEMMA LinksStripped ==
  ASSUME NEW s \in FileText
  PROVE  \E kept : Strips(s, kept) /\ C!WithoutLinks(s) = kept[Len(s)]
<1> DEFINE n == Len(s)
           Round(i, t) == IF s[i].is = "link" THEN t ELSE Append(t, s[i])
           F == [p \in (1 .. n) \X FileText |-> Round(p[1], p[2])]
           Walk(g) == g = [i \in 0 .. n |-> IF i = 0 THEN <<>> ELSE Round(i, g[i - 1])]
           none == <<>>
<1>1. n \in Nat /\ \A i \in 1 .. n : s[i] \in C!Line
  BY FileFacts
<1>2. none \in FileText
  BY DEF FileText
<1>3. \A i \in 1 .. n, t \in FileText : Round(i, t) \in FileText
  BY <1>1, AppendProperties DEF FileText
<1> HIDE DEF Round
<1>4. F \in Rule(n, FileText)
  BY <1>3 DEF Rule
<1>5. \A i \in 1 .. n, t \in FileText : F[<<i, t>>] = Round(i, t)
  OBVIOUS
<1> HIDE DEF F, n, none
<1>6. PICK g \in [0 .. n -> FileText] : IsLoop(g, n, none, F)
  BY <1>1, <1>2, <1>4, LoopDefined
<1>7. \A i \in 0 .. n : i # 0 => F[<<i, g[i - 1]>>] = Round(i, g[i - 1])
  <2>1. \A i \in 0 .. n : i # 0 => i \in 1 .. n /\ i - 1 \in 0 .. n
    BY <1>1
  <2> QED
    BY <1>5, <1>6, <2>1
<1>8. Walk(g)
  BY <1>6, <1>7 DEF IsLoop, none
<1>9. PICK f : Walk(f) /\ C!WithoutLinks(s) = f[n]
  BY <1>8 DEF C!WithoutLinks, Round, n
<1>10. f[0] = <<>> /\ \A i \in 1 .. n : f[i] = Round(i, f[i - 1])
  BY <1>1, <1>9
<1>11. \A i \in 0 .. n : f[i] \in FileText
  <2> DEFINE T == {i \in 0 .. n : f[i] \in FileText}
  <2>1. 0 \in T
    BY <1>1, <1>2, <1>10 DEF none
  <2>2. ASSUME NEW i \in 1 .. n, i - 1 \in T PROVE i \in T
    BY <1>1, <1>3, <1>10, <2>2
  <2> HIDE DEF T
  <2>3. \A i \in 0 .. n : i \in T
    BY <1>1, <2>1, <2>2, Rounds
  <2> QED
    BY <2>3 DEF T
<1>12. f \in [0 .. n -> FileText]
  <2>1. f = [i \in 0 .. n |-> f[i]]
    BY <1>9
  <2> QED
    BY <1>11, <2>1
<1>13. Strips(s, f)
  BY <1>10, <1>12 DEF Strips, Round, n
<1> QED
  BY <1>9, <1>13 DEF n

\* The lines from a to b.
LEMMA Stretch ==
  ASSUME NEW s \in FileText, NEW a \in DOMAIN s, NEW b \in DOMAIN s, a <= b
  PROVE  /\ SubSeq(s, a + 1, b) \in FileText /\ Len(SubSeq(s, a + 1, b)) = b - a
         /\ b - a \in Nat
         /\ \A k \in 1 .. b - a : SubSeq(s, a + 1, b)[k] = s[a + k]
<1>1. a \in Nat /\ b \in Nat /\ a + 1 \in Int /\ b \in Int /\ b - a \in Nat
  BY FileFacts
<1>2. \A k \in a + 1 .. b : s[k] \in C!Line
  <2>1. a \in 1 .. Len(s) /\ b \in 1 .. Len(s) /\ Len(s) \in Nat
    BY FileFacts
  <2>2. \A k \in a + 1 .. b : k \in 1 .. Len(s)
    BY <2>1
  <2> QED
    BY <2>2, FileFacts
<1>3. /\ SubSeq(s, a + 1, b) \in Seq(C!Line)
      /\ Len(SubSeq(s, a + 1, b)) = IF a + 1 <= b THEN b - (a + 1) + 1 ELSE 0
      /\ \A k \in 1 .. b - (a + 1) + 1 : SubSeq(s, a + 1, b)[k] = s[a + 1 + k - 1]
  BY <1>1, <1>2, SubSeqProperties
<1>4. b - (a + 1) + 1 = b - a /\ (~(a + 1 <= b) => b - a = 0)
  BY <1>1
<1>5. \A k \in 1 .. b - a : a + 1 + k - 1 = a + k
  BY <1>1
<1> QED
  BY <1>1, <1>3, <1>4, <1>5 DEF FileText

\* But for links, a stretch without an unreleased heading stays what it was.
LEMMA StretchKept ==
  ASSUME NEW lines, NEW new, NEW v, NEW q, Makes(lines, new, v, q),
         NEW a \in DOMAIN lines, NEW b \in DOMAIN lines, a <= b,
         \A k \in C!Is(lines, "unreleased") : k <= a \/ b < k
  PROVE  C!WithoutLinks(SubSeq(new, q[a] + 1, q[b])) = C!WithoutLinks(SubSeq(lines, a + 1, b))
<1>1. lines \in FileText /\ new \in FileText /\ v \in Versions /\ MovesTo(lines, new, v, q)
  BY DEF Makes
<1>2. /\ a \in Nat /\ b \in Nat /\ Len(lines) \in Nat /\ DOMAIN lines = 1 .. Len(lines)
      /\ a \in 1 .. Len(lines) /\ b \in 1 .. Len(lines)
  BY <1>1, FileFacts
<1>3. q[a] \in DOMAIN new /\ q[b] \in DOMAIN new
  BY InTheNewFile
<1>4. q[a] \in Nat /\ q[b] \in Nat /\ q[a] <= q[b]
  <2>1. a = b \/ a < b
    BY <1>2
  <2> QED
    BY <1>3, <2>1, PlacesOrder
<1> DEFINE x == SubSeq(lines, a + 1, b)
           y == SubSeq(new, q[a] + 1, q[b])
           n == b - a
           p == [k \in 0 .. n |-> q[a + k] - q[a]]
<1>5. x \in FileText /\ Len(x) = n /\ n \in Nat /\ \A k \in 1 .. n : x[k] = lines[a + k]
  BY <1>1, Stretch
<1>6. /\ y \in FileText /\ Len(y) = q[b] - q[a] /\ q[b] - q[a] \in Nat
      /\ \A k \in 1 .. q[b] - q[a] : y[k] = new[q[a] + k]
  BY <1>1, <1>3, <1>4, Stretch
<1>7. \A k \in 0 .. n : p[k] = q[a + k] - q[a]
  OBVIOUS
<1> HIDE DEF p, x, y
<1>8. PICK gx : Strips(x, gx) /\ C!WithoutLinks(x) = gx[Len(x)]
  BY <1>5, LinksStripped
<1>9. PICK gy : Strips(y, gy) /\ C!WithoutLinks(y) = gy[Len(y)]
  BY <1>6, LinksStripped
<1> DEFINE T == {k \in 0 .. n : gy[p[k]] = gx[k]}
<1>10. p[0] = 0 /\ p[n] = Len(y) /\ 0 \in 0 .. n /\ n \in 0 .. n
  <2>1. 0 \in 0 .. n /\ n \in 0 .. n /\ a + 0 = a /\ a + n = b
    BY <1>2, <1>5
  <2> QED
    BY <1>4, <1>6, <1>7, <2>1
<1>11. 0 \in T
  BY <1>8, <1>9, <1>10 DEF Strips
<1>12. ASSUME NEW k \in 1 .. n, k - 1 \in T PROVE k \in T
  <2>1. PICK i : i = a + k
    OBVIOUS
  <2>2. i \in 1 .. Len(lines) /\ i \in Nat /\ i - 1 = a + (k - 1) /\ i - 1 \in 1 .. Len(lines)
        /\ k \in 0 .. n /\ k - 1 \in 0 .. n /\ a < i /\ i <= b
    BY <1>2, <1>5, <2>1
  <2>3. lines[i].is # "unreleased"
    <3>1. i \notin C!Is(lines, "unreleased")
      BY <1>2, <2>2
    <3> QED
      BY <1>2, <2>2, <3>1 DEF C!Is
  <2>4. gy[p[k - 1]] = gx[k - 1] /\ x[k] = lines[i]
    BY <1>5, <1>12, <2>1
  <2>5. p[k] = q[i] - q[a] /\ p[k - 1] = q[i - 1] - q[a]
    BY <1>7, <2>1, <2>2
  <2>6. q[i] \in Nat /\ q[i - 1] \in Nat /\ q[a] <= q[i - 1] /\ q[i - 1] < q[i] /\ q[i] <= q[b]
    <3>1. q[i - 1] \in Nat /\ q[i] \in Nat /\ (i - 1 < i => q[i - 1] < q[i])
      BY <1>2, <2>2, PlacesOrder
    <3>2. q[a] <= q[i - 1]
      BY <1>2, <2>2, PlacesOrder
    <3>3. i = b \/ i < b
      BY <1>2, <2>2
    <3>4. i < b => q[i] < q[b]
      BY <1>2, <2>2, PlacesOrder
    <3>5. q[i] <= q[b]
      BY <1>4, <3>1, <3>3, <3>4
    <3> QED
      BY <2>2, <3>1, <3>2, <3>5
  <2>7. p[k] \in 1 .. Len(y) /\ q[a] + p[k] = q[i] /\ p[k - 1] \in Nat
    BY <1>4, <1>6, <2>5, <2>6
  <2>8. gx[k] = IF x[k].is = "link" THEN gx[k - 1] ELSE Append(gx[k - 1], x[k])
    BY <1>5, <1>8 DEF Strips
  <2>9. gy[p[k]] = IF y[p[k]].is = "link" THEN gy[p[k] - 1] ELSE Append(gy[p[k] - 1], y[p[k]])
    BY <1>9, <2>7 DEF Strips
  <2>10. y[p[k]] = new[q[i]]
    BY <1>6, <2>7
  <2>11. CASE Kept(lines[i])
    <3>1. q[i] = q[i - 1] + 1 /\ new[q[i]] = lines[i]
      BY <1>1, <2>2, <2>11, PlacesHold DEF LineAt
    <3>2. p[k] - 1 = p[k - 1]
      BY <1>4, <2>5, <2>6, <3>1
    <3>3. gy[p[k]] = gx[k]
      BY <2>4, <2>8, <2>9, <2>10, <3>1, <3>2
    <3> QED
      BY <2>2, <3>3
  <2>12. CASE IsLink0(lines[i])
    <3>1. LinksAt(new, q, i, v)
      BY <1>1, <2>2, <2>12, PlacesHold
    <3>2. q[i] = q[i - 1] + 2 /\ new[q[i]] = C!Link(v) /\ new[q[i] - 1] = C!Link(0)
      BY <3>1 DEF LinksAt
    <3>3. /\ (p[k] - 1) - 1 = p[k - 1] /\ q[a] + (p[k] - 1) = q[i] - 1
          /\ p[k] - 1 \in 1 .. Len(y)
      <4>1. PICK d, c : d = p[k] /\ c = p[k - 1]
        OBVIOUS
      <4>2. d = q[i] - q[a] /\ c = q[i - 1] - q[a] /\ q[i] = q[i - 1] + 2 /\ d \in 1 .. Len(y)
            /\ c \in Nat /\ Len(y) \in Nat
        BY <1>6, <2>5, <2>7, <3>2, <4>1
      <4>3. (d - 1) - 1 = c /\ q[a] + (d - 1) = q[i] - 1 /\ d - 1 \in 1 .. Len(y)
        BY <1>4, <2>6, <4>2
      <4> QED
        BY <4>1, <4>3
    <3>4. y[p[k] - 1] = C!Link(0)
      BY <1>6, <3>2, <3>3
    <3>5. y[p[k]].is = "link" /\ y[p[k] - 1].is = "link" /\ x[k].is = "link"
      BY <1>1, <2>4, <2>10, <2>12, <3>2, <3>4, NewLines DEF IsLink0
    <3>6. gy[p[k] - 1] = IF y[p[k] - 1].is = "link" THEN gy[(p[k] - 1) - 1]
                         ELSE Append(gy[(p[k] - 1) - 1], y[p[k] - 1])
      BY <1>9, <3>3 DEF Strips
    <3>7. gy[p[k]] = gx[k]
      BY <2>4, <2>8, <2>9, <3>3, <3>5, <3>6
    <3> QED
      BY <2>2, <3>7
  <2> QED
    BY <2>3, <2>11, <2>12 DEF Kept
<1> HIDE DEF T
<1>13. n \in T
  <2>1. \A k \in 0 .. n : k \in T
    BY <1>5, <1>11, <1>12, Rounds
  <2> QED
    BY <1>10, <2>1
<1>14. gy[Len(y)] = gx[Len(x)]
  BY <1>5, <1>10, <1>13 DEF T
<1> QED
  BY <1>8, <1>9, <1>14 DEF x, y

\* A section below the unreleased heading has the body it had.
LEMMA BodyKept ==
  ASSUME NEW lines, NEW new, NEW v, NEW q, Makes(lines, new, v, q), NEW i \in C!Sections(lines),
         \A k \in C!Is(lines, "unreleased") : k <= i
  PROVE  C!Body(new, q[i]) = C!Body(lines, i)
<1>1. lines \in FileText /\ new \in FileText
  BY DEF Makes
<1>2. PICK e : e = C!EndOf(lines, i)
  OBVIOUS
<1>3. i \in DOMAIN lines /\ q[i] \in DOMAIN new
  BY InTheNewFile, SectionIs
<1>4. Ends(lines, i, e) /\ Ends(new, q[i], q[e])
  BY <1>1, <1>2, <1>3, EndFound, NewEnds
<1>5. C!EndOf(new, q[i]) = q[e]
  BY <1>1, <1>3, <1>4, EndIs
<1>6. e \in DOMAIN lines /\ i <= e
  <2>1. e \in Nat /\ i <= e /\ e <= Len(lines)
    BY <1>4 DEF Ends
  <2>2. i \in 1 .. Len(lines) /\ Len(lines) \in Nat /\ DOMAIN lines = 1 .. Len(lines)
    BY <1>1, <1>3, FileFacts
  <2>3. e \in 1 .. Len(lines)
    BY <2>1, <2>2
  <2> QED
    BY <2>1, <2>2, <2>3
<1>7. C!WithoutLinks(SubSeq(new, q[i] + 1, q[e])) = C!WithoutLinks(SubSeq(lines, i + 1, e))
  BY <1>3, <1>6, StretchKept
<1>8. C!WithoutLinks(SubSeq(new, q[i] + 1, C!EndOf(new, q[i])))
        = C!WithoutLinks(SubSeq(lines, i + 1, C!EndOf(lines, i)))
  BY <1>2, <1>5, <1>7
<1> QED
  BY <1>8 DEF C!Body

\* Under the new unreleased heading there is a blank line.
LEMMA NothingUnreleased ==
  ASSUME NEW lines, NEW new, NEW v, NEW q, Makes(lines, new, v, q)
  PROVE  C!UnreleasedEmpty(new)
<1>1. lines \in FileText /\ new \in FileText /\ v \in Versions
  BY DEF Makes
<1>2. CASE C!Is(new, "unreleased") = {}
  BY <1>2 DEF C!UnreleasedEmpty, C!UnreleasedBody
<1>3. CASE C!Is(new, "unreleased") # {}
  <2>1. PICK h : h = CHOOSE i \in C!Is(new, "unreleased") : TRUE
    OBVIOUS
  <2>2. h \in C!Is(new, "unreleased")
    BY <1>3, <2>1
  <2>3. PICK u \in C!Is(lines, "unreleased") : h = q[u] - 2
    BY <2>2, OriginOfUnreleased
  <2>4. /\ q[u] \in DOMAIN new /\ q[u] - 1 \in DOMAIN new /\ q[u] - 2 \in DOMAIN new
        /\ new[q[u] - 2] = C!Unreleased /\ new[q[u] - 1] = C!Blank
        /\ new[q[u]] = C!ReleaseHead(v)
    BY NewHead
  <2>5. PICK e : e = h + 1
    OBVIOUS
  <2>6. q[u] \in Nat /\ h \in Nat /\ Len(new) \in Nat /\ DOMAIN new = 1 .. Len(new)
    BY <1>1, <2>3, <2>4, FileFacts
  <2>7. /\ h \in DOMAIN new /\ e \in DOMAIN new /\ e = q[u] - 1 /\ e + 1 = q[u] /\ e \in Nat
        /\ h <= e /\ e <= Len(new) /\ e - h = 1
    BY <2>3, <2>4, <2>5, <2>6
  <2>8. new[e].is = "blank" /\ new[q[u]].is = "release"
    <3>1. new[e] = C!Blank
      BY <2>4, <2>7
    <3> QED
      BY <1>1, <2>4, <3>1, NewLines
  <2>9. e \notin C!Sections(new) /\ q[u] \in C!Sections(new)
    BY <2>4, <2>8, SectionIs
  <2>10. ASSUME NEW k \in C!Sections(new), h < k PROVE e < k
    <3>1. k \in Nat /\ k # e
      BY <1>1, <2>9, SectionIs, FileFacts
    <3> QED
      BY <2>5, <2>6, <2>10, <3>1
  <2>11. Ends(new, h, e)
    BY <2>7, <2>9, <2>10 DEF Ends
  <2>12. C!EndOf(new, h) = e
    BY <1>1, <2>7, <2>11, EndIs
  <2> DEFINE x == SubSeq(new, h + 1, e)
  <2>13. x \in FileText /\ Len(x) = 1 /\ x[1] = new[h + 1]
    <3>1. x \in FileText /\ Len(x) = e - h /\ \A k \in 1 .. e - h : x[k] = new[h + k]
      BY <1>1, <2>7, Stretch
    <3> HIDE DEF x
    <3> QED
      BY <2>7, <3>1
  <2> HIDE DEF x
  <2>14. PICK g : Strips(x, g) /\ C!WithoutLinks(x) = g[Len(x)]
    BY <2>13, LinksStripped
  <2>15. g[1] = Append(<<>>, new[e])
    <3>1. g[0] = <<>> /\ g[1] = IF x[1].is = "link" THEN g[0] ELSE Append(g[0], x[1])
      BY <2>13, <2>14 DEF Strips
    <3> QED
      BY <2>5, <2>8, <2>13, <3>1
  <2>16. PICK all : all = C!WithoutLinks(x)
    OBVIOUS
  <2>17. DOMAIN all = {1} /\ all[1].is = "blank"
    <3>1. all = <<new[e]>>
      BY <2>13, <2>14, <2>15, <2>16
    <3> QED
      BY <2>8, <3>1
  <2>18. {j \in DOMAIN all : all[j].is # "blank"} = {}
    BY <2>17
  <2>19. C!Body(new, h) = <<>>
    BY <2>12, <2>16, <2>18 DEF C!Body, C!Trimmed, x
  <2> QED
    BY <1>3, <2>1, <2>19 DEF C!UnreleasedEmpty, C!UnreleasedBody
<1> QED
  BY <1>2, <1>3

\* The first release of a file that lints is its latest.
LEMMA LatestIsLargest ==
  ASSUME NEW s \in FileText, C!Lints(s), NEW i \in C!Is(s, "release")
  PROVE  C!Latest(s) \in Versions /\ s[i].v <= C!Latest(s)
<1>1. \A k \in C!Is(s, "release") : k \in Nat /\ k \in DOMAIN s /\ s[k].v \in Versions
  BY FileFacts, LineFacts DEF C!Is
<1>2. PICK f : f = C!First(C!Is(s, "release"))
  OBVIOUS
<1>3. f \in C!Is(s, "release") /\ f <= i
  <2>1. C!Is(s, "release") \in SUBSET Nat /\ C!Is(s, "release") # {}
    BY <1>1
  <2> QED
    BY <1>2, <2>1, FirstFound
<1>4. C!Latest(s) = s[f].v
  BY <1>2 DEF C!Latest
<1>5. f < i => s[f].v > s[i].v
  BY <1>3 DEF C!Lints
<1>6. f \in Nat /\ i \in Nat /\ s[f].v \in Nat /\ s[i].v \in Nat /\ s[f].v \in Versions
  BY <1>1, <1>3 DEF Versions
<1>7. s[i].v <= s[f].v
  <2>1. f < i \/ f = i
    BY <1>3, <1>6
  <2>2. CASE f < i
    BY <1>5, <1>6, <2>2
  <2>3. CASE f = i
    BY <1>6, <2>3
  <2> QED
    BY <2>1, <2>2, <2>3
<1> QED
  BY <1>4, <1>6, <1>7

Fit(lines, v) == C!Parses(lines) /\ C!Lints(lines) /\ C!CanRelease(lines, v)

\* The one unreleased heading is above every release.
LEMMA HeadIsOnTop ==
  ASSUME NEW lines, NEW new, NEW v, NEW q, Makes(lines, new, v, q), Fit(lines, v)
  PROVE  \E u \in C!Is(lines, "unreleased") :
           /\ C!Is(lines, "unreleased") = {u}
           /\ \A i \in C!Is(lines, "release") : u < i /\ q[u] < q[i]
<1>1. C!Parses(lines) /\ C!Lints(lines)
  BY DEF Fit
<1>2. PICK u \in C!Is(lines, "unreleased") : TRUE
  BY <1>1 DEF C!Lints
<1>3. C!Is(lines, "unreleased") = {u}
  BY <1>1 DEF C!Parses
<1>4. ASSUME NEW i \in C!Is(lines, "release") PROVE u < i /\ q[u] < q[i]
  <2>1. u < i
    BY <1>1 DEF C!Lints
  <2>2. u \in DOMAIN lines /\ i \in DOMAIN lines
    BY DEF C!Is
  <2> QED
    BY <2>1, <2>2, PlacesOrder
<1> QED
  BY <1>3, <1>4

\* The releases of the new file are the new one and the old ones.
LEMMA NewReleases ==
  ASSUME NEW lines, NEW new, NEW v, NEW q, Makes(lines, new, v, q),
         NEW u, C!Is(lines, "unreleased") = {u}
  PROVE  /\ q[u] \in C!Is(new, "release") /\ new[q[u]] = C!ReleaseHead(v)
         /\ \A i \in C!Is(lines, "release") : q[i] \in C!Is(new, "release") /\ new[q[i]] = lines[i]
         /\ \A j \in C!Is(new, "release") :
              j = q[u] \/ \E i \in C!Is(lines, "release") : j = q[i]
<1>1. v \in Versions /\ u \in C!Is(lines, "unreleased")
  BY DEF Makes
<1>2. q[u] \in DOMAIN new /\ new[q[u]] = C!ReleaseHead(v) /\ C!ReleaseHead(v).is = "release"
  BY <1>1, NewHead, NewLines
<1>3. ASSUME NEW i \in C!Is(lines, "release")
      PROVE  q[i] \in C!Is(new, "release") /\ new[q[i]] = lines[i]
  <2>1. i \in DOMAIN lines /\ lines[i].is = "release"
    BY DEF C!Is
  <2>2. Kept(lines[i])
    BY <2>1 DEF Kept, IsLink0
  <2> QED
    BY <2>1, <2>2, NewKept DEF C!Is
<1>4. \A j \in C!Is(new, "release") : j = q[u] \/ \E i \in C!Is(lines, "release") : j = q[i]
  BY OriginOfRelease
<1> QED
  BY <1>2, <1>3, <1>4 DEF C!Is

\* The versions descend.
LEMMA NewDescends ==
  ASSUME NEW lines, NEW new, NEW v, NEW q, Makes(lines, new, v, q), Fit(lines, v),
         NEW i \in C!Is(new, "release"), NEW j \in C!Is(new, "release"), i < j
  PROVE  new[i].v > new[j].v
<1>1. lines \in FileText /\ new \in FileText /\ v \in Versions /\ C!Lints(lines)
  BY DEF Makes, Fit
<1>2. PICK u \in C!Is(lines, "unreleased") :
        /\ C!Is(lines, "unreleased") = {u}
        /\ \A k \in C!Is(lines, "release") : u < k /\ q[u] < q[k]
  BY HeadIsOnTop
<1>3. i \in Nat /\ j \in Nat /\ ~(j < i) /\ i # j
  <2>1. i \in Nat /\ j \in Nat
    BY <1>1, FileFacts DEF C!Is
  <2> QED
    BY <2>1
<1>4. j # q[u]
  <2>1. i = q[u] \/ q[u] < i
    BY <1>2, NewReleases
  <2> QED
    BY <1>3, <2>1
<1>5. PICK k \in C!Is(lines, "release") : j = q[k]
  BY <1>2, <1>4, NewReleases
<1>6. new[j] = lines[k]
  BY <1>2, <1>5, NewReleases
<1>7. CASE i = q[u]
  <2>1. new[i].v = v
    BY <1>1, <1>2, <1>7, NewReleases, NewLines
  <2>2. C!Latest(lines) \in Versions /\ lines[k].v <= C!Latest(lines)
    BY <1>1, LatestIsLargest
  <2>3. v > C!Latest(lines)
    BY <2>2 DEF Fit, C!CanRelease, C!Follows, Versions
  <2>4. lines[k].v \in Nat /\ v \in Nat /\ C!Latest(lines) \in Nat
    <3>1. k \in DOMAIN lines /\ lines[k].is = "release"
      BY DEF C!Is
    <3> QED
      BY <1>1, <2>2, <3>1, FileFacts, LineFacts DEF Versions
  <2>5. v > lines[k].v
    BY <2>2, <2>3, <2>4
  <2> QED
    BY <1>6, <2>1, <2>5
<1>8. CASE i # q[u]
  <2>1. PICK m \in C!Is(lines, "release") : i = q[m]
    BY <1>2, <1>8, NewReleases
  <2>2. new[i] = lines[m]
    BY <1>2, <2>1, NewReleases
  <2>3. m \in DOMAIN lines /\ k \in DOMAIN lines
    BY DEF C!Is
  <2>4. m < k
    BY <1>5, <2>1, <2>3, PlacesOrder
  <2> QED
    BY <1>1, <1>6, <2>2, <2>4 DEF C!Lints
<1> QED
  BY <1>7, <1>8

\* The links: the old ones, and the one of the new version.
LEMMA NewHasLinks ==
  ASSUME NEW lines, NEW new, NEW v, NEW q, Makes(lines, new, v, q), Fit(lines, v),
         NEW w, w = v \/ C!LinksTo(lines, w) # {}
  PROVE  C!LinksTo(new, w) # {}
<1>1. v \in Versions /\ C!Lints(lines)
  BY DEF Makes, Fit
<1>2. PICK i \in C!LinksTo(lines, 0) : TRUE
  BY <1>1 DEF C!Lints
<1>3. i \in DOMAIN lines /\ IsLink0(lines[i])
  BY DEF C!LinksTo, C!Is, IsLink0
<1>4. /\ q[i] \in DOMAIN new /\ q[i] - 1 \in DOMAIN new
      /\ new[q[i] - 1] = C!Link(0) /\ new[q[i]] = C!Link(v)
  BY <1>3, NewLinks
<1>5. CASE w = v
  <2>1. new[q[i]].is = "link" /\ new[q[i]].v = w
    BY <1>1, <1>4, <1>5, NewLines
  <2> QED
    BY <1>4, <2>1 DEF C!LinksTo, C!Is
<1>6. CASE w = 0
  <2>1. new[q[i] - 1].is = "link" /\ new[q[i] - 1].v = w
    BY <1>1, <1>4, <1>6, NewLines
  <2> QED
    BY <1>4, <2>1 DEF C!LinksTo, C!Is
<1>7. CASE w # v /\ w # 0
  <2>1. PICK k \in C!LinksTo(lines, w) : TRUE
    BY <1>7
  <2>2. k \in DOMAIN lines /\ lines[k].is = "link" /\ lines[k].v = w
    BY DEF C!LinksTo, C!Is
  <2>3. Kept(lines[k])
    BY <1>7, <2>2 DEF Kept, IsLink0
  <2>4. q[k] \in DOMAIN new /\ new[q[k]] = lines[k]
    BY <2>2, <2>3, NewKept
  <2> QED
    BY <2>2, <2>4 DEF C!LinksTo, C!Is
<1> QED
  BY <1>5, <1>6, <1>7

LEMMA NewLinksOK ==
  ASSUME NEW lines, NEW new, NEW v, NEW q, Makes(lines, new, v, q), Fit(lines, v),
         NEW j \in C!Is(new, "link")
  PROVE  C!LinkOK(j, new)
<1>1. v \in Versions /\ C!Lints(lines)
  BY DEF Makes, Fit
<1>2. CASE new[j] \in {C!Link(0), C!Link(v)}
  <2>1. new[j].good
    BY <1>1, <1>2, NewLines
  <2> QED
    BY <2>1 DEF C!LinkOK
<1>3. CASE new[j] \notin {C!Link(0), C!Link(v)}
  <2>1. PICK i \in C!Is(lines, "link") : lines[i].v # 0 /\ j = q[i] /\ new[j] = lines[i]
    BY <1>3, OriginOfLink
  <2>2. C!LinkOK(i, lines)
    BY <1>1 DEF C!Lints
  <2>3. CASE lines[i].good
    BY <2>1, <2>3 DEF C!LinkOK
  <2>4. CASE ~lines[i].good
    <3>1. PICK k \in C!LinksTo(lines, lines[i].v) : k > i
      BY <2>2, <2>4 DEF C!LinkOK
    <3>2. k \in DOMAIN lines /\ lines[k].is = "link" /\ lines[k].v = lines[i].v /\ i \in DOMAIN lines
      BY DEF C!LinksTo, C!Is
    <3>3. Kept(lines[k])
      BY <2>1, <3>2 DEF Kept, IsLink0
    <3>4. q[k] \in DOMAIN new /\ new[q[k]] = lines[k]
      BY <3>2, <3>3, NewKept
    <3>5. q[k] > q[i]
      BY <3>1, <3>2, PlacesOrder
    <3> QED
      BY <2>1, <3>2, <3>4, <3>5 DEF C!LinkOK, C!LinksTo, C!Is
  <2> QED
    BY <2>3, <2>4
<1> QED
  BY <1>2, <1>3

\* A section above a line stays above it.
LEMMA SectionsAbove ==
  ASSUME NEW lines, NEW new, NEW v, NEW q, Makes(lines, new, v, q),
         NEW i \in DOMAIN lines, Kept(lines[i])
  PROVE  (\E k \in C!Sections(new) : k < q[i]) <=> (\E k \in C!Sections(lines) : k < i)
<1>1. lines \in FileText /\ new \in FileText /\ v \in Versions /\ MovesTo(lines, new, v, q)
  BY DEF Makes
<1>2. ASSUME NEW k \in C!Sections(lines), k < i PROVE \E j \in C!Sections(new) : j < q[i]
  <2>1. k \in DOMAIN lines /\ lines[k].is \in {"unreleased", "release", "odd"}
    BY SectionIs
  <2>2. q[k] < q[i]
    BY <1>2, <2>1, PlacesOrder
  <2>3. q[k] \in C!Sections(new)
    <3>1. CASE lines[k].is = "unreleased"
      BY <1>1, <2>1, <3>1, NewHead, NewLines, SectionIs DEF C!Is
    <3>2. CASE lines[k].is # "unreleased"
      <4>1. Kept(lines[k])
        BY <2>1, <3>2 DEF Kept, IsLink0
      <4> QED
        BY <2>1, <4>1, NewKept, SectionIs
    <3> QED
      BY <3>1, <3>2
  <2> QED
    BY <2>2, <2>3
<1>3. ASSUME NEW j \in C!Sections(new), j < q[i] PROVE \E k \in C!Sections(lines) : k < i
  <2>1. PICK k \in C!Sections(lines) : q[k - 1] < j /\ j <= q[k]
    BY SectionFrom
  <2>2. k \in DOMAIN lines /\ j \in DOMAIN new /\ j \in Nat
    BY <1>1, SectionIs, FileFacts
  <2>3. k \in Nat /\ i \in Nat /\ q[i] \in Nat /\ q[k] \in Nat /\ (i < k => q[i] <= q[k - 1])
    BY <2>2, PlacesOrder
  <2>4. k - 1 \in 0 .. Len(lines)
    BY <1>1, <2>2, FileFacts
  <2>5. q[k - 1] \in Nat
    BY <1>1, <2>4 DEF MovesTo
  <2>6. ~(i < k)
    BY <1>3, <2>1, <2>2, <2>3, <2>5
  <2>7. CASE k < i
    BY <2>7
  <2>8. CASE k = i
    <3>1. q[i] = q[i - 1] + 1
      <4>1. i \in 1 .. Len(lines)
        BY <1>1, FileFacts
      <4>2. LineAt(new, q, i, lines[i])
        BY <1>1, <4>1, PlacesHold
      <4> QED
        BY <4>2 DEF LineAt
    <3> QED
      BY <1>3, <2>1, <2>2, <2>3, <2>5, <2>8, <3>1
  <2> QED
    BY <2>3, <2>6, <2>7, <2>8
<1> QED
  BY <1>2, <1>3

\* A subsection that has content has it in the new file.
LEMMA ContentKept ==
  ASSUME NEW lines, NEW new, NEW v, NEW q, Makes(lines, new, v, q),
         NEW i \in DOMAIN lines, C!HasContent(lines, i)
  PROVE  C!HasContent(new, q[i])
<1>1. lines \in FileText /\ new \in FileText /\ v \in Versions /\ MovesTo(lines, new, v, q)
  BY DEF Makes
<1>2. PICK k \in C!Is(lines, "text") :
        k > i /\ \A m \in i + 1 .. k : lines[m].is \in {"text", "blank", "link"}
  BY DEF C!HasContent
<1>3. k \in DOMAIN lines /\ lines[k].is = "text"
  BY DEF C!Is
<1>4. q[k] \in DOMAIN new /\ new[q[k]] = lines[k]
  BY <1>3, NewKept DEF Kept, IsLink0
<1>5. q[k] \in Nat /\ q[i] \in Nat /\ q[k] > q[i] /\ k \in Nat /\ i \in Nat
  BY <1>2, <1>3, PlacesOrder
<1>6. ASSUME NEW j \in q[i] + 1 .. q[k] PROVE new[j].is \in {"text", "blank", "link"}
  <2>1. j \in DOMAIN new /\ j \in Nat
    <3>1. q[k] \in 1 .. Len(new) /\ Len(new) \in Nat /\ DOMAIN new = 1 .. Len(new)
      BY <1>1, <1>4, FileFacts
    <3>2. j \in 1 .. Len(new)
      BY <1>5, <3>1
    <3> QED
      BY <3>1, <3>2
  <2>2. PICK m \in DOMAIN lines : /\ q[m - 1] < j /\ j <= q[m]
                                  /\ \/ FromHead(new, lines, q, j, m, v)
                                     \/ FromLink(new, lines, q, j, m, v)
                                     \/ FromLine(new, lines, q, j, m)
    BY <2>1, Origin
  <2>3. m \in Nat /\ q[m] \in Nat /\ (k < m => q[k] <= q[m - 1]) /\ (q[i] < q[m] <=> i < m)
    BY <1>3, PlacesOrder
  <2>4. m - 1 \in 0 .. Len(lines)
    BY <1>1, FileFacts
  <2>5. q[m - 1] \in Nat
    BY <1>1, <2>4 DEF MovesTo
  <2>6. i < m
    BY <1>5, <2>2, <2>3
  <2>7. ~(k < m)
    BY <1>5, <2>2, <2>3, <2>5
  <2>8. m \in i + 1 .. k
    BY <1>5, <2>3, <2>6, <2>7
  <2>9. lines[m].is \in {"text", "blank", "link"}
    BY <1>2, <2>8
  <2>10. ~FromHead(new, lines, q, j, m, v)
    BY <2>9 DEF FromHead
  <2>11. CASE FromLine(new, lines, q, j, m)
    BY <2>9, <2>11 DEF FromLine
  <2>12. CASE FromLink(new, lines, q, j, m, v)
    BY <1>1, <2>12, NewLines DEF FromLink
  <2> QED
    BY <2>2, <2>10, <2>11, <2>12
<1>7. q[k] \in C!Is(new, "text")
  BY <1>3, <1>4 DEF C!Is
<1> QED
  BY <1>5, <1>6, <1>7 DEF C!HasContent

LEMMA LintsKept ==
  ASSUME NEW lines, NEW new, NEW v, NEW q, Makes(lines, new, v, q), Fit(lines, v)
  PROVE  C!Lints(new)
<1>1. lines \in FileText /\ new \in FileText /\ v \in Versions /\ C!Lints(lines)
  BY DEF Makes, Fit
<1>2. PICK u \in C!Is(lines, "unreleased") :
        /\ C!Is(lines, "unreleased") = {u}
        /\ \A k \in C!Is(lines, "release") : u < k /\ q[u] < q[k]
  BY HeadIsOnTop
<1>3. C!Is(new, "unreleased") # {}
  <2>1. q[u] - 2 \in DOMAIN new /\ new[q[u] - 2] = C!Unreleased
    BY NewHead
  <2> QED
    BY <1>1, <2>1, NewLines DEF C!Is
<1>4. ASSUME NEW i \in C!Is(new, "unreleased"), NEW j \in C!Is(new, "release") PROVE i < j
  <2>1. i = q[u] - 2
    BY <1>2, OriginOfUnreleased
  <2>2. j \in DOMAIN new /\ q[u] \in DOMAIN new
    BY <1>2, NewReleases DEF C!Is
  <2>3. j \in Nat /\ q[u] \in Nat
    BY <1>1, <2>2, FileFacts
  <2>4. j = q[u] \/ q[u] < j
    BY <1>2, NewReleases
  <2> QED
    BY <2>1, <2>3, <2>4
<1>5. ASSUME NEW j \in C!Is(new, "release") PROVE new[j].good /\ C!LinksTo(new, new[j].v) # {}
  <2>1. CASE j = q[u]
    <3>1. new[j] = C!ReleaseHead(v)
      BY <1>2, <2>1, NewReleases
    <3>2. new[j].good /\ new[j].v = v
      BY <1>1, <3>1, NewLines
    <3> QED
      BY <3>2, NewHasLinks
  <2>2. CASE j # q[u]
    <3>1. PICK i \in C!Is(lines, "release") : j = q[i]
      BY <1>2, <2>2, NewReleases
    <3>2. new[j] = lines[i]
      BY <1>2, <3>1, NewReleases
    <3>3. lines[i].good /\ C!LinksTo(lines, lines[i].v) # {}
      BY <1>1 DEF C!Lints
    <3> QED
      BY <3>2, <3>3, NewHasLinks
  <2> QED
    BY <2>1, <2>2
<1>6. C!LinksTo(new, 0) # {}
  <2>1. C!LinksTo(lines, 0) # {}
    BY <1>1 DEF C!Lints
  <2> QED
    BY <2>1, NewHasLinks
<1>7. ASSUME NEW j \in C!Is(new, "sub")
      PROVE  new[j].good /\ C!HasContent(new, j) /\ \E k \in C!Sections(new) : k < j
  <2>1. j \in DOMAIN new /\ new[j].is = "sub"
    BY DEF C!Is
  <2>2. PICK i \in DOMAIN lines : Kept(lines[i]) /\ j = q[i] /\ new[j] = lines[i]
    BY <2>1, OriginOfKept
  <2>3. i \in C!Is(lines, "sub")
    BY <2>1, <2>2 DEF C!Is
  <2>4. lines[i].good /\ C!HasContent(lines, i) /\ \E k \in C!Sections(lines) : k < i
    BY <1>1, <2>3 DEF C!Lints
  <2>5. C!HasContent(new, q[i])
    BY <2>4, ContentKept
  <2>6. \E k \in C!Sections(new) : k < q[i]
    BY <2>2, <2>4, SectionsAbove
  <2> QED
    BY <2>2, <2>4, <2>5, <2>6
<1>8. ASSUME NEW j \in C!Is(new, "heading") PROVE ~\E k \in C!Sections(new) : k < j
  <2>1. j \in DOMAIN new /\ new[j].is = "heading"
    BY DEF C!Is
  <2>2. PICK i \in DOMAIN lines : Kept(lines[i]) /\ j = q[i] /\ new[j] = lines[i]
    BY <2>1, OriginOfKept
  <2>3. i \in C!Is(lines, "heading")
    BY <2>1, <2>2 DEF C!Is
  <2>4. ~\E k \in C!Sections(lines) : k < i
    BY <1>1, <2>3 DEF C!Lints
  <2> QED
    BY <2>2, <2>4, SectionsAbove
<1>9. \A i, j \in C!Is(new, "release") : i < j => new[i].v > new[j].v
  BY NewDescends
<1>10. \A j \in C!Is(new, "link") : C!LinkOK(j, new)
  BY NewLinksOK
<1> QED
  BY <1>3, <1>4, <1>5, <1>6, <1>7, <1>8, <1>9, <1>10 DEF C!Lints

\* The release is on top.
LEMMA LatestIsNew ==
  ASSUME NEW lines, NEW new, NEW v, NEW q, Makes(lines, new, v, q), Fit(lines, v)
  PROVE  C!Latest(new) = v
<1>1. lines \in FileText /\ new \in FileText /\ v \in Versions
  BY DEF Makes
<1>2. PICK u \in C!Is(lines, "unreleased") :
        /\ C!Is(lines, "unreleased") = {u}
        /\ \A k \in C!Is(lines, "release") : u < k /\ q[u] < q[k]
  BY HeadIsOnTop
<1> DEFINE R == C!Is(new, "release")
<1>3. q[u] \in R /\ new[q[u]] = C!ReleaseHead(v) /\ R \in SUBSET Nat
  BY <1>1, <1>2, NewReleases, FileFacts DEF C!Is
<1>4. \A j \in R : q[u] <= j
  <2> SUFFICES ASSUME NEW j \in R PROVE q[u] <= j
    OBVIOUS
  <2>1. j = q[u] \/ q[u] < j
    BY <1>2, NewReleases
  <2>2. j \in Nat /\ q[u] \in Nat
    BY <1>3
  <2> HIDE DEF R
  <2> QED
    BY <2>1, <2>2
<1>5. C!First(R) = q[u]
  <2> HIDE DEF R
  <2> QED
    BY <1>3, <1>4, FirstIs
<1>6. R # {}
  BY <1>3
<1> QED
  BY <1>1, <1>3, <1>5, <1>6, NewLines DEF C!Latest

\* The section of a version is the only one.
LEMMA OneSection ==
  ASSUME NEW s \in FileText, C!Lints(s), NEW i \in C!Is(s, "release")
  PROVE  BodyOf(s, s[i].v) = C!Body(s, i)
<1>1. \A k \in C!Is(s, "release") : k \in Nat /\ s[k].v \in Nat
  BY FileFacts, LineFacts DEF C!Is, Versions
<1>2. ASSUME NEW k \in C!Is(s, "release"), s[k].v = s[i].v PROVE k = i
  <2>1. (k < i => s[k].v > s[i].v) /\ (i < k => s[i].v > s[k].v)
    BY DEF C!Lints
  <2> QED
    BY <1>1, <1>2, <2>1
<1>3. (CHOOSE k \in C!Is(s, "release") : s[k].v = s[i].v) = i
  BY <1>2
<1> QED
  BY <1>3 DEF BodyOf

\* What changelog release leaves.
LEMMA ReleaseLeaves ==
  ASSUME NEW lines, NEW new, NEW v, NEW q, Makes(lines, new, v, q), Fit(lines, v),
         C!Parses(new)
  PROVE  /\ C!ReadyFor(new, v)
         /\ BodyOf(new, v) = C!UnreleasedBody(lines)
         /\ \A i \in C!Is(lines, "release") : BodyOf(new, lines[i].v) = C!Body(lines, i)
<1>1. new \in FileText /\ v \in Versions /\ C!Lints(new)
  BY LintsKept DEF Makes
<1>2. PICK u \in C!Is(lines, "unreleased") :
        /\ C!Is(lines, "unreleased") = {u}
        /\ \A k \in C!Is(lines, "release") : u < k /\ q[u] < q[k]
  BY HeadIsOnTop
<1>3. \A k \in DOMAIN lines : k \in Nat
  BY FileFacts DEF Makes
<1>4. C!ReadyFor(new, v)
  BY <1>1, LatestIsNew, NothingUnreleased DEF C!ReadyFor
<1>5. BodyOf(new, v) = C!UnreleasedBody(lines)
  <2>1. q[u] \in C!Is(new, "release") /\ new[q[u]].v = v
    BY <1>1, <1>2, NewReleases, NewLines
  <2>2. BodyOf(new, v) = C!Body(new, q[u])
    BY <1>1, <2>1, OneSection
  <2>3. u \in C!Sections(lines) /\ u <= u
    BY <1>3 DEF C!Sections, C!Is
  <2>4. C!Body(new, q[u]) = C!Body(lines, u)
    BY <1>2, <2>3, BodyKept
  <2>5. (CHOOSE i \in C!Is(lines, "unreleased") : TRUE) = u
    BY <1>2
  <2> QED
    BY <1>2, <2>2, <2>4, <2>5 DEF C!UnreleasedBody
<1>6. ASSUME NEW i \in C!Is(lines, "release")
      PROVE  BodyOf(new, lines[i].v) = C!Body(lines, i)
  <2>1. q[i] \in C!Is(new, "release") /\ new[q[i]] = lines[i]
    BY <1>2, NewReleases
  <2>2. BodyOf(new, lines[i].v) = C!Body(new, q[i])
    BY <1>1, <2>1, OneSection
  <2>3. i \in C!Sections(lines) /\ i \in Nat /\ u \in Nat /\ u < i
    BY <1>2, <1>3 DEF C!Sections, C!Is
  <2>4. \A k \in C!Is(lines, "unreleased") : k <= i
    BY <1>2, <2>3
  <2> QED
    BY <2>2, <2>3, <2>4, BodyKept
<1> QED
  BY <1>4, <1>5, <1>6

(* For changelogs of any length: what changelog release writes parses and  *)
(* lints, has the version on top and nothing unreleased; the new section   *)
(* is what was unreleased, and no other section has changed                *)
(* (changelog.go:133-255).                                                 *)
THEOREM ReleaseKeepsLintHolds == Spec => []ReleaseKeepsLint
<1>1. Written => ReleaseKeepsLint
  <2> SUFFICES ASSUME Written, kind = "changelog", NEW v \in Releases,
                      C!ReleaseCommand(text, v) # text
               PROVE  LET new == C!ReleaseCommand(text, v)
                      IN  /\ C!ReadyFor(new, v)
                          /\ BodyOf(new, v) = C!UnreleasedBody(text)
                          /\ \A i \in C!Is(text, "release") :
                               BodyOf(new, text[i].v) = C!Body(text, i)
    BY DEF ReleaseKeepsLint
  <2>1. text \in FileText /\ v \in Versions
    BY MaintainerAssumption DEF Written, Versions
  <2>2. PICK new : new = C!Release(text, v)
    OBVIOUS
  <2>3. C!ReleaseCommand(text, v) = new /\ Fit(text, v) /\ C!Parses(new)
    BY <2>2 DEF C!ReleaseCommand, Fit
  <2>4. PICK q : MovesTo(text, new, v, q)
    BY <2>1, <2>2, ReleaseMoves
  <2>5. Makes(text, new, v, q)
    BY <2>1, <2>2, <2>4, ReleaseMoves DEF Makes
  <2>6. /\ C!ReadyFor(new, v)
        /\ BodyOf(new, v) = C!UnreleasedBody(text)
        /\ \A i \in C!Is(text, "release") : BodyOf(new, text[i].v) = C!Body(text, i)
    BY <2>3, <2>5, ReleaseLeaves
  <2> QED
    BY <2>3, <2>6
<1> QED
  BY WrittenHolds, <1>1, PTL
=============================================================================
