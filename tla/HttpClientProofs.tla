-------------------------- MODULE HttpClientProofs --------------------------
(***************************************************************************)
(* Proofs about HttpClient, for any calls, attempts and waits: the         *)
(* inductive invariant, that calls fail only for cause, and that the       *)
(* client implements Exchange.                                             *)
(***************************************************************************)
EXTENDS HttpClient, TLAPS

(* What a call is after the answer to its attempt (After, Retry, EndOf).   *)
LEMMA AfterFacts ==
  ASSUME NEW me \in CallRecord, NEW answer \in Answers, NEW asked \in Int,
         me.pc = "waiting", me.method # Unsent
  PROVE  LET r == After(me, answer, asked) IN
         /\ r \in CallRecord
         /\ r.method = me.method /\ r.attempt = me.attempt /\ r.answer = answer
         /\ r.pc \in {"ok", "error", "asleep"}
         /\ r.pc = "asleep" => /\ me.method \in Idempotent /\ me.attempt < MaxAttempts
                               /\ answer \in Retryable
         /\ r.pc = "ok" => answer = "ok" \/ (answer = "notFound" /\ me.method = "DELETE")
         /\ r.pc = "error" /\ me.method \in Idempotent =>
              \/ answer \in {"refused", "cut", "none", "cancelled"}
              \/ answer = "notFound" /\ me.method # "DELETE"
              \/ answer \in Retryable /\ (me.attempt = MaxAttempts \/ r.wait > MaxWait)
<1> DEFINE got == [me EXCEPT !.answer = answer]
           wait == NextWait(got, asked)
           r == After(me, answer, asked)
<1>1. /\ got \in CallRecord /\ got.pc = "waiting" /\ got.method = me.method
      /\ got.attempt = me.attempt /\ got.answer = answer /\ got.backoff \in Nat \ {0}
  BY DEF CallRecord
<1>2. wait \in Int
  BY <1>1 DEF NextWait
<1>3. CASE me.method \in Idempotent /\ answer \in Retryable
  <2>1. r = Retry(got, asked)
    BY <1>3 DEF After
  <2>2. CASE me.attempt = MaxAttempts
    <3>1. r = [got EXCEPT !.pc = "error"]
      BY <2>1, <2>2, <1>1 DEF Retry
    <3> QED BY <3>1, <2>2, <1>1, <1>3 DEF CallRecord
  <2>3. CASE me.attempt # MaxAttempts
    <3>1. r = [got EXCEPT !.pc = IF wait > MaxWait THEN "error" ELSE "asleep",
                          !.wait = wait,
                          !.backoff = IF asked = 0 THEN 2 * @ ELSE @]
      BY <2>1, <2>3, <1>1 DEF Retry
    <3>2. me.attempt < MaxAttempts
      BY <2>3, ClientAssumption DEF CallRecord
    <3>3. 2 * got.backoff \in Nat \ {0}
      BY <1>1
    <3> HIDE DEF wait
    <3>4. r \in CallRecord
      BY <3>1, <3>3, <1>1, <1>2 DEF CallRecord
    <3> QED BY <3>1, <3>2, <3>4, <1>1, <1>2, <1>3 DEF CallRecord
  <2> QED BY <2>2, <2>3
<1>4. CASE ~(me.method \in Idempotent /\ answer \in Retryable)
  <2>1. r = [got EXCEPT !.pc = EndOf(got)]
    BY <1>4 DEF After
  <2>2. /\ EndOf(got) \in {"ok", "error"}
        /\ EndOf(got) = "ok" => answer = "ok" \/ (answer = "notFound" /\ me.method = "DELETE")
        /\ EndOf(got) = "error" => answer # "ok" /\ ~(answer = "notFound" /\ me.method = "DELETE")
    BY <1>1 DEF EndOf
  <2>3. r \in CallRecord
    BY <2>1, <2>2, <1>1 DEF CallRecord
  <2> QED BY <2>1, <2>2, <2>3, <1>1, <1>4 DEF CallRecord, Answers, Retryable
<1> QED BY <1>3, <1>4

LEMMA InitCInv == Init => CInv
<1> SUFFICES ASSUME Init PROVE CInv
  OBVIOUS
<1>1. TypeOK
  <2>1. Idle \in CallRecord
    BY ClientAssumption DEF Idle, CallRecord, Answers
  <2> QED BY <2>1 DEF Init, TypeOK
<1>2. \A c \in Calls : /\ call[c].pc = "idle" /\ call[c].method = Unsent /\ call[c].attempt = 1
                       /\ call[c].answer = "none" /\ Untouched(c)
  BY DEF Init, Idle, Untouched
<1> QED BY <1>1, <1>2, ClientAssumption
        DEF Init, CInv, Begun, AttemptLeft, PostedOnce, Truthful, FailsForCause

-----------------------------------------------------------------------------
(* The steps of the client.                                                *)

LEMMA StartStep ==
  ASSUME CInv, NEW c \in Calls, NEW m \in Methods, Start(c, m)
  PROVE  CInv'
<1>1. /\ call' \in [Calls -> CallRecord]
      /\ call'[c].pc = "ready" /\ call'[c].method = m /\ call'[c].attempt = call[c].attempt
      /\ call'[c].answer = call[c].answer
      /\ \A d \in Calls \ {c} : call'[d] = call[d]
  BY DEF CInv, TypeOK, Start, CallRecord
<1>2. UNCHANGED <<onTheWay, release, created>> /\ call[c].pc = "idle"
  BY DEF Start
<1>3. TypeOK' /\ m # Unsent
  BY <1>1, <1>2, ClientAssumption DEF CInv, TypeOK, Methods
<1>4. Begun'
  BY <1>1, <1>2, <1>3 DEF CInv, Begun, Untouched
<1>5. AttemptLeft' /\ PostedOnce' /\ Truthful' /\ FailsForCause'
  BY <1>1, <1>2 DEF CInv, Begun, AttemptLeft, PostedOnce, Truthful, FailsForCause, Untouched, Achieved
<1> QED BY <1>3, <1>4, <1>5 DEF CInv

LEMMA SendStep ==
  ASSUME CInv, NEW c \in Calls, Send(c)
  PROVE  CInv'
<1>1. /\ call' \in [Calls -> CallRecord]
      /\ call'[c].pc = "waiting" /\ call'[c].method = call[c].method
      /\ call'[c].attempt = call[c].attempt /\ call'[c].answer = "none"
      /\ \A d \in Calls \ {c} : call'[d] = call[d]
  BY DEF CInv, TypeOK, Send, CallRecord, Answers
<1>2. UNCHANGED <<release, created>> /\ call[c].pc = "ready"
  BY DEF Send, Platform
<1>3. /\ onTheWay' = onTheWay \cup {<<c, call[c].attempt>>}
      /\ call[c].attempt \in 1..MaxAttempts
  BY DEF Send, CInv, TypeOK, CallRecord
<1>4. TypeOK'
  BY <1>1, <1>2, <1>3 DEF CInv, TypeOK
<1>5. \A d \in Calls \ {c} : \A k \in 1..MaxAttempts :
        <<d, k>> \in onTheWay' <=> <<d, k>> \in onTheWay
  BY <1>3
<1>6. call[c].method = "POST" => \A k \in 1..MaxAttempts : <<c, k>> \in onTheWay' => k = 1
  BY <1>2, <1>3 DEF CInv, PostedOnce, Untouched
<1>7. Begun'
  BY <1>1, <1>2, <1>5 DEF CInv, Begun, Untouched
<1>8. PostedOnce'
  BY <1>1, <1>2, <1>5, <1>6 DEF CInv, PostedOnce, Untouched
<1>9. AttemptLeft' /\ Truthful' /\ FailsForCause'
  BY <1>1, <1>2 DEF CInv, AttemptLeft, Truthful, FailsForCause, Achieved
<1> QED BY <1>4, <1>7, <1>8, <1>9 DEF CInv

(* A step of one call that sends nothing keeps CInv if what the call       *)
(* becomes is justified by itself.                                         *)
LEMMA OwnStep ==
  ASSUME CInv, NEW c \in Calls, NEW r \in CallRecord,
         call' = [call EXCEPT ![c] = r], UNCHANGED <<onTheWay, release, created>>,
         call[c].pc # "idle", r.pc # "idle", r.method = call[c].method,
         r.method = "POST" => r.attempt = 1 /\ r.pc \notin {"ready", "asleep"},
         r.pc = "asleep" => r.attempt < MaxAttempts,
         r.answer = "ok" => call[c].answer = "ok",
         r.answer = "notFound" => call[c].answer = "notFound",
         r.pc = "ok" => r.answer = "ok" \/ (r.answer = "notFound" /\ r.method = "DELETE"),
         r.pc = "error" /\ r.method \in Idempotent =>
           \/ r.answer \in {"refused", "cut", "cancelled"}
           \/ r.answer = "notFound" /\ r.method # "DELETE"
           \/ r.answer \in Retryable /\ (r.attempt = MaxAttempts \/ r.wait > MaxWait)
  PROVE  CInv'
<1>1. /\ call' \in [Calls -> CallRecord] /\ call'[c] = r
      /\ \A d \in Calls \ {c} : call'[d] = call[d]
  BY DEF CInv, TypeOK
<1>2. TypeOK' /\ Begun'
  BY <1>1 DEF CInv, TypeOK, Begun, Untouched
<1>3. PostedOnce'
  BY <1>1 DEF CInv, PostedOnce, Untouched
<1>4. AttemptLeft' /\ Truthful'
  BY <1>1 DEF CInv, AttemptLeft, Truthful, Achieved
<1>5. FailsForCause'
  BY <1>1 DEF CInv, Truthful, FailsForCause
<1> QED BY <1>2, <1>3, <1>4, <1>5 DEF CInv

LEMMA AnswerStep ==
  ASSUME CInv, NEW c \in Calls, Receive(c) \/ Timeout(c)
  PROVE  CInv'
<1>1. call[c] \in CallRecord /\ call[c].pc = "waiting" /\ call[c].method # Unsent
  BY DEF CInv, TypeOK, Begun, Receive, Timeout
<1>2. PICK answer \in Answers, asked \in Int :
        /\ answer # "none"
        /\ answer \in {"ok", "notFound"} => answer = call[c].answer
        /\ call' = [call EXCEPT ![c] = After(call[c], answer, asked)]
  <2>1. CASE Timeout(c)
    <3>1. "dropped" \in Answers /\ 0 \in Int
      BY DEF Answers
    <3>2. call' = [call EXCEPT ![c] = After(call[c], "dropped", 0)]
      BY <2>1 DEF Timeout
    <3> QED BY <3>1, <3>2
  <2>2. CASE Receive(c)
    <3>1. PICK answer \in {call[c].answer} \cup (IF call[c].answer = "ok" THEN {"cut"} ELSE {}) :
            \E asked \in AskedWith(answer) : call' = [call EXCEPT ![c] = After(@, answer, asked)]
      BY <2>2 DEF Receive
    <3>2. PICK asked \in AskedWith(answer) : call' = [call EXCEPT ![c] = After(@, answer, asked)]
      BY <3>1
    <3>3. asked \in Int
      BY <3>2, ClientAssumption DEF AskedWith
    <3>4. /\ answer \in Answers /\ answer # "none"
          /\ answer \in {"ok", "notFound"} => answer = call[c].answer
      BY <3>1, <1>1, <2>2 DEF Receive, CallRecord, Answers
    <3> QED BY <3>2, <3>3, <3>4
  <2> QED BY <2>1, <2>2
<1> DEFINE r == After(call[c], answer, asked)
<1>3. /\ r \in CallRecord
      /\ r.method = call[c].method /\ r.attempt = call[c].attempt /\ r.answer = answer
      /\ r.pc \in {"ok", "error", "asleep"}
      /\ r.pc = "asleep" => /\ call[c].method \in Idempotent /\ call[c].attempt < MaxAttempts
                            /\ answer \in Retryable
      /\ r.pc = "ok" => answer = "ok" \/ (answer = "notFound" /\ call[c].method = "DELETE")
      /\ r.pc = "error" /\ call[c].method \in Idempotent =>
           \/ answer \in {"refused", "cut", "none", "cancelled"}
           \/ answer = "notFound" /\ call[c].method # "DELETE"
           \/ answer \in Retryable /\ (call[c].attempt = MaxAttempts \/ r.wait > MaxWait)
  BY <1>1, AfterFacts
<1>4. call' = [call EXCEPT ![c] = r] /\ UNCHANGED <<onTheWay, release, created>>
  BY <1>2 DEF Receive, Timeout
<1>5. call[c].method = "POST" => call[c].attempt = 1
  BY DEF CInv, PostedOnce
<1> HIDE DEF r
<1> QED BY <1>1, <1>2, <1>3, <1>4, <1>5, OwnStep DEF Idempotent

LEMMA WakeCancelStep ==
  ASSUME CInv, NEW c \in Calls, Wake(c) \/ Cancel(c)
  PROVE  CInv'
<1>1. CASE Wake(c)
  <2> DEFINE r == [call[c] EXCEPT !.pc = "ready", !.attempt = @ + 1]
  <2>1. call[c] \in CallRecord /\ call[c].pc = "asleep" /\ call[c].attempt < MaxAttempts
    BY <1>1 DEF Wake, CInv, TypeOK, AttemptLeft
  <2>2. call[c].method # "POST"
    BY <2>1 DEF CInv, PostedOnce
  <2>3. call[c].attempt + 1 \in 1..MaxAttempts
    BY <2>1, ClientAssumption DEF CallRecord
  <2>4. /\ r \in CallRecord
        /\ r.pc = "ready" /\ r.method = call[c].method /\ r.answer = call[c].answer
    BY <2>1, <2>3 DEF CallRecord
  <2>5. call' = [call EXCEPT ![c] = r] /\ UNCHANGED <<onTheWay, release, created>>
    BY <1>1 DEF Wake
  <2> HIDE DEF r
  <2> QED BY <2>1, <2>2, <2>4, <2>5, OwnStep
<1>2. CASE Cancel(c)
  <2> DEFINE r == [call[c] EXCEPT !.pc = "error", !.answer = "cancelled"]
  <2>1. call[c] \in CallRecord /\ call[c].pc # "idle"
    BY <1>2 DEF Cancel, CInv, TypeOK
  <2>2. /\ r \in CallRecord /\ r.pc = "error" /\ r.method = call[c].method
        /\ r.answer = "cancelled" /\ r.attempt = call[c].attempt
    BY <2>1 DEF CallRecord, Answers
  <2>3. call[c].method = "POST" => call[c].attempt = 1
    BY DEF CInv, PostedOnce
  <2>4. call' = [call EXCEPT ![c] = r] /\ UNCHANGED <<onTheWay, release, created>>
    BY <1>2 DEF Cancel
  <2> HIDE DEF r
  <2> QED BY <2>1, <2>2, <2>3, <2>4, OwnStep
<1> QED BY <1>1, <1>2

-----------------------------------------------------------------------------
(* The steps of the network and the platform.                              *)

(* What an answer changes: only what its own call has heard.               *)
LEMMA AnswerFacts ==
  ASSUME CInv, NEW c \in Calls, NEW k \in 1..MaxAttempts, NEW answer \in Answers,
         Answer(c, k, answer)
  PROVE  /\ call' \in [Calls -> CallRecord]
         /\ \A d \in Calls : /\ call'[d].pc = call[d].pc /\ call'[d].method = call[d].method
                             /\ call'[d].attempt = call[d].attempt
                             /\ call'[d].wait = call[d].wait
                             /\ call'[d].answer # call[d].answer =>
                                  d = c /\ call'[d].answer = answer /\ call[d].pc = "waiting"
<1>1. CASE call' = call
  BY <1>1 DEF CInv, TypeOK
<1>2. CASE call[c].pc = "waiting" /\ call' = [call EXCEPT ![c].answer = answer]
  <2>1. call[c] \in CallRecord
    BY DEF CInv, TypeOK
  <2>2. /\ [call[c] EXCEPT !.answer = answer] \in CallRecord
        /\ call'[c] = [call[c] EXCEPT !.answer = answer]
    BY <1>2, <2>1 DEF CInv, TypeOK, CallRecord
  <2> QED BY <1>2, <2>1, <2>2 DEF CInv, TypeOK, CallRecord
<1> QED BY <1>1, <1>2 DEF Answer

(* Serving, declining or losing a request keeps CInv if the answer is true *)
(* of the platform as it is then, and nothing achieved is undone.          *)
LEMMA PlatformStep ==
  ASSUME CInv, NEW c \in Calls, NEW k \in 1..MaxAttempts, Arrives(c, k),
         NEW answer \in Answers, Answer(c, k, answer),
         release' \in {"draft", "public", "gone"}, release = "gone" => release' = "gone",
         release # "draft" => release' # "draft",
         created' = created \/ (call[c].method = "POST" /\ created' = [created EXCEPT ![c] = @ + 1]),
         answer = "ok" => /\ call[c].method = "POST" => created'[c] = 1
                          /\ call[c].method = "PATCH" => release' # "draft"
                          /\ call[c].method = "DELETE" => release' = "gone",
         answer = "notFound" => release' = "gone" /\ call[c].method # "POST"
  PROVE  CInv'
<1>1. /\ call' \in [Calls -> CallRecord]
      /\ \A d \in Calls : /\ call'[d].pc = call[d].pc /\ call'[d].method = call[d].method
                          /\ call'[d].attempt = call[d].attempt /\ call'[d].wait = call[d].wait
                          /\ call'[d].answer # call[d].answer =>
                               d = c /\ call'[d].answer = answer /\ call[d].pc = "waiting"
  BY AnswerFacts
<1>2. /\ onTheWay' \subseteq onTheWay /\ <<c, k>> \in onTheWay /\ <<c, k>> \notin onTheWay'
  BY DEF Arrives
<1>3. /\ created' \in [Calls -> Nat]
      /\ \A d \in Calls : created'[d] # created[d] =>
           d = c /\ call[c].method = "POST" /\ created'[c] = created[c] + 1
  BY DEF CInv, TypeOK
<1>4. TypeOK'
  BY <1>1, <1>2, <1>3 DEF CInv, TypeOK
<1>5. call[c].pc # "idle"
  BY <1>2 DEF CInv, Begun, Untouched
<1>6. call[c].method = "POST" => /\ k = 1 /\ created[c] = 0 /\ call[c].pc # "ready"
                                 /\ \A j \in 1..MaxAttempts : <<c, j>> \notin onTheWay'
  BY <1>2 DEF CInv, PostedOnce, Untouched
<1>7. Begun'
  BY <1>1, <1>2, <1>3, <1>5 DEF CInv, Begun, Untouched
<1>8. AttemptLeft'
  BY <1>1 DEF CInv, AttemptLeft
<1>9. PostedOnce'
  BY <1>1, <1>2, <1>3, <1>6 DEF CInv, PostedOnce, Untouched
<1>10. Truthful'
  <2>1. ASSUME NEW d \in Calls, call'[d].answer = "ok" PROVE Achieved(d)'
    <3>1. CASE call[d].answer = "ok"
      <4>1. call[d].method = "POST" /\ d = c => created[d] = 0
        BY <1>6
      <4> QED BY <2>1, <3>1, <4>1, <1>1, <1>3 DEF CInv, Truthful, Achieved
    <3>2. CASE call[d].answer # "ok"
      BY <2>1, <3>2, <1>1 DEF Achieved
    <3> QED BY <3>1, <3>2
  <2> QED BY <2>1, <1>1 DEF CInv, Truthful
<1>11. FailsForCause'
  BY <1>1 DEF CInv, FailsForCause
<1> QED BY <1>4, <1>7, <1>8, <1>9, <1>10, <1>11 DEF CInv

LEMMA DeliverStep ==
  ASSUME CInv, NEW c \in Calls, NEW k \in 1..MaxAttempts, Deliver(c, k)
  PROVE  CInv'
<1>1. release \in {"draft", "public", "gone"}
  BY DEF CInv, TypeOK
<1>2. CASE ServePost(c, k)
  <2>1. PICK answer \in {"ok", "failed"} : Answer(c, k, answer)
    BY <1>2 DEF ServePost
  <2>2. <<c, k>> \in onTheWay /\ created[c] = 0
    BY <1>2 DEF ServePost, Arrives, CInv, PostedOnce
  <2>3. created'[c] = 1
    BY <1>2, <2>2 DEF ServePost, CInv, TypeOK
  <2> QED BY <1>1, <1>2, <2>1, <2>3, PlatformStep DEF ServePost, Answers
<1>3. CASE ServePatch(c, k)
  <2>1. PICK answer \in {"ok", "failed"} : Answer(c, k, answer)
    BY <1>3 DEF ServePatch
  <2> QED BY <1>1, <1>3, <2>1, PlatformStep DEF ServePatch, Answers
<1>4. CASE ServeDelete(c, k)
  <2>1. PICK answer \in {"ok", "failed"} : Answer(c, k, answer)
    BY <1>4 DEF ServeDelete
  <2> QED BY <1>1, <1>4, <2>1, PlatformStep DEF ServeDelete, Answers
<1>5. CASE ServeGet(c, k)
  BY <1>1, <1>5, PlatformStep DEF ServeGet, Answers, Platform
<1>6. CASE NotFound(c, k)
  BY <1>1, <1>6, PlatformStep DEF NotFound, Answers, Platform
<1>7. CASE Decline(c, k)
  <2>1. PICK answer \in {"refused", "failed", "limited"} : Answer(c, k, answer)
    BY <1>7 DEF Decline
  <2> QED BY <1>1, <1>7, <2>1, PlatformStep DEF Decline, Answers, Platform
<1>8. CASE Lose(c, k)
  <2>1. onTheWay' \subseteq onTheWay /\ UNCHANGED <<call, release, created>>
    BY <1>8 DEF Lose, Arrives
  <2>2. TypeOK' /\ Begun' /\ AttemptLeft' /\ PostedOnce'
    BY <2>1 DEF CInv, TypeOK, Begun, AttemptLeft, PostedOnce, Untouched
  <2>3. Truthful' /\ FailsForCause'
    BY <2>1 DEF CInv, Truthful, FailsForCause, Achieved
  <2> QED BY <2>2, <2>3 DEF CInv
<1> QED BY <1>2, <1>3, <1>4, <1>5, <1>6, <1>7, <1>8 DEF Deliver

LEMMA NextCInv == CInv /\ [Next]_vars => CInv'
<1> SUFFICES ASSUME CInv, [Next]_vars PROVE CInv'
  OBVIOUS
<1>1. ASSUME NEW c \in Calls, NEW m \in Methods, Start(c, m) PROVE CInv'
  BY <1>1, StartStep
<1>2. ASSUME NEW c \in Calls, Progress(c) \/ Cancel(c) PROVE CInv'
  BY <1>2, SendStep, AnswerStep, WakeCancelStep DEF Progress
<1>3. ASSUME NEW c \in Calls, NEW k \in 1..MaxAttempts, Deliver(c, k) PROVE CInv'
  BY <1>3, DeliverStep
<1>4. CASE UNCHANGED vars
  BY <1>4 DEF vars, CInv, TypeOK, Begun, AttemptLeft, PostedOnce, Truthful, FailsForCause,
              Untouched, Achieved
<1> QED BY <1>1, <1>2, <1>3, <1>4 DEF Next

(* What the calls have heard is true, a POST is served once at most, and   *)
(* failures have their cause, in every state.                              *)
THEOREM ClientInvariant == Spec => []CInv
BY InitCInv, NextCInv, PTL DEF Spec

(* Attempts, waits and requests under way stay within their bounds and no  *)
(* answer is one the platform cannot give (client.go:145-187).             *)
THEOREM ClientTypeOK == Spec => []TypeOK
<1>1. CInv => TypeOK
  BY DEF CInv
<1> QED BY <1>1, ClientInvariant, PTL

(* For any number of calls, attempts and waits, and whatever is lost or    *)
(* late: an idempotent call fails only for cause (DoIdempotent, Stream).   *)
THEOREM FailsForCauseHolds == Spec => []FailsForCause
<1>1. CInv => FailsForCause
  BY DEF CInv
<1> QED BY <1>1, ClientInvariant, PTL

-----------------------------------------------------------------------------
(* The mapping to Exchange: each step is a step of one call, or invisible. *)

LEMMA InitImplements == Init => Promise!XInit
BY DEF Init, Idle, Promise!XInit, OutcomeOf

(* A step of one call that sends nothing and ends it, or does not.         *)
LEMMA EndImplements ==
  ASSUME CInv, CInv', NEW c \in Calls, NEW r \in CallRecord,
         call' = [call EXCEPT ![c] = r], UNCHANGED <<release, created>>,
         call[c].pc \in {"ready", "waiting", "asleep"}, r.method = call[c].method,
         r.pc # "idle"
  PROVE  [Promise!XNext]_(Promise!vars)
<1>1. /\ call'[c] = r /\ DOMAIN call = Calls
      /\ \A d \in Calls \ {c} : call'[d] = call[d]
  BY DEF CInv, TypeOK
<1>2. [d \in Calls |-> call'[d].method] = [d \in Calls |-> call[d].method]
  BY <1>1
<1>3. OutcomeOf(call[c].pc) = "open" /\ call[c].method # Unsent
  BY DEF OutcomeOf, CInv, Begun
<1>4. CASE r.pc = "ok"
  <2>1. [d \in Calls |-> OutcomeOf(call'[d].pc)]
          = [[d \in Calls |-> OutcomeOf(call[d].pc)] EXCEPT ![c] = "ok"]
    BY <1>1, <1>4 DEF OutcomeOf
  <2>2. Achieved(c)
    <3>1. Truthful' /\ call'[c].pc = "ok"
      BY <1>1, <1>4 DEF CInv
    <3>2. Achieved(c)'
      BY <3>1, <1>1 DEF Truthful, Achieved
    <3> QED BY <3>2, <1>1 DEF Achieved
  <2>3. Promise!Succeed(c)
    BY <1>2, <1>3, <2>1, <2>2 DEF Promise!Succeed, Promise!Achieved, Achieved
  <2> QED BY <2>3 DEF Promise!XNext
<1>5. CASE r.pc = "error"
  <2>1. [d \in Calls |-> OutcomeOf(call'[d].pc)]
          = [[d \in Calls |-> OutcomeOf(call[d].pc)] EXCEPT ![c] = "error"]
    BY <1>1, <1>5 DEF OutcomeOf
  <2>2. Promise!Fail(c)
    BY <1>2, <1>3, <2>1 DEF Promise!Fail
  <2> QED BY <2>2 DEF Promise!XNext
<1>6. CASE r.pc \notin {"ok", "error"}
  <2>1. [d \in Calls |-> OutcomeOf(call'[d].pc)] = [d \in Calls |-> OutcomeOf(call[d].pc)]
    BY <1>1, <1>3, <1>6 DEF OutcomeOf
  <2> QED BY <1>2, <2>1 DEF Promise!vars
<1> QED BY <1>4, <1>5, <1>6

(* A step of the network or the platform: the effect of the call, or       *)
(* nothing that matters.                                                   *)
LEMMA DeliverImplements ==
  ASSUME CInv, NEW c \in Calls, NEW k \in 1..MaxAttempts, Deliver(c, k)
  PROVE  [Promise!XNext]_(Promise!vars)
<1>1. /\ [d \in Calls |-> call'[d].method] = [d \in Calls |-> call[d].method]
      /\ [d \in Calls |-> OutcomeOf(call'[d].pc)] = [d \in Calls |-> OutcomeOf(call[d].pc)]
  <2>1. CASE UNCHANGED call
    BY <2>1
  <2>2. CASE \E answer \in Answers : Answer(c, k, answer)
    BY <2>2, AnswerFacts
  <2>3. UNCHANGED call \/ \E answer \in Answers : Answer(c, k, answer)
    BY DEF Deliver, ServePost, ServePatch, ServeDelete, ServeGet, NotFound, Decline, Lose, Answers
  <2> QED BY <2>1, <2>2, <2>3
<1>2. CASE UNCHANGED <<release, created>>
  BY <1>1, <1>2 DEF Promise!vars
<1>3. OutcomeOf(call[c].pc) = "ok" => Achieved(c)
  <2>1. CASE call[c].answer = "ok"
    BY <2>1 DEF CInv, Truthful
  <2>2. CASE call[c].answer # "ok"
    BY <2>2 DEF CInv, Truthful, OutcomeOf, Achieved
  <2> QED BY <2>1, <2>2
<1>4. CASE ServePost(c, k)
  <2>1. created[c] = 0
    BY <1>4 DEF ServePost, Arrives, CInv, PostedOnce
  <2>2. created' = [created EXCEPT ![c] = 1] /\ UNCHANGED release /\ call[c].method = "POST"
    BY <1>4, <2>1 DEF ServePost, CInv, TypeOK
  <2>3. Promise!Effect(c)
    BY <1>1, <1>3, <2>1, <2>2 DEF Promise!Effect, Achieved
  <2> QED BY <2>3 DEF Promise!XNext
<1>5. CASE ServePatch(c, k) /\ release = "draft"
  <2>1. release' = "public" /\ UNCHANGED created /\ call[c].method = "PATCH"
    BY <1>5 DEF ServePatch
  <2>2. Promise!Effect(c)
    BY <1>1, <1>3, <1>5, <2>1 DEF Promise!Effect, Achieved
  <2> QED BY <2>2 DEF Promise!XNext
<1>6. CASE ServePatch(c, k) /\ release # "draft"
  <2>1. UNCHANGED <<release, created>>
    BY <1>6 DEF ServePatch, CInv, TypeOK
  <2> QED BY <1>2, <2>1
<1>7. CASE ServeDelete(c, k)
  <2>1. /\ release # "gone" /\ release' = "gone" /\ UNCHANGED created
        /\ call[c].method = "DELETE"
    BY <1>7 DEF ServeDelete
  <2>2. Promise!Effect(c)
    BY <1>1, <1>3, <2>1 DEF Promise!Effect, Achieved
  <2> QED BY <2>2 DEF Promise!XNext
<1>8. UNCHANGED <<release, created>> \/ ServePost(c, k) \/ ServePatch(c, k) \/ ServeDelete(c, k)
  BY DEF Deliver, ServeGet, NotFound, Decline, Lose, Platform
<1> QED BY <1>2, <1>4, <1>5, <1>6, <1>7, <1>8

LEMMA StartImplements ==
  ASSUME CInv, NEW c \in Calls, NEW m \in Methods, Start(c, m)
  PROVE  [Promise!XNext]_(Promise!vars)
<1>1. /\ call[c].pc = "idle" /\ call[c] \in CallRecord /\ call[c].method = Unsent
      /\ call' = [call EXCEPT ![c] = [call[c] EXCEPT !.pc = "ready", !.method = m]]
      /\ UNCHANGED <<release, created>>
  BY DEF Start, CInv, TypeOK, Begun
<1>2. /\ call'[c].method = m /\ call'[c].pc = "ready" /\ DOMAIN call = Calls
      /\ \A d \in Calls \ {c} : call'[d] = call[d]
  BY <1>1 DEF CInv, TypeOK, CallRecord
<1>3. [d \in Calls |-> call'[d].method] = [[d \in Calls |-> call[d].method] EXCEPT ![c] = m]
  BY <1>2
<1>4. [d \in Calls |-> OutcomeOf(call'[d].pc)] = [d \in Calls |-> OutcomeOf(call[d].pc)]
  BY <1>1, <1>2 DEF OutcomeOf
<1>5. Promise!Begin(c)
  BY <1>1, <1>3, <1>4 DEF Promise!Begin, Promise!Methods, Methods
<1> QED BY <1>5 DEF Promise!XNext

LEMMA ProcessImplements ==
  ASSUME CInv, CInv', NEW c \in Calls, Progress(c) \/ Cancel(c)
  PROVE  [Promise!XNext]_(Promise!vars)
<1>1. /\ call[c] \in CallRecord /\ call'[c] \in CallRecord
      /\ call[c].pc \in {"ready", "waiting", "asleep"}
      /\ UNCHANGED <<release, created>>
  BY DEF Progress, Send, Receive, Timeout, Wake, Cancel, CInv, TypeOK, Platform
<1>2. call' = [call EXCEPT ![c] = call'[c]]
  BY DEF Progress, Send, Receive, Timeout, Wake, Cancel, CInv, TypeOK
<1>3. call'[c].method = call[c].method /\ call'[c].pc # "idle"
  <2>1. CASE Send(c) \/ Wake(c) \/ Cancel(c)
    BY <1>1, <2>1 DEF Send, Wake, Cancel, CInv, TypeOK, CallRecord
  <2>2. CASE Receive(c) \/ Timeout(c)
    <3>1. \E answer \in Answers, asked \in Int : call'[c] = After(call[c], answer, asked)
      <4>1. CASE Timeout(c)
        BY <4>1 DEF Timeout, Answers, CInv, TypeOK
      <4>2. CASE Receive(c)
        BY <4>2, <1>1, ClientAssumption DEF Receive, AskedWith, Answers, CInv, TypeOK, CallRecord
      <4> QED BY <2>2, <4>1, <4>2
    <3>2. call[c].pc = "waiting" /\ call[c].method # Unsent
      BY <2>2 DEF Receive, Timeout, CInv, Begun
    <3> QED BY <1>1, <3>1, <3>2, AfterFacts
  <2> QED BY <2>1, <2>2 DEF Progress
<1> QED BY <1>1, <1>2, <1>3, EndImplements

(* Attempts, waits and late requests are invisible, for any constants: the *)
(* client is an implementation of Exchange (client.go:41-44).              *)
THEOREM ClientImplements == Spec => ImplementsExchange
<1>1. CInv /\ CInv' /\ [Next]_vars => [Promise!XNext]_(Promise!vars)
  <2> SUFFICES ASSUME CInv, CInv', [Next]_vars PROVE [Promise!XNext]_(Promise!vars)
    OBVIOUS
  <2>1. ASSUME NEW c \in Calls, NEW m \in Methods, Start(c, m)
        PROVE  [Promise!XNext]_(Promise!vars)
    BY <2>1, StartImplements
  <2>2. ASSUME NEW c \in Calls, Progress(c) \/ Cancel(c) PROVE [Promise!XNext]_(Promise!vars)
    BY <2>2, ProcessImplements
  <2>3. ASSUME NEW c \in Calls, NEW k \in 1..MaxAttempts, Deliver(c, k)
        PROVE  [Promise!XNext]_(Promise!vars)
    BY <2>3, DeliverImplements
  <2>4. CASE UNCHANGED vars
    BY <2>4 DEF vars, Promise!vars
  <2> QED BY <2>1, <2>2, <2>3, <2>4 DEF Next
<1> QED BY <1>1, InitImplements, ClientInvariant, PTL DEF Spec, ImplementsExchange, Promise!XSpec

-----------------------------------------------------------------------------
(* Why every call ends: its steps are numbered downwards.                  *)

LEMMA StepsCounted ==
  ASSUME NEW me \in CallRecord
  PROVE  StepsLeft(me) \in Nat
<1>1. me.attempt \in Nat /\ MaxAttempts \in Nat /\ MaxAttempts - me.attempt \in Nat
  BY ClientAssumption DEF CallRecord
<1> QED BY <1>1 DEF StepsLeft

(* What the network and the platform do gives no call a step.              *)
LEMMA DeliverFrame ==
  ASSUME CInv, NEW c \in Calls, NEW k \in 1..MaxAttempts, Deliver(c, k), NEW d \in Calls
  PROVE  call'[d].pc = call[d].pc /\ call'[d].attempt = call[d].attempt
<1>1. call' = call \/ \E answer \in Answers : Answer(c, k, answer)
  BY DEF Deliver, ServePost, ServePatch, ServeDelete, ServeGet, NotFound, Decline, Lose, Answers
<1> QED BY <1>1, AnswerFacts

(* What a step of a call does to its place and its attempt.                *)
LEMMA StepOfCall ==
  ASSUME CInv, NEW c \in Calls,
         (\E m \in Methods : Start(c, m)) \/ Progress(c) \/ Cancel(c)
  PROVE  /\ \A d \in Calls \ {c} : call'[d] = call[d]
         /\ \/ /\ call'[c].attempt = call[c].attempt
               /\ <<call[c].pc, call'[c].pc>> \in
                    {<<"idle", "ready">>, <<"ready", "waiting">>, <<"waiting", "asleep">>}
            \/ /\ call[c].pc = "asleep" /\ call'[c].pc = "ready"
               /\ call'[c].attempt = call[c].attempt + 1
            \/ call[c].pc \in {"ready", "waiting", "asleep"} /\ call'[c].pc \in {"ok", "error"}
<1>1. call \in [Calls -> CallRecord] /\ call[c] \in CallRecord
  BY DEF CInv, TypeOK
<1>2. CASE \E m \in Methods : Start(c, m)
  <2>1. PICK m : Start(c, m)
    BY <1>2
  <2>2. /\ call[c].pc = "idle" /\ \A d \in Calls \ {c} : call'[d] = call[d]
        /\ call'[c] = [call[c] EXCEPT !.pc = "ready", !.method = m]
    BY <1>1, <2>1 DEF Start
  <2>3. call'[c].pc = "ready" /\ call'[c].attempt = call[c].attempt
    BY <1>1, <2>2 DEF CallRecord
  <2> QED BY <2>2, <2>3
<1>3. CASE Send(c)
  BY <1>1, <1>3 DEF Send, CallRecord
<1>4. CASE Wake(c)
  BY <1>1, <1>4 DEF Wake, CallRecord
<1>5. CASE Cancel(c)
  BY <1>1, <1>5 DEF Cancel, CallRecord
<1>6. CASE Receive(c) \/ Timeout(c)
  <2>1. call[c].pc = "waiting" /\ call[c].method # Unsent
    BY <1>6 DEF Receive, Timeout, CInv, Begun
  <2>2. PICK answer, asked : /\ answer \in Answers /\ asked \in Int
                             /\ call' = [call EXCEPT ![c] = After(call[c], answer, asked)]
    BY <1>1, <1>6, ClientAssumption DEF Receive, Timeout, Answers, AskedWith, CallRecord
  <2>3. /\ After(call[c], answer, asked).attempt = call[c].attempt
        /\ After(call[c], answer, asked).pc \in {"ok", "error", "asleep"}
    BY <1>1, <2>1, <2>2, AfterFacts
  <2> QED BY <1>1, <2>1, <2>2, <2>3
<1> QED BY <1>2, <1>3, <1>4, <1>5, <1>6 DEF Progress

(* Every step of a call uses up one of its steps, and nothing gives it one *)
(* back: at most 3 * MaxAttempts + 1 steps end any call, whatever the      *)
(* answers are (client.go:145-188).                                        *)
THEOREM CallsWindDownHolds ==
  Spec => CallsWindDown /\ [](\A c \in Calls : StepsLeft(call[c]) \in Nat)
<1>1. CInv => \A c \in Calls : StepsLeft(call[c]) \in Nat
  BY StepsCounted DEF CInv, TypeOK
<1>2. CInv /\ CInv' /\ [Next]_vars =>
        [\A c \in Calls :
           /\ StepsLeft(call'[c]) <= StepsLeft(call[c])
           /\ call'[c].pc # call[c].pc => StepsLeft(call'[c]) < StepsLeft(call[c])]_vars
  <2> SUFFICES ASSUME CInv, CInv', Next, NEW d \in Calls
               PROVE  /\ StepsLeft(call'[d]) <= StepsLeft(call[d])
                      /\ call'[d].pc # call[d].pc => StepsLeft(call'[d]) < StepsLeft(call[d])
    OBVIOUS
  <2>1. call[d] \in CallRecord /\ call'[d] \in CallRecord
    BY DEF CInv, TypeOK
  <2>2. StepsLeft(call[d]) \in Nat /\ StepsLeft(call'[d]) \in Nat
    BY <2>1, StepsCounted
  <2>3. ASSUME call'[d].pc = call[d].pc, call'[d].attempt = call[d].attempt
        PROVE  StepsLeft(call'[d]) = StepsLeft(call[d])
    BY <2>3 DEF StepsLeft
  <2>4. ASSUME NEW c \in Calls, NEW k \in 1..MaxAttempts, Deliver(c, k)
        PROVE  call'[d].pc = call[d].pc /\ call'[d].attempt = call[d].attempt
    BY <2>4, DeliverFrame
  <2>5. ASSUME NEW c \in Calls,
               (\E m \in Methods : Start(c, m)) \/ Progress(c) \/ Cancel(c)
        PROVE  d = c => StepsLeft(call'[d]) < StepsLeft(call[d])
    <3>1. SUFFICES ASSUME d = c PROVE StepsLeft(call'[c]) < StepsLeft(call[c])
      OBVIOUS
    <3>2. /\ call[c].attempt \in Nat /\ call'[c].attempt \in Nat /\ MaxAttempts \in Nat
          /\ MaxAttempts - call[c].attempt \in Nat
      BY <2>1, <3>1, ClientAssumption DEF CallRecord
    <3>3. CASE call'[c].attempt = call[c].attempt /\
               <<call[c].pc, call'[c].pc>> \in
                 {<<"idle", "ready">>, <<"ready", "waiting">>, <<"waiting", "asleep">>}
      BY <3>2, <3>3 DEF StepsLeft
    <3>4. CASE /\ call[c].pc = "asleep" /\ call'[c].pc = "ready"
               /\ call'[c].attempt = call[c].attempt + 1
      BY <3>2, <3>4 DEF StepsLeft
    <3>5. CASE call[c].pc \in {"ready", "waiting", "asleep"} /\ call'[c].pc \in {"ok", "error"}
      BY <3>2, <3>5 DEF StepsLeft
    <3> QED BY <2>5, <3>3, <3>4, <3>5, StepOfCall
  <2>6. ASSUME NEW c \in Calls,
               (\E m \in Methods : Start(c, m)) \/ Progress(c) \/ Cancel(c), d # c
        PROVE  call'[d] = call[d]
    BY <2>6, StepOfCall
  <2> QED BY <2>2, <2>3, <2>4, <2>5, <2>6 DEF Next
<1> QED BY <1>1, <1>2, ClientInvariant, PTL DEF Spec, CallsWindDown
=============================================================================
