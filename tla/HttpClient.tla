----------------------------- MODULE HttpClient -----------------------------
(***************************************************************************)
(* internal/host/client.go: the requests the platform clients send about   *)
(* one release, with the attempts, waits and lost answers underneath.      *)
(*                                                                         *)
(* A request that was sent stays on its way until it is served or lost,    *)
(* whether or not the client still waits for it: a timeout does not call   *)
(* it back.  The calls are those of any number of processes at once.       *)
(* Times are seconds.  Left out: headers, bodies, and which release GitHub *)
(* marks as latest (Publish has it).                                       *)
(***************************************************************************)
EXTENDS Integers, FiniteSets

CONSTANTS
  Calls,        \* the calls, of one process or of several
  MaxAttempts,  \* Client.MaxAttempts
  MaxWait,      \* Client.MaxWait
  Asked,        \* waits a rate-limited answer may ask for (a reset may be in the past)
  Unsent

ASSUME ClientAssumption ==
  /\ MaxAttempts \in Nat \ {0}
  /\ MaxWait \in Nat \ {0}
  /\ Asked \subseteq Int
  /\ Unsent \notin {"GET", "POST", "PATCH", "DELETE"}

VARIABLES
  call,      \* call -> the local variables of DoIdempotent, Stream or PostJSON
  onTheWay,  \* <<call, attempt>> sent and neither served nor lost
  release,   \* the platform: the release the calls are about
  created    \* the platform: call -> how often a POST of it was served

vars == <<call, onTheWay, release, created>>

Methods    == {"GET", "POST", "PATCH", "DELETE"}
Idempotent == {"GET", "PATCH", "DELETE"}

\* What a client can see of an attempt.  "limited": 429, or 403 with no rate limit
\* remaining; "failed": 5xx; "dropped": no answer (connection lost, http.Client.Timeout);
\* "cut": a 2xx whose body is lost; "refused": any other status.
Answers   == {"none", "ok", "cut", "notFound", "refused", "failed", "limited", "dropped", "cancelled"}
Retryable == {"failed", "limited", "dropped"}

\* "idle" -> "ready" (about to send) -> "waiting" -> "asleep" -> "ready" ... -> "ok" or "error"
Idle == [pc |-> "idle", method |-> Unsent, attempt |-> 1, backoff |-> 1, wait |-> 0,
         answer |-> "none"]

CallRecord ==
  [pc : {"idle", "ready", "waiting", "asleep", "ok", "error"},
   method : Methods \cup {Unsent},
   attempt : 1..MaxAttempts,
   backoff : Nat \ {0},
   wait : Int,
   answer : Answers]

Init ==
  /\ call = [c \in Calls |-> Idle]
  /\ onTheWay = {}
  /\ release \in {"draft", "public", "gone"}
  /\ created = [c \in Calls |-> 0]

Platform == <<release, created>>

(* The client *)

Start(c, m) ==
  /\ call[c].pc = "idle"
  /\ call' = [call EXCEPT ![c].pc = "ready", ![c].method = m]
  /\ UNCHANGED <<onTheWay, release, created>>

\* Client.Do
Send(c) ==
  /\ call[c].pc = "ready"
  /\ call' = [call EXCEPT ![c].pc = "waiting", ![c].answer = "none"]
  /\ onTheWay' = onTheWay \cup {<<c, call[c].attempt>>}
  /\ UNCHANGED Platform

\* decode and its callers: what ends a call, and how.  DeleteAsset and DeleteRelease
\* take "not found" for success.
EndOf(me) ==
  IF me.answer = "ok" \/ (me.answer = "notFound" /\ me.method = "DELETE") THEN "ok" ELSE "error"

\* The wait before the next attempt: what the server asked for, unless that is
\* exactly nothing.
NextWait(me, asked) == IF asked = 0 THEN me.backoff ELSE asked

\* Mutant: one attempt too few.
RetryTooFew(me, asked) ==
  LET wait == NextWait(me, asked)
  IN IF me.attempt + 1 >= MaxAttempts THEN [me EXCEPT !.pc = "error"]
     ELSE [me EXCEPT !.pc = IF wait > MaxWait THEN "error" ELSE "asleep",
                     !.wait = wait,
                     !.backoff = IF asked = 0 THEN 2 * @ ELSE @]

\* Mutant: one attempt too many.
RetryTooOften(me, asked) ==
  LET wait == NextWait(me, asked)
  IN IF me.attempt > MaxAttempts THEN [me EXCEPT !.pc = "error"]
     ELSE [me EXCEPT !.pc = IF wait > MaxWait THEN "error" ELSE "asleep",
                     !.wait = wait,
                     !.backoff = IF asked = 0 THEN 2 * @ ELSE @]

\* The end of the loop body of DoIdempotent and Stream.
Retry(me, asked) ==
  LET wait == NextWait(me, asked)
  IN IF me.attempt = MaxAttempts THEN [me EXCEPT !.pc = "error"]
     ELSE [me EXCEPT !.pc = IF wait > MaxWait THEN "error" ELSE "asleep",
                     !.wait = wait,
                     !.backoff = IF asked = 0 THEN 2 * @ ELSE @]

\* Mutant: a POST is repeated like the other methods.
AfterAny(me, answer, asked) ==
  LET got == [me EXCEPT !.answer = answer]
  IN IF answer \in Retryable THEN Retry(got, asked) ELSE [got EXCEPT !.pc = EndOf(got)]

\* What a call makes of the answer to its attempt.
After(me, answer, asked) ==
  LET got == [me EXCEPT !.answer = answer]
  IN IF me.method \in Idempotent /\ answer \in Retryable
       THEN Retry(got, asked)
       ELSE [got EXCEPT !.pc = EndOf(got)]

\* retryable: only a rate limit comes with a wait, 30 seconds unless the server says.
AskedWith(answer) == IF answer = "limited" THEN Asked \cup {30} ELSE {0}

\* The answer of the platform arrives; any 2xx may be cut off.
Receive(c) ==
  /\ call[c].pc = "waiting" /\ call[c].answer # "none"
  /\ \E answer \in {call[c].answer} \cup (IF call[c].answer = "ok" THEN {"cut"} ELSE {}) :
     \E asked \in AskedWith(answer) :
       call' = [call EXCEPT ![c] = After(@, answer, asked)]
  /\ UNCHANGED <<onTheWay, release, created>>

\* No answer comes, or it is lost; the request may still be on its way.
Timeout(c) ==
  /\ call[c].pc = "waiting"
  /\ call' = [call EXCEPT ![c] = After(@, "dropped", 0)]
  /\ UNCHANGED <<onTheWay, release, created>>

\* Mutant: the attempts are not counted.
WakeUncounted(c) ==
  /\ call[c].pc = "asleep"
  /\ call' = [call EXCEPT ![c].pc = "ready"]
  /\ UNCHANGED <<onTheWay, release, created>>

\* Clock.Sleep returns, at once if the wait is negative.
Wake(c) ==
  /\ call[c].pc = "asleep"
  /\ call' = [call EXCEPT ![c].pc = "ready", ![c].attempt = @ + 1]
  /\ UNCHANGED <<onTheWay, release, created>>

\* An interrupt or SIGTERM: no later attempt is sent, what is on its way stays there.
Cancel(c) ==
  /\ call[c].pc \in {"ready", "waiting", "asleep"}
  /\ call' = [call EXCEPT ![c].pc = "error", ![c].answer = "cancelled"]
  /\ UNCHANGED <<onTheWay, release, created>>

(* The network and the platform *)

\* An answer is of use only to the attempt it belongs to.
Answer(c, k, answer) ==
  call' = IF call[c].pc = "waiting" /\ call[c].attempt = k
            THEN [call EXCEPT ![c].answer = answer] ELSE call

Arrives(c, k) ==
  /\ <<c, k>> \in onTheWay
  /\ onTheWay' = onTheWay \ {<<c, k>>}

\* The platform serves a request of call c; it may fail after it has served it.
ServePost(c, k) ==
  /\ call[c].method = "POST"
  /\ Arrives(c, k)
  /\ created' = [created EXCEPT ![c] = @ + 1]
  /\ \E answer \in {"ok", "failed"} : Answer(c, k, answer)
  /\ UNCHANGED release

ServePatch(c, k) ==
  /\ call[c].method = "PATCH" /\ release # "gone"
  /\ Arrives(c, k)
  /\ release' = "public"
  /\ \E answer \in {"ok", "failed"} : Answer(c, k, answer)
  /\ UNCHANGED created

ServeDelete(c, k) ==
  /\ call[c].method = "DELETE" /\ release # "gone"
  /\ Arrives(c, k)
  /\ release' = "gone"
  /\ \E answer \in {"ok", "failed"} : Answer(c, k, answer)
  /\ UNCHANGED created

ServeGet(c, k) ==
  /\ call[c].method = "GET" /\ release # "gone"
  /\ Arrives(c, k)
  /\ Answer(c, k, "ok")
  /\ UNCHANGED Platform

NotFound(c, k) ==
  /\ call[c].method # "POST" /\ release = "gone"
  /\ Arrives(c, k)
  /\ Answer(c, k, "notFound")
  /\ UNCHANGED Platform

\* The platform answers without serving.
Decline(c, k) ==
  /\ Arrives(c, k)
  /\ \E answer \in {"refused", "failed", "limited"} : Answer(c, k, answer)
  /\ UNCHANGED Platform

Lose(c, k) ==
  /\ Arrives(c, k)
  /\ UNCHANGED <<call, release, created>>

Deliver(c, k) ==
  \/ ServePost(c, k) \/ ServePatch(c, k) \/ ServeDelete(c, k) \/ ServeGet(c, k)
  \/ NotFound(c, k) \/ Decline(c, k) \/ Lose(c, k)

\* The steps a running process takes by itself; http.Client.Timeout is set everywhere.
Progress(c) == Send(c) \/ Receive(c) \/ Timeout(c) \/ Wake(c)

Next ==
  \E c \in Calls :
    \/ \E m \in Methods : Start(c, m)
    \/ Progress(c)
    \/ Cancel(c)
    \/ \E k \in 1..MaxAttempts : Deliver(c, k)

Spec == Init /\ [][Next]_vars
FairSpec == Spec /\ \A c \in Calls : WF_vars(Progress(c))

-----------------------------------------------------------------------------
(* Every call, request and record is of its shape, and attempts are bounded *)
(* (attempts, client.go:64-69).                                            *)
TypeOK ==
  /\ call \in [Calls -> CallRecord]
  /\ onTheWay \subseteq Calls \X (1..MaxAttempts)
  /\ release \in {"draft", "public", "gone"}
  /\ created \in [Calls -> Nat]

(* An idempotent call fails only for cause: it was refused, cut off or     *)
(* cancelled, the release is really gone, or a passing failure outlasted   *)
(* every attempt or asked for more patience than MaxWait.  A delete whose  *)
(* earlier attempt got through does not fail on "not found"                *)
(* (client.go:145-188, github.go:245-251).                                 *)
FailsForCause ==
  \A c \in Calls :
    call[c].pc = "error" /\ call[c].method \in Idempotent =>
      \/ call[c].answer \in {"refused", "cut", "cancelled"}
      \/ call[c].answer = "notFound" /\ call[c].method # "DELETE" /\ release = "gone"
      \/ call[c].answer \in Retryable
           /\ (call[c].attempt = MaxAttempts \/ call[c].wait > MaxWait)

(* No call waits for ever: every attempt ends by its timeout, there are    *)
(* boundedly many, and each sleep is bounded (client.go:46-49).            *)
Terminates == \A c \in Calls : call[c].pc = "ready" ~> call[c].pc \in {"ok", "error"}

\* How many steps a call can still take: three for an attempt, one to begin.
StepsLeft(me) ==
  LET attempts == 3 * (MaxAttempts - me.attempt)
  IN CASE me.pc = "idle"    -> attempts + 4
       [] me.pc = "ready"   -> attempts + 3
       [] me.pc = "waiting" -> attempts + 2
       [] me.pc = "asleep"  -> attempts + 1
       [] OTHER             -> 0

(* Why they all end, without temporal operators: every step of a call uses *)
(* up one of its steps, whatever the answer was, and neither the platform, *)
(* nor a late answer, nor another call gives it one back                   *)
(* (client.go:145-188).                                                    *)
CallsWindDown ==
  [][\A c \in Calls :
       /\ StepsLeft(call'[c]) <= StepsLeft(call[c])
       /\ call'[c].pc # call[c].pc => StepsLeft(call'[c]) < StepsLeft(call[c])]_vars

-----------------------------------------------------------------------------
(* What FailsForCause and the mapping to Exchange rest on.                 *)

\* Of a call that has not been sent, nothing is on its way and nothing was created.
Untouched(c) == created[c] = 0 /\ \A k \in 1..MaxAttempts : <<c, k>> \notin onTheWay

\* Only what was started is on its way, and only a POST creates.
Begun ==
  \A c \in Calls :
    /\ call[c].pc = "idle" <=> call[c].method = Unsent
    /\ call[c].pc = "idle" => Untouched(c) /\ call[c].attempt = 1 /\ call[c].answer = "none"
    /\ call[c].method # "POST" => created[c] = 0

\* Who sleeps has an attempt left.
AttemptLeft == \A c \in Calls : call[c].pc = "asleep" => call[c].attempt < MaxAttempts

\* A POST has one attempt, and once that is served there is no other.
PostedOnce ==
  \A c \in Calls :
    call[c].method = "POST" =>
      /\ call[c].attempt = 1 /\ call[c].pc # "asleep"
      /\ call[c].pc = "ready" => Untouched(c)
      /\ created[c] \in {0, 1}
      /\ \A k \in 1..MaxAttempts : <<c, k>> \in onTheWay => k = 1 /\ created[c] = 0

\* What a success of the call says about the platform.
Achieved(c) ==
  /\ call[c].method = "POST" => created[c] = 1
  /\ call[c].method = "PATCH" => release # "draft"
  /\ call[c].method = "DELETE" => release = "gone"

\* An answer was true when it was given and stays so.
Truthful ==
  \A c \in Calls :
    /\ call[c].answer = "ok" => Achieved(c)
    /\ call[c].answer = "notFound" => release = "gone" /\ call[c].method # "POST"
    /\ call[c].pc = "ok" =>
         \/ call[c].answer = "ok"
         \/ call[c].answer = "notFound" /\ call[c].method = "DELETE"

(* The inductive invariant: requests are counted, answers are true, and    *)
(* failures have their cause.                                              *)
CInv == TypeOK /\ Begun /\ AttemptLeft /\ PostedOnce /\ Truthful /\ FailsForCause

\* The mapping to Exchange.
OutcomeOf(pc) == IF pc \in {"ok", "error"} THEN pc ELSE "open"

Promise == INSTANCE Exchange WITH
  method  <- [c \in Calls |-> call[c].method],
  outcome <- [c \in Calls |-> OutcomeOf(call[c].pc)]

(* Attempts, waits, lost answers and requests that arrive after the client *)
(* gave up are invisible: a call has its effect once, a success says that  *)
(* it had it and that no copy still on its way will have another           *)
(* (client.go:41-44).                                                      *)
ImplementsExchange == Promise!XSpec
=============================================================================
