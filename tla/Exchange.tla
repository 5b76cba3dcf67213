------------------------------ MODULE Exchange ------------------------------
(***************************************************************************)
(* What the publisher relies on when it sends one request: no attempts, no *)
(* waits, no lost answers.  A request has its effect once or not at all.   *)
(* After a reported success it has had it and will have no further effect; *)
(* after a reported error it may have it at any time, or never.            *)
(* (Client comment, internal/host/client.go.)                              *)
(***************************************************************************)
CONSTANTS Calls, Unsent

VARIABLES
  method,   \* call -> its method, or Unsent
  outcome,  \* call -> "open", "ok" or "error"
  release,  \* the release the calls are about: "draft", "public" or "gone"
  created   \* call -> how many things its POST created

vars == <<method, outcome, release, created>>

Methods == {"GET", "POST", "PATCH", "DELETE"}

XInit ==
  /\ method = [c \in Calls |-> Unsent]
  /\ outcome = [c \in Calls |-> "open"]
  /\ release \in {"draft", "public", "gone"}
  /\ created = [c \in Calls |-> 0]

Begin(c) ==
  /\ method[c] = Unsent
  /\ \E m \in Methods : method' = [method EXCEPT ![c] = m]
  /\ UNCHANGED <<outcome, release, created>>

Effect(c) ==
  /\ outcome[c] # "ok"
  /\ \/ method[c] = "POST" /\ created[c] = 0 /\ created' = [created EXCEPT ![c] = 1]
        /\ UNCHANGED release
     \/ method[c] = "PATCH" /\ release = "draft" /\ release' = "public" /\ UNCHANGED created
     \/ method[c] = "DELETE" /\ release # "gone" /\ release' = "gone" /\ UNCHANGED created
  /\ UNCHANGED <<method, outcome>>

\* What success of a request says about the platform from then on.
Achieved(c) ==
  /\ method[c] = "POST" => created[c] = 1
  /\ method[c] = "PATCH" => release # "draft"
  /\ method[c] = "DELETE" => release = "gone"

Succeed(c) ==
  /\ method[c] # Unsent /\ outcome[c] = "open"
  /\ Achieved(c)
  /\ outcome' = [outcome EXCEPT ![c] = "ok"]
  /\ UNCHANGED <<method, release, created>>

Fail(c) ==
  /\ method[c] # Unsent /\ outcome[c] = "open"
  /\ outcome' = [outcome EXCEPT ![c] = "error"]
  /\ UNCHANGED <<method, release, created>>

XNext == \E c \in Calls : Begin(c) \/ Effect(c) \/ Succeed(c) \/ Fail(c)

XSpec == XInit /\ [][XNext]_vars
=============================================================================
