---------------------------- MODULE Publication ----------------------------
(***************************************************************************)
(* What publication promises, without drafts, rounds or requests: of every *)
(* tag nothing is visible, and then, from one moment on and for ever, a    *)
(* complete set of files that one of its jobs brought along.  A job that   *)
(* reports success brought the files that are visible.                     *)
(* (docs/CONTRACT.md section 4, points 2 and 3; package comment of         *)
(* internal/publish/publish.go.)                                           *)
(***************************************************************************)
CONSTANTS Tags, Publishers, TagOf, LocalSets, Nothing, NoFiles

VARIABLES
  visible,  \* tag -> the files of its public release, or Nothing
  state,    \* job -> "resting", "working" or "succeeded"
  files     \* job -> the files of its current or last run

vars == <<visible, state, files>>

PInit ==
  /\ state = [p \in Publishers |-> "resting"]
  /\ files = [p \in Publishers |-> NoFiles]

Begin(p) ==
  /\ state[p] # "working"
  /\ \E l \in LocalSets[p] : files' = [files EXCEPT ![p] = l]
  /\ state' = [state EXCEPT ![p] = "working"]
  /\ UNCHANGED visible

\* All the files become visible in one step, and only where nothing was.
Reveal(p) ==
  /\ state[p] = "working"
  /\ visible[TagOf[p]] = Nothing
  /\ visible' = [visible EXCEPT ![TagOf[p]] = files[p]]
  /\ UNCHANGED <<state, files>>

Succeed(p) ==
  /\ state[p] = "working"
  /\ visible[TagOf[p]] = files[p]
  /\ state' = [state EXCEPT ![p] = "succeeded"]
  /\ UNCHANGED <<visible, files>>

GiveUp(p) ==
  /\ state[p] = "working"
  /\ state' = [state EXCEPT ![p] = "resting"]
  /\ UNCHANGED <<visible, files>>

PNext == \E p \in Publishers : Begin(p) \/ Reveal(p) \/ Succeed(p) \/ GiveUp(p)

PSpec == PInit /\ [][PNext]_vars
=============================================================================
