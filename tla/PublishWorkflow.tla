-------------------------- MODULE PublishWorkflow --------------------------
(***************************************************************************)
(* What the Publish Workflow promises (spec 3, RemoteRepositoryState, and  *)
(* spec 4.5), as a state machine over one invocation at a time:            *)
(*                                                                         *)
(*   IDLE -> CLEAN -> SYNCING -> STAGING -> COMMITTED -> IDLE              *)
(*                                                                         *)
(* CLEAN -> SYNCING aborts a rebase marker, best effort.  SYNCING ->       *)
(* STAGING rebases the local branch onto the remote tip, and a conflict    *)
(* is fatal and leaves the marker.  STAGING ends in the no-op outcome or   *)
(* commits one of our entries.  COMMITTED -> IDLE is an ordinary push,     *)
(* which only fast-forwards the remote and is never tried while a marker   *)
(* exists.  Any state may fail (FAILED is IDLE with outcome "failed").     *)
(* Others extend the remote at any time.                                   *)
(*                                                                         *)
(* This module states the promise; AutoBuildPublish implements it.         *)
(***************************************************************************)
EXTENDS Sequences

CONSTANTS
    Ours,     \* the commits the workflow may make
    Theirs    \* the commits other people may push

VARIABLES
    phase,    \* the workflow state, IDLE between invocations
    outcome,  \* how the last invocation ended: "none", "ok" or "failed"
    marker,   \* an interrupted rebase is in the repository
    remote,   \* the remote branch
    pending,  \* our commits on the local branch that the remote lacks
    rebased   \* the local branch is based on the remote tip

wvars == <<phase, outcome, marker, remote, pending, rebased>>

Init ==
    /\ phase = "IDLE"
    /\ outcome = "none"
    /\ marker = FALSE
    /\ remote = << >>
    /\ pending = << >>
    /\ rebased = TRUE

Begin ==
    /\ phase = "IDLE"
    /\ phase' = "CLEAN"
    /\ UNCHANGED <<outcome, marker, remote, pending, rebased>>

(* Abort a rebase marker if there is one; the abort may fail.             *)
Clean ==
    /\ phase = "CLEAN"
    /\ phase' = "SYNCING"
    /\ marker' \in {FALSE, marker}
    /\ UNCHANGED <<outcome, remote, pending, rebased>>

Rebase ==
    /\ phase = "SYNCING"
    /\ ~marker
    /\ phase' = "STAGING"
    /\ rebased' = TRUE
    /\ UNCHANGED <<outcome, marker, remote, pending>>

(* Local commits the remote lacks meet remote commits local lacks.         *)
Conflict ==
    /\ phase = "SYNCING"
    /\ ~marker
    /\ pending # << >> /\ ~rebased
    /\ phase' = "IDLE"
    /\ outcome' = "failed"
    /\ marker' = TRUE
    /\ UNCHANGED <<remote, pending, rebased>>

NoOp ==
    /\ phase = "STAGING"
    /\ phase' = "IDLE"
    /\ outcome' = "ok"
    /\ UNCHANGED <<marker, remote, pending, rebased>>

Commit ==
    /\ phase = "STAGING"
    /\ phase' = "COMMITTED"
    /\ \E c \in Ours : pending' = Append(pending, c)
    /\ UNCHANGED <<outcome, marker, remote, rebased>>

(* An ordinary push: accepted only as a fast-forward; the push may time    *)
(* out after the remote took it.                                           *)
Push ==
    /\ phase = "COMMITTED"
    /\ ~marker /\ rebased
    /\ phase' = "IDLE"
    /\ remote' = remote \o pending
    /\ pending' = << >>
    /\ outcome' \in {"ok", "failed"}
    /\ UNCHANGED <<marker, rebased>>

Fail ==
    /\ phase # "IDLE"
    /\ phase' = "IDLE"
    /\ outcome' = "failed"
    /\ UNCHANGED <<marker, remote, pending, rebased>>

Others ==
    /\ \E c \in Theirs : remote' = Append(remote, c)
    /\ rebased' = FALSE
    /\ UNCHANGED <<phase, outcome, marker, pending>>

Next ==
    \/ Begin \/ Clean \/ Rebase \/ Conflict \/ NoOp \/ Commit \/ Push
    \/ Fail \/ Others

Spec == Init /\ [][Next]_wvars

=============================================================================
