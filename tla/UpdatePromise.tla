---------------------------- MODULE UpdatePromise ----------------------------
(***************************************************************************)
(* What the update transaction promises, without its steps: operations are *)
(* opened one at a time, an open one is either fenced or passes the point  *)
(* of no return, a passed one installs its candidate or returns to the old *)
(* program, and the installed identity changes with success and with a     *)
(* manual installation only.  An operation that ended never opens again.   *)
(***************************************************************************)
EXTENDS Naturals

CONSTANTS Operations, Identities

VARIABLES
  anchor,   \* the installed identity
  current,  \* the operation last opened: its identifier, state and candidate
  over      \* operations that have an outcome

promiseVars == <<anchor, current, over>>

NoOperation == [id |-> 0, state |-> "none", cand |-> 0]

PromiseInit ==
  /\ anchor \in Identities
  /\ current = NoOperation
  /\ over = {}

Resting == {"none", "succeeded", "restored", "failed"}

OpenOne(o, p) ==
  /\ current.state \in Resting
  /\ o \notin over
  /\ current' = [id |-> o, state |-> "open", cand |-> p]
  /\ UNCHANGED <<anchor, over>>

Refuse(o) ==
  /\ o # current.id
  /\ over' = over \cup {o}
  /\ UNCHANGED <<anchor, current>>

End(s) ==
  /\ current' = [current EXCEPT !.state = s]
  /\ over' = over \cup {current.id}

Fence == current.state = "open" /\ End("failed") /\ UNCHANGED anchor

Pass ==
  /\ current.state = "open"
  /\ current' = [current EXCEPT !.state = "passed"]
  /\ UNCHANGED <<anchor, over>>

Succeed ==
  /\ current.state = "passed"
  /\ End("succeeded")
  /\ anchor' = current.cand

(* A restored program whose outcome could not be published may still turn    *)
(* out to need manual recovery.                                              *)
Restore ==
  /\ \/ current.state = "passed" /\ (End("restored") \/ End("manual"))
     \/ current.state = "restored" /\ End("manual")
  /\ UNCHANGED anchor

(* A manual installation anchors a program, and its proven readiness may     *)
(* close an operation that needed manual recovery.                           *)
Install ==
  /\ current.state \in Resting \cup {"manual"}
  /\ anchor' \in Identities
  /\ UNCHANGED <<current, over>>

Supersede == current.state = "manual" /\ End("failed") /\ UNCHANGED anchor

PromiseNext ==
  \/ \E o \in Operations, p \in Identities : OpenOne(o, p)
  \/ \E o \in Operations : Refuse(o)
  \/ Fence \/ Pass \/ Succeed \/ Restore \/ Install \/ Supersede

PromiseSpec == PromiseInit /\ [][PromiseNext]_promiseVars
=============================================================================
