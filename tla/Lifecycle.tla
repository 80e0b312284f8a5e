----------------------------- MODULE Lifecycle -----------------------------
(***************************************************************************)
(* What the A2A Router promises about an Invocation, with nothing of how   *)
(* the promise is kept: an Invocation is created at most once, a nested    *)
(* one only under a running parent, and its status moves along the edges   *)
(* of validRuntimeTransition until it is terminal, where it stays.         *)
(* Module Ledger implements this specification.                            *)
(***************************************************************************)
CONSTANTS Invocations,  \* Invocation identifiers
          NoParent      \* parent of a root Invocation

VARIABLES status,       \* status of every Invocation, "none" before creation
          parent        \* parent of every created Invocation

lifecycleVars == <<status, parent>>

Terminal == {"succeeded", "failed", "canceled", "timed_out"}

Statuses == {"pending", "routing", "running"} \cup Terminal

\* The statuses an event may move an Invocation to. An Invocation whose
\* status is running also accepts stream events, which leave it running.
Successors(s) ==
  CASE s = "pending" -> {"routing", "canceled", "timed_out"}
    [] s = "routing" -> {"running", "failed", "canceled", "timed_out"}
    [] s = "running" -> Terminal
    [] OTHER -> {}

LifecycleInit ==
  /\ status = [i \in Invocations |-> "none"]
  /\ parent = [i \in Invocations |-> NoParent]

Create(i, p) ==
  /\ status[i] = "none"
  /\ p # NoParent => status[p] = "running"
  /\ status' = [status EXCEPT ![i] = "pending"]
  /\ parent' = [parent EXCEPT ![i] = p]

Advance(i, s) ==
  /\ s \in Successors(status[i])
  /\ status' = [status EXCEPT ![i] = s]
  /\ UNCHANGED parent

LifecycleNext ==
  \E i \in Invocations :
    \/ \E p \in (Invocations \cup {NoParent}) \ {i} : Create(i, p)
    \/ \E s \in Statuses : Advance(i, s)

LifecycleSpec == LifecycleInit /\ [][LifecycleNext]_lifecycleVars
=============================================================================
