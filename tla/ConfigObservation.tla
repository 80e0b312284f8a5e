------------------------- MODULE ConfigObservation -------------------------
(***************************************************************************)
(* What every Config Center provider hands a caller of Observe: an initial *)
(* snapshot and a subscription, that is a bounded queue of transitions     *)
(* whose revisions are numbered within the observation                     *)
(* (config_center/revision.go, snapshot.go, event.go, and the subscription *)
(* type that the file and the nacos provider each have).                   *)
(*                                                                         *)
(* A source state is [value, version]: the content a key has, Missing when *)
(* it has none, and the number of changes the key has seen.  No provider   *)
(* reads the version: it tells the properties which of two equal contents  *)
(* a snapshot was taken from.                                              *)
(***************************************************************************)
EXTENDS Naturals, Sequences

CONSTANTS
    Missing,     \* the key has no content; a present empty content is a value
    Buffer,      \* SubscriptionBuffer, the capacity of a subscription's queue
    MaxOrder,    \* math.MaxUint64, the last order a revision can have
    Subs         \* the subscriptions callers ask for

VARIABLE subs

NoTerminal == "none"

\* NewObservationRevision: the first revision of an observation.
NewObservationRevision == 0

\* The order an exhausted revision would wrap to is refused instead.
CanAdvance(order) == order < MaxOrder

\* ValidateNextRevision within one observation.
ValidateNextRevision(previous, candidate) ==
    CASE candidate = previous -> "revision_duplicate"
      [] candidate < previous -> "revision_stale"
      [] previous = MaxOrder \/ candidate # previous + 1 -> "revision_gap"
      [] OTHER -> "ok"

\* NewPresentSnapshot and NewMissingSnapshot with a revision of the observation.
Snapshot(state, order) == [state |-> state, order |-> order]

\* NewUpdateEvent carries a present snapshot, NewDeleteEvent a missing one.
Event(snapshot) ==
    [kind |-> IF snapshot.state.value = Missing THEN "delete" ELSE "update",
     state |-> snapshot.state, order |-> snapshot.order]

\* A subscription before Observe: phase is where its Observe call stands,
\* registered says whether the reader still holds it, last is the snapshot the
\* caller was handed last, armed that a Next call is past its check of done.
NoSubscription ==
    [phase |-> "none", key |-> "none", registered |-> FALSE,
     current |-> [value |-> Missing, version |-> 0], revision |-> 0,
     events |-> <<>>,
     last |-> Event(Snapshot([value |-> Missing, version |-> 0], 0)),
     armed |-> FALSE, terminal |-> NoTerminal]

\* newFileSubscription and newSubscription, entered in the reader's table.
Subscribed(key, state) ==
    [NoSubscription EXCEPT !.phase = "made", !.key = key, !.registered = TRUE,
        !.current = state, !.revision = NewObservationRevision,
        !.last = Event(Snapshot(state, NewObservationRevision))]

\* Two states with the same content are one state to a subscription.
Same(subscription, state) == subscription.current.value = state.value

\* The event can be numbered and the queue has room for it.
Deliverable(subscription) ==
    CanAdvance(subscription.revision) /\ Len(subscription.events) < Buffer

Enqueued(subscription, state) ==
    [subscription EXCEPT
        !.events = Append(@, Event(Snapshot(state, subscription.revision + 1))),
        !.current = state, !.revision = @ + 1]

\* terminate: the first terminal error stays.
Terminated(subscription, code) ==
    [subscription EXCEPT !.registered = FALSE,
        !.terminal = IF @ = NoTerminal THEN code ELSE @]

\* Nobody calls Next any more: what was queued is not looked at again.
Gone(subscription, phase) ==
    [NoSubscription EXCEPT !.phase = phase, !.key = subscription.key,
        !.current = subscription.current, !.terminal = subscription.terminal]

(* Next, in the two selects of the code: the first looks only at done, the *)
(* second takes whichever is ready of done, the queue and its context.     *)
NextChecks(s) ==
    /\ subs[s].phase = "live" /\ ~subs[s].armed
    /\ subs' = IF subs[s].terminal # NoTerminal THEN [subs EXCEPT ![s] = Gone(@, "told")]
               ELSE [subs EXCEPT ![s].armed = TRUE]

NextSelects(s) ==
    /\ subs[s].phase = "live" /\ subs[s].armed
    /\ \/ /\ subs[s].terminal # NoTerminal
          /\ subs' = [subs EXCEPT ![s] = Gone(@, "told")]
       \/ /\ subs[s].events # <<>>
          /\ subs' = [subs EXCEPT ![s].armed = FALSE, ![s].events = Tail(@),
                                  ![s].last = Head(subs[s].events)]
       \/ subs' = [subs EXCEPT ![s].armed = FALSE]

-----------------------------------------------------------------------------
\* What the caller was handed last and what is queued for it.
Chain(subscription) == <<subscription.last>> \o subscription.events

\* An observation is one chain of transitions: every snapshot after the first
\* has the next revision, a content other than the one before it, was the
\* source's state later than the one before it, and is an update exactly when
\* the key was present; the chain ends in the state the subscription compares
\* the source with, and never outgrows the queue.
IsChain(subscription) ==
    LET chain == Chain(subscription)
    IN  /\ Len(subscription.events) <= Buffer
        /\ chain[Len(chain)].state = subscription.current
        /\ chain[Len(chain)].order = subscription.revision
        /\ \A i \in 1 .. Len(chain) :
              (chain[i].kind = "delete") <=> (chain[i].state.value = Missing)
        /\ \A i \in 2 .. Len(chain) :
              /\ ValidateNextRevision(chain[i - 1].order, chain[i].order) = "ok"
              /\ chain[i].state.value # chain[i - 1].state.value
              /\ chain[i].state.version > chain[i - 1].state.version
=============================================================================
