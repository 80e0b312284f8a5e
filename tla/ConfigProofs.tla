---------------------------- MODULE ConfigProofs ----------------------------
(***************************************************************************)
(* Proofs about the Config Center, for every set of keys, contents,        *)
(* publishers and subscriptions and for queues of any size.                *)
(*                                                                         *)
(* The first part is about a subscription as a value: each thing a reader  *)
(* or a caller does to one keeps its chain of transitions.  It is used by  *)
(* both providers; the file provider is extended, the nacos provider is    *)
(* the instance N.                                                         *)
(***************************************************************************)
EXTENDS ConfigFile, SequenceTheorems, TLAPS

CONSTANT Digests
VARIABLE polls

N == INSTANCE ConfigNacos

-----------------------------------------------------------------------------
(* Subscriptions *)

Flags == BOOLEAN
Open == {"made", "live"}
Readable == [value : Values \cup {Missing}, version : Nat]
Transitions == [kind : {"update", "delete"}, state : Readable, order : Nat]
Queues == Seq(Transitions)

Subscriptions ==
    [phase : {"none", "get", "made", "live", "told", "refused"}, key : Keys \cup {"none"},
     registered : Flags, current : Readable, revision : Nat, events : Queues,
     last : Transitions, armed : Flags,
     terminal : {NoTerminal, "subscription_closed", "reader_closed", "watch_interrupted"}]

\* The source had the state old no later than the state new.
Seen(old, new) == old.version <= new.version /\ (old.version = new.version => old = new)

\* A subscription, when the keys have the states src: it compares the source
\* with a state the key has or had, and its transitions are one chain.
SubOK(x, src) ==
    /\ x \in Subscriptions
    /\ x.registered => x.phase \in Open /\ x.terminal = NoTerminal
    /\ x.phase \in Open \cup {"told"} => x.key \in Keys /\ Seen(x.current, src[x.key])
    /\ x.phase \in Open => IsChain(x)

-----------------------------------------------------------------------------
(* Chains *)

\* A chain is what was handed out last followed by what is queued.
LEMMA ChainElements ==
  ASSUME NEW x, x.last \in Transitions, x.events \in Queues
  PROVE  /\ Len(x.events) \in Nat /\ Len(Chain(x)) = Len(x.events) + 1
         /\ Chain(x)[1] = x.last
         /\ \A i \in 1 .. Len(x.events) : Chain(x)[i + 1] = x.events[i]
         /\ \A i \in 1 .. Len(x.events) + 1 : Chain(x)[i] \in Transitions
<1> DEFINE one == <<x.last>>
<1>1. one \in Queues /\ Len(one) = 1 /\ one[1] = x.last
  BY DEF Queues
<1> HIDE DEF one
<1>2. Len(x.events) \in Nat
  BY LenProperties, Zenon DEF Queues
<1>3. /\ one \o x.events \in Queues
      /\ Len(one \o x.events) = Len(one) + Len(x.events)
      /\ \A i \in 1 .. Len(one) + Len(x.events) :
           (one \o x.events)[i] = IF i <= Len(one) THEN one[i] ELSE x.events[i - Len(one)]
  BY <1>1, ConcatProperties, Zenon DEF Queues
<1>4. Chain(x) = one \o x.events
  BY Zenon DEF Chain, one
<1>5. \A i \in 1 .. Len(Chain(x)) : Chain(x)[i] \in Transitions
  BY <1>3, <1>4, ElementOfSeq, Zenon DEF Queues
<1> QED
  BY <1>1, <1>2, <1>3, <1>4, <1>5

\* One transition can follow another.
Follows(a, b) ==
    /\ ValidateNextRevision(a.order, b.order) = "ok"
    /\ b.state.value # a.state.value
    /\ b.state.version > a.state.version

Named(a) == (a.kind = "delete") <=> (a.state.value = Missing)

\* IsChain, with the queue in the place of the concatenation.
Linked(last, events, current, revision) ==
    /\ Len(events) <= Buffer
    /\ IF events = <<>> THEN last.state = current /\ last.order = revision
       ELSE /\ events[Len(events)].state = current /\ events[Len(events)].order = revision
            /\ Follows(last, events[1])
    /\ Named(last)
    /\ \A i \in 1 .. Len(events) : Named(events[i])
    /\ \A i \in 2 .. Len(events) : Follows(events[i - 1], events[i])

\* The two ways to state a chain agree.
LEMMA ChainIsLinked ==
  ASSUME NEW x, x.last \in Transitions, x.events \in Queues
  PROVE  IsChain(x) <=> Linked(x.last, x.events, x.current, x.revision)
<1> DEFINE c == Chain(x)
           n == Len(x.events)
<1>1. /\ n \in Nat /\ Len(c) = n + 1 /\ c[1] = x.last
      /\ \A i \in 1 .. n : c[i + 1] = x.events[i]
  BY ChainElements, Zenon
<1>2. n = 0 <=> x.events = <<>>
  BY EmptySeq, Zenon DEF Queues
<1>3. IsChain(x) <=>
        /\ n <= Buffer /\ c[Len(c)].state = x.current /\ c[Len(c)].order = x.revision
        /\ \A i \in 1 .. Len(c) : Named(c[i])
        /\ \A i \in 2 .. Len(c) : Follows(c[i - 1], c[i])
  BY Zenon DEF IsChain, Named, Follows
<1> HIDE DEF c, n
<1>4. /\ n = 0 => c[Len(c)] = x.last
      /\ n # 0 => c[Len(c)] = x.events[n]
  BY <1>1
<1>5. (\A i \in 1 .. Len(c) : Named(c[i])) <=> Named(x.last) /\ \A i \in 1 .. n : Named(x.events[i])
  <2>1. ASSUME \A i \in 1 .. Len(c) : Named(c[i])
        PROVE  Named(x.last) /\ \A i \in 1 .. n : Named(x.events[i])
    <3>1. \A i \in 1 .. n : i + 1 \in 1 .. Len(c)
      BY <1>1
    <3>2. 1 \in 1 .. Len(c)
      BY <1>1
    <3> QED
      BY <1>1, <2>1, <3>1, <3>2, Zenon
  <2>2. ASSUME Named(x.last), \A i \in 1 .. n : Named(x.events[i]), NEW i \in 1 .. Len(c)
        PROVE  Named(c[i])
    <3>1. i = 1 \/ (i - 1 \in 1 .. n /\ c[i] = x.events[i - 1])
      <4>1. CASE i # 1
        <5>1. i - 1 \in 1 .. n /\ (i - 1) + 1 = i
          BY <1>1, <4>1
        <5> QED
          BY <1>1, <5>1, Zenon
      <4> QED
        BY <4>1, Zenon
    <3> QED
      BY <1>1, <2>2, <3>1, Zenon
  <2> QED
    BY <2>1, <2>2, Zenon
<1>6. (\A i \in 2 .. Len(c) : Follows(c[i - 1], c[i])) <=>
        /\ n # 0 => Follows(x.last, x.events[1])
        /\ \A i \in 2 .. n : Follows(x.events[i - 1], x.events[i])
  <2>1. \A i \in 2 .. n + 1 : i - 1 \in 1 .. n /\ c[i] = x.events[i - 1]
    BY <1>1
  <2>2. ASSUME \A i \in 2 .. Len(c) : Follows(c[i - 1], c[i])
        PROVE  /\ n # 0 => Follows(x.last, x.events[1])
               /\ \A i \in 2 .. n : Follows(x.events[i - 1], x.events[i])
    <3>1. n # 0 => Follows(c[1], c[2]) /\ c[2] = x.events[1]
      <4>1. n # 0 => 2 \in 2 .. Len(c) /\ 2 - 1 = 1
        BY <1>1
      <4> QED
        BY <1>1, <2>1, <2>2, <4>1, Zenon
    <3>2. ASSUME NEW i \in 2 .. n
          PROVE  Follows(x.events[i - 1], x.events[i])
      <4>1. /\ i + 1 \in 2 .. Len(c) /\ (i + 1) - 1 = i /\ i \in 1 .. n /\ i - 1 \in 1 .. n
            /\ (i - 1) + 1 = i
        BY <1>1
      <4>2. c[i + 1] = x.events[i] /\ c[i] = x.events[i - 1] /\ Follows(c[i], c[i + 1])
        BY <1>1, <2>2, <4>1, Zenon
      <4> QED
        BY <4>2, Zenon
    <3> QED
      BY <1>1, <3>1, <3>2, Zenon
  <2>3. ASSUME n # 0 => Follows(x.last, x.events[1]),
               \A i \in 2 .. n : Follows(x.events[i - 1], x.events[i]),
               NEW i \in 2 .. Len(c)
        PROVE  Follows(c[i - 1], c[i])
    <3>1. CASE i = 2
      BY <1>1, <2>1, <2>3, <3>1
    <3>2. CASE i # 2
      <4>1. i - 1 \in 2 .. n /\ i - 1 \in 2 .. n + 1 /\ i \in 2 .. n + 1
        BY <1>1, <3>2
      <4>2. c[i] = x.events[i - 1] /\ c[i - 1] = x.events[(i - 1) - 1]
        BY <2>1, <4>1, Zenon
      <4> QED
        BY <2>3, <4>1, <4>2, Zenon
    <3> QED
      BY <3>1, <3>2, Zenon
  <2> QED
    BY <2>2, <2>3, Zenon
<1> QED
  BY <1>1, <1>2, <1>3, <1>4, <1>5, <1>6, Zenon DEF Linked, n

\* A subscription starts a chain with the snapshot the caller is handed.
LEMMA ChainStarts ==
  ASSUME Buffer \in Nat, NEW state \in Readable
  PROVE  Linked(Event(Snapshot(state, 0)), <<>>, state, 0)
<1>1. Len(<<>>) = 0
  BY EmptySeq, Zenon
<1> QED
  BY <1>1 DEF Linked, Named, Event, Snapshot

\* An event the queue has room for, of a later state with another content, is
\* the next link.
LEMMA ChainGrows ==
  ASSUME MaxOrder \in Nat, NEW last \in Transitions, NEW events \in Queues, NEW current \in Readable,
         NEW revision \in Nat, Linked(last, events, current, revision),
         Len(events) < Buffer, revision < MaxOrder, Buffer \in Nat,
         NEW state \in Readable, state.value # current.value, state.version > current.version,
         NEW e, e = Event(Snapshot(state, revision + 1))
  PROVE  /\ e \in Transitions
         /\ Append(events, e) \in Queues
         /\ Linked(last, Append(events, e), state, revision + 1)
<1> DEFINE n == Len(events)
           longer == Append(events, e)
<1>1. /\ e \in Transitions /\ Named(e) /\ e.state = state /\ e.order = revision + 1
  BY DEF Event, Snapshot, Transitions, Named
<1>2. /\ n \in Nat /\ longer \in Queues /\ longer # <<>> /\ Len(longer) = n + 1
      /\ \A i \in 1 .. n : longer[i] = events[i]
      /\ longer[n + 1] = e
  BY <1>1, AppendProperties, LenProperties DEF Queues
<1>3. n = 0 <=> events = <<>>
  BY EmptySeq, Zenon DEF Queues
<1>4. ASSUME NEW a \in Transitions, a.state = current, a.order = revision
      PROVE  Follows(a, e)
  BY <1>1, <1>4 DEF Follows, ValidateNextRevision
<1>5. \A i \in 1 .. n : events[i] \in Transitions
  BY ElementOfSeq, Zenon DEF Queues
<1> HIDE DEF n, longer
<1>6. CASE events = <<>>
  <2>1. n = 0 /\ Follows(last, e) /\ longer[1] = e
    BY <1>2, <1>3, <1>4, <1>6 DEF Linked
  <2> QED
    BY <1>1, <1>2, <2>1 DEF Linked, longer, n
<1>7. CASE events # <<>>
  <2>1. n \in 1 .. n /\ 1 \in 1 .. n
    BY <1>2, <1>3, <1>7
  <2>2. Follows(events[n], e) /\ Follows(last, events[1]) /\ longer[1] = events[1]
    BY <1>2, <1>4, <1>5, <1>7, <2>1, Zenon DEF Linked, n
  <2>3. ASSUME NEW i \in 2 .. n + 1
        PROVE  Follows(longer[i - 1], longer[i])
    <3>1. CASE i = n + 1
      BY <1>2, <2>1, <2>2, <3>1
    <3>2. CASE i # n + 1
      <4>1. i \in 2 .. n /\ i \in 1 .. n /\ i - 1 \in 1 .. n
        BY <1>2, <3>2
      <4>2. Follows(events[i - 1], events[i])
        BY <4>1, Zenon DEF Linked, n
      <4> QED
        BY <1>2, <4>1, <4>2, Zenon
    <3> QED
      BY <3>1, <3>2, Zenon
  <2>4. ASSUME NEW i \in 1 .. n + 1
        PROVE  Named(longer[i])
    <3>1. CASE i = n + 1
      BY <1>1, <1>2, <3>1, Zenon
    <3>2. CASE i # n + 1
      <4>1. i \in 1 .. n
        BY <1>2, <3>2
      <4> QED
        BY <1>2, <4>1, Zenon DEF Linked, n
    <3> QED
      BY <3>1, <3>2, Zenon
  <2>5. Named(last) /\ n < Buffer
    BY Zenon DEF Linked, n
  <2>6. longer[Len(longer)].state = state /\ longer[Len(longer)].order = revision + 1
    BY <1>1, <1>2, Zenon
  <2>7. n + 1 <= Buffer
    BY <1>2, <2>5
  <2> QED
    BY <1>1, <1>2, <2>2, <2>3, <2>4, <2>5, <2>6, <2>7, Zenon DEF Linked, longer
<1> QED
  BY <1>1, <1>2, <1>6, <1>7, Zenon DEF longer

\* The first of the queue is handed out and the rest is still a chain.
LEMMA ChainMoves ==
  ASSUME Buffer \in Nat, NEW last, NEW events \in Queues, NEW current, NEW revision,
         Linked(last, events, current, revision), events # <<>>
  PROVE  /\ Head(events) \in Transitions /\ Tail(events) \in Queues
         /\ Linked(Head(events), Tail(events), current, revision)
<1> DEFINE n == Len(events)
           rest == Tail(events)
<1>1. /\ Head(events) \in Transitions /\ rest \in Queues /\ Len(rest) = n - 1
      /\ \A i \in 1 .. Len(rest) : rest[i] = events[i + 1]
  BY HeadTailProperties, Zenon DEF Queues
<1>2. n \in Nat \ {0} /\ Head(events) = events[1]
  BY EmptySeq DEF Queues
<1>3. n - 1 = 0 <=> rest = <<>>
  BY <1>1, EmptySeq, Zenon DEF Queues
<1> HIDE DEF n, rest
<1>4. \A i \in 1 .. n - 1 : rest[i] = events[i + 1] /\ i + 1 \in 1 .. n /\ i + 1 \in 2 .. n
  BY <1>1, <1>2
<1>5. /\ n <= Buffer /\ events[n].state = current /\ events[n].order = revision
      /\ \A i \in 1 .. n : Named(events[i])
      /\ \A i \in 2 .. n : Follows(events[i - 1], events[i])
  BY Zenon DEF Linked, n
<1>6. rest # <<>> => rest[n - 1] = events[n] /\ rest[1] = events[2] /\ Follows(events[1], events[2])
  <2>1. rest # <<>> => /\ n - 1 \in 1 .. n - 1 /\ (n - 1) + 1 = n
                       /\ 1 \in 1 .. n - 1 /\ 2 \in 2 .. n /\ 2 - 1 = 1 /\ 1 + 1 = 2
    BY <1>2, <1>3
  <2> QED
    BY <1>4, <1>5, <2>1, Zenon
<1>7. \A i \in 1 .. n - 1 : Named(rest[i])
  BY <1>4, <1>5, Zenon
<1>8. ASSUME NEW i \in 2 .. n - 1
      PROVE  Follows(rest[i - 1], rest[i])
  <2>1. i - 1 \in 1 .. n - 1 /\ i \in 1 .. n - 1 /\ (i - 1) + 1 = i /\ (i + 1) - 1 = i
        /\ i + 1 \in 2 .. n
    BY <1>2
  <2>2. rest[i - 1] = events[i] /\ rest[i] = events[i + 1] /\ Follows(events[i], events[i + 1])
    BY <1>4, <1>5, <2>1, Zenon
  <2> QED
    BY <2>2, Zenon
<1>9. Named(events[1]) /\ n - 1 <= Buffer /\ (rest = <<>> => n = 1)
  BY <1>2, <1>3, <1>5
<1> QED
  BY <1>1, <1>2, <1>5, <1>6, <1>7, <1>8, <1>9, Zenon DEF Linked, rest

-----------------------------------------------------------------------------
(* What is done to a subscription *)

\* A subscription as a record.
LEMMA SubFields ==
  ASSUME NEW x \in Subscriptions
  PROVE  /\ x.current \in Readable /\ x.revision \in Nat /\ x.events \in Queues
         /\ x.last \in Transitions /\ x.key \in Keys \cup {"none"}
  BY Zenon DEF Subscriptions

\* Whatever keeps the transitions and the state compared keeps the chain.
LEMMA SameChain ==
  ASSUME NEW x, NEW y, IsChain(x), y.last = x.last, y.events = x.events, y.current = x.current,
         y.revision = x.revision
  PROVE  IsChain(y)
  BY DEF IsChain, Chain

\* Nothing has happened since.
LEMMA SeenNow ==
  ASSUME NEW a \in Readable
  PROVE  Seen(a, a) /\ a.version \in Nat
  BY DEF Seen, Readable

\* Time passes at the source.
LEMMA SeenLater ==
  ASSUME NEW a, NEW b, NEW c, a.version \in Nat, b.version \in Nat, c.version \in Nat,
         Seen(a, b), Seen(b, c)
  PROVE  Seen(a, c)
  BY DEF Seen

\* Keys that change leave a subscription right.
LEMMA SourceMovesOK ==
  ASSUME NEW x, NEW src, NEW later, SubOK(x, src),
         \A k \in Keys : src[k].version \in Nat /\ later[k].version \in Nat /\ Seen(src[k], later[k])
  PROVE  SubOK(x, later)
<1>1. x.current.version \in Nat
  BY SubFields, Zenon DEF SubOK, Readable
<1> QED
  BY <1>1, SeenLater, Zenon DEF SubOK

\* A subscription nobody asked for yet.
LEMMA NoSubscriptionTyped == NoSubscription \in Subscriptions
<1>1. [value |-> Missing, version |-> 0] \in Readable
  BY Zenon DEF Readable
<1>2. Event(Snapshot([value |-> Missing, version |-> 0], 0)) \in Transitions
  BY <1>1, Zenon DEF Event, Snapshot, Transitions
<1>3. <<>> \in Queues
  BY EmptySeq, Zenon DEF Queues
<1> QED
  BY <1>1, <1>2, <1>3, Zenon DEF NoSubscription, Subscriptions, Flags

\* newFileSubscription, newSubscription.
LEMMA SubscribedOK ==
  ASSUME Buffer \in Nat, NEW src, NEW k \in Keys, NEW state \in Readable, Seen(state, src[k])
  PROVE  SubOK(Subscribed(k, state), src)
<1> DEFINE y == Subscribed(k, state)
           e == Event(Snapshot(state, 0))
<1>1. /\ y.phase = "made" /\ y.key = k /\ y.registered = TRUE /\ y.current = state
      /\ y.revision = 0 /\ y.events = <<>> /\ y.last = e /\ y.armed = FALSE /\ y.terminal = NoTerminal
  BY Zenon DEF Subscribed, NoSubscription, NewObservationRevision
<1>2. e \in Transitions
  BY Zenon DEF Event, Snapshot, Transitions
<1>3. <<>> \in Queues
  BY EmptySeq, Zenon DEF Queues
<1>4. y \in Subscriptions
  <2>1. y = [NoSubscription EXCEPT !.phase = "made", !.key = k, !.registered = TRUE,
                !.current = state, !.revision = 0, !.last = e]
    BY Zenon DEF Subscribed, NewObservationRevision
  <2> HIDE DEF y, e
  <2> QED
    BY <1>2, <2>1, NoSubscriptionTyped, Zenon DEF Subscriptions, Flags
<1> HIDE DEF y, e
<1>5. IsChain(y)
  BY <1>1, <1>2, <1>3, ChainIsLinked, ChainStarts, Zenon DEF e
<1> QED
  BY <1>1, <1>4, <1>5, Zenon DEF SubOK, Open, y

\* enqueue, for a state of the key read after the one compared with.
LEMMA EnqueuedOK ==
  ASSUME Buffer \in Nat, MaxOrder \in Nat, NEW src, NEW x, SubOK(x, src), x.phase \in Open \cup {"told"},
         Deliverable(x), NEW state \in Readable, ~Same(x, state), Seen(x.current, state),
         Seen(state, src[x.key])
  PROVE  SubOK(Enqueued(x, state), src)
<1> DEFINE e == Event(Snapshot(state, x.revision + 1))
           y == Enqueued(x, state)
<1>1. x \in Subscriptions
  BY Zenon DEF SubOK
<1>2. y = [x EXCEPT !.events = Append(x.events, e), !.current = state, !.revision = x.revision + 1]
  BY Zenon DEF Enqueued
<1>3. /\ y.events = Append(x.events, e) /\ y.current = state /\ y.revision = x.revision + 1
      /\ y.phase = x.phase /\ y.key = x.key /\ y.registered = x.registered /\ y.last = x.last
      /\ y.terminal = x.terminal
  BY <1>1, <1>2, Zenon DEF Subscriptions
<1>4. e \in Transitions
  BY <1>1, SubFields DEF Event, Snapshot, Transitions
<1>5. Append(x.events, e) \in Queues
  BY <1>1, <1>4, SubFields, AppendProperties, Zenon DEF Queues
<1>6. x.revision + 1 \in Nat
  BY <1>1, SubFields
<1> HIDE DEF e, y
<1>7. y \in Subscriptions
  BY <1>1, <1>2, <1>5, <1>6, Zenon DEF Subscriptions
<1>8. ASSUME x.phase \in Open
      PROVE  IsChain(y)
  <2>1. Linked(x.last, x.events, x.current, x.revision)
    BY <1>1, <1>8, SubFields, ChainIsLinked, Zenon DEF SubOK
  <2>2. /\ Len(x.events) < Buffer /\ x.revision < MaxOrder /\ state.value # x.current.value
    BY Zenon DEF Deliverable, CanAdvance, Same
  <2>3. state.version > x.current.version
    <3>1. x.current.version \in Nat /\ state.version \in Nat
      BY <1>1, SubFields, Zenon DEF Readable
    <3> QED
      BY <2>2, <3>1 DEF Seen
  <2>4. Linked(x.last, Append(x.events, e), state, x.revision + 1)
    BY <1>1, <2>1, <2>2, <2>3, SubFields, ChainGrows, Zenon DEF e
  <2> QED
    BY <1>1, <1>3, <1>5, <2>4, SubFields, ChainIsLinked, Zenon
<1> QED
  BY <1>3, <1>7, <1>8, Zenon DEF SubOK, y

\* terminate takes the subscription out of the reader's table.
LEMMA TerminatedOK ==
  ASSUME NEW src, NEW x, SubOK(x, src),
         NEW code \in {"subscription_closed", "reader_closed", "watch_interrupted"}
  PROVE  /\ SubOK(Terminated(x, code), src) /\ Terminated(x, code).registered = FALSE
         /\ Terminated(x, code).phase = x.phase /\ Terminated(x, code).key = x.key
         /\ Terminated(x, code).terminal # NoTerminal
<1> DEFINE t == IF x.terminal = NoTerminal THEN code ELSE x.terminal
           y == Terminated(x, code)
<1>1. x \in Subscriptions
  BY Zenon DEF SubOK
<1>2. y = [x EXCEPT !.registered = FALSE, !.terminal = t]
  BY Zenon DEF Terminated
<1>3. t \in {NoTerminal, "subscription_closed", "reader_closed", "watch_interrupted"}
      /\ t # NoTerminal
  BY <1>1, Zenon DEF Subscriptions, NoTerminal
<1> HIDE DEF t, y
<1>4. /\ y.registered = FALSE /\ y.terminal = t /\ y.phase = x.phase /\ y.key = x.key
      /\ y.current = x.current /\ y.revision = x.revision /\ y.events = x.events /\ y.last = x.last
  BY <1>1, <1>2, Zenon DEF Subscriptions
<1>5. y \in Subscriptions
  BY <1>1, <1>2, <1>3, Zenon DEF Subscriptions, Flags
<1>6. x.phase \in Open => IsChain(y)
  BY <1>4, SameChain, Zenon DEF SubOK
<1>7. x.phase \in Open \cup {"told"} => y.key \in Keys /\ Seen(y.current, src[y.key])
  BY <1>4, Zenon DEF SubOK
<1> QED
  BY <1>3, <1>4, <1>5, <1>6, <1>7, Zenon DEF SubOK, y

\* Next has told its caller the terminal error, or Observe has refused.
LEMMA GoneOK ==
  ASSUME NEW src, NEW x, SubOK(x, src), x.phase \in Open, NEW p \in {"told", "refused"}
  PROVE  /\ SubOK(Gone(x, p), src) /\ Gone(x, p).registered = FALSE
         /\ Gone(x, p).phase = p /\ Gone(x, p).key = x.key /\ Gone(x, p).current = x.current
<1> DEFINE y == Gone(x, p)
<1>1. x \in Subscriptions /\ x.key \in Keys /\ Seen(x.current, src[x.key])
  BY Zenon DEF SubOK
<1>2. y = [NoSubscription EXCEPT !.phase = p, !.key = x.key, !.current = x.current,
                                 !.terminal = x.terminal]
  BY Zenon DEF Gone
<1> HIDE DEF y
<1>3. y \in Subscriptions
  BY <1>1, <1>2, NoSubscriptionTyped, Zenon DEF Subscriptions
<1>4. y.phase = p /\ y.key = x.key /\ y.current = x.current /\ y.registered = FALSE
  BY <1>2, Zenon DEF NoSubscription
<1> QED
  BY <1>1, <1>3, <1>4, Zenon DEF SubOK, Open, y

\* Next is past its check of done, or returns with its context.
LEMMA ArmedOK ==
  ASSUME NEW src, NEW x, SubOK(x, src), NEW armed \in Flags
  PROVE  LET y == [x EXCEPT !.armed = armed]
         IN SubOK(y, src) /\ y.registered = x.registered /\ y.key = x.key /\ y.current = x.current
            /\ y.phase = x.phase /\ y.terminal = x.terminal
<1> DEFINE y == [x EXCEPT !.armed = armed]
<1>1. x \in Subscriptions
  BY Zenon DEF SubOK
<1>2. /\ y \in Subscriptions
      /\ y.registered = x.registered /\ y.terminal = x.terminal /\ y.phase = x.phase /\ y.key = x.key
      /\ y.current = x.current /\ y.revision = x.revision /\ y.events = x.events /\ y.last = x.last
  BY <1>1, Zenon DEF Subscriptions
<1> HIDE DEF y
<1>3. x.phase \in Open => IsChain(y)
  BY <1>2, SameChain, Zenon DEF SubOK
<1>4. SubOK(y, src)
  BY <1>2, <1>3, Zenon DEF SubOK
<1> QED
  BY <1>2, <1>4, Zenon DEF y

\* Next hands out the first event of the queue.
LEMMA HandedOutOK ==
  ASSUME Buffer \in Nat, NEW src, NEW x, SubOK(x, src), x.phase \in Open, x.events # <<>>
  PROVE  LET y == [x EXCEPT !.armed = FALSE, !.events = Tail(x.events), !.last = Head(x.events)]
         IN SubOK(y, src) /\ y.registered = x.registered /\ y.key = x.key /\ y.current = x.current
            /\ y.phase = x.phase /\ y.terminal = x.terminal
<1> DEFINE rest == Tail(x.events)
           first == Head(x.events)
           y == [x EXCEPT !.armed = FALSE, !.events = rest, !.last = first]
<1>1. x \in Subscriptions /\ IsChain(x)
  BY Zenon DEF SubOK
<1>2. Linked(x.last, x.events, x.current, x.revision)
  BY <1>1, SubFields, ChainIsLinked, Zenon
<1>3. first \in Transitions /\ rest \in Queues /\ Linked(first, rest, x.current, x.revision)
  BY <1>1, <1>2, SubFields, ChainMoves, Zenon
<1> HIDE DEF rest, first
<1>4. /\ y \in Subscriptions
      /\ y.registered = x.registered /\ y.terminal = x.terminal /\ y.phase = x.phase /\ y.key = x.key
      /\ y.current = x.current /\ y.revision = x.revision /\ y.events = rest /\ y.last = first
  BY <1>1, <1>3, Zenon DEF Subscriptions, Flags
<1> HIDE DEF y
<1>5. IsChain(y)
  BY <1>3, <1>4, ChainIsLinked, Zenon
<1>6. SubOK(y, src)
  BY <1>4, <1>5, Zenon DEF SubOK
<1> QED
  BY <1>4, <1>6, Zenon DEF y, rest, first

\* Observe refuses, or returns.
LEMMA PhaseOK ==
  ASSUME NEW src, NEW x, SubOK(x, src), NEW p,
         \/ x.phase \in {"none", "get"} /\ p = "refused"
         \/ x.phase = "made" /\ p = "live"
  PROVE  LET y == [x EXCEPT !.phase = p]
         IN SubOK(y, src) /\ y.registered = x.registered /\ y.key = x.key /\ y.current = x.current
            /\ y.phase = p /\ y.terminal = x.terminal
<1> DEFINE y == [x EXCEPT !.phase = p]
<1>1. x \in Subscriptions
  BY Zenon DEF SubOK
<1>2. /\ y \in Subscriptions
      /\ y.registered = x.registered /\ y.terminal = x.terminal /\ y.phase = p /\ y.key = x.key
      /\ y.current = x.current /\ y.revision = x.revision /\ y.events = x.events /\ y.last = x.last
  BY <1>1, Zenon DEF Subscriptions
<1> HIDE DEF y
<1>3. x.phase \in Open => IsChain(y)
  BY <1>2, SameChain, Zenon DEF SubOK
<1>4. SubOK(y, src)
  BY <1>2, <1>3, Zenon DEF SubOK, Open
<1> QED
  BY <1>2, <1>4, Zenon DEF y

\* What Next makes of the subscription x: it stays in the reader's table as it
\* is, or its caller knows that it is no longer there.
Keeps(x, y) ==
    /\ y.key = x.key /\ y.current = x.current
    /\ y.phase = x.phase \/ (y.phase = "told" /\ ~y.registered)
    /\ y.registered => x.registered /\ y.phase = x.phase /\ y.terminal = x.terminal

\* Either half of Next.
LEMMA NextOK ==
  ASSUME Buffer \in Nat, NEW src, NEW s \in Subs, subs \in [Subs -> Subscriptions],
         SubOK(subs[s], src), NextChecks(s) \/ NextSelects(s)
  PROVE  \E y : subs' = [subs EXCEPT ![s] = y] /\ SubOK(y, src) /\ Keeps(subs[s], y)
<1> DEFINE x == subs[s]
           Goal(y) == subs' = [subs EXCEPT ![s] = y] /\ SubOK(y, src) /\ Keeps(x, y)
<1>1. x.phase = "live" /\ x.phase \in Open
  BY Zenon DEF NextChecks, NextSelects, Open
<1>2. ASSUME subs' = [subs EXCEPT ![s] = Gone(subs[s], "told")]
      PROVE  \E y : Goal(y)
  <2>1. Goal(Gone(x, "told"))
    BY <1>1, <1>2, GoneOK DEF Keeps
  <2> QED
    BY <2>1, Zenon
<1>3. ASSUME NEW armed \in Flags, subs' = [subs EXCEPT ![s].armed = armed]
      PROVE  \E y : Goal(y)
  <2>1. subs' = [subs EXCEPT ![s] = [x EXCEPT !.armed = armed]]
    BY <1>3, Zenon
  <2>2. Goal([x EXCEPT !.armed = armed])
    BY <1>3, <2>1, ArmedOK DEF Keeps
  <2> QED
    BY <2>2, Zenon
<1>4. ASSUME x.events # <<>>, subs' = [subs EXCEPT ![s].armed = FALSE, ![s].events = Tail(@),
                                                   ![s].last = Head(subs[s].events)]
      PROVE  \E y : Goal(y)
  <2> DEFINE y == [x EXCEPT !.armed = FALSE, !.events = Tail(x.events), !.last = Head(x.events)]
  <2>1. subs' = [subs EXCEPT ![s] = y]
    BY <1>4, Zenon
  <2>2. Goal(y)
    BY <1>1, <1>4, <2>1, HandedOutOK, ZenonT(60) DEF Keeps
  <2> QED
    BY <2>2, Zenon
<1>5. TRUE \in Flags /\ FALSE \in Flags
  BY Zenon DEF Flags
<1> HIDE DEF Goal
<1>6. CASE NextChecks(s)
  BY <1>2, <1>3, <1>5, <1>6, Zenon DEF NextChecks, Goal
<1>7. CASE NextSelects(s)
  BY <1>2, <1>3, <1>4, <1>5, <1>7, Zenon DEF NextSelects, Goal
<1> QED
  BY <1>6, <1>7, Zenon

-----------------------------------------------------------------------------
(* The file provider: the inductive invariant *)

States == [value : Values \cup Faults \cup {Missing}, version : Nat]
Kinds == {"write", "enoent", "gone", "overflow"}
Notices == Keys \cup Kinds

Writers == [pc : {"idle", "open", "written", "remove"}, key : Keys \cup {"none"},
            value : Values \cup {Missing}, leaf : Values \cup {Missing, Partial}, closed : Flags]

\* A temporary leaf that can be renamed is written whole.
WritersOK ==
    /\ writers \in [Publishers -> Writers]
    /\ \A w \in Publishers :
          /\ writers[w].pc # "idle" => writers[w].key \in Keys
          /\ writers[w].pc = "open" => writers[w].value \in Values
          /\ writers[w].pc = "written" => writers[w].leaf \in Values

\* A stopped reader holds no subscription, and only a stopped one gives up its
\* watch.
ReaderOK ==
    /\ reader \in [closed : Flags, interrupted : Flags, open : Flags]
    /\ loop \in [pc : {"select", "process", "interrupt", "release", "check", "done"},
                 todo : SUBSET Keys]
    /\ loop.pc = "release" => reader.interrupted
    /\ ~reader.open => stopped
    /\ stopped => Registered = {}

FileInv ==
    /\ source \in [Keys -> States] /\ notices \in Seq(Notices)
    /\ WritersOK /\ ReaderOK
    /\ subs \in [Subs -> Subscriptions] /\ \A s \in Subs : SubOK(subs[s], source)
    /\ NothingIsLost

\* What NothingIsLost says, for one subscription x.
Announced(ns, k) == \E i \in 1 .. Len(ns) : Announces(ns[i], k)

Accounted(x, src, ns, lp) ==
    \/ Same(x, src[x.key])
    \/ Announced(ns, x.key)
    \/ lp.pc = "process" /\ x.key \in lp.todo
    \/ lp.pc = "interrupt"

\* NothingIsLost, subscription by subscription.
LEMMA LostIsAccounted ==
  NothingIsLost <=> \A s \in Subs : subs[s].registered => Accounted(subs[s], source, notices, loop)
  BY Zenon DEF NothingIsLost, Registered, Accounted, Announced

\* The same in the next state.
LEMMA LostIsAccountedNext ==
  NothingIsLost' <=>
    \A s \in Subs : subs'[s].registered => Accounted(subs'[s], source', notices', loop')
  BY Zenon DEF NothingIsLost, Registered, Accounted, Announced, Announces, Same

-----------------------------------------------------------------------------
(* The file provider: steps *)

\* A registered subscription is one of an open reader, with a key.
LEMMA RegisteredFacts ==
  ASSUME FileInv, NEW s \in Subs, subs[s].registered
  PROVE  /\ ~stopped /\ reader.open
         /\ subs[s].key \in Keys /\ subs[s].phase \in Open
         /\ Accounted(subs[s], source, notices, loop)
<1>1. SubOK(subs[s], source) /\ s \in Registered
  BY Zenon DEF FileInv, Registered
<1>2. ~stopped /\ reader.open
  BY <1>1, Zenon DEF FileInv, ReaderOK, Flags
<1> QED
  BY <1>1, <1>2, LostIsAccounted, Zenon DEF FileInv, SubOK

\* A notification is queued behind the others, or one that stops the reader is.
LEMMA NotifyOK ==
  ASSUME ConfigFileConstants, FileInv, NEW notice \in Notices, Notify(notice)
  PROVE  /\ notices' \in Seq(Notices)
         /\ reader.open => \A k \in Keys : Announced(notices, k) \/ Announces(notice, k)
                                             => Announced(notices', k)
<1> DEFINE n == Len(notices)
           over == "overflow"
<1>1. notices \in Seq(Notices) /\ n \in Nat
  BY LenProperties, Zenon DEF FileInv
<1>2. CASE ~reader.open
  BY <1>2, EmptySeq, Zenon DEF Notify
<1>3. ASSUME NEW e \in Notices, notices' = Append(notices, e), NEW k \in Keys,
             Announced(notices, k) \/ Announces(e, k)
      PROVE  Announced(notices', k)
  <2>1. /\ Len(notices') = n + 1 /\ notices'[n + 1] = e
        /\ \A i \in 1 .. n : notices'[i] = notices[i]
    BY <1>1, <1>3, AppendProperties
  <2>2. CASE Announces(e, k)
    <3>1. n + 1 \in 1 .. Len(notices')
      BY <1>1, <2>1
    <3> QED
      BY <2>1, <2>2, <3>1, Zenon DEF Announced
  <2>3. CASE Announced(notices, k)
    <3>1. PICK i \in 1 .. n : Announces(notices[i], k)
      BY <2>3, Zenon DEF Announced
    <3>2. i \in 1 .. Len(notices') /\ notices'[i] = notices[i]
      BY <1>1, <2>1
    <3> QED
      BY <3>1, <3>2, Zenon DEF Announced
  <2> QED
    BY <1>3, <2>2, <2>3, Zenon
<1>4. \A k : Announces(over, k)
  BY Zenon DEF Announces
<1>5. over \in Notices
  BY Zenon DEF Notices, Kinds
<1>6. CASE reader.open /\ n < QueueLimit
  <2>1. notices' = Append(notices, notice)
    BY <1>6, Zenon DEF Notify
  <2>2. notices' \in Seq(Notices)
    BY <1>1, <2>1, AppendProperties, Zenon
  <2> QED
    BY <1>3, <2>1, <2>2, Zenon
<1>7. CASE reader.open /\ ~(n < QueueLimit)
  <2>1. n \in 1 .. n
    BY <1>1, <1>7 DEF ConfigFileConstants
  <2>2. \/ notices' = notices /\ notices[n] = over
        \/ notices' = Append(notices, over)
    BY <1>7, Zenon DEF Notify
  <2>3. CASE notices' = notices /\ notices[n] = over
    BY <1>1, <1>4, <2>1, <2>3, Zenon DEF Announced
  <2>4. CASE notices' = Append(notices, over)
    <3>1. notices' \in Seq(Notices)
      BY <1>1, <1>5, <2>4, AppendProperties, Zenon
    <3> HIDE DEF over
    <3> QED
      BY <1>3, <1>4, <1>5, <2>4, <3>1, Zenon
  <2> QED
    BY <2>2, <2>3, <2>4, Zenon
<1> QED
  BY <1>2, <1>6, <1>7, Zenon

\* A leaf changes: whoever compares with it has a notification to come.
LEMMA LeafStep ==
  ASSUME ConfigFileConstants, FileInv, NEW k \in Keys, NEW value \in Values \cup Faults \cup {Missing},
         LeafChanges(k, value), WritersOK', UNCHANGED <<pinned, loop, reader, subs>>
  PROVE  FileInv'
<1> DEFINE now == [value |-> value, version |-> source[k].version + 1]
<1>1. source \in [Keys -> States] /\ source[k].version \in Nat
  BY Zenon DEF FileInv, States
<1>2. source' = [source EXCEPT ![k] = now]
  BY Zenon DEF LeafChanges
<1>3. now \in States /\ now.version = source[k].version + 1
  BY <1>1 DEF States
<1> HIDE DEF now
<1>4. /\ source' \in [Keys -> States] /\ source'[k] = now
      /\ \A j \in Keys \ {k} : source'[j] = source[j]
  BY <1>1, <1>2, <1>3, Zenon
<1>5. ASSUME NEW j \in Keys
      PROVE  source[j].version \in Nat /\ source'[j].version \in Nat /\ Seen(source[j], source'[j])
  <2>1. source[j].version \in Nat /\ source'[j].version \in Nat
    BY <1>1, <1>4, Zenon DEF States
  <2>2. CASE j = k
    BY <1>1, <1>3, <1>4, <2>1, <2>2 DEF Seen
  <2>3. CASE j # k
    BY <1>4, <2>1, <2>3 DEF Seen
  <2> QED
    BY <2>1, <2>2, <2>3, Zenon
<1>6. ASSUME NEW s \in Subs
      PROVE  SubOK(subs'[s], source')
  BY <1>5, SourceMovesOK, Zenon DEF FileInv
<1>7. PICK notice \in Notices : Notify(notice) /\ Announces(notice, k)
  BY Zenon DEF LeafChanges, ConfigFileConstants, Notices, Kinds, Announces
<1>8. /\ notices' \in Seq(Notices)
      /\ reader.open => \A j \in Keys : Announced(notices, j) \/ Announces(notice, j)
                                          => Announced(notices', j)
  BY <1>7, NotifyOK, Zenon
<1>9. ASSUME NEW s \in Subs, subs'[s].registered
      PROVE  Accounted(subs'[s], source', notices', loop')
  <2>1. /\ reader.open /\ subs[s].key \in Keys /\ Accounted(subs[s], source, notices, loop)
    BY <1>9, RegisteredFacts, Zenon
  <2>2. subs' = subs /\ loop' = loop
    BY Zenon
  <2>3. CASE subs[s].key = k
    BY <1>7, <1>8, <2>1, <2>2, <2>3, Zenon DEF Accounted
  <2>4. CASE subs[s].key # k
    <3>1. source'[subs[s].key] = source[subs[s].key]
      BY <1>4, <2>1, <2>4, Zenon
    <3> QED
      BY <1>8, <2>1, <2>2, <3>1, Zenon DEF Accounted
  <2> QED
    BY <2>3, <2>4, Zenon
<1>10. ReaderOK'
  BY Zenon DEF FileInv, ReaderOK, stopped, Registered
<1>11. NothingIsLost'
  BY <1>9, LostIsAccountedNext, Zenon
<1> QED
  BY <1>4, <1>6, <1>8, <1>10, <1>11, Zenon DEF FileInv

\* A publisher moves and nothing else does.
LEMMA WriterStep ==
  ASSUME FileInv, WritersOK', UNCHANGED <<source, pinned, notices, loop, reader, subs>>
  PROVE  FileInv'
<1>1. ReaderOK'
  BY Zenon DEF FileInv, ReaderOK, stopped, Registered
<1>2. NothingIsLost'
  BY LostIsAccounted, LostIsAccountedNext, Zenon DEF FileInv
<1> QED
  BY <1>1, <1>2, Zenon DEF FileInv

\* A publisher moves to x.
LEMMA WriterMoves ==
  ASSUME FileInv, NEW w \in Publishers, NEW x \in Writers, MoveWriter(w, x),
         x.pc # "idle" => x.key \in Keys, x.pc = "open" => x.value \in Values,
         x.pc = "written" => x.leaf \in Values
  PROVE  WritersOK'
<1>1. writers \in [Publishers -> Writers] /\ writers' = [writers EXCEPT ![w] = x]
  BY Zenon DEF FileInv, WritersOK, MoveWriter
<1>2. writers' \in [Publishers -> Writers]
  BY <1>1, Zenon
<1>3. ASSUME NEW v \in Publishers
      PROVE  /\ writers'[v].pc # "idle" => writers'[v].key \in Keys
             /\ writers'[v].pc = "open" => writers'[v].value \in Values
             /\ writers'[v].pc = "written" => writers'[v].leaf \in Values
  <2>1. CASE v = w
    BY <1>1, <2>1, Zenon
  <2>2. CASE v # w
    BY <1>1, <2>2, Zenon DEF FileInv, WritersOK
  <2> QED
    BY <2>1, <2>2, Zenon
<1> QED
  BY <1>2, <1>3, Zenon DEF WritersOK

\* An idle publisher.
LEMMA IdleWriterTyped == IdleWriter \in Writers /\ IdleWriter.pc = "idle"
  BY Zenon DEF IdleWriter, Writers, Flags

\* Steps of a publisher on its temporary leaf.
LEMMA PublisherStep ==
  ASSUME ConfigFileConstants, FileInv, NEW w \in Publishers, NEW k, NEW v,
         \/ k \in Keys /\ v \in Values /\ Publish(w, k, v)
         \/ k \in Keys /\ Delete(w, k)
         \/ WriteTemporary(w) \/ Abandon(w) \/ ClosePublisher(w)
  PROVE  FileInv'
<1> DEFINE x == writers[w]
           yes == TRUE
<1>0. x \in Writers
  BY Zenon DEF FileInv, WritersOK
<1>2. yes \in Flags
  BY Zenon DEF Flags
<1>3. CASE k \in Keys /\ v \in Values /\ Publish(w, k, v)
  <2> DEFINE y == [x EXCEPT !.pc = "open", !.key = k, !.value = v, !.leaf = Partial]
  <2>1. y \in Writers /\ y.pc = "open" /\ y.key = k /\ y.value = v
    BY <1>0, <1>3, Zenon DEF Writers
  <2>2. MoveWriter(w, y) /\ UNCHANGED <<source, pinned, notices, loop, reader, subs>>
    BY <1>3, Zenon DEF Publish
  <2> HIDE DEF y
  <2> QED
    BY <1>3, <2>1, <2>2, WriterMoves, WriterStep, Zenon
<1>4. CASE k \in Keys /\ Delete(w, k)
  <2> DEFINE y == [x EXCEPT !.pc = "remove", !.key = k]
  <2>1. y \in Writers /\ y.pc = "remove" /\ y.key = k
    BY <1>0, <1>4, Zenon DEF Writers
  <2>2. MoveWriter(w, y) /\ UNCHANGED <<source, pinned, notices, loop, reader, subs>>
    BY <1>4, Zenon DEF Delete
  <2> HIDE DEF y
  <2> QED
    BY <1>4, <2>1, <2>2, WriterMoves, WriterStep, Zenon
<1>5. CASE WriteTemporary(w)
  <2> DEFINE y == [x EXCEPT !.pc = "written", !.leaf = x.value]
  <2>0. x.pc = "open" /\ x.value \in Values /\ x.key \in Keys
    BY <1>5, Zenon DEF WriteTemporary, FileInv, WritersOK
  <2>1. y \in Writers /\ y.pc = "written" /\ y.key = x.key /\ y.leaf = x.value
    BY <1>0, <2>0, Zenon DEF Writers
  <2>2. MoveWriter(w, y) /\ UNCHANGED <<source, pinned, notices, loop, reader, subs>>
    BY <1>5, Zenon DEF WriteTemporary
  <2> HIDE DEF y
  <2> QED
    BY <2>0, <2>1, <2>2, WriterMoves, WriterStep, Zenon
<1>6. CASE Abandon(w)
  BY <1>6, IdleWriterTyped, WriterMoves, WriterStep, Zenon DEF Abandon
<1>7. CASE ClosePublisher(w)
  <2> DEFINE y == [x EXCEPT !.closed = yes]
  <2>0. x.pc = "idle"
    BY <1>7, Zenon DEF ClosePublisher
  <2>1. y \in Writers /\ y.pc = "idle"
    BY <1>0, <1>2, <2>0, Zenon DEF Writers
  <2>2. MoveWriter(w, y) /\ UNCHANGED <<source, pinned, notices, loop, reader, subs>>
    BY <1>7, Zenon DEF ClosePublisher
  <2> HIDE DEF y
  <2> QED
    BY <2>1, <2>2, WriterMoves, WriterStep, Zenon
<1> QED
  BY <1>3, <1>4, <1>5, <1>6, <1>7, Zenon

\* Steps that change a leaf.
LEMMA DirectoryStep ==
  ASSUME ConfigFileConstants, FileInv,
         \/ \E k \in Keys : OutsideChange(k)
         \/ \E w \in Publishers : Commit(w) \/ RemoveLeaf(w)
  PROVE  FileInv'
<1>1. ASSUME NEW k \in Keys, OutsideChange(k)
      PROVE  FileInv'
  <2>1. PICK value \in Values \cup Faults \cup {Missing} : LeafChanges(k, value)
    BY <1>1, Zenon DEF OutsideChange
  <2>2. WritersOK' /\ UNCHANGED <<pinned, loop, reader, subs>>
    BY <1>1, Zenon DEF OutsideChange, FileInv, WritersOK
  <2> QED
    BY <2>1, <2>2, LeafStep, Zenon
<1>2. ASSUME NEW w \in Publishers, Commit(w)
      PROVE  FileInv'
  <2>1. writers[w].key \in Keys /\ writers[w].leaf \in Values
    BY <1>2, Zenon DEF Commit, FileInv, WritersOK
  <2>2. /\ LeafChanges(writers[w].key, writers[w].leaf) /\ MoveWriter(w, IdleWriter)
        /\ UNCHANGED <<pinned, loop, reader, subs>>
    BY <1>2, Zenon DEF Commit
  <2>3. WritersOK'
    BY <2>2, IdleWriterTyped, WriterMoves, Zenon
  <2> QED
    BY <2>1, <2>2, <2>3, LeafStep, Zenon
<1>3. ASSUME NEW w \in Publishers, RemoveLeaf(w)
      PROVE  FileInv'
  <2>1. writers[w].key \in Keys
    BY <1>3, Zenon DEF RemoveLeaf, FileInv, WritersOK
  <2>2. /\ LeafChanges(writers[w].key, Missing) \/ UNCHANGED <<source, notices>>
        /\ MoveWriter(w, IdleWriter) /\ UNCHANGED <<pinned, loop, reader, subs>>
    BY <1>3, Zenon DEF RemoveLeaf
  <2>3. WritersOK'
    BY <2>2, IdleWriterTyped, WriterMoves, Zenon
  <2>4. CASE LeafChanges(writers[w].key, Missing)
    BY <2>1, <2>2, <2>3, <2>4, LeafStep, Zenon
  <2>5. CASE UNCHANGED <<source, notices>>
    BY <2>2, <2>3, <2>5, WriterStep, Zenon
  <2> QED
    BY <2>2, <2>4, <2>5, Zenon
<1> QED
  BY <1>1, <1>2, <1>3, Zenon

\* One subscription becomes y: in the table it is as it was, or it is up to date.
LEMMA SubStep ==
  ASSUME FileInv, NEW s \in Subs, NEW y, SubOK(y, source), subs' = [subs EXCEPT ![s] = y],
         UNCHANGED <<source, pinned, writers, notices, loop, reader>>,
         y.registered =>
           \/ ~stopped /\ Same(y, source[y.key])
           \/ subs[s].registered /\ y.key = subs[s].key /\ y.current = subs[s].current
  PROVE  FileInv'
<1>1. subs \in [Subs -> Subscriptions] /\ y \in Subscriptions
  BY Zenon DEF FileInv, SubOK
<1>2. /\ subs' \in [Subs -> Subscriptions] /\ subs'[s] = y
      /\ \A q \in Subs \ {s} : subs'[q] = subs[q]
  BY <1>1, Zenon
<1>3. y.registered => ~stopped /\ Accounted(y, source, notices, loop)
  <2>1. CASE y.registered /\ ~stopped /\ Same(y, source[y.key])
    BY <2>1, Zenon DEF Accounted
  <2>2. CASE subs[s].registered /\ y.key = subs[s].key /\ y.current = subs[s].current
    <3>1. ~stopped /\ Accounted(subs[s], source, notices, loop)
      BY <2>2, RegisteredFacts, Zenon
    <3> QED
      BY <2>2, <3>1, Zenon DEF Accounted, Same
  <2> QED
    BY <2>1, <2>2, Zenon
<1>4. \A q \in Subs : SubOK(subs'[q], source')
  BY <1>2, Zenon DEF FileInv
<1>5. ASSUME NEW q \in Subs, subs'[q].registered
      PROVE  ~stopped /\ Accounted(subs'[q], source', notices', loop')
  <2>1. CASE q = s
    BY <1>2, <1>3, <1>5, <2>1, Zenon
  <2>2. CASE q # s
    <3>1. subs'[q] = subs[q] /\ subs[q].registered
      BY <1>2, <1>5, <2>2, Zenon
    <3>2. ~stopped /\ Accounted(subs[q], source, notices, loop)
      BY <3>1, RegisteredFacts, Zenon
    <3> QED
      BY <3>1, <3>2, Zenon
  <2> QED
    BY <2>1, <2>2, Zenon
<1>6. NothingIsLost'
  BY <1>5, LostIsAccountedNext, Zenon
<1>7. ReaderOK'
  <2>1. stopped => Registered' = {}
    BY <1>5, Zenon DEF Registered
  <2> QED
    BY <2>1, Zenon DEF FileInv, ReaderOK, stopped
<1>8. WritersOK'
  BY Zenon DEF FileInv, WritersOK
<1> QED
  BY <1>2, <1>4, <1>6, <1>7, <1>8, Zenon DEF FileInv

\* Observe, Next and Close of a subscription.
LEMMA CallerStep ==
  ASSUME ConfigFileConstants, FileInv, NEW s \in Subs, NEW k,
         \/ k \in Keys /\ Observe(s, k)
         \/ ObserveReturns(s) \/ CloseSubscription(s) \/ Next_(s)
  PROVE  FileInv'
<1> DEFINE x == subs[s]
           closed == "subscription_closed"
<1>1. SubOK(x, source) /\ subs \in [Subs -> Subscriptions]
  BY Zenon DEF FileInv
<1>2. CASE k \in Keys /\ Observe(s, k)
  <2>1. x.phase = "none" /\ UNCHANGED <<source, pinned, writers, notices, loop, reader>>
    BY <1>2, Zenon DEF Observe
  <2>2. CASE subs' = [subs EXCEPT ![s].phase = "refused"]
    <3> DEFINE y == [x EXCEPT !.phase = "refused"]
    <3>1. subs' = [subs EXCEPT ![s] = y]
      BY <2>2, Zenon
    <3>2. SubOK(y, source) /\ y.registered = x.registered /\ y.key = x.key /\ y.current = x.current
      BY <1>1, <2>1, PhaseOK
    <3> HIDE DEF y
    <3> QED
      BY <2>1, <3>1, <3>2, SubStep, Zenon
  <2>3. CASE ~stopped /\ readState(k) /\ subs' = [subs EXCEPT ![s] = Subscribed(k, source[k])]
    <3> DEFINE y == Subscribed(k, source[k])
    <3>1. source[k] \in Readable /\ Seen(source[k], source[k])
      <4>1. source[k] \in States
        BY <1>2, Zenon DEF FileInv
      <4> QED
        BY <2>3, <4>1 DEF readState, States, Readable, Seen
    <3>2. SubOK(y, source)
      BY <1>2, <3>1, SubscribedOK, Zenon DEF ConfigFileConstants
    <3>3. y.key = k /\ y.current = source[k]
      BY Zenon DEF Subscribed, NoSubscription
    <3>4. Same(y, source[y.key])
      BY <3>3, Zenon DEF Same
    <3> HIDE DEF y
    <3> QED
      BY <2>1, <2>3, <3>2, <3>4, SubStep, Zenon DEF y
  <2> QED
    BY <1>2, <2>2, <2>3, Zenon DEF Observe
<1>3. CASE ObserveReturns(s)
  <2>1. x.phase = "made" /\ UNCHANGED <<source, pinned, writers, notices, loop, reader>>
    BY <1>3, Zenon DEF ObserveReturns
  <2>2. CASE subs' = [subs EXCEPT ![s].phase = "live"]
    <3> DEFINE y == [x EXCEPT !.phase = "live"]
    <3>1. subs' = [subs EXCEPT ![s] = y]
      BY <2>2, Zenon
    <3>2. SubOK(y, source) /\ y.registered = x.registered /\ y.key = x.key /\ y.current = x.current
      BY <1>1, <2>1, PhaseOK
    <3> HIDE DEF y
    <3> QED
      BY <2>1, <3>1, <3>2, SubStep, Zenon
  <2>3. CASE subs' = [subs EXCEPT ![s] = Gone(Terminated(@, closed), "refused")]
    <3> DEFINE z == Terminated(x, closed)
               y == Gone(z, "refused")
    <3>1. SubOK(z, source) /\ z.phase \in Open
      BY <1>1, <2>1, TerminatedOK, Zenon DEF Open
    <3>2. subs' = [subs EXCEPT ![s] = y]
      BY <2>3, Zenon
    <3> HIDE DEF z
    <3>3. SubOK(y, source) /\ y.registered = FALSE
      BY <3>1, GoneOK, Zenon
    <3> HIDE DEF y
    <3> QED
      BY <2>1, <3>2, <3>3, SubStep, Zenon
  <2> QED
    BY <1>3, <2>2, <2>3, Zenon DEF ObserveReturns
<1>4. CASE CloseSubscription(s)
  <2> DEFINE y == Terminated(x, closed)
  <2>1. subs' = [subs EXCEPT ![s] = y] /\ UNCHANGED <<source, pinned, writers, notices, loop, reader>>
    BY <1>4, Zenon DEF CloseSubscription
  <2>2. SubOK(y, source) /\ y.registered = FALSE
    BY <1>1, TerminatedOK, Zenon
  <2> HIDE DEF y
  <2> QED
    BY <2>1, <2>2, SubStep, Zenon
<1>5. CASE Next_(s)
  <2>1. PICK y : subs' = [subs EXCEPT ![s] = y] /\ SubOK(y, source) /\ Keeps(x, y)
    BY <1>1, <1>5, NextOK, Zenon DEF Next_, ConfigFileConstants
  <2> QED
    BY <1>5, <2>1, SubStep, Zenon DEF Next_, Keeps
<1> QED
  BY <1>2, <1>3, <1>4, <1>5, Zenon

\* What a step of the reader has to keep: the directory and the publishers are
\* not its own.
LEMMA ReaderStep ==
  ASSUME FileInv, UNCHANGED <<source, writers>>, notices' \in Seq(Notices), ReaderOK',
         subs' \in [Subs -> Subscriptions], \A s \in Subs : SubOK(subs'[s], source),
         \A s \in Subs : subs'[s].registered => Accounted(subs'[s], source, notices', loop')
  PROVE  FileInv'
<1>1. NothingIsLost'
  BY LostIsAccountedNext, Zenon
<1>2. WritersOK'
  BY Zenon DEF FileInv, WritersOK
<1> QED
  BY <1>1, <1>2, Zenon DEF FileInv

\* A reader without subscriptions.
LEMMA NobodyRegistered ==
  ASSUME FileInv, stopped
  PROVE  \A s \in Subs : ~subs[s].registered
  BY Zenon DEF FileInv, ReaderOK, Registered

\* terminateAll leaves no subscription in the table.
LEMMA TerminateAllOK ==
  ASSUME FileInv, NEW code \in {"reader_closed", "watch_interrupted"}, terminateAll(code)
  PROVE  /\ subs' \in [Subs -> Subscriptions]
         /\ \A s \in Subs : SubOK(subs'[s], source) /\ ~subs'[s].registered
<1>1. ASSUME NEW s \in Subs
      PROVE  SubOK(subs'[s], source) /\ ~subs'[s].registered
  <2>1. SubOK(subs[s], source)
    BY Zenon DEF FileInv
  <2>2. subs'[s] = IF subs[s].registered THEN Terminated(subs[s], code) ELSE subs[s]
    BY Zenon DEF terminateAll
  <2>3. SubOK(Terminated(subs[s], code), source) /\ Terminated(subs[s], code).registered = FALSE
    BY <2>1, TerminatedOK, Zenon
  <2> QED
    BY <2>1, <2>2, <2>3, Zenon
<1>2. DOMAIN subs' = Subs /\ subs' = [s \in Subs |-> subs'[s]]
  BY Zenon DEF terminateAll
<1>3. \A s \in Subs : subs'[s] \in Subscriptions
  BY <1>1, Zenon DEF SubOK
<1> QED
  BY <1>1, <1>2, <1>3, Zenon

\* The reader and the goroutine as records.
LEMMA ReaderFields ==
  ASSUME FileInv, NEW f \in {"closed", "interrupted", "open"}, NEW b \in Flags
  PROVE  /\ [reader EXCEPT ![f] = b] \in [closed : Flags, interrupted : Flags, open : Flags]
         /\ [reader EXCEPT ![f] = b][f] = b
         /\ \A g \in {"closed", "interrupted", "open"} \ {f} : [reader EXCEPT ![f] = b][g] = reader[g]
  BY Zenon DEF FileInv, ReaderOK

\* A goroutine at another point.
LEMMA LoopTyped ==
  ASSUME NEW pc \in {"select", "process", "interrupt", "release", "check", "done"},
         NEW todo \in SUBSET Keys, LoopAt(pc, todo)
  PROVE  /\ loop' \in [pc : {"select", "process", "interrupt", "release", "check", "done"},
                       todo : SUBSET Keys]
         /\ loop'.pc = pc /\ loop'.todo = todo
  BY Zenon DEF LoopAt

\* Close and the interruption, in their two steps each.
LEMMA StopStep ==
  ASSUME FileInv, Close \/ CloseResources \/ interruptAll \/ Release
  PROVE  FileInv'
<1> DEFINE yes == TRUE
           no == FALSE
           Rooms == [closed : Flags, interrupted : Flags, open : Flags]
<1>1. yes \in Flags /\ no \in Flags
  BY Zenon DEF Flags
<1>2. /\ ReaderOK /\ reader \in Rooms /\ notices \in Seq(Notices) /\ subs \in [Subs -> Subscriptions]
      /\ \A s \in Subs : SubOK(subs[s], source)
  BY Zenon DEF FileInv, ReaderOK
<1>3. <<>> \in Seq(Notices) /\ {} \in SUBSET Keys
  BY EmptySeq, Zenon
<1>4. CASE Close
  <2>1. reader' = [reader EXCEPT !["closed"] = yes] /\ terminateAll("reader_closed")
        /\ UNCHANGED <<source, writers, notices, loop>>
    BY <1>4, Zenon DEF Close
  <2>2. reader' \in Rooms /\ reader'.closed = yes /\ reader'.interrupted = reader.interrupted
    BY <1>1, <2>1, ReaderFields, Zenon
  <2>3. subs' \in [Subs -> Subscriptions] /\ \A s \in Subs : SubOK(subs'[s], source) /\ ~subs'[s].registered
    BY <2>1, TerminateAllOK, Zenon
  <2>4. ReaderOK'
    BY <1>2, <2>1, <2>2, <2>3, Zenon DEF ReaderOK, stopped, Registered
  <2> QED
    BY <1>2, <2>1, <2>3, <2>4, ReaderStep, Zenon
<1>5. CASE CloseResources
  <2>1. /\ reader.closed /\ reader' = [reader EXCEPT !["open"] = no] /\ notices' = <<>>
        /\ UNCHANGED <<source, writers, loop, subs>>
    BY <1>5, Zenon DEF CloseResources
  <2>2. reader' \in Rooms /\ reader'.closed = reader.closed /\ reader'.interrupted = reader.interrupted
    BY <1>1, <2>1, ReaderFields, Zenon
  <2>3. stopped /\ \A s \in Subs : ~subs[s].registered
    BY <2>1, NobodyRegistered, Zenon DEF stopped
  <2>4. ReaderOK'
    BY <1>2, <2>1, <2>2, <2>3, Zenon DEF ReaderOK, stopped, Registered
  <2> QED
    BY <1>2, <1>3, <2>1, <2>3, <2>4, ReaderStep, Zenon
<1>6. CASE Release
  <2>1. /\ loop.pc = "release" /\ reader' = [reader EXCEPT !["open"] = no] /\ notices' = <<>>
        /\ LoopAt("check", {}) /\ UNCHANGED <<source, writers, subs>>
    BY <1>6, Zenon DEF Release
  <2>2. reader' \in Rooms /\ reader'.closed = reader.closed /\ reader'.interrupted = reader.interrupted
    BY <1>1, <2>1, ReaderFields, Zenon
  <2>3. reader.interrupted /\ stopped /\ \A s \in Subs : ~subs[s].registered
    BY <1>2, <2>1, NobodyRegistered, Zenon DEF stopped, ReaderOK
  <2>4. ReaderOK'
    BY <1>2, <1>3, <2>1, <2>2, <2>3, LoopTyped, Zenon DEF ReaderOK, stopped, Registered
  <2> QED
    BY <1>2, <1>3, <2>1, <2>3, <2>4, ReaderStep, Zenon
<1>7. CASE interruptAll /\ stopped
  <2>1. LoopAt("check", {}) /\ UNCHANGED <<source, writers, notices, reader, subs>>
    BY <1>7, Zenon DEF interruptAll
  <2>2. \A s \in Subs : ~subs[s].registered
    BY <1>7, NobodyRegistered, Zenon
  <2>3. ReaderOK'
    BY <1>2, <1>3, <2>1, <2>2, LoopTyped, Zenon DEF ReaderOK, stopped, Registered
  <2> QED
    BY <1>2, <2>1, <2>2, <2>3, ReaderStep, Zenon
<1>8. CASE interruptAll /\ ~stopped
  <2>1. /\ reader' = [reader EXCEPT !["interrupted"] = yes] /\ terminateAll("watch_interrupted")
        /\ LoopAt("release", {}) /\ UNCHANGED <<source, writers, notices>>
    BY <1>8, Zenon DEF interruptAll
  <2>2. reader' \in Rooms /\ reader'.interrupted = yes
    BY <1>1, <2>1, ReaderFields, Zenon
  <2>3. subs' \in [Subs -> Subscriptions] /\ \A s \in Subs : SubOK(subs'[s], source) /\ ~subs'[s].registered
    BY <2>1, TerminateAllOK, Zenon
  <2>4. ReaderOK'
    BY <1>2, <1>3, <2>1, <2>2, <2>3, LoopTyped, Zenon DEF ReaderOK, stopped, Registered
  <2> QED
    BY <1>2, <2>1, <2>3, <2>4, ReaderStep, Zenon
<1> QED
  BY <1>4, <1>5, <1>6, <1>7, <1>8, Zenon

\* The goroutine is back at its select, or done; the directory is moved.
LEMMA IdleStep ==
  ASSUME ConfigFileConstants, FileInv, Check \/ ReceiveClosed \/ ReplaceRoot
  PROVE  FileInv'
<1>1. /\ ReaderOK /\ notices \in Seq(Notices) /\ subs \in [Subs -> Subscriptions]
      /\ \A s \in Subs : SubOK(subs[s], source)
  BY Zenon DEF FileInv
<1>2. {} \in SUBSET Keys
  BY Zenon
<1>3. CASE Check
  <2>1. /\ loop.pc = "check" /\ UNCHANGED <<source, writers, notices, reader, subs>>
        /\ LoopAt("done", {}) \/ LoopAt("select", {})
    BY <1>3, Zenon DEF Check
  <2>2. ReaderOK'
    BY <1>1, <1>2, <2>1, LoopTyped, Zenon DEF ReaderOK, stopped, Registered
  <2>3. ASSUME NEW s \in Subs, subs'[s].registered
        PROVE  Accounted(subs'[s], source, notices', loop')
    BY <2>1, <2>3, RegisteredFacts, Zenon DEF Accounted
  <2> QED
    BY <1>1, <2>1, <2>2, <2>3, ReaderStep, Zenon
<1>4. CASE ReceiveClosed
  <2>1. ~reader.open /\ LoopAt("done", {}) /\ UNCHANGED <<source, writers, notices, reader, subs>>
    BY <1>4, Zenon DEF ReceiveClosed
  <2>2. \A s \in Subs : ~subs[s].registered
    BY <1>1, <2>1, NobodyRegistered, Zenon DEF ReaderOK
  <2>3. ReaderOK'
    BY <1>1, <1>2, <2>1, <2>2, LoopTyped, Zenon DEF ReaderOK, stopped, Registered
  <2> QED
    BY <1>1, <2>1, <2>2, <2>3, ReaderStep, Zenon
<1>5. CASE ReplaceRoot
  <2>1. Notify("gone") /\ UNCHANGED <<source, writers, loop, reader, subs>>
    BY <1>5, Zenon DEF ReplaceRoot
  <2>2. "gone" \in Notices
    BY Zenon DEF Notices, Kinds
  <2>3. /\ notices' \in Seq(Notices)
        /\ reader.open => \A k \in Keys : Announced(notices, k) => Announced(notices', k)
    BY <2>1, <2>2, NotifyOK, Zenon
  <2>4. ReaderOK'
    BY <1>1, <2>1, Zenon DEF ReaderOK, stopped, Registered
  <2>5. ASSUME NEW s \in Subs, subs'[s].registered
        PROVE  Accounted(subs'[s], source, notices', loop')
    BY <2>1, <2>3, <2>5, RegisteredFacts, Zenon DEF Accounted
  <2> QED
    BY <1>1, <2>1, <2>3, <2>4, <2>5, ReaderStep, Zenon
<1> QED
  BY <1>3, <1>4, <1>5, Zenon

\* A notification is received: the goroutine goes on to the keys it is about,
\* or to the interruption.
LEMMA ReceiveStep ==
  ASSUME ConfigFileConstants, FileInv, Receive
  PROVE  FileInv'
<1> DEFINE h == Head(notices)
           n == Len(notices)
<1>1. /\ loop.pc = "select" /\ notices # <<>> /\ Handle(h) /\ notices' = Tail(notices)
      /\ UNCHANGED <<source, pinned, writers, reader, subs>>
  BY Zenon DEF Receive
<1>2. /\ ReaderOK /\ notices \in Seq(Notices) /\ subs \in [Subs -> Subscriptions]
      /\ \A s \in Subs : SubOK(subs[s], source)
  BY Zenon DEF FileInv
<1>3. /\ n \in Nat /\ n # 0 /\ h = notices[1] /\ h \in Notices /\ Tail(notices) \in Seq(Notices)
      /\ Len(notices') = n - 1 /\ \A i \in 1 .. n - 1 : notices'[i] = notices[i + 1]
  BY <1>1, <1>2, EmptySeq, HeadTailProperties
<1> HIDE DEF h, n
<1>4. Observed \in SUBSET Keys
  <2>1. \A s \in Registered : subs[s].key \in Keys
    BY RegisteredFacts, Zenon DEF Registered
  <2> QED
    BY <2>1, Zenon DEF Observed
<1>5. /\ h \in Keys => LoopAt("process", {h})
      /\ h \in {"write", "enoent"} => LoopAt("process", Observed) \/ LoopAt("interrupt", {})
      /\ h \in {"gone", "overflow"} => LoopAt("interrupt", {})
  BY <1>1, <1>3, Zenon DEF Handle, ConfigFileConstants, Notices, Kinds
<1>6. /\ loop' \in [pc : {"select", "process", "interrupt", "release", "check", "done"},
                    todo : SUBSET Keys]
      /\ loop'.pc # "release"
      /\ h \in Keys => loop'.pc = "process" /\ h \in loop'.todo
      /\ h \in Kinds => loop'.pc = "interrupt" \/ (loop'.pc = "process" /\ loop'.todo = Observed)
  <2>1. CASE h \in Keys
    <3>1. h \notin Kinds /\ {h} \in SUBSET Keys
      BY <2>1, Zenon DEF ConfigFileConstants, Kinds
    <3> QED
      BY <1>5, <2>1, <3>1, LoopTyped
  <2>2. CASE h \in Kinds
    <3>1. h \notin Keys /\ {} \in SUBSET Keys
      BY <2>2, Zenon DEF ConfigFileConstants, Kinds
    <3>2. CASE LoopAt("process", Observed)
      BY <1>4, <3>1, <3>2, LoopTyped, Zenon
    <3>3. CASE LoopAt("interrupt", {})
      BY <3>1, <3>3, LoopTyped, Zenon
    <3> QED
      BY <1>5, <2>2, <3>2, <3>3, Zenon DEF Kinds
  <2> QED
    BY <1>3, <2>1, <2>2, Zenon DEF Notices
<1>7. ReaderOK'
  BY <1>1, <1>2, <1>6, Zenon DEF ReaderOK, stopped, Registered
<1>8. ASSUME NEW s \in Subs, subs'[s].registered
      PROVE  Accounted(subs'[s], source, notices', loop')
  <2> DEFINE x == subs[s]
  <2>1. subs'[s] = x /\ x.registered /\ s \in Registered
    BY <1>1, <1>8, Zenon DEF Registered
  <2>2. Accounted(x, source, notices, loop)
    BY <2>1, RegisteredFacts, Zenon
  <2>3. CASE Announced(notices, x.key)
    <3>1. PICK i \in 1 .. n : Announces(notices[i], x.key)
      BY <2>3, Zenon DEF Announced, n
    <3>2. CASE i = 1
      <4>1. h = x.key \/ h \in Kinds
        BY <1>3, <3>1, <3>2, Zenon DEF Announces, Kinds
      <4>2. x.key \in Keys /\ x.key \in Observed
        BY <2>1, RegisteredFacts, Zenon DEF Observed
      <4> QED
        BY <1>6, <2>1, <4>1, <4>2 DEF Accounted
    <3>3. CASE i # 1
      <4>1. i - 1 \in 1 .. n - 1 /\ (i - 1) + 1 = i
        BY <1>3, <3>3
      <4>2. notices'[i - 1] = notices[i] /\ i - 1 \in 1 .. Len(notices')
        BY <1>3, <4>1, Zenon
      <4>3. Announced(notices', x.key)
        BY <3>1, <4>2, Zenon DEF Announced
      <4> QED
        BY <2>1, <4>3, Zenon DEF Accounted
    <3> QED
      BY <3>2, <3>3, Zenon
  <2> QED
    BY <1>1, <2>1, <2>2, <2>3, Zenon DEF Accounted
<1> QED
  BY <1>1, <1>2, <1>3, <1>7, <1>8, ReaderStep, Zenon

\* The event of the key's state goes to some that are behind and can take it.
LEMMA EnqueueOK ==
  ASSUME ConfigFileConstants, FileInv, NEW k \in Keys, readState(k),
         NEW takers \in SUBSET CanTake(k), Enqueue(takers, k)
  PROVE  /\ subs' \in [Subs -> Subscriptions] /\ \A s \in Subs : SubOK(subs'[s], source)
         /\ \A s \in Subs : subs'[s].registered = subs[s].registered /\ subs'[s].key = subs[s].key
         /\ \A s \in takers : subs'[s].current = source[k] /\ subs[s].key = k
         /\ \A s \in Subs \ takers : subs'[s] = subs[s]
<1>1. \A s \in Subs : subs'[s] = IF s \in takers THEN Enqueued(subs[s], source[k]) ELSE subs[s]
  BY Zenon DEF Enqueue
<1>2. source[k] \in Readable
  <2>1. source[k] \in States
    BY Zenon DEF FileInv
  <2> QED
    BY <2>1, Zenon DEF readState, States, Readable
<1>3. ASSUME NEW s \in takers
      PROVE  /\ s \in Subs /\ subs[s].key = k /\ SubOK(Enqueued(subs[s], source[k]), source)
             /\ Enqueued(subs[s], source[k]).current = source[k]
             /\ Enqueued(subs[s], source[k]).registered = subs[s].registered
             /\ Enqueued(subs[s], source[k]).key = subs[s].key
  <2> DEFINE x == subs[s]
  <2>1. s \in Subs /\ x.registered /\ x.key = k /\ ~Same(x, source[k]) /\ Deliverable(x)
    BY <1>3, Zenon DEF CanTake, Behind, Holders, Registered
  <2>2. SubOK(x, source) /\ x.phase \in Open
    BY <2>1, RegisteredFacts, Zenon DEF FileInv
  <2>3. Seen(x.current, source[k]) /\ Seen(source[k], source[x.key]) /\ x \in Subscriptions
    BY <1>2, <2>1, <2>2, SeenNow, Zenon DEF SubOK
  <2>4. SubOK(Enqueued(x, source[k]), source)
    BY <1>2, <2>1, <2>2, <2>3, EnqueuedOK, Zenon DEF ConfigFileConstants
  <2>5. /\ Enqueued(x, source[k]).current = source[k]
        /\ Enqueued(x, source[k]).registered = x.registered
        /\ Enqueued(x, source[k]).key = x.key
    BY <2>3, Zenon DEF Enqueued, Subscriptions
  <2> QED
    BY <2>1, <2>4, <2>5, Zenon
<1>4. \A s \in Subs : SubOK(subs[s], source)
  BY Zenon DEF FileInv
<1>5. \A s \in Subs : SubOK(subs'[s], source)
  BY <1>1, <1>3, <1>4, Zenon
<1>6. subs' \in [Subs -> Subscriptions]
  <2>1. \A s \in Subs : subs'[s] \in Subscriptions
    BY <1>5, Zenon DEF SubOK
  <2>2. subs' = [s \in Subs |-> IF s \in takers THEN Enqueued(subs[s], source[k]) ELSE subs[s]]
    BY Zenon DEF Enqueue
  <2> QED
    BY <2>1, <2>2, Zenon
<1> QED
  BY <1>1, <1>3, <1>5, <1>6, Zenon

\* The goroutine handles one key.
LEMMA KeyStep ==
  ASSUME ConfigFileConstants, FileInv, loop.pc = "process", NEW k \in loop.todo, processKeyChange(k),
         UNCHANGED <<source, pinned, writers, notices, reader>>
  PROVE  FileInv'
<1> DEFINE rest == loop.todo \ {k}
           Kept(s) == subs'[s].registered = subs[s].registered /\ subs'[s].key = subs[s].key
<1>1. /\ ReaderOK /\ notices \in Seq(Notices) /\ subs \in [Subs -> Subscriptions]
      /\ \A s \in Subs : SubOK(subs[s], source)
  BY Zenon DEF FileInv
<1>2. k \in Keys /\ rest \in SUBSET Keys /\ {} \in SUBSET Keys
  BY <1>1, Zenon DEF ReaderOK
<1>3. /\ UNCHANGED stopped
      /\ (\A s \in Subs : subs'[s].registered => subs[s].registered) /\ stopped => Registered' = {}
  BY NobodyRegistered, Zenon DEF stopped, Registered
\* A subscription of another key, or one that has the state, is accounted for.
<1>4. ASSUME NEW s \in Subs, subs'[s].registered, subs'[s] = subs[s], LoopAt("process", rest),
             subs[s].key # k \/ Same(subs[s], source[subs[s].key])
      PROVE  Accounted(subs'[s], source, notices', loop')
  <2>1. Accounted(subs[s], source, notices, loop)
    BY <1>4, RegisteredFacts, Zenon
  <2>2. loop'.pc = "process" /\ loop'.todo = rest
    BY <1>2, <1>4, LoopTyped, Zenon
  <2> QED
    BY <1>4, <2>1, <2>2, Zenon DEF Accounted
<1>5. CASE (stopped \/ Holders(k) = {}) /\ UNCHANGED subs /\ LoopAt("process", rest)
  <2>1. ReaderOK'
    BY <1>1, <1>2, <1>3, <1>5, LoopTyped, Zenon DEF ReaderOK, stopped
  <2>2. ASSUME NEW s \in Subs, subs'[s].registered
        PROVE  subs[s].key # k
    BY <1>5, <2>2, RegisteredFacts, Zenon DEF Holders, Registered
  <2> QED
    BY <1>1, <1>4, <1>5, <2>1, <2>2, ReaderStep, Zenon
<1>6. CASE /\ subs' = [s \in Subs |-> IF s \in Holders(k) THEN Terminated(subs[s], "watch_interrupted")
                                      ELSE subs[s]]
           /\ LoopAt("process", rest)
  <2>1. \A s \in Subs : subs'[s] = IF s \in Holders(k) THEN Terminated(subs[s], "watch_interrupted")
                                   ELSE subs[s]
    BY <1>6, Zenon
  <2>2. \A s \in Subs : /\ SubOK(Terminated(subs[s], "watch_interrupted"), source)
                        /\ Terminated(subs[s], "watch_interrupted").registered = FALSE
    BY <1>1, TerminatedOK, Zenon
  <2>3. \A s \in Subs : SubOK(subs'[s], source) /\ subs'[s] \in Subscriptions
    BY <1>1, <2>1, <2>2, Zenon DEF SubOK
  <2>4. subs' \in [Subs -> Subscriptions]
    BY <1>6, <2>3, Zenon
  <2>5. ASSUME NEW s \in Subs, subs'[s].registered
        PROVE  subs'[s] = subs[s] /\ subs[s].registered /\ subs[s].key # k
    <3>1. s \notin Holders(k) /\ subs'[s] = subs[s]
      BY <2>1, <2>2, <2>5, Zenon
    <3> QED
      BY <2>5, <3>1, Zenon DEF Holders, Registered
  <2>6. ReaderOK'
    BY <1>1, <1>2, <1>3, <1>6, <2>5, LoopTyped, Zenon DEF ReaderOK, stopped
  <2> QED
    BY <1>1, <1>4, <1>6, <2>3, <2>4, <2>5, <2>6, ReaderStep
<1>7. CASE /\ readState(k) /\ CanTake(k) = Behind(k) /\ Enqueue(Behind(k), k)
           /\ LoopAt("process", rest)
  <2>1. /\ subs' \in [Subs -> Subscriptions] /\ \A s \in Subs : SubOK(subs'[s], source) /\ Kept(s)
        /\ \A s \in Behind(k) : subs'[s].current = source[k] /\ subs[s].key = k
        /\ \A s \in Subs \ Behind(k) : subs'[s] = subs[s]
    <3>1. Behind(k) \in SUBSET CanTake(k)
      BY <1>7, Zenon
    <3> QED
      BY <1>2, <1>7, <3>1, EnqueueOK, Zenon
  <2>2. ReaderOK'
    BY <1>1, <1>2, <1>3, <1>7, <2>1, LoopTyped, Zenon DEF ReaderOK, stopped
  <2>3. ASSUME NEW s \in Subs, subs'[s].registered
        PROVE  Accounted(subs'[s], source, notices', loop')
    <3>1. CASE s \in Behind(k)
      BY <2>1, <3>1, Zenon DEF Accounted, Same
    <3>2. CASE s \notin Behind(k)
      <4>1. subs[s].registered /\ subs'[s] = subs[s]
        BY <2>1, <2>3, <3>2, Zenon
      <4>2. subs[s].key # k \/ Same(subs[s], source[subs[s].key])
        BY <3>2, <4>1, Zenon DEF Behind, Holders, Registered
      <4> QED
        BY <1>4, <1>7, <2>3, <4>1, <4>2, Zenon
    <3> QED
      BY <3>1, <3>2, Zenon
  <2> QED
    BY <1>1, <2>1, <2>2, <2>3, ReaderStep, Zenon
<1>8. CASE /\ readState(k) /\ \E takers \in SUBSET CanTake(k) : Enqueue(takers, k)
           /\ LoopAt("interrupt", {})
  <2>1. subs' \in [Subs -> Subscriptions] /\ \A s \in Subs : SubOK(subs'[s], source) /\ Kept(s)
    BY <1>2, <1>8, EnqueueOK, Zenon
  <2>2. loop'.pc = "interrupt" /\ ReaderOK'
    BY <1>1, <1>2, <1>3, <1>8, <2>1, LoopTyped, Zenon DEF ReaderOK, stopped
  <2> QED
    BY <1>1, <2>1, <2>2, ReaderStep, Zenon DEF Accounted
<1> QED
  BY <1>5, <1>6, <1>7, <1>8, Zenon DEF processKeyChange

\* The goroutine handles the keys one by one, and looks whether it must stop.
LEMMA ProcessStep ==
  ASSUME ConfigFileConstants, FileInv, Process
  PROVE  FileInv'
<1>1. loop.pc = "process" /\ UNCHANGED <<source, pinned, writers, notices, reader>>
  BY Zenon DEF Process
<1>2. CASE loop.todo = {}
  <2>1. LoopAt("check", {}) /\ UNCHANGED subs
    BY <1>2, Zenon DEF Process
  <2>2. /\ ReaderOK /\ notices \in Seq(Notices) /\ subs \in [Subs -> Subscriptions]
        /\ \A s \in Subs : SubOK(subs[s], source)
    BY Zenon DEF FileInv
  <2>3. {} \in SUBSET Keys
    BY Zenon
  <2>4. ReaderOK'
    BY <1>1, <2>1, <2>2, <2>3, LoopTyped, Zenon DEF ReaderOK, stopped, Registered
  <2>5. ASSUME NEW s \in Subs, subs'[s].registered
        PROVE  Accounted(subs'[s], source, notices', loop')
    <3>1. Accounted(subs[s], source, notices, loop)
      BY <2>1, <2>5, RegisteredFacts, Zenon
    <3> QED
      BY <1>1, <1>2, <2>1, <3>1, Zenon DEF Accounted
  <2> QED
    BY <1>1, <2>1, <2>2, <2>4, <2>5, ReaderStep, Zenon
<1>3. CASE loop.todo # {}
  BY <1>1, <1>3, KeyStep, Zenon DEF Process
<1> QED
  BY <1>2, <1>3, Zenon

\* The reader has just been made, over an empty directory.
LEMMA FileInit ==
  ASSUME ConfigFileConstants, Init
  PROVE  FileInv
<1>1. source \in [Keys -> States]
  BY Zenon DEF Init, States
<1>2. notices \in Seq(Notices)
  BY EmptySeq, Zenon DEF Init
<1>3. WritersOK
  <2>1. \A w \in Publishers : writers[w] = IdleWriter
    BY Zenon DEF Init
  <2>2. writers \in [Publishers -> Writers]
    BY IdleWriterTyped, Zenon DEF Init
  <2> QED
    BY <2>1, <2>2, IdleWriterTyped, Zenon DEF WritersOK
<1>4. \A s \in Subs : subs[s] = NoSubscription
  BY Zenon DEF Init
<1>5. NoSubscription.phase = "none" /\ NoSubscription.registered = FALSE
  BY Zenon DEF NoSubscription
<1>6. SubOK(NoSubscription, source)
  BY <1>5, NoSubscriptionTyped, Zenon DEF SubOK, Open
<1>7. subs \in [Subs -> Subscriptions]
  BY NoSubscriptionTyped, Zenon DEF Init
<1>8. Registered = {}
  BY <1>4, <1>5, Zenon DEF Registered
<1>9. ReaderOK
  <2>1. reader \in [closed : Flags, interrupted : Flags, open : Flags] /\ reader.open = TRUE
    BY Zenon DEF Init, Flags
  <2> QED
    BY <1>8, <2>1, Zenon DEF Init, ReaderOK
<1>10. NothingIsLost
  BY <1>8, Zenon DEF NothingIsLost
<1> QED
  BY <1>1, <1>2, <1>3, <1>4, <1>6, <1>7, <1>9, <1>10 DEF FileInv

\* Every step of the directory, the publishers, the callers and the goroutine.
LEMMA FileNext ==
  ASSUME ConfigFileConstants, FileInv, [Next]_vars
  PROVE  FileInv'
<1>1. CASE UNCHANGED vars
  <2>1. UNCHANGED <<source, pinned, writers, notices, loop, reader, subs>>
    BY <1>1, Zenon DEF vars
  <2>2. ReaderOK' /\ \A s \in Subs : SubOK(subs[s], source)
    BY <2>1, Zenon DEF FileInv, ReaderOK, stopped, Registered
  <2>3. \A s \in Subs : subs'[s].registered => Accounted(subs'[s], source, notices', loop')
    BY <2>1, RegisteredFacts, Zenon
  <2> QED
    BY <2>1, <2>2, <2>3, ReaderStep, Zenon DEF FileInv
<1>2. CASE Next
  <2>1. CASE \/ \E k \in Keys : OutsideChange(k)
             \/ \E w \in Publishers : Commit(w) \/ RemoveLeaf(w)
    BY <2>1, DirectoryStep, Zenon
  <2>2. CASE \/ \E w \in Publishers, k \in Keys : (\E v \in Values : Publish(w, k, v)) \/ Delete(w, k)
             \/ \E w \in Publishers : WriteTemporary(w) \/ Abandon(w) \/ ClosePublisher(w)
    BY <2>2, PublisherStep, Zenon
  <2>3. CASE \/ \E s \in Subs, k \in Keys : Observe(s, k)
             \/ \E s \in Subs : ObserveReturns(s) \/ CloseSubscription(s) \/ Next_(s)
    BY <2>3, CallerStep, Zenon
  <2>4. CASE ReplaceRoot \/ Check \/ ReceiveClosed
    BY <2>4, IdleStep, Zenon
  <2>5. CASE Close \/ CloseResources \/ interruptAll \/ Release
    BY <2>5, StopStep, Zenon
  <2>6. CASE Receive \/ Process
    BY <2>6, ReceiveStep, ProcessStep, Zenon
  <2> QED
    BY <1>2, <2>1, <2>2, <2>3, <2>4, <2>5, <2>6, Zenon DEF Next, watchLoop
<1> QED
  BY <1>1, <1>2, Zenon

-----------------------------------------------------------------------------
(* The file provider: theorems *)

\* The inductive invariant holds in every state of the file provider.
THEOREM FileInvariant == ASSUME ConfigFileConstants PROVE Spec => []FileInv
<1>1. Init => FileInv
  BY FileInit, Zenon
<1>2. FileInv /\ [Next]_vars => FileInv'
  BY FileNext, Zenon
<1> QED
  BY <1>1, <1>2, PTL DEF Spec

\* Whenever a registered subscription's state is not the leaf's, a notification
\* the watch goroutine has still to handle, or the interruption it is about to
\* make, will bring the difference to it or end it: whatever publishers and
\* outsiders do to the directory, and for a notification queue of any size.
THEOREM FileNothingIsLost == ASSUME ConfigFileConstants PROVE Spec => []NothingIsLost
<1>1. FileInv => NothingIsLost
  BY Zenon DEF FileInv
<1> QED
  BY <1>1, FileInvariant, PTL

\* A subscriber of the file provider sees one chain of transitions, in order and
\* without a repeated content, and no content that is half written.
THEOREM FileChainsOnly == ASSUME ConfigFileConstants PROVE Spec => []ChainsOnly
<1>1. ASSUME FileInv, NEW s \in Subs, subs[s].phase \in {"made", "live"}
      PROVE  /\ IsChain(subs[s])
             /\ \A i \in 1 .. Len(Chain(subs[s])) :
                   Chain(subs[s])[i].state.value \in Values \cup {Missing}
  <2>1. SubOK(subs[s], source) /\ subs[s] \in Subscriptions
    BY <1>1, Zenon DEF FileInv, SubOK
  <2>2. /\ Len(subs[s].events) \in Nat /\ Len(Chain(subs[s])) = Len(subs[s].events) + 1
        /\ \A i \in 1 .. Len(subs[s].events) + 1 : Chain(subs[s])[i] \in Transitions
    BY <2>1, SubFields, ChainElements, Zenon
  <2>3. IsChain(subs[s])
    BY <1>1, <2>1, Zenon DEF SubOK, Open
  <2>4. \A t \in Transitions : t.state.value \in Values \cup {Missing}
    BY Zenon DEF Transitions, Readable
  <2> QED
    BY <2>2, <2>3, <2>4, Zenon
<1>2. FileInv => ChainsOnly
  BY <1>1, Zenon DEF ChainsOnly
<1> QED
  BY <1>2, FileInvariant, PTL

-----------------------------------------------------------------------------
(* The nacos provider: the inductive invariant *)

Marks == {"none", ""} \cup {Digests[v] : v \in Values}
Requests ==
    [pc : {"off", "listen", "listening", "read", "answered", "interrupt", "done"},
     digest : Marks, doom : {NoTerminal, "reader_closed", "watch_interrupted"},
     answer : Readable]

\* The subscription x and the request p of its Observe or goroutine: an answer
\* not yet used was the key's state after the one the subscription compares
\* with, and one in the table has a goroutine that waits with its own digest.
PollOK(x, p, src) ==
    /\ p \in Requests
    /\ x.phase \in {"none", "made", "refused"} => p.pc = "off"
    /\ x.phase = "get" => x.key \in Keys /\ p.pc \in {"off", "answered"}
    /\ p.pc = "answered" =>
          Seen(p.answer, src[x.key]) /\ (x.phase # "get" => Seen(x.current, p.answer))
    /\ x.registered =>
          \/ x.phase = "made"
          \/ /\ p.pc \notin {"off", "done"}
             /\ p.pc = "listening" => p.digest = N!contentDigest(x.current)

NacosInv ==
    /\ source \in [Keys -> Readable]
    /\ reader \in [closed : Flags, interrupted : Flags]
    /\ subs \in [Subs -> Subscriptions] /\ polls \in [Subs -> Requests]
    /\ \A s \in Subs : SubOK(subs[s], source) /\ PollOK(subs[s], polls[s], source)
    /\ N!stopped => \A s \in Subs : ~subs[s].registered

-----------------------------------------------------------------------------
(* The nacos provider: steps *)

\* Both providers make the same things of a subscription.
LEMMA SameOperators ==
  /\ N!NoSubscription = NoSubscription
  /\ \A x, state : N!Same(x, state) <=> Same(x, state)
  /\ \A x : N!Deliverable(x) <=> Deliverable(x)
  /\ \A k, state : N!Subscribed(k, state) = Subscribed(k, state)
  /\ \A x, state : N!Enqueued(x, state) = Enqueued(x, state)
  /\ \A x, code : N!Terminated(x, code) = Terminated(x, code)
  /\ \A x, p : N!Gone(x, p) = Gone(x, p)
  /\ \A x : N!IsChain(x) <=> IsChain(x)
  /\ N!NoTerminal = NoTerminal
<1>1. N!NoTerminal = NoTerminal
  BY Zenon DEF N!NoTerminal, NoTerminal
<1>2. N!NoSubscription = NoSubscription
  BY <1>1, Zenon DEF N!NoSubscription, NoSubscription, N!Event, Event, N!Snapshot, Snapshot
<1>3. \A x, state : N!Same(x, state) <=> Same(x, state)
  BY Zenon DEF N!Same, Same
<1>4. \A x : N!Deliverable(x) <=> Deliverable(x)
  BY Zenon DEF N!Deliverable, Deliverable, N!CanAdvance, CanAdvance
<1>5. \A k, state : N!Subscribed(k, state) = Subscribed(k, state)
  BY <1>2, Zenon DEF N!Subscribed, Subscribed, N!Event, Event, N!Snapshot, Snapshot,
              N!NewObservationRevision, NewObservationRevision
<1>6. \A x, state : N!Enqueued(x, state) = Enqueued(x, state)
  BY Zenon DEF N!Enqueued, Enqueued, N!Event, Event, N!Snapshot, Snapshot
<1>7. \A x, code : N!Terminated(x, code) = Terminated(x, code)
  BY <1>1, Zenon DEF N!Terminated, Terminated
<1>8. \A x, p : N!Gone(x, p) = Gone(x, p)
  BY <1>2, Zenon DEF N!Gone, Gone
<1>9. \A x : N!IsChain(x) <=> IsChain(x)
  BY Zenon DEF N!IsChain, IsChain, N!Chain, Chain, N!ValidateNextRevision, ValidateNextRevision
<1> QED
  BY <1>1, <1>2, <1>3, <1>4, <1>5, <1>6, <1>7, <1>8, <1>9

\* Next is the same for both.
LEMMA SameNext ==
  ASSUME NEW s
  PROVE  (N!NextChecks(s) <=> NextChecks(s)) /\ (N!NextSelects(s) <=> NextSelects(s))
<1>1. N!NoTerminal = NoTerminal /\ \A x, p : N!Gone(x, p) = Gone(x, p)
  BY SameOperators, Zenon
<1>2. N!NextChecks(s) <=> NextChecks(s)
  BY <1>1, Zenon DEF N!NextChecks, NextChecks
<1>3. N!NextSelects(s) <=> NextSelects(s)
  BY <1>1, Zenon DEF N!NextSelects, NextSelects
<1> QED
  BY <1>2, <1>3, Zenon

\* One subscription becomes y and its request p.
LEMMA PairStep ==
  ASSUME NacosInv, NEW s \in Subs, NEW y, NEW p, SubOK(y, source), PollOK(y, p, source),
         y.registered => ~N!stopped,
         subs' = [subs EXCEPT ![s] = y], polls' = [polls EXCEPT ![s] = p], UNCHANGED <<source, reader>>
  PROVE  NacosInv'
<1>1. /\ subs \in [Subs -> Subscriptions] /\ polls \in [Subs -> Requests]
      /\ y \in Subscriptions /\ p \in Requests
  BY Zenon DEF NacosInv, SubOK, PollOK
<1>2. /\ subs' \in [Subs -> Subscriptions] /\ polls' \in [Subs -> Requests]
      /\ subs'[s] = y /\ polls'[s] = p
      /\ \A q \in Subs \ {s} : subs'[q] = subs[q] /\ polls'[q] = polls[q]
  BY <1>1, Zenon
<1>3. \A q \in Subs : SubOK(subs'[q], source) /\ PollOK(subs'[q], polls'[q], source)
  BY <1>2, Zenon DEF NacosInv
<1>4. N!stopped' = N!stopped
  BY Zenon DEF N!stopped
<1>5. N!stopped => \A q \in Subs : ~subs'[q].registered
  BY <1>2, Zenon DEF NacosInv
<1> QED
  BY <1>2, <1>3, <1>4, <1>5, Zenon DEF NacosInv

\* A request of the same subscription, without an answer.
LEMMA PolledTyped ==
  ASSUME NacosInv, NEW s \in Subs,
         NEW pc \in {"off", "listen", "read", "interrupt", "done"}
  PROVE  /\ N!Polled(s, pc) \in Requests /\ N!Polled(s, pc).pc = pc
         /\ N!Polled(s, pc).doom = polls[s].doom
<1>1. polls[s].doom \in {NoTerminal, "reader_closed", "watch_interrupted"}
  BY Zenon DEF NacosInv, Requests
<1>2. [value |-> Missing, version |-> 0] \in Readable
  BY Zenon DEF Readable
<1>3. N!NoPoll \in Requests
  BY <1>2, SameOperators, Zenon DEF N!NoPoll, Requests, Marks
<1> QED
  BY <1>1, <1>3, Zenon DEF N!Polled, Requests

\* The server's key changes.
LEMMA ChangeStep ==
  ASSUME NacosInv, NEW k \in Keys, NEW value \in Values \cup {Missing}, N!Change(k, value)
  PROVE  NacosInv'
<1> DEFINE now == [value |-> value, version |-> source[k].version + 1]
<1>1. /\ source' = [source EXCEPT ![k] = now] /\ UNCHANGED <<reader, subs, polls>>
      /\ source \in [Keys -> Readable] /\ source[k].version \in Nat
  BY Zenon DEF N!Change, NacosInv, Readable
<1>2. now \in Readable /\ now.version = source[k].version + 1
  BY <1>1 DEF Readable
<1> HIDE DEF now
<1>3. /\ source' \in [Keys -> Readable] /\ source'[k] = now
      /\ \A j \in Keys \ {k} : source'[j] = source[j]
  BY <1>1, <1>2, Zenon
<1>4. \A j \in Keys : /\ source[j].version \in Nat /\ source'[j].version \in Nat
                      /\ Seen(source[j], source'[j])
  BY <1>1, <1>2, <1>3 DEF Readable, Seen
<1>5. \A s \in Subs : SubOK(subs[s], source')
  BY <1>4, SourceMovesOK, Zenon DEF NacosInv
<1>6. ASSUME NEW s \in Subs
      PROVE  PollOK(subs[s], polls[s], source')
  <2> DEFINE x == subs[s]
             p == polls[s]
  <2>1. PollOK(x, p, source) /\ SubOK(x, source)
    BY Zenon DEF NacosInv
  <2>2. ASSUME p.pc = "answered"
        PROVE  Seen(p.answer, source'[x.key])
    <3>1. x.key \in Keys /\ p.answer.version \in Nat /\ Seen(p.answer, source[x.key])
      <4>1. x.phase \in {"get", "live", "told"}
        BY <2>1, <2>2, Zenon DEF SubOK, PollOK, Subscriptions
      <4> QED
        BY <2>1, <2>2, <4>1, Zenon DEF SubOK, PollOK, Open, Requests, Readable
    <3> QED
      BY <1>4, <3>1, SeenLater, Zenon
  <2> HIDE DEF x, p
  <2> QED
    BY <2>1, <2>2, Zenon DEF PollOK, x, p
<1>7. N!stopped' <=> N!stopped
  BY <1>1, Zenon DEF N!stopped
<1> QED
  BY <1>1, <1>3, <1>5, <1>6, <1>7, Zenon DEF NacosInv

\* Only the request moves.
LEMMA PollStep ==
  ASSUME NacosInv, NEW s \in Subs, NEW p, PollOK(subs[s], p, source),
         polls' = [polls EXCEPT ![s] = p], UNCHANGED <<source, reader, subs>>
  PROVE  NacosInv'
<1>1. subs' = [subs EXCEPT ![s] = subs[s]] /\ UNCHANGED <<source, reader>>
  BY Zenon DEF NacosInv
<1>2. SubOK(subs[s], source) /\ (subs[s].registered => ~N!stopped)
  BY Zenon DEF NacosInv
<1> QED
  BY <1>1, <1>2, PairStep, Zenon

\* Only the subscription changes.
LEMMA SubscriptionStep ==
  ASSUME NacosInv, NEW s \in Subs, NEW y, SubOK(y, source), PollOK(y, polls[s], source),
         y.registered => subs[s].registered,
         subs' = [subs EXCEPT ![s] = y], UNCHANGED <<source, reader, polls>>
  PROVE  NacosInv'
<1>1. polls' = [polls EXCEPT ![s] = polls[s]] /\ UNCHANGED <<source, reader>>
  BY Zenon DEF NacosInv
<1>2. y.registered => ~N!stopped
  BY Zenon DEF NacosInv
<1> QED
  BY <1>1, <1>2, PairStep, Zenon

\* Observe sends its request.
LEMMA AskedOK ==
  ASSUME NEW src, NEW x, SubOK(x, src), x.phase = "none", NEW k \in Keys
  PROVE  LET y == [x EXCEPT !.phase = "get", !.key = k]
         IN SubOK(y, src) /\ y.phase = "get" /\ y.key = k /\ ~y.registered
<1> DEFINE y == [x EXCEPT !.phase = "get", !.key = k]
<1>1. x \in Subscriptions /\ ~x.registered
  BY Zenon DEF SubOK, Open
<1>2. y \in Subscriptions /\ y.registered = x.registered /\ y.phase = "get" /\ y.key = k
  BY <1>1, Zenon DEF Subscriptions
<1> HIDE DEF y
<1> QED
  BY <1>1, <1>2, Zenon DEF SubOK, Open, y

\* Observe, up to its registration.
LEMMA AskStep ==
  ASSUME N!ConfigNacosConstants, NacosInv, NEW s \in Subs, NEW k,
         (k \in Keys /\ N!Observe(s, k)) \/ N!ObserveAnswered(s) \/ N!Register(s)
  PROVE  NacosInv'
<1> DEFINE x == subs[s]
           p == polls[s]
           no == [x EXCEPT !.phase = "refused"]
<1>1. SubOK(x, source) /\ PollOK(x, p, source) /\ p \in Requests
  BY Zenon DEF NacosInv, PollOK
<1>2. ASSUME x.phase \in {"none", "get"}
      PROVE  SubOK(no, source) /\ no.registered = x.registered /\ no.phase = "refused" /\ ~no.registered
  <2>1. ~x.registered
    BY <1>1, <1>2, Zenon DEF SubOK, Open
  <2> QED
    BY <1>1, <1>2, <2>1, PhaseOK
<1>3. CASE k \in Keys /\ N!Observe(s, k)
  <2> DEFINE y == [x EXCEPT !.phase = "get", !.key = k]
  <2>1. x.phase = "none" /\ p.pc = "off" /\ UNCHANGED <<source, reader, polls>>
    BY <1>1, <1>3, Zenon DEF N!Observe, PollOK
  <2>2. subs' = [subs EXCEPT ![s] = no] \/ subs' = [subs EXCEPT ![s] = y]
    BY <1>3, Zenon DEF N!Observe, N!Sub
  <2>3. CASE subs' = [subs EXCEPT ![s] = no]
    <3>1. PollOK(no, p, source)
      BY <1>1, <1>2, <2>1, Zenon DEF PollOK
    <3> HIDE DEF no
    <3> QED
      BY <1>2, <2>1, <2>3, <3>1, SubscriptionStep, Zenon
  <2>4. CASE subs' = [subs EXCEPT ![s] = y]
    <3>1. SubOK(y, source) /\ y.phase = "get" /\ y.key = k /\ ~y.registered
      BY <1>1, <1>3, <2>1, AskedOK, Zenon
    <3> HIDE DEF y
    <3>2. PollOK(y, p, source)
      BY <1>1, <1>3, <2>1, <3>1, Zenon DEF PollOK
    <3> QED
      BY <2>1, <2>4, <3>1, <3>2, SubscriptionStep
  <2> QED
    BY <2>2, <2>3, <2>4, Zenon
<1>4. CASE N!ObserveAnswered(s)
  <2>1. x.phase = "get" /\ p.pc = "off" /\ x.key \in Keys /\ UNCHANGED <<source, reader>>
    BY <1>1, <1>4, Zenon DEF N!ObserveAnswered, PollOK
  <2>2. CASE N!Answered(s, x.key, "answered") /\ UNCHANGED subs
    <3> DEFINE q == [p EXCEPT !.pc = "answered", !.answer = source[x.key]]
    <3>1. polls' = [polls EXCEPT ![s] = q]
      BY <2>2, Zenon DEF N!Answered
    <3>2. source[x.key] \in Readable
      BY <2>1, Zenon DEF NacosInv
    <3>3. q \in Requests /\ q.pc = "answered" /\ q.answer = source[x.key]
      BY <1>1, <3>2, Zenon DEF Requests
    <3> HIDE DEF q
    <3>4. PollOK(x, q, source)
      BY <1>1, <2>1, <3>2, <3>3, SeenNow, Zenon DEF PollOK, SubOK, Open
    <3> QED
      BY <2>1, <2>2, <3>1, <3>4, PollStep, Zenon
  <2>3. CASE N!Sub(s, no) /\ UNCHANGED polls
    <3>1. PollOK(no, p, source) /\ subs' = [subs EXCEPT ![s] = no]
      BY <1>1, <1>2, <2>1, <2>3, Zenon DEF PollOK, N!Sub
    <3> HIDE DEF no
    <3> QED
      BY <1>2, <2>1, <2>3, <3>1, SubscriptionStep, Zenon
  <2> QED
    BY <1>4, <2>2, <2>3, Zenon DEF N!ObserveAnswered
<1>5. CASE N!Register(s)
  <2> DEFINE y == Subscribed(x.key, p.answer)
             q == N!Polled(s, "off")
  <2>1. /\ x.phase = "get" /\ p.pc = "answered" /\ polls' = [polls EXCEPT ![s] = q]
        /\ UNCHANGED <<source, reader>>
    BY <1>5, Zenon DEF N!Register, N!PollAt
  <2>2. q \in Requests /\ q.pc = "off"
    BY PolledTyped, Zenon
  <2> HIDE DEF q
  <2>3. CASE N!Sub(s, no)
    <3>1. PollOK(no, q, source) /\ subs' = [subs EXCEPT ![s] = no]
      BY <1>1, <1>2, <2>1, <2>2, <2>3, Zenon DEF PollOK, N!Sub
    <3> HIDE DEF no
    <3> QED
      BY <1>2, <2>1, <3>1, PairStep, Zenon
  <2>4. CASE ~N!stopped /\ N!Sub(s, N!Subscribed(x.key, p.answer))
    <3>1. x.key \in Keys /\ p.answer \in Readable /\ Seen(p.answer, source[x.key])
      BY <1>1, <2>1, Zenon DEF PollOK, Requests
    <3>2. SubOK(y, source) /\ y.phase = "made" /\ y.key = x.key
      BY <3>1, SubscribedOK, Zenon DEF N!ConfigNacosConstants, Subscribed, NoSubscription
    <3>3. subs' = [subs EXCEPT ![s] = y]
      BY <2>4, SameOperators, Zenon DEF N!Sub
    <3> HIDE DEF y
    <3>4. PollOK(y, q, source)
      BY <2>2, <3>2, Zenon DEF PollOK
    <3> QED
      BY <2>1, <2>4, <3>2, <3>3, <3>4, PairStep
  <2> QED
    BY <1>5, <2>3, <2>4 DEF N!Register
<1> QED
  BY <1>3, <1>4, <1>5, Zenon

\* A subscription out of the table, with the request it had.
LEMMA EndedPollOK ==
  ASSUME NEW src, NEW x, NEW y, NEW p, PollOK(x, p, src), ~y.registered, y.key = x.key,
         y.current = x.current, y.phase = x.phase \/ (x.phase = "live" /\ y.phase = "told")
  PROVE  PollOK(y, p, src)
  BY Zenon DEF PollOK

\* Observe returns, Next, Close of a subscription, and the loop that ends the
\* subscriptions taken out of the table.
LEMMA HolderStep ==
  ASSUME N!ConfigNacosConstants, NacosInv, NEW s \in Subs,
         N!ObserveReturns(s) \/ N!Next_(s) \/ N!CloseSubscription(s) \/ N!TerminateTaken(s)
  PROVE  NacosInv'
<1> DEFINE x == subs[s]
           p == polls[s]
           closed == "subscription_closed"
           z == N!Closed(s)
<1>1. /\ SubOK(x, source) /\ PollOK(x, p, source) /\ p \in Requests /\ x \in Subscriptions
      /\ subs \in [Subs -> Subscriptions]
  BY Zenon DEF NacosInv, PollOK, SubOK
<1>2. ASSUME NEW code \in {closed, "reader_closed", "watch_interrupted"}
      PROVE  LET y == Terminated(x, code)
             IN  /\ SubOK(y, source) /\ ~y.registered /\ y.phase = x.phase /\ y.key = x.key
                 /\ y.current = x.current
  <2>1. Terminated(x, code).current = x.current
    BY <1>1, Zenon DEF Terminated, Subscriptions
  <2> QED
    BY <1>1, <2>1, TerminatedOK, Zenon
<1>3. SubOK(z, source) /\ ~z.registered /\ z.phase = x.phase /\ z.key = x.key /\ z.current = x.current
  <2>1. z = IF x.registered THEN Terminated(x, closed) ELSE x
    BY SameOperators, Zenon DEF N!Closed
  <2> HIDE DEF z
  <2> QED
    BY <1>1, <1>2, <2>1, Zenon
<1> HIDE DEF z
<1>4. CASE N!ObserveReturns(s)
  <2>1. x.phase = "made" /\ p.pc = "off" /\ UNCHANGED <<source, reader>>
    BY <1>1, <1>4, Zenon DEF N!ObserveReturns, PollOK
  <2>2. CASE N!Sub(s, [x EXCEPT !.phase = "live"]) /\ N!PollAt(s, "listen")
    <3> DEFINE y == [x EXCEPT !.phase = "live"]
               q == N!Polled(s, "listen")
    <3>1. /\ SubOK(y, source) /\ y.phase = "live" /\ y.registered = x.registered
          /\ subs' = [subs EXCEPT ![s] = y] /\ polls' = [polls EXCEPT ![s] = q]
      BY <1>1, <2>1, <2>2, PhaseOK DEF N!Sub, N!PollAt
    <3>2. q \in Requests /\ q.pc = "listen"
      BY PolledTyped, Zenon
    <3> HIDE DEF y, q
    <3>3. PollOK(y, q, source)
      BY <3>1, <3>2, Zenon DEF PollOK
    <3>4. y.registered => ~N!stopped
      BY <3>1, Zenon DEF NacosInv
    <3> QED
      BY <2>1, <3>1, <3>3, <3>4, PairStep, Zenon
  <2>3. CASE N!Sub(s, N!Gone(z, "refused")) /\ UNCHANGED polls
    <3> DEFINE y == Gone(z, "refused")
    <3>1. subs' = [subs EXCEPT ![s] = y]
      BY <2>3, SameOperators, Zenon DEF N!Sub
    <3>2. SubOK(y, source) /\ y.registered = FALSE /\ y.phase = "refused"
      BY <1>3, <2>1, GoneOK, ZenonT(60) DEF Open
    <3> HIDE DEF y
    <3>3. PollOK(y, p, source)
      BY <1>1, <2>1, <3>2, Zenon DEF PollOK
    <3> QED
      BY <2>1, <2>3, <3>1, <3>2, <3>3, SubscriptionStep, Zenon
  <2> QED
    BY <1>4, <2>2, <2>3, Zenon DEF N!ObserveReturns, z
<1>5. CASE N!Next_(s)
  <2>1. (NextChecks(s) \/ NextSelects(s)) /\ UNCHANGED <<source, reader, polls>>
    BY <1>5, SameNext, Zenon DEF N!Next_
  <2>2. PICK y : subs' = [subs EXCEPT ![s] = y] /\ SubOK(y, source) /\ Keeps(x, y)
    BY <1>1, <2>1, NextOK, Zenon DEF N!ConfigNacosConstants
  <2>3. x.phase = "live"
    BY <2>1, Zenon DEF NextChecks, NextSelects
  <2>4. PollOK(y, p, source)
    <3>1. CASE y.registered
      BY <1>1, <2>2, <2>3, <3>1, Zenon DEF Keeps, PollOK
    <3>2. CASE ~y.registered
      BY <1>1, <2>2, <2>3, <3>2, EndedPollOK DEF Keeps
    <3> QED
      BY <3>1, <3>2, Zenon
  <2> QED
    BY <2>1, <2>2, <2>4, SubscriptionStep, Zenon DEF Keeps
<1>6. CASE N!CloseSubscription(s)
  <2>1. subs' = [subs EXCEPT ![s] = z] /\ UNCHANGED <<source, reader, polls>>
    BY <1>6, Zenon DEF N!CloseSubscription, N!Sub, z
  <2>2. PollOK(z, p, source)
    BY <1>1, <1>3, EndedPollOK, Zenon
  <2> QED
    BY <1>3, <2>1, <2>2, SubscriptionStep, Zenon
<1>7. CASE N!TerminateTaken(s)
  <2> DEFINE y == Terminated(x, p.doom)
  <2>1. /\ p.doom \in {"reader_closed", "watch_interrupted"}
        /\ subs' = [subs EXCEPT ![s] = y] /\ UNCHANGED <<source, reader, polls>>
    BY <1>1, <1>7, SameOperators, Zenon DEF N!TerminateTaken, N!Sub, Requests
  <2>2. SubOK(y, source) /\ ~y.registered /\ PollOK(y, p, source)
    BY <1>1, <1>2, <2>1, EndedPollOK, Zenon
  <2> HIDE DEF y
  <2> QED
    BY <2>1, <2>2, SubscriptionStep, Zenon
<1> QED
  BY <1>4, <1>5, <1>6, <1>7, Zenon

\* The goroutine of a subscription, short of its interruption.
LEMMA WatchStep ==
  ASSUME N!ConfigNacosConstants, NacosInv, NEW s \in Subs,
         \/ N!Listen(s) \/ N!ListenChanged(s) \/ N!ListenTimeout(s) \/ N!ReadAnswered(s)
         \/ N!Canceled(s) \/ N!apply(s) \/ N!RequestFails(s)
  PROVE  NacosInv'
<1> DEFINE x == subs[s]
           p == polls[s]
<1>1. SubOK(x, source) /\ PollOK(x, p, source) /\ p \in Requests /\ x \in Subscriptions
  BY Zenon DEF NacosInv, PollOK, SubOK
\* A goroutine that runs is one of a subscription the caller has.
<1>2. ASSUME p.pc \notin {"off", "answered"} \/ (p.pc = "answered" /\ x.phase # "get")
      PROVE  x.phase \in {"live", "told"} /\ x.key \in Keys /\ Seen(x.current, source[x.key])
  <2>1. x.phase \in {"live", "told"}
    BY <1>1, <1>2, Zenon DEF PollOK, Subscriptions
  <2> QED
    BY <1>1, <2>1, Zenon DEF SubOK, Open
<1>3. CASE N!Listen(s)
  <2> DEFINE q == [p EXCEPT !.pc = "listening", !.digest = N!contentDigest(x.current)]
  <2>1. /\ p.pc = "listen" /\ polls' = [polls EXCEPT ![s] = q] /\ UNCHANGED <<source, reader, subs>>
    BY <1>3, Zenon DEF N!Listen
  <2>2. N!contentDigest(x.current) \in Marks
    <3>1. x.current.value \in Values \cup {Missing}
      BY <1>1, SubFields, Zenon DEF Readable
    <3> QED
      BY <3>1, Zenon DEF N!contentDigest, Marks
  <2>3. q \in Requests /\ q.pc = "listening" /\ q.digest = N!contentDigest(x.current)
    BY <1>1, <2>2, Zenon DEF Requests
  <2> HIDE DEF q
  <2>4. PollOK(x, q, source)
    BY <1>2, <2>1, <2>3, Zenon DEF PollOK
  <2> QED
    BY <2>1, <2>4, PollStep, Zenon
\* The request is over and the goroutine goes on, unless it has ended.
<1>4. ASSUME NEW pc \in {"listen", "read", "interrupt", "done"}, x.phase \in {"live", "told"},
             pc = "done" => ~x.registered
      PROVE  PollOK(x, N!Polled(s, pc), source)
  <2>1. N!Polled(s, pc) \in Requests /\ N!Polled(s, pc).pc = pc
    BY PolledTyped, Zenon
  <2> QED
    BY <1>4, <2>1, Zenon DEF PollOK
<1>5. CASE N!ListenChanged(s) \/ N!ListenTimeout(s) \/ N!RequestFails(s)
  <2>1. p.pc \in {"listening", "read"} /\ UNCHANGED <<source, reader, subs>>
    BY <1>5, Zenon DEF N!ListenChanged, N!ListenTimeout, N!RequestFails
  <2>2. \E pc \in {"listen", "read", "interrupt"} : polls' = [polls EXCEPT ![s] = N!Polled(s, pc)]
    BY <1>5, Zenon DEF N!ListenChanged, N!ListenTimeout, N!RequestFails, N!PollAt
  <2> QED
    BY <1>2, <1>4, <2>1, <2>2, PollStep, Zenon
<1>6. CASE N!Canceled(s)
  <2>1. /\ p.pc \in {"listening", "read"} /\ x.terminal # NoTerminal
        /\ polls' = [polls EXCEPT ![s] = N!Polled(s, "done")] /\ UNCHANGED <<source, reader, subs>>
    BY <1>6, SameOperators, Zenon DEF N!Canceled, N!ended, N!PollAt
  <2>2. ~x.registered
    BY <1>1, <2>1, Zenon DEF SubOK
  <2> QED
    BY <1>2, <1>4, <2>1, <2>2, PollStep
<1>7. CASE N!ReadAnswered(s)
  <2> DEFINE q == [p EXCEPT !.pc = "answered", !.answer = source[x.key]]
  <2>1. p.pc = "read" /\ polls' = [polls EXCEPT ![s] = q] /\ UNCHANGED <<source, reader, subs>>
    BY <1>7, Zenon DEF N!ReadAnswered, N!Answered
  <2>2. x.phase \in {"live", "told"} /\ x.key \in Keys /\ Seen(x.current, source[x.key])
    BY <1>2, <2>1, Zenon
  <2>3. source[x.key] \in Readable
    BY <2>2, Zenon DEF NacosInv
  <2>4. q \in Requests /\ q.pc = "answered" /\ q.answer = source[x.key]
    BY <1>1, <2>3, Zenon DEF Requests
  <2> HIDE DEF q
  <2>5. PollOK(x, q, source)
    BY <2>2, <2>3, <2>4, SeenNow, Zenon DEF PollOK
  <2> QED
    BY <2>1, <2>5, PollStep, Zenon
<1>8. CASE N!apply(s)
  <2>1. p.pc = "answered" /\ x.phase # "get" /\ UNCHANGED <<source, reader>>
    BY <1>8, Zenon DEF N!apply
  <2>2. /\ x.phase \in {"live", "told"} /\ x.key \in Keys
        /\ Seen(x.current, p.answer) /\ Seen(p.answer, source[x.key]) /\ p.answer \in Readable
    BY <1>1, <1>2, <2>1, Zenon DEF PollOK, Requests
  <2>3. CASE (\E pc \in {"listen", "interrupt"} : N!PollAt(s, pc)) /\ UNCHANGED subs
    BY <1>4, <2>1, <2>2, <2>3, PollStep, Zenon DEF N!PollAt
  <2>4. CASE /\ ~Same(x, p.answer) /\ Deliverable(x) /\ N!PollAt(s, "listen")
             /\ N!Sub(s, N!Enqueued(x, p.answer))
    <3> DEFINE y == Enqueued(x, p.answer)
               q == N!Polled(s, "listen")
    <3>1. subs' = [subs EXCEPT ![s] = y] /\ polls' = [polls EXCEPT ![s] = q]
      BY <2>4, SameOperators, Zenon DEF N!Sub, N!PollAt
    <3>2. SubOK(y, source)
      BY <1>1, <2>2, <2>4, EnqueuedOK, Zenon DEF N!ConfigNacosConstants, Open
    <3>3. y.registered = x.registered /\ y.phase = x.phase
      BY <1>1, Zenon DEF Enqueued, Subscriptions
    <3>4. q \in Requests /\ q.pc = "listen"
      BY PolledTyped, Zenon
    <3> HIDE DEF y, q
    <3>5. PollOK(y, q, source)
      BY <2>2, <3>3, <3>4, Zenon DEF PollOK
    <3>6. y.registered => ~N!stopped
      BY <3>3, Zenon DEF NacosInv
    <3> QED
      BY <2>1, <3>1, <3>2, <3>5, <3>6, PairStep, Zenon
  <2> QED
    BY <1>8, <2>3, <2>4, SameOperators, Zenon DEF N!apply
<1> QED
  BY <1>3, <1>5, <1>6, <1>7, <1>8, Zenon

\* A subscription taken out of the table.
LEMMA TakenOK ==
  ASSUME NEW src, NEW x, SubOK(x, src)
  PROVE  LET y == [x EXCEPT !.registered = FALSE]
         IN  /\ SubOK(y, src) /\ ~y.registered /\ y.phase = x.phase /\ y.key = x.key
             /\ y.current = x.current
<1> DEFINE y == [x EXCEPT !.registered = FALSE]
<1>1. x \in Subscriptions
  BY Zenon DEF SubOK
<1>2. /\ y \in Subscriptions
      /\ y.registered = FALSE /\ y.terminal = x.terminal /\ y.phase = x.phase /\ y.key = x.key
      /\ y.current = x.current /\ y.revision = x.revision /\ y.events = x.events /\ y.last = x.last
  BY <1>1, Zenon DEF Subscriptions, Flags
<1> HIDE DEF y
<1>3. x.phase \in Open => IsChain(y)
  BY <1>2, SameChain, Zenon DEF SubOK
<1>4. SubOK(y, src)
  BY <1>2, <1>3, Zenon DEF SubOK
<1> QED
  BY <1>2, <1>4, Zenon DEF y

\* The table is emptied, while the requests are those of rest.
LEMMA TakeStep ==
  ASSUME NacosInv, NEW code \in {"reader_closed", "watch_interrupted"}, NEW rest \in [Subs -> Requests],
         \A s \in Subs : \/ subs[s].phase \in {"live", "told"} /\ rest[s].pc = "done"
                         \/ rest[s] = polls[s],
         N!Take(code, rest), UNCHANGED source, reader' \in [closed : Flags, interrupted : Flags]
  PROVE  NacosInv'
<1> DEFINE y(s) == [subs[s] EXCEPT !.registered = FALSE]
           p(s) == [rest[s] EXCEPT !.doom = code]
<1>1. /\ subs' = [s \in Subs |-> y(s)]
      /\ polls' = [s \in Subs |-> IF s \in N!Registered THEN p(s) ELSE rest[s]]
  BY Zenon DEF N!Take
<1>2. ASSUME NEW s \in Subs
      PROVE  /\ subs'[s] \in Subscriptions /\ SubOK(subs'[s], source) /\ ~subs'[s].registered
             /\ polls'[s] \in Requests /\ PollOK(subs'[s], polls'[s], source)
  <2>1. subs'[s] = y(s) /\ (polls'[s] = p(s) \/ polls'[s] = rest[s])
    BY <1>1, Zenon
  <2>2. /\ SubOK(y(s), source) /\ ~y(s).registered /\ y(s).phase = subs[s].phase
        /\ y(s).key = subs[s].key /\ y(s).current = subs[s].current
    BY TakenOK, Zenon DEF NacosInv
  <2>3. /\ p(s) \in Requests /\ p(s).pc = rest[s].pc /\ p(s).answer = rest[s].answer
        /\ p(s).digest = rest[s].digest
    <3>1. rest[s] \in Requests
      BY Zenon
    <3> QED
      BY <3>1, Zenon DEF Requests
  <2>4. PollOK(subs[s], polls[s], source)
    BY Zenon DEF NacosInv
  <2>5. /\ polls'[s] \in Requests /\ polls'[s].pc = rest[s].pc /\ polls'[s].answer = rest[s].answer
    BY <2>1, <2>3, Zenon
  <2> HIDE DEF y, p
  <2>6. PollOK(y(s), polls'[s], source)
    <3>1. CASE subs[s].phase \in {"live", "told"} /\ rest[s].pc = "done"
      BY <2>2, <2>5, <3>1, Zenon DEF PollOK
    <3>2. CASE rest[s] = polls[s]
      BY <2>2, <2>4, <2>5, <3>2, Zenon DEF PollOK
    <3> QED
      BY <3>1, <3>2, Zenon
  <2> QED
    BY <2>1, <2>2, <2>5, <2>6, Zenon DEF SubOK
<1>3. subs' \in [Subs -> Subscriptions] /\ polls' \in [Subs -> Requests]
  BY <1>1, <1>2, Zenon
<1> QED
  BY <1>2, <1>3, Zenon DEF NacosInv

\* Close, and the interruption by a goroutine whose request failed.
LEMMA StopNacosStep ==
  ASSUME NacosInv, N!Close \/ \E s \in Subs : N!interruptAll(s)
  PROVE  NacosInv'
<1> DEFINE yes == TRUE
           Rooms == [closed : Flags, interrupted : Flags]
<1>1. yes \in Flags /\ reader \in Rooms /\ polls \in [Subs -> Requests]
  BY Zenon DEF NacosInv, Flags
<1>2. [reader EXCEPT !.closed = yes] \in Rooms /\ [reader EXCEPT !.interrupted = yes] \in Rooms
  BY <1>1, Zenon
<1>3. CASE N!Close
  <2>1. N!Take("reader_closed", polls) /\ UNCHANGED source /\ reader' \in Rooms
    BY <1>2, <1>3, Zenon DEF N!Close
  <2> QED
    BY <1>1, <2>1, TakeStep, Zenon
<1>4. ASSUME NEW s \in Subs, N!interruptAll(s)
      PROVE  NacosInv'
  <2> DEFINE q == N!Polled(s, "done")
             rest == [polls EXCEPT ![s] = q]
  <2>1. polls[s].pc = "interrupt" /\ UNCHANGED source
    BY <1>4, Zenon DEF N!interruptAll
  <2>2. q \in Requests /\ q.pc = "done"
    BY PolledTyped, Zenon
  <2>3. subs[s].phase \in {"live", "told"}
    BY <2>1, Zenon DEF NacosInv, PollOK, Subscriptions
  <2>4. CASE N!stopped /\ polls' = rest /\ UNCHANGED <<reader, subs>>
    <3>1. ~subs[s].registered
      BY <2>4, Zenon DEF NacosInv
    <3>2. PollOK(subs[s], q, source)
      BY <2>2, <2>3, <3>1, Zenon DEF PollOK
    <3> HIDE DEF q
    <3> QED
      BY <2>1, <2>4, <3>2, PollStep, Zenon
  <2>5. CASE reader' = [reader EXCEPT !.interrupted = yes] /\ N!Take("watch_interrupted", rest)
    <3>1. rest \in [Subs -> Requests] /\ rest[s] = q /\ \A t \in Subs \ {s} : rest[t] = polls[t]
      BY <1>1, <2>2, Zenon
    <3> HIDE DEF rest, q
    <3> QED
      BY <1>2, <2>1, <2>2, <2>3, <2>5, <3>1, TakeStep
  <2> QED
    BY <1>4, <2>4, <2>5, Zenon DEF N!interruptAll
<1> QED
  BY <1>3, <1>4, Zenon

\* Nobody observes yet.
LEMMA NacosInit ==
  ASSUME N!ConfigNacosConstants, N!Init
  PROVE  NacosInv
<1>1. source \in [Keys -> Readable]
  BY Zenon DEF N!Init, Readable
<1>2. reader \in [closed : Flags, interrupted : Flags] /\ ~N!stopped
  BY Zenon DEF N!Init, Flags, N!stopped
<1>3. subs = [s \in Subs |-> NoSubscription] /\ polls = [s \in Subs |-> N!NoPoll]
  BY SameOperators, Zenon DEF N!Init
<1>4. NoSubscription.phase = "none" /\ NoSubscription.registered = FALSE
  BY Zenon DEF NoSubscription
<1>5. SubOK(NoSubscription, source)
  BY <1>4, NoSubscriptionTyped, Zenon DEF SubOK, Open
<1>6. N!NoPoll \in Requests /\ N!NoPoll.pc = "off"
  <2>1. [value |-> Missing, version |-> 0] \in Readable
    BY Zenon DEF Readable
  <2> QED
    BY <2>1, SameOperators, Zenon DEF N!NoPoll, Requests, Marks
<1>7. PollOK(NoSubscription, N!NoPoll, source)
  BY <1>4, <1>6, Zenon DEF PollOK
<1> QED
  BY <1>1, <1>2, <1>3, <1>4, <1>5, <1>6, <1>7, NoSubscriptionTyped DEF NacosInv

\* Every step of the server, the callers and the goroutines.
LEMMA NacosNext ==
  ASSUME N!ConfigNacosConstants, NacosInv, [N!Next]_(N!vars)
  PROVE  NacosInv'
<1>1. CASE UNCHANGED N!vars
  BY <1>1, Zenon DEF N!vars, NacosInv, N!stopped
<1>2. CASE N!Next
  <2>1. CASE \E k \in Keys : \E value \in Values \cup {Missing} : N!Change(k, value)
    BY <2>1, ChangeStep, Zenon
  <2>2. CASE \/ \E s \in Subs, k \in Keys : N!Observe(s, k)
             \/ \E s \in Subs : N!ObserveAnswered(s) \/ N!Register(s)
    BY <2>2, AskStep, Zenon
  <2>3. CASE \E s \in Subs : \/ N!ObserveReturns(s) \/ N!Next_(s) \/ N!CloseSubscription(s)
                             \/ N!TerminateTaken(s)
    BY <2>3, HolderStep, Zenon
  <2>4. CASE \E s \in Subs : \/ N!Listen(s) \/ N!ListenChanged(s) \/ N!ListenTimeout(s)
                             \/ N!ReadAnswered(s) \/ N!Canceled(s) \/ N!apply(s) \/ N!RequestFails(s)
    BY <2>4, WatchStep, Zenon
  <2>5. CASE N!Close \/ \E s \in Subs : N!interruptAll(s)
    BY <2>5, StopNacosStep, Zenon
  <2> QED
    BY <1>2, <2>1, <2>2, <2>3, <2>4, <2>5, Zenon DEF N!Next, N!watch
<1> QED
  BY <1>1, <1>2, Zenon

-----------------------------------------------------------------------------
(* The nacos provider: theorems *)

\* The inductive invariant holds in every state of the nacos provider.
THEOREM NacosInvariant == ASSUME N!ConfigNacosConstants PROVE N!Spec => []NacosInv
<1>1. N!Init => NacosInv
  BY NacosInit, Zenon
<1>2. NacosInv /\ [N!Next]_(N!vars) => NacosInv'
  BY NacosNext, Zenon
<1> QED
  BY <1>1, <1>2, PTL DEF N!Spec

\* A subscription in the nacos reader's table always has a goroutine that still
\* polls for it, and one that waits at the server waits with the digest of the
\* state the subscription has, whoever stops the reader and whenever.
THEOREM NacosNothingIsLost == ASSUME N!ConfigNacosConstants PROVE N!Spec => []N!NothingIsLost
<1>1. NacosInv => N!NothingIsLost
  BY Zenon DEF NacosInv, PollOK, N!NothingIsLost, N!Registered
<1> QED
  BY <1>1, NacosInvariant, PTL

\* A subscriber of the nacos provider sees one chain of transitions, though an
\* answer is used after the moment it was true.
THEOREM NacosChainsOnly == ASSUME N!ConfigNacosConstants PROVE N!Spec => []N!ChainsOnly
<1>1. NacosInv => N!ChainsOnly
  BY SameOperators, Zenon DEF NacosInv, SubOK, Open, N!ChainsOnly
<1> QED
  BY <1>1, NacosInvariant, PTL
=============================================================================
