----------------------------- MODULE Discovery -----------------------------
(***************************************************************************)
(* Agent Discovery: Service.Search of catalog/service.go page by page over *)
(* Store.DiscoverFirstPage and Store.Discover, while versions are          *)
(* published, published again with a release, and disabled.                *)
(*                                                                         *)
(* A publication is two steps: the UPDATE of publication_clock, whose row  *)
(* lock is held until the end of the transaction, and the commit.  Cards   *)
(* are numbered by (agent_id, version), the tie-break of the ordering.     *)
(* published_at comes from the clock of the replica that serves the        *)
(* request, so times are arbitrary.                                        *)
(***************************************************************************)
EXTENDS Naturals, Sequences, FiniteSets, SequencesExt

CONSTANTS
    Cards,              \* exact Agent versions, numbers
    Listed,             \* sequence of the cards published before
    Writers,            \* publication transactions
    Times,              \* readings of the replicas' clocks
    Filters,            \* [match: the cards it admits, limit: page size]
    MaxSequence         \* bound on the publications

VARIABLES
    version,            \* version[c]: row of catalog.agent_versions
    clock,              \* committed publication_clock.last_sequence
    lock,               \* the transactions that hold the row lock of the clock
    tx,                 \* tx[w]: an open publication
    walk                \* one traversal of a client

discoveryVars == <<version, clock, lock, tx, walk>>

NoTx == [card |-> 0, seq |-> 0, at |-> 0]
Draft == [status |-> "draft", seq |-> 0, at |-> 0]

(* start, gone: what was eligible at the first page, and what of it was     *)
(* disabled or published again since; kept for the property.                *)
NoWalk == [pc |-> "idle", filter |-> [match |-> {}, limit |-> 0], boundary |-> 0,
           after |-> 0, afterAt |-> 0, shown |-> <<>>, start |-> {}, gone |-> {}]

Sequence(c) == IF \E i \in DOMAIN Listed : Listed[i] = c
               THEN CHOOSE i \in DOMAIN Listed : Listed[i] = c ELSE 0

Init ==
    /\ \E at \in [Cards -> Times] :
        version = [c \in Cards |-> IF Sequence(c) = 0 THEN Draft
                    ELSE [status |-> "published", seq |-> Sequence(c), at |-> at[c]]]
    /\ clock = Len(Listed)
    /\ lock = {}
    /\ tx = [w \in Writers |-> NoTx]
    /\ walk = NoWalk

-----------------------------------------------------------------------------
\* Mutant: sequences are handed out without waiting for the row lock.
AdvanceUnlocked(w, c, at) ==
    /\ tx[w] = NoTx
    /\ version[c].status # "disabled" /\ \A x \in Writers : tx[x].card # c
    /\ LET seq == clock + 1 + Cardinality(lock) IN
        /\ seq <= MaxSequence
        /\ tx' = [tx EXCEPT ![w] = [card |-> c, seq |-> seq, at |-> at]]
    /\ lock' = lock \cup {w}
    /\ UNCHANGED <<version, clock, walk>>

(* The clock row is updated: later publications wait for this one to end.   *)
AdvanceClock(w, c, at) ==
    /\ tx[w] = NoTx /\ lock = {}
    /\ version[c].status # "disabled"
    /\ clock < MaxSequence
    /\ tx' = [tx EXCEPT ![w] = [card |-> c, seq |-> clock + 1, at |-> at]]
    /\ lock' = {w}
    /\ UNCHANGED <<version, clock, walk>>

Gone(c) == [walk EXCEPT !.gone = IF walk.pc = "next" THEN @ \cup {c} ELSE @]

End(w) == tx' = [tx EXCEPT ![w] = NoTx] /\ lock' = lock \ {w}

(* A draft is published, or a published version again with its release.     *)
CommitPublication(w) ==
    LET c == tx[w].card IN
    /\ tx[w] # NoTx
    /\ version[c].status # "disabled"
    /\ version' = [version EXCEPT ![c] = [status |-> "published", seq |-> tx[w].seq,
                                          at |-> tx[w].at]]
    /\ clock' = IF tx[w].seq > clock THEN tx[w].seq ELSE clock
    /\ walk' = Gone(c)
    /\ End(w)

(* The connection is lost, or the version was disabled in between (the      *)
(* release publication locks the version only now) and the check constraint *)
(* of its timestamps fails.                                                 *)
Rollback(w) ==
    /\ tx[w] # NoTx
    /\ End(w)
    /\ UNCHANGED <<version, clock, walk>>

Disable(c) ==
    /\ version[c].status # "disabled"
    /\ version' = [version EXCEPT ![c].status = "disabled"]
    /\ walk' = Gone(c)
    /\ UNCHANGED <<clock, lock, tx>>

-----------------------------------------------------------------------------
(* published_at descending, then the identity ascending.                    *)
Before(c, d) ==
    \/ version[c].at > version[d].at
    \/ version[c].at = version[d].at /\ c < d

AfterCursor(c) ==
    \/ version[c].at < walk.afterAt
    \/ version[c].at = walk.afterAt /\ c > walk.after

Eligible(c, f, boundary) ==
    /\ version[c].status = "published"
    /\ version[c].seq <= boundary
    /\ c \in f.match

(* discover and buildSearchResult: one row more than the limit is read, and *)
(* the cursor names the last row shown.                                     *)
Page(f, boundary, rows, found) ==
    LET sorted == SetToSortSeq(rows, Before)
        hasMore == Len(sorted) > f.limit
        shown == IF hasMore THEN SubSeq(sorted, 1, f.limit) ELSE sorted IN
    [found EXCEPT
        !.pc = IF hasMore THEN "next" ELSE "done", !.filter = f, !.boundary = boundary,
        !.after = IF hasMore THEN Last(shown) ELSE 0,
        !.afterAt = IF hasMore THEN version[Last(shown)].at ELSE 0,
        !.shown = @ \o shown]

(* Search without a cursor: boundary and rows in one repeatable-read        *)
(* snapshot.                                                                *)
DiscoverFirstPage(f) ==
    LET rows == {c \in Cards : Eligible(c, f, clock)} IN
    /\ walk.pc = "idle"
    /\ walk' = Page(f, clock, rows, [NoWalk EXCEPT !.start = rows])
    /\ UNCHANGED <<version, clock, lock, tx>>

(* DecodeCursor: the hash of the filter and of the limit has to agree.      *)
DecodeCursor(f) == f = walk.filter

Discover(f) ==
    /\ walk.pc = "next"
    /\ DecodeCursor(f)
    /\ walk' = Page(f, walk.boundary,
                    {c \in Cards : Eligible(c, f, walk.boundary) /\ AfterCursor(c)}, walk)
    /\ UNCHANGED <<version, clock, lock, tx>>

Next ==
    \/ \E w \in Writers :
        \/ \E c \in Cards, at \in Times : AdvanceClock(w, c, at)
        \/ CommitPublication(w)
        \/ Rollback(w)
    \/ \E c \in Cards : Disable(c)
    \/ \E f \in Filters : DiscoverFirstPage(f) \/ Discover(f)

Spec == Init /\ [][Next]_discoveryVars
-----------------------------------------------------------------------------
(* A traversal shows no version twice and none that was not eligible when   *)
(* it began, whatever commits meanwhile; once it is over it has shown every *)
(* version that stayed as it was.                                           *)
WalkIsExact ==
    /\ IsInjective(walk.shown)
    /\ Range(walk.shown) \subseteq walk.start
    /\ walk.pc = "done" => walk.start \ walk.gone \subseteq Range(walk.shown)
=============================================================================
