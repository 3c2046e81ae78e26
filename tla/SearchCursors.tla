----------------------------- MODULE SearchCursors -----------------------------
(***************************************************************************)
(* Paged searches of the RemNote adapter (packages/bridge/src/api/rem-     *)
(* adapter.ts): search and search_by_tag take a snapshot of their ordered  *)
(* results, keep it in one Map for each kind and hand out cursors into it. *)
(* Snapshots expire when they are not used and the least recently used is  *)
(* evicted when there are too many, while other calls are suspended in the *)
(* RemNote SDK. The code of the two tools is the same but for names:       *)
(* create...Snapshot, get...SnapshotFromCursor and render...Page.          *)
(*                                                                         *)
(*   - What a cursor is bound to (query and parent, or tag and result      *)
(*     mode, and their hash) is one value, the query.                      *)
(*   - A rem that was deleted since the search is left out of its page;    *)
(*     offsets count it all the same, so it plays no part here.            *)
(*   - The clock does not go backwards.                                    *)
(***************************************************************************)
EXTENDS Naturals, Sequences, FiniteSets, Functions

CONSTANTS
    Calls,      \* tool calls that run at the same time
    Kinds,      \* "search" and "search_by_tag"
    Queries,    \* what a cursor is bound to
    Rems,       \* what searches find
    Priority,   \* TYPE_PRIORITY of each rem's type
    Ids,        \* snapshot ids, each used once: bounds the searches
    PageSizes,  \* the limits callers ask for
    Found,      \* what searches report, repetitions included
    MaxActive,  \* SEARCH_CURSOR_MAX_ACTIVE
    TTL,        \* SEARCH_CURSOR_TTL_MS
    MaxTime,    \* bound: the clock
    None

ASSUME CursorAssumption ==
    /\ IsFiniteSet(Rems) /\ Priority \in [Rems -> Nat]
    /\ PageSizes \subseteq Nat \ {0}
    /\ Found \subseteq Seq(Rems)
    /\ MaxActive \in Nat \ {0} /\ TTL \in Nat /\ MaxTime \in Nat

VARIABLES
    now,        \* Date.now()
    snap,       \* the snapshot of every id, None before it is made
    live,       \* the ids that are keys of the two Maps
    call,       \* what each call is suspended in
    cursors     \* the cursors handed out

vars == <<now, snap, live, call, cursors>>

Snapshots == [kind : Kinds, query : Queries, items : Seq(Rems), last : Nat, born : Nat]

ASSUME NoneAssumption == None \notin Snapshots

(***************************************************************************)
(* History: `offered' holds the results of the pages that led to a cursor. *)
(***************************************************************************)
Cursors == [kind : Kinds, query : Queries, id : Ids, offset : Nat,
            offered : SUBSET Rems]

Idle == [at |-> "idle"]

Searching(k, q) == [at |-> "searching", kind |-> k, query |-> q]

Rendering(i, offset, n, offered) ==
    [at |-> "rendering", id |-> i, offset |-> offset, limit |-> n, offered |-> offered]

CallStates ==
    {Idle}
      \cup [at : {"searching"}, kind : Kinds, query : Queries]
      \cup [at : {"rendering"}, id : Ids, offset : Nat, limit : PageSizes,
            offered : SUBSET Rems]

Made == {i \in Ids : snap[i] # None}

TypeOK ==
    /\ now \in Nat
    /\ snap \in [Ids -> Snapshots \cup {None}]
    /\ live \in SUBSET Made
    /\ call \in [Calls -> CallStates]
    /\ cursors \in SUBSET Cursors
    /\ \A c \in Calls : call[c].at = "rendering" => call[c].id \in Made
    /\ \A cursor \in cursors : cursor.id \in Made

Init ==
    /\ now = 0
    /\ snap = [i \in Ids |-> None]
    /\ live = {}
    /\ call = [c \in Calls |-> Idle]
    /\ cursors = {}

-----------------------------------------------------------------------------
(* Helpers *)

Unexpired == {i \in live : now - snap[i].last <= TTL}

OfKind(k) == {i \in live : snap[i].kind = k}

Orders == UNION {[1..n -> Rems] : n \in 0..Cardinality(Rems)}

\* By type, then by where the search first reports them.
Precedes(found, r, s) ==
    \/ Priority[r] < Priority[s]
    \/ /\ Priority[r] = Priority[s]
       /\ \E i \in DOMAIN found : found[i] = r /\ \A j \in 1..i : found[j] # s

\* The results once each, in that order.
IsCollected(items, found) ==
    /\ Range(items) = Range(found)
    /\ \A i, j \in DOMAIN items : i < j => Precedes(found, items[i], items[j])

\* Faulty variant: the first one made goes.
IsFirstMade(i, S, snaps) == \A j \in S \ {i} : snaps[i].born < snaps[j].born

\* The first, in the Map's order, of those used least recently.
IsOldest(i, S, snaps) ==
    \A j \in S \ {i} :
       \/ snaps[i].last < snaps[j].last
       \/ snaps[i].last = snaps[j].last /\ snaps[i].born < snaps[j].born

\* enforceSnapshotMapLimit on the Map of keys S, which one snapshot has just
\* been added to: the loop runs at most once.
LimitEnforced(S, snaps) ==
    IF Cardinality(S) > MaxActive
    THEN \E i \in S : IsOldest(i, S, snaps) /\ live' = (live \cup S) \ {i}
    ELSE live' = live \cup S

Items(c) == snap[call[c].id].items

\* What renderSearchPage shows, and the offset of the next page.
Page(c) ==
    {Items(c)[i] : i \in {j \in DOMAIN Items(c) :
                            call[c].offset < j /\ j <= call[c].offset + call[c].limit}}

\* Faulty variants: the next page starts one result too early, and the cursor
\* counts what is left.
NextOffsetInclusive(c) == call[c].offset + call[c].limit - 1
NextOffsetFromEnd(c)   == Len(Items(c)) - call[c].offset - call[c].limit

NextOffset(c) == call[c].offset + call[c].limit

-----------------------------------------------------------------------------
(* Steps of a call *)

\* A search without a cursor: prune, then wait for the SDK.
StartSearch(c) ==
    /\ call[c] = Idle
    /\ \E k \in Kinds, q \in Queries : call' = [call EXCEPT ![c] = Searching(k, q)]
    /\ live' = Unexpired
    /\ UNCHANGED <<now, snap, cursors>>

\* The snapshot is made and kept, and its first page is rendered.
SearchReturns(c) ==
    /\ call[c].at = "searching"
    /\ \E i \in Ids, found \in Found, items \in Orders, n \in PageSizes :
          /\ snap[i] = None
          /\ IsCollected(items, found)
          /\ snap' = [snap EXCEPT ![i] =
                        [kind |-> call[c].kind, query |-> call[c].query, items |-> items,
                         last |-> now, born |-> Cardinality(Made)]]
          /\ LimitEnforced(OfKind(call[c].kind) \cup {i}, snap')
          /\ call' = [call EXCEPT ![c] = Rendering(i, 0, n, {})]
    /\ UNCHANGED <<now, cursors>>

\* A cursor whose snapshot is there, presented with its query.
Matches(cursor, k, q) ==
    /\ cursor.kind = k /\ cursor.id \in Unexpired
    /\ snap[cursor.id].query = q

ContinueSearch(c) ==
    /\ call[c] = Idle
    /\ \E cursor \in cursors, n \in PageSizes :
          /\ Matches(cursor, cursor.kind, cursor.query)
          /\ snap' = [snap EXCEPT ![cursor.id].last = now]
          /\ call' = [call EXCEPT ![c] =
                        Rendering(cursor.id, cursor.offset, n, cursor.offered)]
    /\ live' = Unexpired
    /\ UNCHANGED <<now, cursors>>

\* Expired, evicted, or for another query: an error, after pruning.
CursorRefused(c) ==
    /\ call[c] = Idle
    /\ \E cursor \in cursors, k \in Kinds, q \in Queries : ~Matches(cursor, k, q)
    /\ live' = Unexpired
    /\ UNCHANGED <<now, snap, call, cursors>>

\* The page is returned, with a cursor if there is more.
PageReturned(c) ==
    /\ call[c].at = "rendering"
    /\ cursors' =
          IF NextOffset(c) >= Len(Items(c)) THEN cursors
          ELSE cursors \cup {[kind |-> snap[call[c].id].kind,
                              query |-> snap[call[c].id].query,
                              id |-> call[c].id, offset |-> NextOffset(c),
                              offered |-> call[c].offered \cup Page(c)]}
    /\ call' = [call EXCEPT ![c] = Idle]
    /\ UNCHANGED <<now, snap, live>>

Tick ==
    /\ now < MaxTime
    /\ now' = now + 1
    /\ UNCHANGED <<snap, live, call, cursors>>

Next ==
    \/ \E c \in Calls :
          \/ StartSearch(c) \/ SearchReturns(c)
          \/ ContinueSearch(c) \/ CursorRefused(c) \/ PageReturned(c)
    \/ Tick

Spec == Init /\ [][Next]_vars

-----------------------------------------------------------------------------
(* Properties *)

\* The adapter never holds more snapshots of a kind than it may, however many
\* searches overlap.
SnapshotsBounded == \A k \in Kinds : Cardinality(OfKind(k)) <= MaxActive

\* Going from cursor to cursor, with any limits and whatever else is searched
\* meanwhile, no result is offered twice and the last page leaves none out.
EachResultOnce ==
    \A c \in Calls : call[c].at = "rendering" =>
       /\ call[c].offered \cap Page(c) = {}
       /\ NextOffset(c) >= Len(Items(c)) =>
             call[c].offered \cup Page(c) = Range(Items(c))

\* The snapshot a search has just made is not the one evicted for it.
FreshIsKept ==
    [][\A c \in Calls : call[c].at = "searching" /\ call'[c].at = "rendering"
                           => call'[c].id \in live']_vars

\* A snapshot goes only when it has expired, or when others of its kind, as
\* many as may be kept, were used after it or at the same time.
GoneOnlyIfOld ==
    [][\A i \in live \ live' :
          \/ now - snap[i].last > TTL
          \/ Cardinality({j \in live' : /\ snap'[j].kind = snap[i].kind
                                        /\ snap'[j].last >= snap[i].last}) >= MaxActive
      ]_vars

(***************************************************************************)
(* The inductive invariant behind these properties.                        *)
(***************************************************************************)

\* Snapshots are numbered as they are made and used in the past.
InMadeOrder ==
    /\ IsFiniteSet(Made)
    /\ \A i \in Made : snap[i].last <= now /\ snap[i].born < Cardinality(Made)

\* A snapshot holds each result once.
NoRepetition ==
    \A i \in Made : \A m, n \in DOMAIN snap[i].items :
       snap[i].items[m] = snap[i].items[n] => m = n

UpTo(i, offset) ==
    {snap[i].items[m] : m \in {n \in DOMAIN snap[i].items : n <= offset}}

\* A cursor, and a call that follows one, has offered what is before its offset.
OfferedIsBefore ==
    /\ \A cursor \in cursors : cursor.offered = UpTo(cursor.id, cursor.offset)
    /\ \A c \in Calls : call[c].at = "rendering" =>
          call[c].offered = UpTo(call[c].id, call[c].offset)

\* What holds of snapshots, cursors and calls between any two steps.
CursorInv ==
    TypeOK /\ InMadeOrder /\ NoRepetition /\ OfferedIsBefore /\ SnapshotsBounded
=============================================================================
