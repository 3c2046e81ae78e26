------------------------- MODULE SearchCursors_proofs -------------------------
(***************************************************************************)
(* Theorems about paged searches, for any calls, results and limits.       *)
(***************************************************************************)
EXTENDS SearchCursors, FiniteSetTheorems, TLAPS

\* An order of results is a sequence of rems.
LEMMA OrdersAreSequences == ASSUME NEW items \in Orders PROVE items \in Seq(Rems)
<1>1. Cardinality(Rems) \in Nat
  BY FS_CardinalityType, CursorAssumption DEF CursorAssumption
<1>2. PICK n \in 0..Cardinality(Rems) : items \in [1..n -> Rems]
  BY DEF Orders
<1>3. n \in Nat
  BY <1>1, <1>2
<1> QED
  BY <1>2, <1>3

\* Collecting leaves no repetition.
LEMMA CollectedOnce ==
  ASSUME NEW found \in Seq(Rems), NEW items \in Seq(Rems), IsCollected(items, found),
         NEW m \in DOMAIN items, NEW n \in DOMAIN items, items[m] = items[n]
  PROVE  m = n
<1>1. ASSUME NEW r \in Rems PROVE ~Precedes(found, r, r)
  <2>1. Priority[r] \in Nat
    BY CursorAssumption DEF CursorAssumption
  <2>2. ASSUME NEW i \in DOMAIN found, found[i] = r, \A j \in 1..i : found[j] # r
        PROVE FALSE
    BY <2>2
  <2> QED
    BY <2>1, <2>2 DEF Precedes
<1>2. ASSUME NEW i \in DOMAIN items, NEW j \in DOMAIN items, items[i] = items[j]
      PROVE ~(i < j)
  BY <1>1, <1>2 DEF IsCollected
<1>3. ~(m < n) /\ ~(n < m)
  BY <1>2
<1>4. m \in Nat /\ n \in Nat
  OBVIOUS
<1> QED
  BY <1>3, <1>4

LEMMA InitTypeOK == Init => TypeOK
  BY DEF Init, TypeOK, CallStates, Idle

\* What a snapshot is made of.
LEMMA MadeTyped ==
  ASSUME TypeOK, NEW i \in Made
  PROVE  /\ i \in Ids /\ snap[i] \in Snapshots
         /\ snap[i].kind \in Kinds /\ snap[i].query \in Queries
         /\ snap[i].items \in Seq(Rems) /\ Len(snap[i].items) \in Nat
         /\ DOMAIN snap[i].items = 1..Len(snap[i].items)
         /\ snap[i].last \in Nat /\ snap[i].born \in Nat
<1>1. i \in Ids /\ snap[i] \in Snapshots
  BY DEF TypeOK, Made
<1>2. snap[i].items \in Seq(Rems)
  BY <1>1 DEF Snapshots
<1> QED
  BY <1>1, <1>2 DEF Snapshots

\* What a call that renders a page holds.
LEMMA RenderingTyped ==
  ASSUME TypeOK, NEW c \in Calls, call[c].at = "rendering"
  PROVE  /\ call[c].id \in Made /\ call[c].offset \in Nat
         /\ call[c].limit \in Nat /\ call[c].limit > 0
         /\ call[c].limit \in PageSizes /\ call[c].offered \in SUBSET Rems
<1>1. call[c] \in [at : {"rendering"}, id : Ids, offset : Nat, limit : PageSizes,
                   offered : SUBSET Rems]
  <2>1. call[c] \in CallStates
    BY DEF TypeOK
  <2>2. call[c] # Idle
    BY DEF Idle
  <2>3. call[c] \notin [at : {"searching"}, kind : Kinds, query : Queries]
    OBVIOUS
  <2> QED
    BY <2>1, <2>2, <2>3 DEF CallStates
<1>2. PageSizes \subseteq Nat \ {0}
  BY CursorAssumption DEF CursorAssumption
<1>3. call[c].id \in Made
  BY DEF TypeOK
<1>4. /\ call[c].limit \in PageSizes /\ call[c].offset \in Nat
      /\ call[c].offered \in SUBSET Rems
  BY <1>1
<1>5. call[c].limit \in Nat \ {0}
  BY <1>2, <1>4
<1>6. call[c].limit \in Nat /\ call[c].limit > 0
  BY <1>5
<1> QED
  BY <1>3, <1>4, <1>6

LEMMA PageTyped ==
  ASSUME TypeOK, NEW c \in Calls, call[c].at = "rendering"
  PROVE  Page(c) \subseteq Rems
<1>1. call[c].id \in Made
  BY RenderingTyped
<1>2. Items(c) \in Seq(Rems)
  BY <1>1, MadeTyped DEF Items
<1> QED
  BY <1>2 DEF Page

\* A search that returns makes the snapshot of an id that had none.
LEMMA SearchMakes ==
  ASSUME TypeOK, NEW c \in Calls, call[c].at = "searching",
         NEW i \in Ids, NEW items \in Orders, NEW k, NEW q, snap[i] = None,
         k = call[c].kind, q = call[c].query,
         snap' = [snap EXCEPT ![i] = [kind |-> k, query |-> q, items |-> items,
                                      last |-> now, born |-> Cardinality(Made)]],
         IsFiniteSet(Made)
  PROVE  /\ i \notin Made /\ Made' = Made \cup {i}
         /\ \A j \in Made : snap'[j] = snap[j]
         /\ snap'[i] = [kind |-> k, query |-> q, items |-> items,
                        last |-> now, born |-> Cardinality(Made)]
         /\ k \in Kinds /\ snap'[i] \in Snapshots
         /\ snap' \in [Ids -> Snapshots \cup {None}]
<1>1. i \notin Made /\ snap'[i] = [kind |-> k, query |-> q, items |-> items,
                                   last |-> now, born |-> Cardinality(Made)]
  BY DEF TypeOK, Made
<1>2. k \in Kinds /\ q \in Queries
  <2>1. call[c] \in CallStates
    BY DEF TypeOK
  <2>2. call[c] # Idle
    BY DEF Idle
  <2>3. call[c] \notin [at : {"rendering"}, id : Ids, offset : Nat, limit : PageSizes,
                        offered : SUBSET Rems]
    OBVIOUS
  <2>4. call[c] \in [at : {"searching"}, kind : Kinds, query : Queries]
    BY <2>1, <2>2, <2>3 DEF CallStates
  <2> QED
    BY <2>4
<1>3. items \in Seq(Rems) /\ Cardinality(Made) \in Nat /\ now \in Nat
  BY OrdersAreSequences, FS_CardinalityType DEF TypeOK
<1>4. snap'[i] \in Snapshots
  BY <1>1, <1>2, <1>3 DEF Snapshots
<1>5. snap'[i] # None
  BY <1>4, NoneAssumption DEF NoneAssumption
<1> QED
  BY <1>1, <1>2, <1>4, <1>5 DEF TypeOK, Made

\* Pruning and evicting leave keys of snapshots that were made.
LEMMA KeysMade ==
  ASSUME TypeOK, NEW S \in SUBSET Made', live \subseteq Made', LimitEnforced(S, snap')
  PROVE  live' \subseteq Made'
  BY DEF LimitEnforced

LEMMA NextTypeOK ==
  ASSUME TypeOK, IsFiniteSet(Made), [Next]_vars
  PROVE  TypeOK'
<1> USE DEF TypeOK
<1>1. ASSUME NEW c \in Calls, StartSearch(c) PROVE TypeOK'
  <2>1. PICK k \in Kinds, q \in Queries : call' = [call EXCEPT ![c] = Searching(k, q)]
    BY <1>1 DEF StartSearch
  <2>2. Searching(k, q) \in CallStates /\ Searching(k, q).at = "searching"
    BY DEF Searching, CallStates
  <2>3. call' \in [Calls -> CallStates]
    BY <2>1, <2>2
  <2>4. Made' = Made /\ live' \subseteq Made' /\ UNCHANGED <<now, snap, cursors>>
    BY <1>1 DEF StartSearch, Unexpired, Made
  <2>5. \A d \in Calls : call'[d].at = "rendering" => call'[d] = call[d]
    BY <2>1, <2>2
  <2> QED
    BY <2>3, <2>4, <2>5
<1>2. ASSUME NEW c \in Calls, SearchReturns(c) PROVE TypeOK'
  <2>1. PICK i \in Ids, found \in Found, items \in Orders, n \in PageSizes :
          /\ snap[i] = None
          /\ snap' = [snap EXCEPT ![i] =
                        [kind |-> call[c].kind, query |-> call[c].query, items |-> items,
                         last |-> now, born |-> Cardinality(Made)]]
          /\ LimitEnforced(OfKind(call[c].kind) \cup {i}, snap')
          /\ call' = [call EXCEPT ![c] = Rendering(i, 0, n, {})]
    BY <1>2 DEF SearchReturns
  <2>2. call[c].at = "searching" /\ UNCHANGED <<now, cursors>>
    BY <1>2 DEF SearchReturns
  <2>3. Made' = Made \cup {i} /\ snap' \in [Ids -> Snapshots \cup {None}]
    BY <1>2, <2>1, <2>2, SearchMakes
  <2>4. live' \subseteq Made'
    BY <2>1, <2>3, KeysMade DEF OfKind
  <2>5. Rendering(i, 0, n, {}) \in CallStates /\ Rendering(i, 0, n, {}).id = i
    BY DEF Rendering, CallStates
  <2>6. call' \in [Calls -> CallStates]
    BY <2>1, <2>5
  <2>7. \A d \in Calls : call'[d].at = "rendering" => call'[d].id \in Made'
    BY <2>1, <2>3, <2>5
  <2> QED
    BY <2>2, <2>3, <2>4, <2>6, <2>7
<1>3. ASSUME NEW c \in Calls, ContinueSearch(c) PROVE TypeOK'
  <2>1. PICK cursor \in cursors, n \in PageSizes :
          /\ snap' = [snap EXCEPT ![cursor.id].last = now]
          /\ call' = [call EXCEPT ![c] =
                        Rendering(cursor.id, cursor.offset, n, cursor.offered)]
    BY <1>3 DEF ContinueSearch
  <2>2. cursor \in Cursors /\ cursor.id \in Made
    OBVIOUS
  <2>3. snap[cursor.id] \in Snapshots
    BY <2>2, MadeTyped
  <2>4. snap'[cursor.id] = [snap[cursor.id] EXCEPT !.last = now]
    BY <2>1, <2>2 DEF Made
  <2>5. snap'[cursor.id] \in Snapshots /\ snap'[cursor.id] # None
    BY SMTT(20), <2>3, <2>4, NoneAssumption DEF Snapshots, NoneAssumption
  <2>6. snap' \in [Ids -> Snapshots \cup {None}] /\ Made' = Made
    BY <2>1, <2>2, <2>5 DEF Made
  <2>7. Rendering(cursor.id, cursor.offset, n, cursor.offered) \in CallStates
    BY <2>2 DEF Rendering, CallStates, Cursors
  <2>8. \A d \in Calls : call'[d].at = "rendering" => call'[d].id \in Made
    BY <2>1, <2>2 DEF Rendering
  <2>9. live' \subseteq Made /\ UNCHANGED <<now, cursors>>
    BY <1>3 DEF ContinueSearch, Unexpired
  <2>10. call' \in [Calls -> CallStates]
    BY <2>1, <2>7
  <2> QED
    BY <2>6, <2>8, <2>9, <2>10
<1>4. ASSUME NEW c \in Calls, CursorRefused(c) PROVE TypeOK'
  BY <1>4 DEF CursorRefused, Unexpired, Made
<1>5. ASSUME NEW c \in Calls, PageReturned(c) PROVE TypeOK'
  <2>1. call[c].at = "rendering" /\ UNCHANGED <<now, snap, live>>
    BY <1>5 DEF PageReturned
  <2> DEFINE id == call[c].id
             cursor == [kind |-> snap[id].kind, query |-> snap[id].query,
                        id |-> id, offset |-> NextOffset(c),
                        offered |-> call[c].offered \cup Page(c)]
  <2>2. id \in Made /\ id \in Ids /\ snap[id].kind \in Kinds /\ snap[id].query \in Queries
    BY <2>1, RenderingTyped, MadeTyped
  <2>3. NextOffset(c) \in Nat
    BY <2>1, RenderingTyped DEF NextOffset
  <2>4. call[c].offered \cup Page(c) \in SUBSET Rems
    BY <2>1, RenderingTyped, PageTyped
  <2>5. cursor \in Cursors /\ cursor.id \in Made
    BY <2>2, <2>3, <2>4 DEF Cursors
  <2>6. cursors' = cursors \/ cursors' = cursors \cup {cursor}
    BY <1>5 DEF PageReturned
  <2>7. Idle \in CallStates /\ Idle.at # "rendering"
    BY DEF Idle, CallStates
  <2>8. call' = [call EXCEPT ![c] = Idle]
    BY <1>5 DEF PageReturned
  <2>9. call' \in [Calls -> CallStates] /\ Made' = Made
    BY <2>1, <2>7, <2>8 DEF Made
  <2>10. \A d \in Calls : call'[d].at = "rendering" => call'[d] = call[d]
    BY <2>7, <2>8
  <2>11. cursors' \subseteq Cursors /\ \A k \in cursors' : k.id \in Made
    BY <2>5, <2>6
  <2> QED
    BY <2>1, <2>9, <2>10, <2>11
<1>6. CASE Tick
  BY <1>6, CursorAssumption DEF Tick, Made, CursorAssumption
<1>7. CASE UNCHANGED vars
  BY <1>7 DEF vars, Made
<1> QED
  BY <1>1, <1>2, <1>3, <1>4, <1>5, <1>6, <1>7 DEF Next

-----------------------------------------------------------------------------
(* What a step does to the snapshots *)

\* The snapshots made before keep everything but the time of their last use.
SameSnapshots ==
    /\ now' \in Nat /\ now <= now'
    /\ \A i \in Made :
          /\ snap'[i].kind = snap[i].kind /\ snap'[i].query = snap[i].query
          /\ snap'[i].items = snap[i].items /\ snap'[i].born = snap[i].born
          /\ snap'[i].last = snap[i].last \/ snap'[i].last = now

\* The snapshot of i is made.
Makes(i, found, items) ==
    /\ i \in Ids /\ found \in Seq(Rems) /\ items \in Seq(Rems)
    /\ IsCollected(items, found)
    /\ i \notin Made /\ Made' = Made \cup {i}
    /\ snap'[i].items = items /\ snap'[i].last = now
    /\ snap'[i].born = Cardinality(Made)
    /\ now' = now /\ \A j \in Made : snap'[j] = snap[j]

LEMMA ReturnMakes ==
  ASSUME TypeOK, IsFiniteSet(Made), NEW c \in Calls, SearchReturns(c)
  PROVE  \E i \in Ids, found \in Seq(Rems), items \in Seq(Rems), n \in PageSizes :
            /\ Makes(i, found, items)
            /\ snap'[i].kind = call[c].kind /\ call[c].kind \in Kinds
            /\ LimitEnforced(OfKind(call[c].kind) \cup {i}, snap')
            /\ call' = [call EXCEPT ![c] = Rendering(i, 0, n, {})]
            /\ cursors' = cursors
<1>1. PICK i \in Ids, found \in Found, items \in Orders, n \in PageSizes :
        /\ snap[i] = None
        /\ IsCollected(items, found)
        /\ snap' = [snap EXCEPT ![i] =
                      [kind |-> call[c].kind, query |-> call[c].query, items |-> items,
                       last |-> now, born |-> Cardinality(Made)]]
        /\ LimitEnforced(OfKind(call[c].kind) \cup {i}, snap')
        /\ call' = [call EXCEPT ![c] = Rendering(i, 0, n, {})]
  BY DEF SearchReturns
<1>2. call[c].at = "searching" /\ UNCHANGED <<now, cursors>>
  BY DEF SearchReturns
<1>3. /\ i \notin Made /\ Made' = Made \cup {i}
      /\ \A j \in Made : snap'[j] = snap[j]
      /\ snap'[i] = [kind |-> call[c].kind, query |-> call[c].query, items |-> items,
                     last |-> now, born |-> Cardinality(Made)]
      /\ call[c].kind \in Kinds
  BY <1>1, <1>2, SearchMakes
<1>4. found \in Seq(Rems) /\ items \in Seq(Rems)
  BY OrdersAreSequences, CursorAssumption DEF CursorAssumption
<1>5. Makes(i, found, items) /\ snap'[i].kind = call[c].kind
  BY <1>1, <1>2, <1>3, <1>4 DEF Makes
<1> QED
  BY <1>1, <1>2, <1>3, <1>4, <1>5

LEMMA OtherStepsKeep ==
  ASSUME TypeOK, [Next]_vars, \A c \in Calls : ~SearchReturns(c)
  PROVE  SameSnapshots /\ Made' = Made /\ live' \subseteq live
<1>1. now \in Nat
  BY DEF TypeOK
<1>2. ASSUME NEW c \in Calls,
             StartSearch(c) \/ CursorRefused(c) \/ PageReturned(c)
      PROVE  SameSnapshots /\ Made' = Made /\ live' \subseteq live
  BY <1>1, <1>2 DEF StartSearch, CursorRefused, PageReturned, SameSnapshots, Made, Unexpired
<1>3. ASSUME NEW c \in Calls, ContinueSearch(c)
      PROVE  SameSnapshots /\ Made' = Made /\ live' \subseteq live
  <2>1. PICK cursor \in cursors : snap' = [snap EXCEPT ![cursor.id].last = now]
    BY <1>3 DEF ContinueSearch
  <2>2. cursor.id \in Made /\ cursor.id \in Ids /\ snap[cursor.id] \in Snapshots
    BY MadeTyped DEF TypeOK
  <2>3. snap'[cursor.id] = [snap[cursor.id] EXCEPT !.last = now]
    BY <2>1, <2>2 DEF TypeOK
  <2>4. \A i \in Ids : i # cursor.id => snap'[i] = snap[i]
    BY <2>1 DEF TypeOK
  <2>5. snap'[cursor.id] \in Snapshots
    BY <1>1, <2>2, <2>3 DEF Snapshots
  <2>6. snap'[cursor.id] # None
    BY <2>5, NoneAssumption DEF NoneAssumption
  <2>7. Made' = Made
    BY <2>2, <2>4, <2>6 DEF Made
  <2>8. /\ snap'[cursor.id].kind = snap[cursor.id].kind
        /\ snap'[cursor.id].query = snap[cursor.id].query
        /\ snap'[cursor.id].items = snap[cursor.id].items
        /\ snap'[cursor.id].born = snap[cursor.id].born
        /\ snap'[cursor.id].last = now
    BY <2>2, <2>3 DEF Snapshots
  <2>9. now' = now /\ live' \subseteq live
    BY <1>3 DEF ContinueSearch, Unexpired
  <2>10. \A i \in Made : i \in Ids
    BY DEF Made
  <2>11. SameSnapshots
    BY <1>1, <2>4, <2>8, <2>9, <2>10 DEF SameSnapshots
  <2> QED
    BY <2>7, <2>9, <2>11
<1>4. CASE Tick
  BY <1>1, <1>4 DEF Tick, SameSnapshots, Made
<1>5. CASE UNCHANGED vars
  BY <1>1, <1>5 DEF vars, SameSnapshots, Made
<1> QED
  BY <1>2, <1>3, <1>4, <1>5 DEF Next

-----------------------------------------------------------------------------
(* The order of snapshots, and what each holds *)

LEMMA NextInMadeOrder ==
  ASSUME TypeOK, InMadeOrder, [Next]_vars
  PROVE  InMadeOrder'
<1>1. IsFiniteSet(Made) /\ Cardinality(Made) \in Nat /\ now \in Nat
  BY FS_CardinalityType DEF InMadeOrder, TypeOK
<1>2. ASSUME NEW c \in Calls, SearchReturns(c) PROVE InMadeOrder'
  <2>1. PICK i \in Ids, found \in Seq(Rems), items \in Seq(Rems) : Makes(i, found, items)
    BY <1>1, <1>2, ReturnMakes
  <2>2. IsFiniteSet(Made') /\ Cardinality(Made') = Cardinality(Made) + 1
    BY <1>1, <2>1, FS_AddElement DEF Makes
  <2>3. snap'[i].last <= now' /\ snap'[i].born < Cardinality(Made')
    BY <1>1, <2>1, <2>2 DEF Makes
  <2>4. ASSUME NEW j \in Made PROVE snap'[j].last <= now' /\ snap'[j].born < Cardinality(Made')
    <3>1. snap[j].last <= now /\ snap[j].born < Cardinality(Made) /\ snap[j].born \in Nat
      BY MadeTyped DEF InMadeOrder
    <3>2. snap'[j] = snap[j] /\ now' = now
      BY <2>1 DEF Makes
    <3> QED
      BY <1>1, <2>2, <3>1, <3>2
  <2>5. Made' = Made \cup {i}
    BY <2>1 DEF Makes
  <2> QED
    BY <2>2, <2>3, <2>4, <2>5 DEF InMadeOrder
<1>3. CASE \A c \in Calls : ~SearchReturns(c)
  <2>1. SameSnapshots /\ Made' = Made
    BY <1>3, OtherStepsKeep
  <2>2. ASSUME NEW i \in Made PROVE snap'[i].last <= now' /\ snap'[i].born < Cardinality(Made')
    <3>1. snap[i].last <= now /\ snap[i].last \in Nat /\ snap[i].born < Cardinality(Made)
      BY MadeTyped DEF InMadeOrder
    <3>2. /\ snap'[i].last = snap[i].last \/ snap'[i].last = now
          /\ snap'[i].born = snap[i].born /\ now' \in Nat /\ now <= now'
      BY <2>1 DEF SameSnapshots
    <3> QED
      BY <1>1, <2>1, <3>1, <3>2
  <2> QED
    BY <1>1, <2>1, <2>2 DEF InMadeOrder
<1> QED
  BY <1>2, <1>3

LEMMA NextNoRepetition ==
  ASSUME TypeOK, IsFiniteSet(Made), NoRepetition, [Next]_vars
  PROVE  NoRepetition'
<1>1. ASSUME NEW c \in Calls, SearchReturns(c) PROVE NoRepetition'
  <2>1. PICK i \in Ids, found \in Seq(Rems), items \in Seq(Rems) : Makes(i, found, items)
    BY <1>1, ReturnMakes
  <2>2. \A m, n \in DOMAIN items : items[m] = items[n] => m = n
    BY <2>1, CollectedOnce DEF Makes
  <2>3. /\ Made' = Made \cup {i} /\ snap'[i].items = items
        /\ \A j \in Made : snap'[j] = snap[j]
    BY <2>1 DEF Makes
  <2> QED
    BY <2>2, <2>3 DEF NoRepetition
<1>2. CASE \A c \in Calls : ~SearchReturns(c)
  <2>1. SameSnapshots /\ Made' = Made
    BY <1>2, OtherStepsKeep
  <2> QED
    BY <2>1 DEF NoRepetition, SameSnapshots
<1> QED
  BY <1>1, <1>2

-----------------------------------------------------------------------------
(* The number of snapshots *)

\* Adding one and evicting leaves no more than there may be, and if one is
\* evicted exactly as many.
LEMMA EvictionBounds ==
  ASSUME NEW S, IsFiniteSet(S), Cardinality(S) <= MaxActive, NEW i, i \notin S
  PROVE  /\ IsFiniteSet(S \cup {i})
         /\ Cardinality(S \cup {i}) \in Nat
         /\ \A j \in S \cup {i} :
              /\ Cardinality((S \cup {i}) \ {j}) <= MaxActive
              /\ Cardinality(S \cup {i}) > MaxActive
                   => Cardinality((S \cup {i}) \ {j}) = MaxActive
<1>1. MaxActive \in Nat /\ Cardinality(S) \in Nat
  BY FS_CardinalityType, CursorAssumption DEF CursorAssumption
<1>2. IsFiniteSet(S \cup {i}) /\ Cardinality(S \cup {i}) = Cardinality(S) + 1
  BY FS_AddElement
<1>3. ASSUME NEW j \in S \cup {i}
      PROVE  Cardinality((S \cup {i}) \ {j}) = Cardinality(S \cup {i}) - 1
  BY <1>2, FS_RemoveElement
<1> QED
  BY <1>1, <1>2, <1>3

LEMMA OfKindFinite ==
  ASSUME TypeOK, InMadeOrder, NEW k
  PROVE  IsFiniteSet(OfKind(k))
<1>1. OfKind(k) \in SUBSET Made
  BY DEF OfKind, TypeOK
<1> QED
  BY <1>1, FS_Subset DEF InMadeOrder

\* What is kept of each kind once the snapshot of i has been added.
LEMMA KeptOfKind ==
  ASSUME TypeOK, NEW i, NEW found, NEW items, Makes(i, found, items), NEW k,
         snap'[i].kind = k, LimitEnforced(OfKind(k) \cup {i}, snap')
  PROVE  /\ \/ /\ Cardinality(OfKind(k) \cup {i}) > MaxActive
               /\ \E j \in OfKind(k) \cup {i} :
                     /\ IsOldest(j, OfKind(k) \cup {i}, snap')
                     /\ live' = (live \cup {i}) \ {j}
                     /\ OfKind(k)' = (OfKind(k) \cup {i}) \ {j}
            \/ /\ ~(Cardinality(OfKind(k) \cup {i}) > MaxActive)
               /\ live' = live \cup {i} /\ OfKind(k)' = OfKind(k) \cup {i}
         /\ \A l : l # k => OfKind(l)' = OfKind(l)
<1>1. /\ live \subseteq Made /\ i \notin Made
      /\ \A j \in Made : snap'[j].kind = snap[j].kind
  BY DEF Makes, TypeOK
<1>2. CASE Cardinality(OfKind(k) \cup {i}) > MaxActive
  <2>1. PICK j \in OfKind(k) \cup {i} : /\ IsOldest(j, OfKind(k) \cup {i}, snap')
                                      /\ live' = (live \cup (OfKind(k) \cup {i})) \ {j}
    BY <1>2 DEF LimitEnforced
  <2>2. live' = (live \cup {i}) \ {j}
    BY <2>1 DEF OfKind
  <2>3. OfKind(k)' = (OfKind(k) \cup {i}) \ {j}
    BY <1>1, <2>2 DEF OfKind
  <2>4. \A l : l # k => OfKind(l)' = OfKind(l)
    BY <1>1, <2>2 DEF OfKind
  <2> QED
    BY <1>2, <2>1, <2>2, <2>3, <2>4
<1>3. CASE ~(Cardinality(OfKind(k) \cup {i}) > MaxActive)
  <2>1. live' = live \cup {i}
    BY <1>3 DEF LimitEnforced, OfKind
  <2>2. OfKind(k)' = OfKind(k) \cup {i} /\ \A l : l # k => OfKind(l)' = OfKind(l)
    BY <1>1, <2>1 DEF OfKind
  <2> QED
    BY <1>3, <2>1, <2>2
<1> QED
  BY <1>2, <1>3

LEMMA MakeBounded ==
  ASSUME TypeOK, InMadeOrder, SnapshotsBounded,
         NEW i, NEW found, NEW items, Makes(i, found, items), NEW k \in Kinds,
         snap'[i].kind = k, LimitEnforced(OfKind(k) \cup {i}, snap')
  PROVE  SnapshotsBounded'
<1>1. i \notin OfKind(k) /\ IsFiniteSet(OfKind(k)) /\ Cardinality(OfKind(k)) <= MaxActive
  BY OfKindFinite DEF Makes, OfKind, TypeOK, SnapshotsBounded
<1>2. Cardinality(OfKind(k)') <= MaxActive
  <2>1. CASE Cardinality(OfKind(k) \cup {i}) > MaxActive
    <3>1. \/ /\ Cardinality(OfKind(k) \cup {i}) > MaxActive
             /\ \E j \in OfKind(k) \cup {i} :
                   /\ IsOldest(j, OfKind(k) \cup {i}, snap')
                   /\ live' = (live \cup {i}) \ {j}
                   /\ OfKind(k)' = (OfKind(k) \cup {i}) \ {j}
          \/ ~(Cardinality(OfKind(k) \cup {i}) > MaxActive)
      BY KeptOfKind
    <3>2. PICK j \in OfKind(k) \cup {i} : OfKind(k)' = (OfKind(k) \cup {i}) \ {j}
      BY <2>1, <3>1
    <3>3. Cardinality((OfKind(k) \cup {i}) \ {j}) <= MaxActive
      BY <1>1, EvictionBounds
    <3> QED
      BY <3>2, <3>3
  <2>2. CASE ~(Cardinality(OfKind(k) \cup {i}) > MaxActive)
    <3>1. OfKind(k)' = OfKind(k) \cup {i}
      BY <2>2, KeptOfKind
    <3>2. Cardinality(OfKind(k) \cup {i}) \in Nat /\ MaxActive \in Nat
      BY <1>1, EvictionBounds, CursorAssumption DEF CursorAssumption
    <3> QED
      BY <2>2, <3>1, <3>2
  <2> QED
    BY <2>1, <2>2
<1>3. ASSUME NEW l \in Kinds PROVE Cardinality(OfKind(l)') <= MaxActive
  <2>1. CASE l = k
    BY <1>2, <2>1
  <2>2. CASE l # k
    <3>1. OfKind(l)' = OfKind(l)
      BY <2>2, KeptOfKind
    <3> QED
      BY <3>1 DEF SnapshotsBounded
  <2> QED
    BY <2>1, <2>2
<1> QED
  BY <1>3 DEF SnapshotsBounded

LEMMA NextSnapshotsBounded ==
  ASSUME TypeOK, InMadeOrder, SnapshotsBounded, [Next]_vars
  PROVE  SnapshotsBounded'
<1>1. ASSUME NEW c \in Calls, SearchReturns(c) PROVE SnapshotsBounded'
  <2>1. PICK i \in Ids, found \in Seq(Rems), items \in Seq(Rems) :
          /\ Makes(i, found, items)
          /\ snap'[i].kind = call[c].kind /\ call[c].kind \in Kinds
          /\ LimitEnforced(OfKind(call[c].kind) \cup {i}, snap')
    BY <1>1, ReturnMakes DEF InMadeOrder
  <2>2. PICK k \in Kinds : k = call[c].kind
    BY <2>1
  <2> QED
    BY <2>1, <2>2, MakeBounded
<1>2. CASE \A c \in Calls : ~SearchReturns(c)
  <2>1. SameSnapshots /\ Made' = Made /\ live' \subseteq live
    BY <1>2, OtherStepsKeep
  <2>2. ASSUME NEW k \in Kinds PROVE Cardinality(OfKind(k)') <= MaxActive
    <3>1. OfKind(k)' \in SUBSET OfKind(k)
      BY <2>1 DEF OfKind, SameSnapshots, TypeOK
    <3>2. /\ Cardinality(OfKind(k)') <= Cardinality(OfKind(k))
          /\ IsFiniteSet(OfKind(k)') /\ IsFiniteSet(OfKind(k))
      BY <3>1, OfKindFinite, FS_Subset
    <3>3. Cardinality(OfKind(k)') \in Nat /\ Cardinality(OfKind(k)) \in Nat /\ MaxActive \in Nat
      BY <3>2, FS_CardinalityType, CursorAssumption DEF CursorAssumption
    <3>4. Cardinality(OfKind(k)) <= MaxActive
      BY DEF SnapshotsBounded
    <3> QED
      BY <3>2, <3>3, <3>4
  <2> QED
    BY <2>2 DEF SnapshotsBounded
<1> QED
  BY <1>1, <1>2

-----------------------------------------------------------------------------
(* What cursors have offered *)

LEMMA UpToKept ==
  ASSUME NEW i, NEW n, snap'[i].items = snap[i].items
  PROVE  UpTo(i, n)' = UpTo(i, n)
  BY DEF UpTo

\* A page takes what was offered to the offset of the next one.
LEMMA PageExtends ==
  ASSUME TypeOK, NEW c \in Calls, call[c].at = "rendering",
         call[c].offered = UpTo(call[c].id, call[c].offset)
  PROVE  call[c].offered \cup Page(c) = UpTo(call[c].id, NextOffset(c))
<1>1. /\ call[c].offset \in Nat /\ call[c].limit \in Nat /\ call[c].limit > 0
      /\ DOMAIN Items(c) = 1..Len(Items(c)) /\ Len(Items(c)) \in Nat
  BY RenderingTyped, MadeTyped DEF Items
<1>2. \A m \in 1..Len(Items(c)) :
         m <= call[c].offset + call[c].limit <=>
            \/ m <= call[c].offset
            \/ call[c].offset < m /\ m <= call[c].offset + call[c].limit
  BY <1>1
<1> QED
  BY <1>1, <1>2 DEF UpTo, Page, NextOffset, Items

\* A step that keeps every snapshot's results, and adds no cursor, and takes no
\* call to a page.
LEMMA OfferedKept ==
  ASSUME TypeOK, OfferedIsBefore, SameSnapshots, cursors' = cursors,
         \A c \in Calls : call'[c].at = "rendering" =>
            \/ call[c].at = "rendering" /\ call'[c] = call[c]
            \/ \E cursor \in cursors : /\ call'[c].id = cursor.id
                                       /\ call'[c].offset = cursor.offset
                                       /\ call'[c].offered = cursor.offered
  PROVE  OfferedIsBefore'
<1>1. \A i \in Made : \A n : UpTo(i, n)' = UpTo(i, n)
  BY UpToKept DEF SameSnapshots
<1>2. ASSUME NEW cursor \in cursors PROVE cursor.offered = UpTo(cursor.id, cursor.offset)'
  BY <1>1 DEF TypeOK, OfferedIsBefore
<1>3. ASSUME NEW c \in Calls, call'[c].at = "rendering"
      PROVE  call'[c].offered = UpTo(call[c].id, call[c].offset)'
  <2>1. CASE call[c].at = "rendering" /\ call'[c] = call[c]
    <3>1. PICK i \in Made, n \in {call[c].offset} : i = call[c].id /\ n = call[c].offset
      BY <2>1 DEF TypeOK
    <3>2. call[c].offered = UpTo(i, n)
      BY <2>1, <3>1 DEF OfferedIsBefore
    <3>3. UpTo(i, n)' = UpTo(i, n)
      BY <1>1
    <3>4. UpTo(call[c].id, call[c].offset)' = UpTo(i, n)'
      BY <2>1, <3>1 DEF UpTo
    <3> QED
      BY <2>1, <3>2, <3>3, <3>4
  <2>2. ASSUME NEW cursor \in cursors, call'[c].id = cursor.id,
               call'[c].offset = cursor.offset, call'[c].offered = cursor.offered
        PROVE  call'[c].offered = UpTo(call[c].id, call[c].offset)'
    BY <1>2, <2>2 DEF UpTo
  <2> QED
    BY <1>3, <2>1, <2>2
<1> QED
  BY <1>2, <1>3 DEF OfferedIsBefore

LEMMA NextOfferedIsBefore ==
  ASSUME TypeOK, IsFiniteSet(Made), OfferedIsBefore, [Next]_vars
  PROVE  OfferedIsBefore'
<1>1. ASSUME NEW c \in Calls, SearchReturns(c) PROVE OfferedIsBefore'
  <2>1. PICK i \in Ids, found \in Seq(Rems), items \in Seq(Rems), n \in PageSizes :
          /\ Makes(i, found, items) /\ cursors' = cursors
          /\ call' = [call EXCEPT ![c] = Rendering(i, 0, n, {})]
    BY <1>1, ReturnMakes
  <2>2. \A j \in Made : \A m : UpTo(j, m)' = UpTo(j, m)
    BY <2>1, UpToKept DEF Makes
  <2>3. UpTo(i, 0)' = {}
    BY <2>1 DEF UpTo, Makes
  <2>4. ASSUME NEW cursor \in cursors PROVE cursor.offered = UpTo(cursor.id, cursor.offset)'
    BY <2>2 DEF TypeOK, OfferedIsBefore
  <2>5. ASSUME NEW d \in Calls, call'[d].at = "rendering"
        PROVE  call'[d].offered = UpTo(call[d].id, call[d].offset)'
    <3>1. CASE d = c
      <4>1. call'[c].id = i /\ call'[c].offset = 0 /\ call'[c].offered = {}
        BY <2>1 DEF Rendering, TypeOK
      <4> QED
        BY <2>3, <3>1, <4>1 DEF UpTo
    <3>2. CASE d # c
      <4>1. call'[d] = call[d]
        BY <2>1, <3>2 DEF TypeOK
      <4>2. PICK j \in Made, m \in {call[d].offset} : j = call[d].id /\ m = call[d].offset
        BY <2>5, <4>1 DEF TypeOK
      <4>3. call[d].offered = UpTo(j, m)
        BY <2>5, <4>1, <4>2 DEF OfferedIsBefore
      <4>4. UpTo(j, m)' = UpTo(j, m)
        BY <2>2
      <4>5. UpTo(call[d].id, call[d].offset)' = UpTo(j, m)'
        BY <4>1, <4>2 DEF UpTo
      <4> QED
        BY <4>1, <4>3, <4>4, <4>5
    <3> QED
      BY <3>1, <3>2
  <2> QED
    BY <2>1, <2>4, <2>5 DEF OfferedIsBefore
<1>2. ASSUME NEW c \in Calls, PageReturned(c) PROVE OfferedIsBefore'
  <2>1. /\ call[c].at = "rendering" /\ call' = [call EXCEPT ![c] = Idle]
        /\ UNCHANGED <<now, snap, live>>
    BY <1>2 DEF PageReturned
  <2>2. \A i, n : UpTo(i, n)' = UpTo(i, n)
    BY <2>1 DEF UpTo
  <2>3. ASSUME NEW cursor \in cursors' PROVE cursor.offered = UpTo(cursor.id, cursor.offset)
    <3>1. CASE cursor \in cursors
      BY <3>1 DEF OfferedIsBefore
    <3>2. CASE cursor \notin cursors
      <4>1. cursor = [kind |-> snap[call[c].id].kind, query |-> snap[call[c].id].query,
                      id |-> call[c].id, offset |-> NextOffset(c),
                      offered |-> call[c].offered \cup Page(c)]
        BY <1>2, <2>3, <3>2 DEF PageReturned
      <4>2. /\ cursor.id = call[c].id /\ cursor.offset = NextOffset(c)
            /\ cursor.offered = call[c].offered \cup Page(c)
        BY <4>1
      <4>3. call[c].offered \cup Page(c) = UpTo(call[c].id, NextOffset(c))
        BY <2>1, PageExtends DEF OfferedIsBefore
      <4> QED
        BY <4>2, <4>3
    <3> QED
      BY <3>1, <3>2
  <2>4. \A d \in Calls : call'[d].at = "rendering" => call'[d] = call[d]
    BY <2>1 DEF Idle, TypeOK
  <2> QED
    BY <2>1, <2>2, <2>3, <2>4 DEF OfferedIsBefore, UpTo
<1>3. CASE \A c \in Calls : ~SearchReturns(c) /\ ~PageReturned(c)
  <2>1. SameSnapshots
    BY <1>3, OtherStepsKeep
  <2>2. ASSUME NEW c \in Calls, StartSearch(c) PROVE OfferedIsBefore'
    <3>1. PICK k \in Kinds, q \in Queries : call' = [call EXCEPT ![c] = Searching(k, q)]
      BY <2>2 DEF StartSearch
    <3>2. \A d \in Calls : call'[d].at = "rendering" => call'[d] = call[d]
      BY <3>1 DEF Searching, TypeOK
    <3> QED
      BY <2>1, <2>2, <3>2, OfferedKept DEF StartSearch
  <2>3. ASSUME NEW c \in Calls, ContinueSearch(c) PROVE OfferedIsBefore'
    <3>1. PICK cursor \in cursors, n \in PageSizes :
            call' = [call EXCEPT ![c] =
                       Rendering(cursor.id, cursor.offset, n, cursor.offered)]
      BY <2>3 DEF ContinueSearch
    <3>2. /\ call'[c].id = cursor.id /\ call'[c].offset = cursor.offset
          /\ call'[c].offered = cursor.offered
      BY <3>1 DEF Rendering, TypeOK
    <3>3. \A d \in Calls \ {c} : call'[d] = call[d]
      BY <3>1 DEF TypeOK
    <3> QED
      BY <2>1, <2>3, <3>2, <3>3, OfferedKept DEF ContinueSearch
  <2>4. ASSUME NEW c \in Calls, CursorRefused(c) PROVE OfferedIsBefore'
    BY <2>1, <2>4, OfferedKept DEF CursorRefused
  <2>5. CASE Tick
    BY <2>1, <2>5, OfferedKept DEF Tick
  <2>6. CASE UNCHANGED vars
    BY <2>1, <2>6, OfferedKept DEF vars
  <2> QED
    BY <1>3, <2>2, <2>3, <2>4, <2>5, <2>6 DEF Next
<1> QED
  BY <1>1, <1>2, <1>3

-----------------------------------------------------------------------------
(* The theorems *)

LEMMA InitInv == Init => CursorInv
<1> SUFFICES ASSUME Init PROVE CursorInv
  OBVIOUS
<1>1. TypeOK /\ Made = {} /\ live = {}
  BY InitTypeOK DEF Init, Made
<1>2. InMadeOrder /\ NoRepetition
  BY <1>1, FS_EmptySet DEF InMadeOrder, NoRepetition
<1>3. OfferedIsBefore
  BY DEF Init, Idle, OfferedIsBefore
<1>4. \A k : OfKind(k) = {}
  BY <1>1 DEF OfKind
<1>5. Cardinality({}) = 0 /\ 0 <= MaxActive
  BY FS_EmptySet, CursorAssumption DEF CursorAssumption
<1>6. SnapshotsBounded
  BY <1>4, <1>5 DEF SnapshotsBounded
<1> QED
  BY <1>1, <1>2, <1>3, <1>6 DEF CursorInv

LEMMA NextInv == CursorInv /\ [Next]_vars => CursorInv'
<1> SUFFICES ASSUME CursorInv, [Next]_vars PROVE CursorInv'
  OBVIOUS
<1> USE DEF CursorInv
<1>1. IsFiniteSet(Made)
  BY DEF InMadeOrder
<1>2. TypeOK' /\ InMadeOrder'
  BY <1>1, NextTypeOK, NextInMadeOrder
<1>3. NoRepetition' /\ OfferedIsBefore'
  BY <1>1, NextNoRepetition, NextOfferedIsBefore
<1>4. SnapshotsBounded'
  BY NextSnapshotsBounded
<1> QED
  BY <1>2, <1>3, <1>4

\* Snapshots stay in order and free of repetition, and cursors tell the truth.
THEOREM CursorInvHolds == Spec => []CursorInv
  BY InitInv, NextInv, PTL DEF Spec

\* The variables keep their types.
THEOREM TypeCorrect == Spec => []TypeOK
<1>1. CursorInv => TypeOK
  BY DEF CursorInv
<1> QED
  BY <1>1, CursorInvHolds, PTL

\* Both Maps stay within their limit, however many searches overlap.
THEOREM AlwaysBounded == Spec => []SnapshotsBounded
<1>1. CursorInv => SnapshotsBounded
  BY DEF CursorInv
<1> QED
  BY <1>1, CursorInvHolds, PTL

LEMMA InvEachResultOnce == CursorInv => EachResultOnce
<1> SUFFICES ASSUME CursorInv, NEW c \in Calls, call[c].at = "rendering"
             PROVE  /\ call[c].offered \cap Page(c) = {}
                    /\ NextOffset(c) >= Len(Items(c)) =>
                          call[c].offered \cup Page(c) = Range(Items(c))
  BY DEF EachResultOnce
<1>1. TypeOK /\ NoRepetition /\ OfferedIsBefore
  BY DEF CursorInv
<1>2. /\ call[c].id \in Made /\ call[c].offset \in Nat /\ call[c].limit \in Nat
      /\ DOMAIN Items(c) = 1..Len(Items(c)) /\ Len(Items(c)) \in Nat
  BY <1>1, RenderingTyped, MadeTyped DEF Items
<1>3. call[c].offered = UpTo(call[c].id, call[c].offset)
  BY <1>1 DEF OfferedIsBefore
<1>4. call[c].offered \cap Page(c) = {}
  <2>1. \A m, n \in DOMAIN Items(c) : Items(c)[m] = Items(c)[n] => m = n
    BY <1>1, <1>2 DEF NoRepetition, Items
  <2>2. \A m \in 1..Len(Items(c)) : ~(m <= call[c].offset /\ call[c].offset < m)
    BY <1>2
  <2> QED
    BY <1>2, <1>3, <2>1, <2>2 DEF UpTo, Page, Items
<1>5. ASSUME NextOffset(c) >= Len(Items(c))
      PROVE  call[c].offered \cup Page(c) = Range(Items(c))
  <2>1. call[c].offered \cup Page(c) = UpTo(call[c].id, NextOffset(c))
    BY <1>1, <1>3, PageExtends
  <2>2. NextOffset(c) \in Nat
    BY <1>2 DEF NextOffset
  <2>3. \A m \in 1..Len(Items(c)) : m <= NextOffset(c)
    BY <1>2, <1>5, <2>2
  <2> QED
    BY <1>2, <2>1, <2>3 DEF UpTo, Items, Range
<1> QED
  BY <1>4, <1>5

\* Whatever the limits and the searches meanwhile, following the cursors shows
\* every result exactly once.
THEOREM AlwaysEachResultOnce == Spec => []EachResultOnce
  BY InvEachResultOnce, CursorInvHolds, PTL

-----------------------------------------------------------------------------
(* What is evicted                                                         *)

\* The oldest of several is not the one made last.
LEMMA OldestIsNotNew ==
  ASSUME TypeOK, InMadeOrder, NEW i, NEW found, NEW items, Makes(i, found, items),
         NEW S \in SUBSET Made, S # {}
  PROVE  ~IsOldest(i, S \cup {i}, snap')
<1>1. PICK j \in S : j # i
  BY DEF Makes
<1>2. /\ snap[j].last <= now /\ snap[j].last \in Nat
      /\ snap[j].born < Cardinality(Made) /\ snap[j].born \in Nat
  BY MadeTyped DEF InMadeOrder
<1>3. snap'[j] = snap[j] /\ snap'[i].last = now /\ snap'[i].born = Cardinality(Made)
  BY DEF Makes
<1>4. now \in Nat /\ Cardinality(Made) \in Nat
  BY FS_CardinalityType DEF TypeOK, InMadeOrder
<1>5. ~(snap'[i].last < snap'[j].last) /\ ~(snap'[i].born < snap'[j].born)
  BY <1>2, <1>3, <1>4
<1> QED
  BY <1>1, <1>5 DEF IsOldest

LEMMA OnlyReturnMakes ==
  ASSUME TypeOK, [Next]_vars, NEW c \in Calls,
         call[c].at = "searching", call'[c].at = "rendering"
  PROVE  SearchReturns(c)
<1> USE DEF TypeOK
<1>1. call[c] # Idle /\ call'[c] # call[c]
  BY DEF Idle
<1>2. ASSUME NEW d \in Calls, StartSearch(d) \/ ContinueSearch(d) PROVE FALSE
  <2>1. call[d] = Idle
    BY <1>2 DEF StartSearch, ContinueSearch
  <2>2. c # d
    BY <1>1, <2>1
  <2>3. \E new : call' = [call EXCEPT ![d] = new]
    BY <1>2 DEF StartSearch, ContinueSearch
  <2> QED
    BY <1>1, <2>2, <2>3
<1>3. ASSUME NEW d \in Calls, PageReturned(d) PROVE FALSE
  BY <1>1, <1>3 DEF PageReturned, Idle
<1>4. ASSUME NEW d \in Calls, CursorRefused(d) PROVE FALSE
  BY <1>1, <1>4 DEF CursorRefused
<1>5. ASSUME NEW d \in Calls, SearchReturns(d) PROVE d = c
  BY <1>1, <1>5 DEF SearchReturns
<1>6. ~Tick /\ ~UNCHANGED vars
  BY <1>1 DEF Tick, vars
<1> QED
  BY <1>2, <1>3, <1>4, <1>5, <1>6 DEF Next

KeptFresh ==
    \A c \in Calls : call[c].at = "searching" /\ call'[c].at = "rendering"
                        => call'[c].id \in live'

LEMMA NextKeepsFresh == CursorInv /\ [Next]_vars => KeptFresh
<1> SUFFICES ASSUME CursorInv, [Next]_vars, NEW c \in Calls,
                    call[c].at = "searching", call'[c].at = "rendering"
             PROVE  call'[c].id \in live'
  BY DEF KeptFresh
<1>1. TypeOK /\ InMadeOrder /\ SnapshotsBounded /\ IsFiniteSet(Made)
  BY DEF CursorInv, InMadeOrder
<1>2. SearchReturns(c)
  BY <1>1, OnlyReturnMakes
<1>3. PICK i \in Ids, found \in Seq(Rems), items \in Seq(Rems), n \in PageSizes :
        /\ Makes(i, found, items)
        /\ snap'[i].kind = call[c].kind /\ call[c].kind \in Kinds
        /\ LimitEnforced(OfKind(call[c].kind) \cup {i}, snap')
        /\ call' = [call EXCEPT ![c] = Rendering(i, 0, n, {})]
        /\ cursors' = cursors
  BY <1>1, <1>2, ReturnMakes
<1>4. call'[c].id = i
  BY <1>1, <1>3 DEF Rendering, TypeOK
<1>5. PICK k \in Kinds : k = call[c].kind
  BY <1>3
<1>6. OfKind(k) \in SUBSET Made /\ IsFiniteSet(OfKind(k))
  BY <1>1, OfKindFinite DEF OfKind, TypeOK
<1>7. i \in live'
  <2>1. CASE ~(Cardinality(OfKind(k) \cup {i}) > MaxActive)
    BY <1>3, <1>5, <2>1 DEF LimitEnforced
  <2>2. CASE Cardinality(OfKind(k) \cup {i}) > MaxActive
    <3>1. PICK j \in OfKind(k) \cup {i} : /\ IsOldest(j, OfKind(k) \cup {i}, snap')
                                        /\ live' = (live \cup (OfKind(k) \cup {i})) \ {j}
      BY <1>3, <1>5, <2>2 DEF LimitEnforced
    <3>2. OfKind(k) # {}
      <4>1. Cardinality({i}) = 1 /\ MaxActive \in Nat \ {0}
        BY FS_Singleton, CursorAssumption DEF CursorAssumption
      <4>2. MaxActive >= 1 /\ MaxActive \in Nat
        BY <4>1
      <4>3. CASE OfKind(k) = {}
        <5>1. OfKind(k) \cup {i} = {i}
          BY <4>3
        <5>2. Cardinality(OfKind(k) \cup {i}) = 1
          BY <4>1, <5>1
        <5> QED
          BY <2>2, <4>2, <5>2
      <4> QED
        BY <4>3
    <3>3. j # i
      BY <1>1, <1>3, <1>6, <3>1, <3>2, OldestIsNotNew
    <3> QED
      BY <3>1, <3>3
  <2> QED
    BY <2>1, <2>2
<1> QED
  BY <1>4, <1>7

\* A search finds its own snapshot there when it comes to render its page.
THEOREM AlwaysKeepsFresh == Spec => FreshIsKept
<1>1. CursorInv /\ [Next]_vars => [KeptFresh]_vars
  BY NextKeepsFresh
<1>2. FreshIsKept <=> [][KeptFresh]_vars
  BY DEF FreshIsKept, KeptFresh
<1> QED
  BY <1>1, <1>2, CursorInvHolds, PTL DEF Spec

\* Those of the kind of i that remain and were used at least as late.
UsedSince(i) == {j \in live' : /\ snap'[j].kind = snap[i].kind
                               /\ snap'[j].last >= snap[i].last}

OldGoes ==
    \A i \in live \ live' :
       \/ now - snap[i].last > TTL
       \/ Cardinality(UsedSince(i)) >= MaxActive

\* The one evicted leaves as many as may be kept, all used since.
LEMMA EvictedIsOld ==
  ASSUME CursorInv, NEW i, NEW found, NEW items, Makes(i, found, items), NEW k \in Kinds,
         snap'[i].kind = k, LimitEnforced(OfKind(k) \cup {i}, snap'),
         CursorInv', NEW old \in live \ live'
  PROVE  Cardinality(UsedSince(old)) >= MaxActive
<1> USE DEF CursorInv
<1>1. /\ i \notin OfKind(k) /\ IsFiniteSet(OfKind(k))
      /\ Cardinality(OfKind(k)) <= MaxActive /\ OfKind(k) \subseteq Made
  BY OfKindFinite DEF Makes, OfKind, TypeOK, SnapshotsBounded
<1>2. /\ Cardinality(OfKind(k) \cup {i}) > MaxActive
      /\ \E j \in OfKind(k) \cup {i} :
            /\ IsOldest(j, OfKind(k) \cup {i}, snap')
            /\ live' = (live \cup {i}) \ {j}
            /\ OfKind(k)' = (OfKind(k) \cup {i}) \ {j}
  <2>1. \/ /\ Cardinality(OfKind(k) \cup {i}) > MaxActive
           /\ \E j \in OfKind(k) \cup {i} :
                 /\ IsOldest(j, OfKind(k) \cup {i}, snap')
                 /\ live' = (live \cup {i}) \ {j}
                 /\ OfKind(k)' = (OfKind(k) \cup {i}) \ {j}
        \/ live' = live \cup {i}
    BY KeptOfKind
  <2> QED
    BY <2>1
<1>3. /\ IsOldest(old, OfKind(k) \cup {i}, snap') /\ old \in OfKind(k) /\ old # i
      /\ OfKind(k)' = (OfKind(k) \cup {i}) \ {old}
  <2>1. old \in Made /\ i \notin Made
    BY DEF TypeOK, Makes
  <2> QED
    BY <1>2, <2>1
<1>4. Cardinality(OfKind(k)') = MaxActive
  <2>1. Cardinality((OfKind(k) \cup {i}) \ {old}) = MaxActive
    BY <1>1, <1>2, <1>3, EvictionBounds
  <2> QED
    BY <1>3, <2>1
<1>5. snap'[old] = snap[old] /\ snap[old].kind = k /\ snap[old].last \in Nat
  BY <1>1, <1>3, MadeTyped DEF Makes, OfKind
<1>6. ASSUME NEW j \in Made' PROVE snap'[j].last \in Nat
  <2>1. snap'[j] \in Snapshots
    BY DEF TypeOK, Made
  <2> QED
    BY <2>1 DEF Snapshots
<1>7. OfKind(k)' \in SUBSET UsedSince(old)
  <2>1. SUFFICES ASSUME NEW j \in OfKind(k)' PROVE j \in UsedSince(old)
    OBVIOUS
  <2>2. j \in live' /\ snap'[j].kind = k /\ j \in Made'
    BY DEF OfKind, TypeOK
  <2>3. snap'[old].last <= snap'[j].last
    <3>1. \/ snap'[old].last < snap'[j].last
          \/ snap'[old].last = snap'[j].last
      BY <1>3 DEF IsOldest
    <3> QED
      BY <1>5, <1>6, <2>2, <3>1
  <2>4. snap'[j].last >= snap[old].last
    BY <1>5, <1>6, <2>2, <2>3
  <2> QED
    BY <1>5, <2>2, <2>4 DEF UsedSince
<1>8. UsedSince(old) \in SUBSET Made' /\ IsFiniteSet(Made')
  BY DEF UsedSince, TypeOK, InMadeOrder
<1>9. IsFiniteSet(UsedSince(old))
  BY <1>8, FS_Subset
<1>10. /\ Cardinality(OfKind(k)') <= Cardinality(UsedSince(old))
       /\ Cardinality(UsedSince(old)) \in Nat
  BY <1>7, <1>9, FS_Subset, FS_CardinalityType
<1>11. MaxActive \in Nat
  BY CursorAssumption DEF CursorAssumption
<1> QED
  BY <1>4, <1>10, <1>11

LEMMA NextOldGoes == CursorInv /\ [Next]_vars => OldGoes
<1> SUFFICES ASSUME CursorInv, [Next]_vars, NEW old \in live \ live'
             PROVE  \/ now - snap[old].last > TTL
                    \/ Cardinality(UsedSince(old)) >= MaxActive
  BY DEF OldGoes
<1>1. TypeOK /\ InMadeOrder /\ IsFiniteSet(Made) /\ CursorInv'
  BY NextInv DEF CursorInv, InMadeOrder
<1>2. old \in Made /\ snap[old].last \in Nat /\ now \in Nat /\ TTL \in Nat
  BY <1>1, MadeTyped, CursorAssumption DEF TypeOK, CursorAssumption
<1>3. ASSUME NEW c \in Calls, SearchReturns(c)
      PROVE  Cardinality(UsedSince(old)) >= MaxActive
  <2>1. PICK i \in Ids, found \in Seq(Rems), items \in Seq(Rems), n \in PageSizes :
          /\ Makes(i, found, items)
          /\ snap'[i].kind = call[c].kind /\ call[c].kind \in Kinds
          /\ LimitEnforced(OfKind(call[c].kind) \cup {i}, snap')
          /\ call' = [call EXCEPT ![c] = Rendering(i, 0, n, {})]
          /\ cursors' = cursors
    BY <1>1, <1>3, ReturnMakes
  <2>2. PICK k \in Kinds : k = call[c].kind
    BY <2>1
  <2>3. snap'[i].kind = k /\ LimitEnforced(OfKind(k) \cup {i}, snap')
    BY <2>1, <2>2
  <2> QED
    BY <1>1, <2>1, <2>3, EvictedIsOld
<1>4. CASE live' = Unexpired
  <2>1. ~(now - snap[old].last <= TTL)
    BY <1>4 DEF Unexpired
  <2> QED
    BY <1>2, <2>1
<1>5. live' # live
  OBVIOUS
<1> QED
  BY <1>3, <1>4, <1>5 DEF Next, StartSearch, ContinueSearch, CursorRefused,
                          PageReturned, Tick, vars

\* Snapshots go because nobody used them for long, or for enough later ones.
THEOREM AlwaysGoneOnlyIfOld == Spec => GoneOnlyIfOld
<1>1. CursorInv /\ [Next]_vars => [OldGoes]_vars
  BY NextOldGoes
<1>2. GoneOnlyIfOld <=> [][OldGoes]_vars
  BY DEF GoneOnlyIfOld, OldGoes, UsedSince
<1> QED
  BY <1>1, <1>2, CursorInvHolds, PTL DEF Spec
=============================================================================
