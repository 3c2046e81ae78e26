------------------------------ MODULE NoteWrites ------------------------------
(***************************************************************************)
(* The adapter's operations on notes, as tool calls that overlap each      *)
(* other and the user's own editing.  The adapter awaits RemNote at every  *)
(* lookup, so what one step has read may have changed by the next; only    *)
(* what runs in app.transaction is one step.  moveNote, updateTags and     *)
(* setDocumentStatus run in none.                                          *)
(*                                                                         *)
(* A request's lines are its markdown, refs the rems its [[id:...]] tokens *)
(* name.  title is Untitled when absent, rem and parent are 0 when absent. *)
(***************************************************************************)
EXTENDS RemTree

CONSTANTS
    MaxCalls,   \* bound on the calls
    Requests,   \* what they ask for
    Start,      \* the knowledge base at first
    Switches,   \* the settings: accept writes, replacing; auto-tag, prefix
    Daily,      \* today's daily document
    Editable,   \* the rems the user moves or removes
    Edits       \* bound on the user's edits and RemNote's failures, together

ASSUME NotesAssumption == Start.next \in Nat /\ Edits \in Nat /\ MaxCalls \in Nat

\* A page has one child at least (ListChildrenSchema).
ASSUME ListAssumption ==
    \A q \in Requests : q.kind = "list" => q.limit \in Nat \ {0} /\ q.parent \in Nodes

VARIABLES
    kb,         \* the knowledge base
    call,       \* the calls
    switch,     \* this.settings
    edits       \* edits and failures still to come

vars == <<kb, call, switch, edits>>

Calls == 1..MaxCalls
NoRequest == [kind |-> "none"]

\* at: the rem a walk has reached, a position or an offset; todo: tag changes
\* left; seen: children listed; title: the title an update found; fresh: whether
\* no other actor has changed the tree since the call began; wrote: whether the
\* call has changed anything.
NoCall == [pc |-> "idle", req |-> NoRequest, at |-> 0, todo |-> <<>>, seen |-> <<>>,
           title |-> Untitled, fresh |-> TRUE, wrote |-> FALSE]

Ended == {"done", "failed"}
Busy  == {"look", "walk", "parent", "place", "prepare", "commit", "verify"}

TypeOK ==
    /\ kb \in Trees
    /\ call \in [Calls -> [pc : {"idle"} \cup Busy \cup Ended,
                           req : Requests \cup {NoRequest}, at : Int,
                           todo : Seq({"add", "remove"} \X Rems), seen : Seq(Rems),
                           title : Texts \cup {Untitled},
                           fresh : BOOLEAN, wrote : BOOLEAN]]
    /\ switch \in Switches /\ edits \in 0..Edits
    /\ \A c \in Calls : call[c].pc = "done" => call[c].todo = <<>>
    /\ \A r \in Rems : Cardinality(Parents(kb, r)) <= 1
    /\ \A p \in Nodes : Cardinality(ToSet(kb.kids[p])) = Len(kb.kids[p])

-----------------------------------------------------------------------------
(* Steps of a call *)

req(c) == call[c].req
At(c, kind, pc) == req(c).kind = kind /\ call[c].pc = pc

Becomes(c, next) == call' = [call EXCEPT ![c] = next]

\* Call c, or with c = 0 the user, makes k of the knowledge base.
Changes(c, k, next) ==
    /\ kb' = k
    /\ call' = [d \in Calls |->
          IF d = c THEN [next EXCEPT !.wrote = @ \/ k # kb]
          ELSE IF call[d].pc \in Busy /\ k.kids # kb.kids
               THEN [call[d] EXCEPT !.fresh = FALSE]
          ELSE call[d]]

Goes(c, pc) == Becomes(c, [call[c] EXCEPT !.pc = pc]) /\ UNCHANGED kb
Fails(c) == Goes(c, "failed")
Commits(c, k) == Changes(c, k, [call[c] EXCEPT !.pc = "done"])

rest == <<switch, edits>>

Allowed(q) ==
    q.kind = "list" \/ (switch.writes /\ (q.kind = "replace" => switch.replaces))

\* Aliases must not be blank, nor both added and removed.
GoodAliases(add, remove) ==
    LET a == ToSet(ParseAliases(add))  r == ToSet(ParseAliases(remove))
    IN Untitled \notin a \cup r /\ a \cap r = {}

\* What each operation demands of its arguments before it looks at the tree.
Valid(q) ==
    CASE q.kind = "create" ->
            /\ GoodAliases(q.add, <<>>)
            /\ q.title = Untitled =>
                  ~q.document /\ q.add = <<>> /\ NormalizeContent(q.lines) # <<>>
      [] q.kind = "journal" -> NormalizeContent(q.lines) # <<>>
      [] q.kind = "update" ->
            /\ GoodAliases(q.add, q.remove)
            /\ q.title # Untitled \/ q.add # <<>> \/ q.remove # <<>>
      [] q.kind = "tags" -> q.add # <<>> \/ q.remove # <<>>
      [] q.kind \in {"insert", "move"} ->
            (q.position \in {"before", "after"}) = (q.sibling # 0)
      [] OTHER -> TRUE

Begin(c, q) ==
    /\ call[c].pc = "idle" /\ \A d \in 1..(c - 1) : call[d].pc # "idle"
    /\ Becomes(c, [NoCall EXCEPT
          !.req = q,
          !.pc = IF ~Allowed(q) \/ ~Valid(q) THEN "failed"
                 ELSE IF q.kind \in {"create", "journal"} THEN "prepare" ELSE "look"])
    /\ UNCHANGED <<kb, rest>>

\* Where a child goes among siblings, the one that moves left out.
PositionIn(siblings, q) ==
    CASE q.position = "first" -> 0
      [] q.position = "last" -> Len(siblings)
      [] q.position = "before" -> IndexIn(siblings, q.sibling) - 1
      [] q.position = "after" -> IndexIn(siblings, q.sibling)

SiblingFound(siblings, q) == q.sibling # 0 => q.sibling \in ToSet(siblings)

\* prepareMarkdownIdReferenceTokens: the rems referred to must exist.  An update
\* without a title has nothing to prepare, and reads the title there is.
Prepare(c) ==
    /\ call[c].pc = "prepare"
    /\ IF \E r \in req(c).refs : ~Exists(kb, r) THEN Fails(c)
       ELSE IF req(c).kind = "journal" /\ ~Exists(kb, Daily) THEN Fails(c)
       ELSE /\ Becomes(c, [call[c] EXCEPT
                  !.pc = "commit",
                  !.title = IF req(c).kind # "update" THEN @
                            ELSE IF req(c).title # Untitled THEN req(c).title
                            ELSE kb.text[req(c).rem]])
            /\ UNCHANGED kb
    /\ UNCHANGED rest

-----------------------------------------------------------------------------
(* insertChildren and replaceChildren *)

\* getInsertPosition; blank content ends the call.
InsertLook(c) ==
    LET q == req(c)  siblings == kb.kids[q.parent] IN
    /\ At(c, "insert", "look")
    /\ IF ~Exists(kb, q.parent) \/ ~SiblingFound(siblings, q) THEN Fails(c)
       ELSE /\ Becomes(c, [call[c] EXCEPT
                  !.at = PositionIn(siblings, q),
                  !.pc = IF NormalizeContent(q.lines) = <<>> THEN "done" ELSE "prepare"])
            /\ UNCHANGED kb
    /\ UNCHANGED rest

InsertCommit(c) ==
    /\ At(c, "insert", "commit")
    /\ Commits(c, CreateRems(kb, req(c).parent, NormalizeContent(req(c).lines), call[c].at))
    /\ UNCHANGED rest

\* Faulty variant: the children go before the references are checked.
ReplaceLookClearing(c) ==
    /\ At(c, "replace", "look")
    /\ IF ~Exists(kb, req(c).parent) THEN Fails(c)
       ELSE Changes(c, ClearContent(kb, req(c).parent), [call[c] EXCEPT !.pc = "prepare"])
    /\ UNCHANGED rest

ReplaceLook(c) ==
    /\ At(c, "replace", "look")
    /\ IF ~Exists(kb, req(c).parent) THEN Fails(c) ELSE Goes(c, "prepare")
    /\ UNCHANGED rest

ReplaceCommit(c) ==
    /\ At(c, "replace", "commit")
    /\ Commits(c, CreateRems(ClearContent(kb, req(c).parent), req(c).parent,
                             NormalizeContent(req(c).lines), Unplaced))
    /\ UNCHANGED rest

-----------------------------------------------------------------------------
(* createNote and appendJournal *)

Titled(k, q, tags) ==
    LET t    == k.next
        note == [Add(k, q.parent, "content", q.title) EXCEPT
                    !.doc[t] = q.document, !.tags[t] = tags]
    IN CreateRems(AddAliases(note, t, ParseAliases(q.add), q.title), t,
                  NormalizeContent(q.lines), Unplaced)

Untitledly(k, q, tags) ==
    LET lines == NormalizeContent(q.lines)
    IN TagTopLevelRems(CreateRems(k, q.parent, lines, Unplaced), k, lines, q.parent, tags)

CreateCommit(c) ==
    LET q == req(c)  tags == q.tags \cup switch.autoTag IN
    /\ At(c, "create", "commit")
    /\ Commits(c, IF q.title # Untitled THEN Titled(kb, q, tags) ELSE Untitledly(kb, q, tags))
    /\ UNCHANGED rest

\* More than two lines go below a root with the prefix; with fewer the prefix is
\* put before the content as it came, blank lines and all.
JournalRoot(q) == switch.prefix /\ Len(NormalizeContent(q.lines)) > 2

JournalLines(q) ==
    IF switch.prefix /\ ~JournalRoot(q) /\ q.lines # <<>>
    THEN <<0>> \o Tail(q.lines) ELSE NormalizeContent(q.lines)

JournalCommit(c) ==
    LET q == req(c)  lines == JournalLines(q)  root == kb.next
        under == Add(kb, Daily, "content", <<"prefix", FALSE>>)
    IN /\ At(c, "journal", "commit")
       /\ Commits(c, IF JournalRoot(q)
                     THEN AddTags(CreateRems(under, root, lines, Unplaced), {root}, q.tags)
                     ELSE TagTopLevelRems(CreateRems(kb, Daily, lines, Unplaced),
                                          kb, lines, Daily, q.tags))
       /\ UNCHANGED rest

-----------------------------------------------------------------------------
(* moveNote *)

MoveLook(c) ==
    LET q == req(c) IN
    /\ At(c, "move", "look")
    /\ IF Exists(kb, q.rem) /\ Exists(kb, q.parent)
       THEN Becomes(c, [call[c] EXCEPT !.pc = "walk", !.at = q.parent]) /\ UNCHANGED kb
       ELSE Fails(c)
    /\ UNCHANGED rest

\* Faulty variant: the walk does not move on.
MoveWalkOnTheSpot(c) ==
    /\ At(c, "move", "walk")
    /\ \/ call[c].at = req(c).rem /\ Fails(c)
       \/ /\ call[c].at # req(c).rem
          /\ IF Parents(kb, call[c].at) \subseteq {Top} THEN Goes(c, "parent")
             ELSE UNCHANGED <<kb, call>>
    /\ UNCHANGED rest

\* assertNotMovingUnderDescendant, from the new parent up.
MoveWalk(c) ==
    /\ At(c, "move", "walk")
    /\ \/ call[c].at = req(c).rem /\ Fails(c)
       \/ /\ call[c].at # req(c).rem
          /\ IF Parents(kb, call[c].at) \subseteq {Top} THEN Goes(c, "parent")
             ELSE /\ Becomes(c, [call[c] EXCEPT !.at = ParentOf(kb, call[c].at)])
                  /\ UNCHANGED kb
    /\ UNCHANGED rest

MoveParent(c) ==
    LET q == req(c) IN
    /\ At(c, "move", "parent")
    /\ IF q.expected # 0 /\ Parents(kb, q.rem) # {q.expected} THEN Fails(c)
       ELSE Goes(c, "place")
    /\ UNCHANGED rest

\* getMovePosition; a dry run ends here.
MovePlace(c) ==
    LET q == req(c)  siblings == Remove(kb.kids[q.parent], q.rem) IN
    /\ At(c, "move", "place")
    /\ IF ~SiblingFound(siblings, q) THEN Fails(c)
       ELSE /\ Becomes(c, [call[c] EXCEPT !.at = PositionIn(siblings, q),
                                          !.pc = IF q.dryRun THEN "done" ELSE "commit"])
            /\ UNCHANGED kb
    /\ UNCHANGED rest

\* setParent, of a rem or to a parent that may be gone.
MoveCommit(c) ==
    LET q == req(c) IN
    /\ At(c, "move", "commit")
    /\ IF Exists(kb, q.rem) /\ Exists(kb, q.parent)
       THEN Commits(c, SetParent(kb, q.rem, q.parent, call[c].at))
       ELSE Fails(c)
    /\ UNCHANGED rest

-----------------------------------------------------------------------------
(* updateNote, setDocumentStatus, updateTags, setProperty *)

Look(c) ==
    LET q == req(c) IN
    /\ \/ At(c, "update", "look")
       \/ At(c, "property", "look")
    /\ IF /\ Exists(kb, q.rem)
          /\ q.kind = "property" => /\ Exists(kb, q.tag)
                                    /\ q.property \in ToSet(kb.kids[q.tag])
                                    /\ kb.mark[q.property] = "property"
       THEN Goes(c, "prepare") ELSE Fails(c)
    /\ UNCHANGED rest

UpdateCommit(c) ==
    LET q == req(c)
        titled == IF q.title = Untitled THEN kb ELSE [kb EXCEPT !.text[q.rem] = q.title]
    IN /\ At(c, "update", "commit")
       /\ IF Exists(kb, q.rem)
          THEN Commits(c, UpdateAliases(titled, q.rem, ParseAliases(q.add),
                                        ParseAliases(q.remove), call[c].title))
          ELSE Fails(c)
       /\ UNCHANGED rest

PropertyCommit(c) ==
    /\ At(c, "property", "commit")
    /\ IF Exists(kb, req(c).rem) THEN Commits(c, AddTags(kb, {req(c).rem}, {req(c).tag}))
       ELSE Fails(c)
    /\ UNCHANGED rest

\* at: 1 when the status would change.
DocumentLook(c) ==
    LET q == req(c)  would == kb.doc[q.rem] # q.document IN
    /\ At(c, "document", "look")
    /\ IF ~Exists(kb, q.rem) \/ kb.doc[q.rem] \notin q.expected THEN Fails(c)
       ELSE /\ Becomes(c, [call[c] EXCEPT
                  !.pc = IF q.dryRun THEN "done" ELSE IF would THEN "commit" ELSE "verify"])
            /\ UNCHANGED kb
    /\ UNCHANGED rest

DocumentCommit(c) ==
    LET q == req(c) IN
    /\ At(c, "document", "commit")
    /\ IF Exists(kb, q.rem)
       THEN Changes(c, [kb EXCEPT !.doc[q.rem] = q.document], [call[c] EXCEPT !.pc = "verify"])
       ELSE Fails(c)
    /\ UNCHANGED rest

DocumentVerify(c) ==
    LET q == req(c) IN
    /\ At(c, "document", "verify")
    /\ IF Exists(kb, q.rem) /\ kb.doc[q.rem] = q.document THEN Goes(c, "done") ELSE Fails(c)
    /\ UNCHANGED rest

TagsLook(c) ==
    LET q == req(c) IN
    /\ At(c, "tags", "look")
    /\ IF Exists(kb, q.rem)
       THEN /\ Becomes(c, [call[c] EXCEPT
                  !.pc = "commit",
                  !.todo = [i \in DOMAIN q.add |-> <<"add", q.add[i]>>] \o
                           [i \in DOMAIN q.remove |-> <<"remove", q.remove[i]>>]])
            /\ UNCHANGED kb
       ELSE Fails(c)
    /\ UNCHANGED rest

\* Faulty variant: the first change ends the call.
TagsStepOnce(c) ==
    LET q == req(c)  next == Head(call[c].todo) IN
    /\ At(c, "tags", "commit")
    /\ Changes(c, [kb EXCEPT !.tags[q.rem] = IF next[1] = "add" THEN @ \cup {next[2]}
                                             ELSE @ \ {next[2]}],
               [call[c] EXCEPT !.todo = Tail(@), !.pc = "done"])
    /\ UNCHANGED rest

\* One tag after the other, each awaited; RemNote may fail at any.
TagsStep(c) ==
    LET q == req(c)  next == Head(call[c].todo)  left == Tail(call[c].todo) IN
    /\ At(c, "tags", "commit")
    /\ \/ /\ Changes(c, [kb EXCEPT !.tags[q.rem] = IF next[1] = "add" THEN @ \cup {next[2]}
                                                 ELSE @ \ {next[2]}],
                     [call[c] EXCEPT !.todo = left,
                                     !.pc = IF left = <<>> THEN "done" ELSE @])
          /\ UNCHANGED rest
       \/ edits > 0 /\ edits' = edits - 1 /\ Fails(c) /\ UNCHANGED switch

-----------------------------------------------------------------------------
(* listChildren: a page at each step; the cursor is an offset. *)

Slice(s, from, n) == SubSeq(s, from + 1, IF from + n > Len(s) THEN Len(s) ELSE from + n)

\* Faulty variant: the next page begins after one more child.
PageGap(c) ==
    LET q == req(c)  kids == kb.kids[q.parent]  at == call[c].at IN
    /\ At(c, "list", "look")
    /\ IF ~Exists(kb, q.parent) THEN Fails(c)
       ELSE /\ Becomes(c, [call[c] EXCEPT
                  !.seen = @ \o Slice(kids, at, q.limit),
                  !.at = at + q.limit + 1,
                  !.pc = IF at + q.limit + 1 >= Len(kids) THEN "done" ELSE @])
            /\ UNCHANGED kb
    /\ UNCHANGED rest

Page(c) ==
    LET q == req(c)  kids == kb.kids[q.parent]  at == call[c].at IN
    /\ At(c, "list", "look")
    /\ IF ~Exists(kb, q.parent) THEN Fails(c)
       ELSE /\ Becomes(c, [call[c] EXCEPT
                  !.seen = @ \o Slice(kids, at, q.limit),
                  !.at = at + q.limit,
                  !.pc = IF at + q.limit >= Len(kids) THEN "done" ELSE @])
            /\ UNCHANGED kb
    /\ UNCHANGED rest

-----------------------------------------------------------------------------
(* The user, who edits in RemNote: edits that no call races are left out. *)

Racing == edits > 0 /\ \E c \in Calls : call[c].pc \in Busy

UserMoves(r, p) ==
    /\ Racing /\ Exists(kb, r) /\ p \notin Below(kb, r) /\ (p = Top \/ Exists(kb, p))
    /\ Changes(0, SetParent(kb, r, p, 0), NoCall)
    /\ edits' = edits - 1 /\ UNCHANGED switch

UserRemoves(r) ==
    /\ Racing /\ Exists(kb, r)
    /\ Changes(0, Drop(kb, r), NoCall)
    /\ edits' = edits - 1 /\ UNCHANGED switch

-----------------------------------------------------------------------------
Init ==
    /\ kb = Start /\ call = [c \in Calls |-> NoCall]
    /\ switch \in Switches /\ edits = Edits

MoveStep(c) ==
    MoveLook(c) \/ MoveWalk(c) \/ MoveParent(c) \/ MovePlace(c) \/ MoveCommit(c)

Step(c) ==
    \/ Prepare(c) \/ InsertLook(c) \/ InsertCommit(c) \/ ReplaceLook(c) \/ ReplaceCommit(c)
    \/ CreateCommit(c) \/ JournalCommit(c) \/ MoveStep(c) \/ Look(c) \/ UpdateCommit(c) \/ PropertyCommit(c)
    \/ DocumentLook(c) \/ DocumentCommit(c) \/ DocumentVerify(c)
    \/ TagsLook(c) \/ TagsStep(c) \/ Page(c)

Next ==
    \/ \E c \in Calls : Step(c) \/ \E q \in Requests : Begin(c, q)
    \/ \E r \in Editable : UserRemoves(r) \/ \E p \in Editable \cup {Top} : UserMoves(r, p)

Spec == Init /\ [][Next]_vars

\* RemNote answers every lookup that a move's walk awaits.
FairSpec == Spec /\ \A c \in Calls : WF_vars(MoveWalk(c))
-----------------------------------------------------------------------------
(* Properties *)

Finishes(c, kind) == At(c, kind, "commit") /\ call'[c].pc = "done"

Inserted(s, i, new) == SubSeq(s, 1, i) \o new \o SubSeq(s, i + 1, Len(s))

ParentThere(q) == q.parent = Top \/ Exists(kb, q.parent)

NewTops(c) == TopLevel(kb, NormalizeContent(req(c).lines))

PlacedAsAsked(c) ==
    call[c].fresh =>
       LET q == req(c)  was == kb.kids[q.parent]  now == kb'.kids[q.parent] IN
       /\ Finishes(c, "insert") => now = Inserted(was, PositionIn(was, q), NewTops(c))
       /\ Finishes(c, "replace") =>
             now = SelectSeq(was, LAMBDA r : kb.mark[r] # "content") \o NewTops(c)
       /\ (Finishes(c, "create") /\ q.title = Untitled /\ ParentThere(q)) =>
             now = was \o NewTops(c)
       /\ Finishes(c, "move") =>
             LET others == Remove(was, q.rem) IN
             /\ now = Inserted(others, PositionIn(others, q), <<q.rem>>)
             /\ q.parent \notin Below(kb, q.rem)
             /\ q.expected # 0 => Parents(kb, q.rem) = {q.expected}

LabelledAsAsked(c) ==
    LET q == req(c) IN
    /\ (Finishes(c, "create") /\ call[c].fresh) =>
          LET tops == IF q.title # Untitled THEN {kb.next}
                      ELSE IF ParentThere(q) THEN ToSet(NewTops(c)) ELSE {} IN
          \A r \in kb.next..(kb'.next - 1) :
             kb'.tags[r] = IF r \in tops THEN q.tags \cup switch.autoTag ELSE {}
    /\ Finishes(c, "update") =>
          LET add  == ToSet(ParseAliases(q.add)) \ {Trim(call[c].title)}
              kept == {Trim(kb.text[a]) : a \in Aliases(kb, q.rem)}
                         \ ToSet(ParseAliases(q.remove))
              made == {a \in Aliases(kb', q.rem) : a >= kb.next}
          IN /\ {Trim(kb'.text[a]) : a \in Aliases(kb', q.rem)} = kept \cup add
             /\ \A a \in made : Trim(kb'.text[a]) \notin kept

\* A call during which no one else changed the tree does what it was asked: the
\* new children stand together, in order, where the request says, whatever the
\* dummy root and the metadata among the children do to the positions; a note
\* moves from the parent expected to the place named, never below itself.  Tags
\* go to the title, or to the rems at the top of the content and to none below,
\* and an update leaves the aliases asked for, each once however it is spaced,
\* whoever else changed the tree.
DoneAsAsked == [][\A c \in Calls : PlacedAsAsked(c) /\ LabelledAsAsked(c)]_vars

Acts(c) == [call'[c] EXCEPT !.fresh = call[c].fresh] # call[c]

\* What call c may take from its place.
Leaving(c) ==
    LET q == req(c)
        Roots == CASE q.kind = "move" -> {q.rem}
                   [] q.kind = "replace" ->
                        {r \in ToSet(kb.kids[q.parent]) : kb.mark[r] = "content"}
                   [] q.kind = "update" ->
                        {a \in Aliases(kb, q.rem) :
                            Trim(kb.text[a]) \in ToSet(ParseAliases(q.remove))}
                   [] OTHER -> {}
    IN IF q.kind = "move" THEN Roots ELSE UNION {Below(kb, r) : r \in Roots}

\* However stale what it has read, a call leaves every other rem in its place and
\* order: aliases and properties survive a replacement, and no dummy is left.
SiblingsKept ==
    [][\A c \in Calls : Acts(c) =>
       LET leaving == Leaving(c)
           Stays(r) == r \notin leaving /\ r < kb.next
       IN \A p \in Nodes :
             SelectSeq(kb.kids[p], Stays) = SelectSeq(kb'.kids[p], Stays)]_vars

\* A call that failed has changed nothing, whichever lookup failed; updateTags and
\* setDocumentStatus, which verifies what it wrote, excepted.
FailedLeftNothing ==
    \A c \in Calls :
       (call[c].pc = "failed" /\ req(c).kind \notin {"tags", "document"}) => ~call[c].wrote

\* Following cursors lists every child once, if none moves meanwhile.
PagesCoverAll ==
    [][\A c \in Calls :
       (At(c, "list", "look") /\ call'[c].pc = "done" /\ call[c].fresh)
       => call'[c].seen = kb.kids[req(c).parent]]_vars

Cyclic == \E r \in Rems : Exists(kb, r) /\ r \notin Below(kb, Top)

\* The walk to the top ends whatever else is moved meanwhile; only a tree that two
\* moves made cyclic keeps it going.
EveryWalkEnds ==
    \A c \in Calls : At(c, "move", "walk") ~> (~At(c, "move", "walk") \/ Cyclic)

\* assertNotMovingUnderDescendant: a note is never moved under its descendants.
NoMoveBelowItself ==
    [][\A c \in Calls : Finishes(c, "move") => req(c).parent \notin Below(kb, req(c).rem)]_vars
=============================================================================
