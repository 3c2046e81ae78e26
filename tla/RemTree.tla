------------------------------- MODULE RemTree -------------------------------
(***************************************************************************)
(* RemNote's tree of rems, as far as the adapter's write operations        *)
(* (packages/bridge/src/api/rem-adapter.ts) use it, and the helpers those  *)
(* operations share.  A knowledge base kb is a record of                   *)
(*     kids  the ordered children of every rem, and of Top                 *)
(*     mark  whether a rem is content, an alias or a table property        *)
(*     text  its text       tags  its tags       doc  whether a document   *)
(*     next  the next identifier                                           *)
(* A text is a word and whether it is padded with white space.             *)
(* What RemNote itself does is external: it is taken from how the adapter  *)
(* uses it and from the comments beside the calls.                         *)
(***************************************************************************)
EXTENDS Naturals, Integers, Sequences, SequencesExt, FiniteSets

CONSTANTS
    MaxRems,    \* bound on the rems ever made
    Words       \* the words of titles and aliases

ASSUME TreeAssumption == MaxRems \in Nat

Top      == 0
Rems     == 1..MaxRems
Nodes    == 0..MaxRems
Texts    == Words \X BOOLEAN
Untitled == <<"", FALSE>>
Trim(t)  == <<t[1], FALSE>>

Trees == [kids : [Nodes -> Seq(Rems)], mark : [Rems -> {"content", "alias", "property"}],
          text : [Rems -> Texts \cup {Untitled}], tags : [Rems -> SUBSET Rems],
          doc : [Rems -> BOOLEAN], next : Nat]

-----------------------------------------------------------------------------
(* RemNote: lookups and single changes *)

Parents(k, r) == {p \in Nodes : r \in ToSet(k.kids[p])}
ParentOf(k, r) == CHOOSE p \in Parents(k, r) : TRUE
Exists(k, r) == Parents(k, r) # {}

Below(k, r) ==
    LET grown[s \in SUBSET Nodes] ==
          LET t == s \cup UNION {ToSet(k.kids[x]) : x \in s}
          IN IF t = s THEN s ELSE grown[t]
    IN grown[{r}]

IndexIn(s, r) == CHOOSE i \in DOMAIN s : s[i] = r

Add(k, p, mark, text) ==
    [k EXCEPT !.kids[IF Exists(k, p) THEN p ELSE Top] = Append(@, k.next),
              !.mark[k.next] = mark, !.text[k.next] = text, !.next = @ + 1]

Drop(k, r) ==
    LET gone == Below(k, r) IN
    [k EXCEPT !.kids = [p \in Nodes |-> IF p \in gone THEN <<>> ELSE Remove(@[p], r)]]

SetParent(k, r, p, at) ==
    LET out == [x \in Nodes |-> Remove(k.kids[x], r)]
        i   == IF at > Len(out[p]) THEN Len(out[p]) ELSE at
    IN [k EXCEPT !.kids = [out EXCEPT ![p] = InsertAt(@, i + 1, r)]]

AddTags(k, rs, ts) ==
    [k EXCEPT !.tags = [r \in Rems |-> IF r \in rs THEN @[r] \cup ts ELSE @[r]]]

-----------------------------------------------------------------------------
(* Markdown: one number for each line, 0 at the top, 1 nested below the     *)
(* line before, -1 blank.                                                   *)

NormalizeContent(lines) == SelectSeq(lines, LAMBDA l : l >= 0)

Made(k, lines) == [i \in DOMAIN lines |-> k.next + i]

TopLevel(k, lines) == SelectSeq(Made(k, lines), LAMBDA x : lines[x - k.next] # 1)

Nested(k, lines, i) ==
    SelectSeq(Made(k, lines), LAMBDA x :
        x - k.next > i /\ \A j \in (i + 1)..(x - k.next) : lines[j] = 1)

\* createTreeWithMarkdown of a dummy line and the lines indented under it.
CreateTree(k, p, lines) ==
    LET d == k.next
        t == Add(k, p, "content", Untitled)
    IN [t EXCEPT
          !.kids = [x \in Nodes |->
             IF x = d THEN TopLevel(k, lines)
             ELSE IF x > d /\ x <= d + Len(lines) /\ lines[x - d] # 1
                  THEN Nested(k, lines, x - d)
             ELSE @[x]],
          !.text = [x \in Rems |->
             IF x > d /\ x <= d + Len(lines) /\ lines[x - d] # -1
             THEN <<"line", FALSE>> ELSE @[x]],
          !.next = d + Len(lines) + 1]

\* Removing the dummy: what is still below it takes its place.
DropDummy(k, d) ==
    LET p == ParentOf(k, d)
        i == IndexIn(k.kids[p], d)
    IN [k EXCEPT !.kids[p] = SubSeq(@, 1, i - 1) \o k.kids[d] \o SubSeq(@, i + 1, Len(@)),
                 !.kids[d] = <<>>]

Unplaced == -1

\* Faulty variant: the dummy root is left out of the count but placed last.
CreateRemsBackwards(k, p, lines, at) ==
    IF lines = <<>> THEN k ELSE
    LET d     == k.next
        t     == CreateTree(k, p, lines)
        tops  == TopLevel(k, lines)
        base  == IF at = Unplaced THEN Len(Remove(t.kids[p], d)) ELSE at
        Move(x, i) == SetParent(x, tops[i], p, base)
    IN DropDummy(IF Exists(k, p) THEN FoldLeftDomain(Move, t, tops) ELSE t, d)

\* createRemsFromPreparedMarkdown: the children of the dummy are moved to where
\* they belong, counted without the dummy, and the dummy is removed.
CreateRems(k, p, lines, at) ==
    IF lines = <<>> THEN k ELSE
    LET d     == k.next
        t     == CreateTree(k, p, lines)
        tops  == TopLevel(k, lines)
        base  == IF at = Unplaced THEN Len(Remove(t.kids[p], d)) ELSE at
        Move(x, i) == SetParent(x, tops[i], p, base + i - 1)
    IN DropDummy(IF Exists(k, p) THEN FoldLeftDomain(Move, t, tops) ELSE t, d)

\* addTagRemIdsToTopLevelRems, of the rems made from lines.
TagTopLevelRems(k, before, lines, p, ts) ==
    AddTags(k, {r \in ToSet(Made(before, lines)) : Parents(k, r) = {p}}, ts)

\* Faulty variant: aliases are cleared with the content.
ClearAllButProperties(k, p) ==
    LET content == SelectSeq(k.kids[p], LAMBDA r : k.mark[r] # "property")
    IN FoldLeft(Drop, k, content)

\* clearDirectContentChildren: aliases and properties stay.
ClearContent(k, p) ==
    LET content == SelectSeq(k.kids[p], LAMBDA r : k.mark[r] = "content")
    IN FoldLeft(Drop, k, content)

-----------------------------------------------------------------------------
(* Aliases: children whose text, trimmed, is the alias. *)

Aliases(k, r) == {a \in ToSet(k.kids[r]) : k.mark[a] = "alias"}

ParseAliases(raw) == [i \in DOMAIN raw |-> Trim(raw[i])]

\* getOrCreateAliasWithText compares texts as they are.
GetOrCreateAlias(k, r, a) ==
    IF \E x \in Aliases(k, r) : k.text[x] = a THEN k ELSE Add(k, r, "alias", a)

AddAliases(k, r, aliases, title) ==
    LET Each(x, a) == IF a = Trim(title) THEN x ELSE GetOrCreateAlias(x, r, a)
    IN FoldLeft(Each, k, aliases)

\* updateAliasesOnRem compares them trimmed.
UpdateAliases(k, r, add, remove, title) ==
    LET old   == {x \in Aliases(k, r) : Trim(k.text[x]) \in ToSet(remove)}
        kept  == FoldLeft(Drop, k, SetToSeq(old))
        there == {Trim(k.text[x]) : x \in Aliases(kept, r)}
    IN AddAliases(kept, r, SelectSeq(add, LAMBDA a : a \notin there), title)
=============================================================================
