----------------------------- MODULE MCNoteWrites -----------------------------
(***************************************************************************)
(* Top -> 1, 2, 3;  1 -> alias 4, content 5 and 6;  2 is a tag with the    *)
(* property 7;  3 is the daily document.                                   *)
(***************************************************************************)
EXTENDS NoteWrites

MCWords == {"", "line", "prefix", "a", "b", "t"}

MCStart ==
    [kids |-> [p \in Nodes |-> CASE p = 0 -> <<1, 2, 3>> [] p = 1 -> <<4, 5, 6>>
                                 [] p = 2 -> <<7>> [] OTHER -> <<>>],
     mark |-> [r \in Rems |-> CASE r = 4 -> "alias" [] r = 7 -> "property"
                                [] OTHER -> "content"],
     text |-> [r \in Rems |-> CASE r = 4 -> <<"a", TRUE>> [] r < 8 -> <<"t", FALSE>>
                                [] OTHER -> Untitled],
     tags |-> [r \in Rems |-> {}], doc |-> [r \in Rems |-> r = 3], next |-> 8]

Insert(p, position, sibling, lines, refs) ==
    [kind |-> "insert", parent |-> p, position |-> position, sibling |-> sibling,
     lines |-> lines, refs |-> refs]
Move(r, p, position, sibling, expected, dry) ==
    [kind |-> "move", rem |-> r, parent |-> p, position |-> position,
     sibling |-> sibling, expected |-> expected, dryRun |-> dry]
Replace(p, lines, refs) == [kind |-> "replace", parent |-> p, lines |-> lines, refs |-> refs]
Create(p, title, lines, add, tags, document) ==
    [kind |-> "create", parent |-> p, title |-> title, lines |-> lines, add |-> add,
     tags |-> tags, document |-> document, refs |-> {}]
Journal(lines, tags) == [kind |-> "journal", lines |-> lines, tags |-> tags, refs |-> {}]
Update(r, title, add, remove) ==
    [kind |-> "update", rem |-> r, title |-> title, add |-> add, remove |-> remove,
     refs |-> {}]
Document(r, document, expected, dry) ==
    [kind |-> "document", rem |-> r, document |-> document, expected |-> expected,
     dryRun |-> dry]
Tags(r, add, remove) == [kind |-> "tags", rem |-> r, add |-> add, remove |-> remove]
Property(r, refs) ==
    [kind |-> "property", rem |-> r, tag |-> 2, property |-> 7, refs |-> refs]
List(p, limit) == [kind |-> "list", parent |-> p, limit |-> limit]

MCRequests ==
    { Insert(1, "before", 6, <<0, 1, 0>>, {}), Insert(1, "after", 4, <<0>>, {6}),
      Insert(5, "first", 0, <<-1>>, {}),
      Replace(1, <<0, -1, 0>>, {6}), Replace(1, <<>>, {}),
      Move(5, 6, "last", 0, 1, FALSE), Move(6, 5, "first", 0, 0, FALSE),
      Move(6, 1, "before", 5, 0, FALSE), Move(5, 1, "after", 6, 0, TRUE),
      Create(1, <<"b", FALSE>>, <<0>>, <<<<"b", TRUE>>, <<"a", TRUE>>>>, {2}, TRUE),
      Create(1, Untitled, <<0, 1>>, <<>>, {2}, FALSE), Create(0, Untitled, <<0>>, <<>>, {}, FALSE),
      Journal(<<0, 0>>, {2}), Journal(<<0, 1, 0>>, {2}),
      Update(1, Untitled, <<<<"a", FALSE>>, <<"b", TRUE>>>>, <<>>),
      Update(1, <<"b", FALSE>>, <<<<"b", FALSE>>>>, <<<<"a", FALSE>>>>),
      Document(5, TRUE, {FALSE}, FALSE), Document(5, FALSE, {TRUE, FALSE}, FALSE),
      Tags(5, <<2>>, <<3>>), Property(5, {6}), List(1, 2) }

MCSwitches ==
    { [writes |-> TRUE, replaces |-> TRUE, autoTag |-> {3}, prefix |-> TRUE],
      [writes |-> TRUE, replaces |-> FALSE, autoTag |-> {}, prefix |-> FALSE],
      [writes |-> FALSE, replaces |-> TRUE, autoTag |-> {}, prefix |-> FALSE] }

MoveRequests == {Move(5, 6, "last", 0, 0, FALSE), Move(6, 5, "last", 0, 0, FALSE)}
=============================================================================
