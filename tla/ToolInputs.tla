------------------------------ MODULE ToolInputs ------------------------------
(***************************************************************************)
(* What the note tools take, as three places of the repository say it: the *)
(* input schemas the server publishes (tools/index.ts), the schemas its    *)
(* handlers parse the arguments with (remnote-schemas.ts) and the payloads *)
(* the command line builds (remnote-cli/commands).  A value matters only   *)
(* where a rule looks at it: "relative" stands for a position before or    *)
(* after a sibling, "overlap" for an alias both added and removed, "apply" *)
(* for dryRun = false, and "plain" for anything else.                      *)
(***************************************************************************)
EXTENDS FiniteSets

Takes(required, optional) == [required |-> required, optional |-> optional]

Twists == {"plain", "relative", "overlap", "apply"}

-----------------------------------------------------------------------------
(* The published input schemas. *)

ContentOptions ==
    {"contentMode", "view", "ancestorDepth", "depth", "childLimit", "maxContentLength"}

CREATE_NOTE_TOOL ==
    Takes({}, {"title", "content", "parentId", "tagRemIds", "asDocument", "aliases"})
SEARCH_TOOL == Takes({"query"}, {"parentRemId", "limit", "cursor"} \cup ContentOptions)
SEARCH_BY_TAG_TOOL ==
    Takes({"tagRemId"}, {"resultMode", "limit", "cursor", "timeoutMs"} \cup ContentOptions)
READ_NOTE_TOOL == Takes({"remId"}, {"includeMediaMetadata"} \cup ContentOptions)
GET_MEDIA_TOOL == Takes({"remId", "field", "mediaId"}, {"maxInlineBytes"})
LIST_CHILDREN_TOOL == Takes({"parentRemId"}, {"limit", "cursor", "view", "ancestorDepth"})
MOVE_NOTE_TOOL ==
    Takes({"remId", "newParentRemId"},
          {"position", "siblingRemId", "dryRun", "expectedOldParentRemId", "ancestorDepth"})
UPDATE_NOTE_TOOL == Takes({"remId"}, {"title", "addAliases", "removeAliases"})
SET_DOCUMENT_STATUS_TOOL == Takes({"remId", "isDocument"}, {"dryRun", "expectedOldRemType"})
INSERT_CHILDREN_TOOL == Takes({"parentRemId", "content", "position"}, {"siblingRemId"})
REPLACE_CHILDREN_TOOL == Takes({"parentRemId", "content"}, {})
UPDATE_TAGS_TOOL == Takes({"remId"}, {"addTagRemIds", "removeTagRemIds"})
SET_PROPERTY_TOOL == Takes({"remId", "tagRemId", "propertyRemId", "value"}, {})
APPEND_JOURNAL_TOOL == Takes({"content"}, {"timestamp", "tagRemIds"})
READ_TABLE_TOOL ==
    Takes({}, {"tableRemId", "tableTitle", "limit", "offset", "propertyFilter"})

Published ==
    [remnote_create_note |-> CREATE_NOTE_TOOL, remnote_search |-> SEARCH_TOOL,
     remnote_search_by_tag |-> SEARCH_BY_TAG_TOOL, remnote_read_note |-> READ_NOTE_TOOL,
     remnote_get_media |-> GET_MEDIA_TOOL, remnote_list_children |-> LIST_CHILDREN_TOOL,
     remnote_move_note |-> MOVE_NOTE_TOOL, remnote_update_note |-> UPDATE_NOTE_TOOL,
     remnote_set_document_status |-> SET_DOCUMENT_STATUS_TOOL,
     remnote_insert_children |-> INSERT_CHILDREN_TOOL,
     remnote_replace_children |-> REPLACE_CHILDREN_TOOL,
     remnote_update_tags |-> UPDATE_TAGS_TOOL, remnote_set_property |-> SET_PROPERTY_TOOL,
     remnote_append_journal |-> APPEND_JOURNAL_TOOL, remnote_read_table |-> READ_TABLE_TOOL]

NoteTools == DOMAIN Published
FieldsOf(schema) == schema.required \cup schema.optional

-----------------------------------------------------------------------------
(* The schemas the arguments are parsed with: what must be there, what may be  *)
(* there, and of this what a default fills in.  They are strict: a field they  *)
(* do not name is refused, except by ReadTableSchema, which drops it.          *)

Parses(required, optional, filled) ==
    [required |-> required, optional |-> optional, filled |-> filled]

SearchContentShape == ContentOptions

CreateNoteSchema ==
    Parses({}, {"title", "content", "parentId", "tagRemIds", "asDocument", "aliases"}, {})
SearchSchema ==
    Parses({"query"}, {"parentRemId", "limit", "cursor"} \cup SearchContentShape,
           {"limit"} \cup SearchContentShape)
(* A faulty variant: the published timeout is not in the schema. *)
SearchByTagSchemaUntimed ==
    Parses({"tagRemId"}, {"resultMode", "limit", "cursor"} \cup SearchContentShape,
           {"resultMode", "limit"} \cup SearchContentShape)
SearchByTagSchema ==
    Parses({"tagRemId"}, {"resultMode", "limit", "cursor", "timeoutMs"} \cup SearchContentShape,
           {"resultMode", "limit"} \cup SearchContentShape)
ReadNoteSchema ==
    Parses({"remId"}, {"includeMediaMetadata"} \cup ContentOptions,
           {"includeMediaMetadata"} \cup ContentOptions)
GetMediaSchema == Parses({"remId", "field", "mediaId"}, {"maxInlineBytes"}, {"maxInlineBytes"})
ListChildrenSchema ==
    Parses({"parentRemId"}, {"limit", "cursor", "view", "ancestorDepth"},
           {"limit", "view", "ancestorDepth"})
MoveNoteSchema ==
    Parses({"remId", "newParentRemId"},
           {"position", "siblingRemId", "dryRun", "expectedOldParentRemId", "ancestorDepth"},
           {"position", "dryRun", "ancestorDepth"})
UpdateNoteSchema == Parses({"remId"}, {"title", "addAliases", "removeAliases"}, {})
SetDocumentStatusSchema ==
    Parses({"remId", "isDocument"}, {"dryRun", "expectedOldRemType"}, {"dryRun"})
InsertChildrenSchema == Parses({"parentRemId", "content", "position"}, {"siblingRemId"}, {})
ReplaceChildrenSchema == Parses({"parentRemId", "content"}, {}, {})
UpdateTagsSchema == Parses({"remId"}, {"addTagRemIds", "removeTagRemIds"}, {})
SetPropertySchema == Parses({"remId", "tagRemId", "propertyRemId", "value"}, {}, {})
AppendJournalSchema == Parses({"content"}, {"timestamp", "tagRemIds"}, {"timestamp"})
ReadTableSchema ==
    Parses({}, {"tableRemId", "tableTitle", "limit", "offset", "propertyFilter"},
           {"limit", "offset"})

Schemas ==
    [remnote_create_note |-> CreateNoteSchema, remnote_search |-> SearchSchema,
     remnote_search_by_tag |-> SearchByTagSchema, remnote_read_note |-> ReadNoteSchema,
     remnote_get_media |-> GetMediaSchema, remnote_list_children |-> ListChildrenSchema,
     remnote_move_note |-> MoveNoteSchema, remnote_update_note |-> UpdateNoteSchema,
     remnote_set_document_status |-> SetDocumentStatusSchema,
     remnote_insert_children |-> InsertChildrenSchema,
     remnote_replace_children |-> ReplaceChildrenSchema,
     remnote_update_tags |-> UpdateTagsSchema, remnote_set_property |-> SetPropertySchema,
     remnote_append_journal |-> AppendJournalSchema, remnote_read_table |-> ReadTableSchema]

(* The refinements across fields. *)
TitleOrContent(given) ==
    /\ given \cap {"title", "content"} # {}
    /\ "aliases" \in given => "title" \in given
SiblingFits(given, twist) == (twist = "relative") <=> ("siblingRemId" \in given)
SomethingToUpdate(given, twist) ==
    /\ given \cap {"title", "addAliases", "removeAliases"} # {}
    /\ twist = "overlap" => ~({"addAliases", "removeAliases"} \subseteq given)
SomeTags(given) == given \cap {"addTagRemIds", "removeTagRemIds"} # {}
OneTable(given) == Cardinality(given \cap {"tableRemId", "tableTitle"}) = 1

Refined(tool, given, twist) ==
    /\ tool = "remnote_create_note" => TitleOrContent(given)
    /\ tool \in {"remnote_move_note", "remnote_insert_children"} => SiblingFits(given, twist)
    /\ tool = "remnote_update_note" => SomethingToUpdate(given, twist)
    /\ tool = "remnote_update_tags" => SomeTags(given)
    /\ tool = "remnote_read_table" => OneTable(given)

(* Parsing: `wrong` is the field with a value of another type, if there is one. *)
SchemaAccepts(tool, given, wrong, twist) ==
    LET schema == Schemas[tool]
    IN  /\ schema.required \subseteq given
        /\ tool # "remnote_read_table" => given \subseteq FieldsOf(schema)
        /\ wrong \notin FieldsOf(schema)
        /\ Refined(tool, given, twist)

Parsed(tool, given) == (given \cap FieldsOf(Schemas[tool])) \cup Schemas[tool].filled

-----------------------------------------------------------------------------
(* The payloads the command line builds: what a command always sends and what  *)
(* its options add.  What a command itself refuses, it does not send.          *)

SearchOptions ==
    {"contentMode", "view", "ancestorDepth", "depth", "childLimit", "maxContentLength"}

CreateCommand ==
    Takes({}, {"title", "content", "parentId", "tagRemIds", "asDocument", "aliases"})
SearchCommand == Takes({"query", "limit"}, {"cursor", "parentRemId"} \cup SearchOptions)
SearchByTagCommand ==
    Takes({"tagRemId", "limit"}, {"resultMode", "cursor", "timeoutMs"} \cup SearchOptions)
ListChildrenCommand == Takes({"parentRemId", "limit"}, {"cursor", "view", "ancestorDepth"})
ReadCommand ==
    Takes({"remId", "depth"},
          {"contentMode", "view", "ancestorDepth", "childLimit", "maxContentLength",
           "includeMediaMetadata"})
GetMediaCommand == Takes({"remId", "field", "mediaId"}, {"maxInlineBytes"})
UpdateCommand == Takes({"remId"}, {"title", "addAliases", "removeAliases"})
InsertChildrenCommand == Takes({"parentRemId", "content", "position"}, {"siblingRemId"})
MoveNoteCommand ==
    Takes({"remId", "newParentRemId", "dryRun"},
          {"position", "siblingRemId", "expectedOldParentRemId", "ancestorDepth"})
SetDocumentStatusCommand == Takes({"remId", "isDocument", "dryRun"}, {"expectedOldRemType"})
ReplaceChildrenCommand == Takes({"parentRemId", "content"}, {})
UpdateTagsCommand == Takes({"remId"}, {"addTagRemIds", "removeTagRemIds"})
SetPropertyCommand == Takes({"remId", "tagRemId", "propertyRemId", "value"}, {})
JournalCommand == Takes({"content", "timestamp"}, {"tagRemIds"})
ReadTableCommand == Takes({"limit", "offset"}, {"tableTitle", "tableRemId", "propertyFilter"})

BRIDGE_ACTION_TO_TOOL ==
    [create_note |-> "remnote_create_note", search |-> "remnote_search",
     search_by_tag |-> "remnote_search_by_tag", read_note |-> "remnote_read_note",
     get_media |-> "remnote_get_media", list_children |-> "remnote_list_children",
     move_note |-> "remnote_move_note", update_note |-> "remnote_update_note",
     set_document_status |-> "remnote_set_document_status",
     insert_children |-> "remnote_insert_children",
     replace_children |-> "remnote_replace_children", update_tags |-> "remnote_update_tags",
     set_property |-> "remnote_set_property", append_journal |-> "remnote_append_journal",
     get_status |-> "remnote_status", read_table |-> "remnote_read_table"]

Commands ==
    [create_note |-> CreateCommand, search |-> SearchCommand,
     search_by_tag |-> SearchByTagCommand, list_children |-> ListChildrenCommand,
     read_note |-> ReadCommand, get_media |-> GetMediaCommand, update_note |-> UpdateCommand,
     insert_children |-> InsertChildrenCommand, move_note |-> MoveNoteCommand,
     set_document_status |-> SetDocumentStatusCommand,
     replace_children |-> ReplaceChildrenCommand, update_tags |-> UpdateTagsCommand,
     set_property |-> SetPropertyCommand, append_journal |-> JournalCommand,
     read_table |-> ReadTableCommand, get_status |-> Takes({}, {})]

(* `update` and `read-table` refuse by themselves what their tools refuse. *)
CommandAccepts(command, given) ==
    /\ command = "update_note" => given \cap {"title", "addAliases", "removeAliases"} # {}
    /\ command = "read_table" => OneTable(given)
=============================================================================
