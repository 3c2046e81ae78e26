---------------------------- MODULE AgentOperations ----------------------------
(***************************************************************************)
(* The SDK agent: for each of its actions the operations it carries out,   *)
(* the arguments each insists on, and what the SDK call behind it changes; *)
(* and, from the server, the operations each tool offers and the action it *)
(* sends them as.  What a call changes is the SDK's doing: the notes (with *)
(* tags, portals and tables), the cards' schedule, the view (panes, caret, *)
(* selection, queue) or the clipboard.                                     *)
(***************************************************************************)
EXTENDS Integers, FiniteSets

Merge(f, g) == [x \in DOMAIN f \cup DOMAIN g |-> IF x \in DOMAIN f THEN f[x] ELSE g[x]]
Same(ops, needs) == [op \in ops |-> needs]

-----------------------------------------------------------------------------
(* The arguments each operation requires. *)

EditorRead ==
    Same({"get_focused_text", "get_selection", "get_selected_rem", "get_selected_text",
          "get_caret_position", "copy"}, {})
EditorWrite ==
    [set_text |-> {"richText"}, insert_plain_text |-> {"text"},
     insert_markdown |-> {"markdown"}, insert_rich_text |-> {"richText"},
     select_rem |-> {"remIds"}, select_text |-> {"start", "end"}, collapse_selection |-> {"to"},
     undo |-> {}, redo |-> {}, move_caret |-> {"amount", "unit"},
     move_caret_vertical |-> {"direction"}]
EditorDelete ==
    [cut |-> {}, delete_selection |-> {}, delete_characters |-> {"characters", "direction"}]
WindowRead ==
    Same({"get_tree", "get_last_focused_pane", "get_open_pane_ids", "get_focused_pane_id",
          "get_url", "get_open_pane_rem_ids", "get_open_pane_rem_id", "get_focused_rem",
          "get_focused_portal"}, {})
WindowWrite ==
    [set_tree |-> {"tree"}, set_tree_string |-> {"treeString"}, focus_pane |-> {"paneId"},
     set_url |-> {"url"}, open_rem |-> {"remId"}, open_agent_sidebar |-> {}]
QueueRead == Same({"status", "current_card"}, {})
QueueWrite == [show_answer |-> {}, rate |-> {"score"}, previous |-> {}, remove_current |-> {}]
CardRead ==
    [get |-> {"cardId"}, find_many |-> {"cardIds"}, get_all |-> {}, get_rem |-> {"cardId"},
     get_type |-> {"cardId"}]
CardWrite == [update_repetition |-> {"cardId", "score"}]
CardDelete == [remove |-> {"cardId"}]
RemFind ==
    [find_by_name |-> {"richText", "parentRemId"}, find_many |-> {"remIds"}, get_all |-> {},
     get_powerup |-> {"powerupCode"}, get_powerup_slot |-> {"powerupCode", "powerupSlot"}]
RemRead ==
    Merge([has_powerup |-> {"remId", "powerupCode"},
           powerup_property |-> {"remId", "powerupCode", "powerupSlot"},
           tag_property |-> {"remId", "propertyId"}],
          Same({"get", "children", "tags", "aliases", "parent", "descendants", "referencing",
                "referenced", "deep_referenced", "sources", "siblings", "visible_siblings",
                "ancestor_tags", "descendant_tags", "locations", "portal_contents",
                "all_in_context", "folder_queue", "cards", "hidden_state", "slot_state",
                "metadata", "state"}, {"remId"}))
RemCreate ==
    [create_single_markdown |-> {"markdown"}, create_tree_markdown |-> {"markdown"},
     move_many |-> {"remIds", "targetRemId", "position"}, create_rem |-> {},
     create_portal |-> {}, create_link |-> {"url"}, create_table |-> {}]
RemChange ==
    Merge([set_text |-> {"remId", "richText"}, insert_html |-> {"remId", "html"},
           create_alias |-> {"remId", "richText"},
           set_tag_property_value |-> {"remId", "propertyId"},
           add_powerup |-> {"remId", "powerupCode"}, remove_powerup |-> {"remId", "powerupCode"},
           set_powerup_property |-> {"remId", "powerupCode", "powerupSlot", "richText"},
           set_collapsed |-> {"remId", "value", "portalId"},
           set_table_filter |-> {"remId", "filter"}],
    Merge(Same({"add_tag", "remove_tag", "add_to_portal", "remove_from_portal", "set_parent",
                "add_source", "remove_source"}, {"remId", "targetRemId"}),
    Merge(Same({"set_type", "set_document", "set_list_item", "set_card_item", "set_quote",
                "set_code", "set_todo", "set_todo_status", "set_highlight", "set_property",
                "set_folder", "set_practice", "set_practice_direction", "set_hidden_state",
                "set_slot"}, {"remId", "value"}),
          Same({"set_back_text", "indent", "outdent", "set_font_size", "open_context",
                "open_page", "expand", "collapse", "copy_reference", "copy_portal_reference",
                "copy_tag_reference", "scroll_to_reader_highlight"}, {"remId"}))))
RemDelete ==
    [remove |-> {"remId"}, merge |-> {"remId", "targetRemId"},
     merge_alias |-> {"remId", "targetRemId"}]
RichTextRead ==
    Merge([text |-> {"text"}, code |-> {"text", "language"}, latex |-> {"text"},
           newline |-> {}, rem_reference |-> {"remId"},
           equals |-> {"richText", "richText2"}, substring |-> {"richText", "start"},
           char_at |-> {"richText", "index"}, index_of |-> {"richText", "character"},
           index_of_element |-> {"richText", "position"},
           split |-> {"richText", "separationCharacter"},
           split_rich_text |-> {"richText", "richText2"},
           replace_all |-> {"richText", "findRichText", "replacementRichText"}],
    Merge(Same({"image", "audio", "video"}, {"url"}),
    Merge(Same({"normalize", "to_html", "to_markdown", "to_string", "length", "empty", "trim",
                "trim_start", "trim_end", "rem_ids", "rem_and_alias_ids", "deep_rem_ids",
                "deep_rem_and_alias_ids", "external_urls"}, {"richText"}),
          Same({"apply_format", "remove_format", "toggle_format"},
               {"richText", "start", "end", "format"}))))
KbRead == Same({"current", "is_primary"}, {})
DailyDocument == [today |-> {}, date |-> {"date"}]
ReaderWrite == [add_highlight |-> {}]

SDK_AGENT_ACTIONS ==
    [editor_read |-> EditorRead, editor_write |-> EditorWrite, editor_delete |-> EditorDelete,
     window_read |-> WindowRead, window_write |-> WindowWrite,
     queue_read |-> QueueRead, queue_write |-> QueueWrite,
     card_read |-> CardRead, card_write |-> CardWrite, card_delete |-> CardDelete,
     rem_read |-> Merge(RemFind, RemRead), rem_write |-> Merge(RemCreate, RemChange),
     rem_delete |-> RemDelete,
     rich_text_read |-> RichTextRead, kb_read |-> KbRead,
     daily_document_write |-> DailyDocument, reader_write |-> ReaderWrite]

IsSdkAgentAction(action) == action \in DOMAIN SDK_AGENT_ACTIONS
Needs(action, op) == SDK_AGENT_ACTIONS[action][op]

(* Arguments that may be missing but not be of another type. *)
Optional(action, op) ==
    CASE action = "rem_read" ->
            {"limit"} \cup (IF op \in {"visible_siblings", "hidden_state", "metadata"}
                            THEN {"portalId"} ELSE {})
      [] action = "card_read" /\ op = "get_all" -> {"limit"}
      [] action = "editor_write" /\ op = "select_rem" -> {"portalId"}
      [] action = "window_read" /\ op = "get_open_pane_rem_id" -> {"paneId"}
      [] action = "queue_write" /\ op = "remove_current" -> {"addToBackStack"}
      [] action = "rem_write" ->
            (CASE op \in {"create_single_markdown", "create_tree_markdown"} -> {"parentRemId"}
               [] op = "create_link" -> {"addTitle"}
               [] op = "create_table" -> {"tagRemId"}
               [] op = "remove_tag" -> {"removeProperties"}
               [] op = "set_parent" -> {"position"}
               [] op \in {"set_back_text", "set_tag_property_value"} -> {"richText"}
               [] op = "set_font_size" -> {"value"}
               [] op = "expand" -> {"portalId", "recurse"}
               [] op \in {"move_many", "indent", "outdent", "open_context", "collapse",
                          "set_hidden_state"} -> {"portalId"}
               [] OTHER -> {})
      [] action = "rich_text_read" ->
            (CASE op = "text" -> {"formats"}
               [] op = "image" -> {"width", "height"}
               [] op = "latex" -> {"block"}
               [] op = "empty" -> {"allowSpaces"}
               [] op = "substring" -> {"end"}
               [] op = "index_of" -> {"startChar"}
               [] OTHER -> {})
      [] OTHER -> {}

(* card_write and card_delete do not look at the operation. *)
Supports(action, op) ==
    action \in {"card_write", "card_delete"} \/ op \in DOMAIN SDK_AGENT_ACTIONS[action]
Arguments(action, op) ==
    IF action \in {"card_write", "card_delete"}
    THEN UNION {SDK_AGENT_ACTIONS[action][o] : o \in DOMAIN SDK_AGENT_ACTIONS[action]}
    ELSE Needs(action, op)

Validates(action, op, given, wrong) ==
    /\ Arguments(action, op) \subseteq given
    /\ wrong \notin Arguments(action, op) \cup Optional(action, op)

-----------------------------------------------------------------------------
(* What the SDK calls change. *)

ViewOps ==
    {"select_rem", "select_text", "collapse_selection", "move_caret", "move_caret_vertical",
     "set_tree", "set_tree_string", "focus_pane", "set_url", "open_rem", "open_agent_sidebar",
     "show_answer", "previous", "remove_current", "open_context", "open_page", "expand",
     "collapse", "set_collapsed", "scroll_to_reader_highlight"}
ClipboardOps == {"copy", "copy_reference", "copy_portal_reference", "copy_tag_reference"}
CardOps == {"rate", "update_repetition"}
ReadActions ==
    {"editor_read", "window_read", "queue_read", "card_read", "rem_read", "rich_text_read",
     "kb_read"}

Changes(action, op) ==
    IF op \in ClipboardOps THEN {"clipboard"}
    ELSE IF action \in ReadActions THEN {}
    ELSE IF op \in ViewOps THEN {"view"}
    ELSE IF op \in CardOps \/ action = "card_delete" THEN {"cards"}
    ELSE IF op = "cut" THEN {"notes", "clipboard"}
    ELSE {"notes"}

-----------------------------------------------------------------------------
(* The operations the server's tools offer, in the groups operationAction      *)
(* searches for the action, the first that has the operation.                  *)

Group(operations, action) == [operations |-> operations, action |-> action]

EDITOR_READ_OPERATIONS ==
    {"get_focused_text", "get_selection", "get_selected_rem", "get_selected_text",
     "get_caret_position", "copy"}
EDITOR_WRITE_OPERATIONS ==
    {"set_text", "insert_plain_text", "insert_markdown", "insert_rich_text", "select_rem",
     "select_text", "collapse_selection", "undo", "redo", "move_caret", "move_caret_vertical"}
EDITOR_DELETE_OPERATIONS == {"cut", "delete_selection", "delete_characters"}
WINDOW_READ_OPERATIONS ==
    {"get_tree", "get_last_focused_pane", "get_open_pane_ids", "get_focused_pane_id", "get_url",
     "get_open_pane_rem_ids", "get_open_pane_rem_id", "get_focused_rem", "get_focused_portal"}
WINDOW_WRITE_OPERATIONS ==
    {"set_tree", "set_tree_string", "focus_pane", "set_url", "open_rem", "open_agent_sidebar"}
QUEUE_READ_OPERATIONS == {"status", "current_card"}
QUEUE_WRITE_OPERATIONS == {"show_answer", "rate", "previous", "remove_current"}
CARD_READ_OPERATIONS == {"get", "find_many", "get_all", "get_rem", "get_type"}
REM_READ_OPERATIONS ==
    {"find_by_name", "find_many", "get_all", "get_powerup", "get_powerup_slot", "get",
     "children", "tags", "aliases", "parent", "descendants", "referencing", "referenced",
     "deep_referenced", "sources", "siblings", "visible_siblings", "ancestor_tags",
     "descendant_tags", "locations", "portal_contents", "all_in_context", "folder_queue",
     "cards", "has_powerup", "hidden_state", "slot_state", "powerup_property", "tag_property",
     "metadata", "state"}
REM_WRITE_OPERATIONS ==
    {"create_single_markdown", "create_tree_markdown", "move_many", "create_rem",
     "create_portal", "create_link", "create_table", "set_text", "set_back_text",
     "insert_html", "add_tag", "remove_tag", "add_to_portal", "remove_from_portal",
     "set_parent", "create_alias", "indent", "outdent", "set_type", "add_source",
     "remove_source", "set_document", "set_list_item", "set_card_item", "set_quote",
     "set_code", "set_todo", "set_todo_status", "set_font_size", "set_highlight",
     "set_property", "set_tag_property_value", "add_powerup", "remove_powerup",
     "set_powerup_property", "set_folder", "set_practice", "set_practice_direction",
     "open_context", "open_page", "expand", "collapse", "set_collapsed", "set_hidden_state",
     "set_slot", "set_table_filter", "copy_reference", "copy_portal_reference",
     "copy_tag_reference", "scroll_to_reader_highlight"}
REM_DELETE_OPERATIONS == {"remove", "merge", "merge_alias"}
RICH_TEXT_OPERATIONS ==
    {"text", "code", "image", "audio", "video", "latex", "newline", "rem_reference",
     "normalize", "to_html", "to_markdown", "to_string", "length", "empty", "trim",
     "trim_start", "trim_end", "rem_ids", "rem_and_alias_ids", "deep_rem_ids",
     "deep_rem_and_alias_ids", "external_urls", "equals", "substring", "char_at", "index_of",
     "index_of_element", "split", "split_rich_text", "replace_all", "apply_format",
     "remove_format", "toggle_format"}

Groups ==
    [remnote_editor |-> <<Group(EDITOR_READ_OPERATIONS, "editor_read"),
                          Group(EDITOR_WRITE_OPERATIONS, "editor_write"),
                          Group(EDITOR_DELETE_OPERATIONS, "editor_delete")>>,
     remnote_window |-> <<Group(WINDOW_READ_OPERATIONS, "window_read"),
                          Group(WINDOW_WRITE_OPERATIONS, "window_write")>>,
     remnote_queue |-> <<Group(QUEUE_READ_OPERATIONS, "queue_read"),
                         Group(QUEUE_WRITE_OPERATIONS, "queue_write")>>,
     remnote_card |-> <<Group(CARD_READ_OPERATIONS, "card_read"),
                        Group({"update_repetition"}, "card_write"),
                        Group({"remove"}, "card_delete")>>,
     remnote_rem |-> <<Group(REM_READ_OPERATIONS, "rem_read"),
                       Group(REM_WRITE_OPERATIONS, "rem_write"),
                       Group(REM_DELETE_OPERATIONS, "rem_delete")>>,
     remnote_rich_text |-> <<Group(RICH_TEXT_OPERATIONS, "rich_text_read")>>,
     remnote_knowledge_base |-> <<Group({"current", "is_primary"}, "kb_read")>>,
     remnote_daily_document |-> <<Group({"today", "date"}, "daily_document_write")>>,
     remnote_reader |-> <<Group({"add_highlight"}, "reader_write")>>]

AgentTools == DOMAIN Groups
Offered(tool) == UNION {Groups[tool][i].operations : i \in DOMAIN Groups[tool]}

OperationAction(tool, op) ==
    LET found == {i \in DOMAIN Groups[tool] : op \in Groups[tool][i].operations}
        first == CHOOSE i \in found : \A j \in found : i <= j
    IN  IF found = {} THEN "unsupported" ELSE Groups[tool][first].action
=============================================================================
