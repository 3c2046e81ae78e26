------------------------------- MODULE ToolCalls -------------------------------
(***************************************************************************)
(* A tool call from its caller to the SDK: the tool's handler parses the   *)
(* arguments and picks the bridge action (tools/index.ts), sendRequest     *)
(* gates it (websocket-server.ts), the plugin gates it again, answers a    *)
(* repeated request from its cache and lets the handler race the action    *)
(* timeout (websocket-client.ts), the handler passes it to the SDK agent   *)
(* or to the adapter and keeps the sidebar's history (runtime.ts).  Callers*)
(* are MCP agents, the command line, and the developer tools of the plugin,*)
(* which reach the handler directly.  What an adapter operation does to    *)
(* the notes is module NoteWrites; here it is whether it changes them.     *)
(***************************************************************************)
EXTENDS ToolInputs, AgentOperations, Sequences

CONSTANTS
    Calls,          \* the calls made
    None,
    CacheSize,      \* responses the plugin keeps (256 in the code)
    MaxChanges,     \* bound: changes of the settings and of the connection
    Repeats,        \* bound: requests a companion sends again
    Inputs,         \* what callers ask for: a set of inputs
    Common          \* the inputs that are made together with other calls

ASSUME CallsAssumption ==
    /\ None \notin Calls
    /\ CacheSize \in Nat \ {0}
    /\ MaxChanges \in Nat /\ Repeats \in Nat
    /\ Common \subseteq Inputs

VARIABLES
    calls,          \* Calls -> how far each has come
    cache,          \* the responses the plugin keeps by operation, oldest first
    ran,            \* Calls -> how often its handler was started
    touched,        \* Calls -> what its handler has changed
    listed,         \* the calls that have an entry in the sidebar's history
    cutShort,       \* the calls whose handler has thrown after it changed something
    settings,       \* the write and the replace switch
    linked,         \* the connection is authenticated on both sides
    changes,
    repeats
vars == <<calls, cache, ran, touched, listed, cutShort, settings, linked, changes, repeats>>

-----------------------------------------------------------------------------
(* The policy of every action. *)

Policy(scope, risk) == [scope |-> scope, risk |-> risk]
Policies(actions, policy) == [a \in actions |-> policy]

ACTION_POLICIES ==
    Merge(Policies({"search", "search_by_tag", "read_note", "list_children", "read_table",
                    "get_status", "rem_read", "rich_text_read", "kb_read"},
                   Policy("read", "read")),
    Merge(Policies({"create_note", "append_journal", "update_note", "set_document_status",
                    "insert_children", "move_note", "update_tags", "set_property", "rem_write",
                    "daily_document_write", "reader_write"}, Policy("write", "write")),
    Merge(Policies({"replace_children", "editor_delete", "card_delete", "rem_delete"},
                   Policy("destructive", "destructive")),
    Merge(Policies({"queue_write", "card_write"}, Policy("review", "review")),
    Merge(Policies({"queue_read", "card_read"}, Policy("review", "read")),
          [get_media_locator |-> Policy("media", "read"), editor_read |-> Policy("editor", "read"),
           editor_write |-> Policy("editor", "write"), window_read |-> Policy("window", "read"),
           window_write |-> Policy("window", "write")])))))

CAPABILITY_SCOPES ==
    {"read", "write", "destructive", "review", "editor", "window", "events", "media"}

BridgeActions == DOMAIN ACTION_POLICIES

ASSUME NoneAssumption == None \notin Inputs /\ None \notin BridgeActions

(* The tools hinted to be neither destructive nor open to the world. *)
effects ==
    {"remnote_search", "remnote_search_by_tag", "remnote_read_note", "remnote_get_media",
     "remnote_list_children", "remnote_get_playbook", "remnote_status",
     "remnote_pairing_status", "remnote_capabilities", "remnote_rich_text",
     "remnote_knowledge_base", "remnote_audit_log", "remnote_read_table"}

-----------------------------------------------------------------------------
(* What a caller asks for, and the calls under way. *)

Input(from, tool, op, given, wrong, twist) ==
    [from |-> from, tool |-> tool, op |-> op, given |-> given, wrong |-> wrong, twist |-> twist]

LocalTools ==
    {"remnote_pairing_status", "remnote_reset_pairing", "remnote_capabilities",
     "remnote_audit_log"}
StatusTools == {"remnote_status", "remnote_get_playbook"}

Stages == {"idle", "sent", "running", "changed", "ended"}
Outcomes ==
    {"none", "invalid arguments", "unsupported operation", "no bridge", "connection lost",
     "not authenticated", "no capability", "timeout", "failed", "done"}

Idle ==
    [input |-> None, action |-> None, args |-> {}, at |-> "idle", outcome |-> "none",
     writable |-> FALSE, late |-> FALSE]

TypeOK ==
    /\ \A c \in Calls :
        /\ calls[c].input # None => calls[c].input.from \in {"agent", "cli", "devtools"}
        /\ calls[c].action \in BridgeActions \cup {None}
        /\ calls[c].at \in Stages /\ calls[c].outcome \in Outcomes
        /\ calls[c].writable \in BOOLEAN /\ calls[c].late \in BOOLEAN
        /\ calls[c].at = "idle" <=> calls[c].input = None
        /\ calls[c].at \in {"running", "changed"} => ran[c] > 0 /\ calls[c].action # None
        /\ touched[c] \subseteq {"notes", "cards", "view", "clipboard"}
    /\ ran \in [Calls -> 0..(Repeats + 1)]
    /\ \A i, j \in DOMAIN cache :
        /\ cache[i].call \in Calls /\ cache[i].outcome \in Outcomes \ {"none"}
        /\ cache[i].call = cache[j].call => i = j
    /\ Len(cache) <= CacheSize
    /\ listed \subseteq Calls /\ cutShort \subseteq Calls
    /\ settings \in [write : BOOLEAN, replace : BOOLEAN]
    /\ linked \in BOOLEAN
    /\ changes \in 0..MaxChanges /\ repeats \in 0..Repeats

Init ==
    /\ calls = [c \in Calls |-> Idle]
    /\ cache = <<>>
    /\ ran = [c \in Calls |-> 0]
    /\ touched = [c \in Calls |-> {}]
    /\ listed = {} /\ cutShort = {}
    /\ settings = [write |-> TRUE, replace |-> TRUE]
    /\ linked = TRUE
    /\ changes = 0
    /\ repeats = 0

(* Bound: an input from the whole table is followed alone, the common together. *)
Askable(c) ==
    LET others == {calls[d].input : d \in Calls \ {c}} \ {None}
    IN  IF calls[c] # Idle THEN {}
        ELSE IF others = {} THEN Inputs
        ELSE IF others \subseteq Common THEN Common ELSE {}

-----------------------------------------------------------------------------
(* The tool's handler. *)

ActionOf(input) ==
    CASE input.tool \in AgentTools -> OperationAction(input.tool, input.op)
      [] input.tool = "remnote_create_note" -> "create_note"
      [] input.tool = "remnote_search" -> "search"
      [] input.tool = "remnote_search_by_tag" -> "search_by_tag"
      [] input.tool = "remnote_read_note" -> "read_note"
      [] input.tool = "remnote_get_media" -> "get_media_locator"
      [] input.tool = "remnote_list_children" -> "list_children"
      [] input.tool = "remnote_update_note" -> "update_note"
      [] input.tool = "remnote_set_document_status" -> "set_document_status"
      [] input.tool = "remnote_insert_children" -> "insert_children"
      [] input.tool = "remnote_move_note" -> "move_note"
      [] input.tool = "remnote_replace_children" -> "replace_children"
      [] input.tool = "remnote_update_tags" -> "update_tags"
      [] input.tool = "remnote_set_property" -> "set_property"
      [] input.tool = "remnote_append_journal" -> "append_journal"
      [] input.tool = "remnote_read_table" -> "read_table"
      [] input.tool \in StatusTools -> "get_status"

(* AgentOperationSchema asks for an operation only and lets every field pass. *)
ArgumentsParse(input) ==
    input.tool \in NoteTools =>
        SchemaAccepts(input.tool, input.given, input.wrong, input.twist)

(* timeoutMs stays with the server, and of an image only its place is asked for. *)
Payload(input) ==
    IF input.tool \in NoteTools
    THEN Parsed(input.tool, input.given) \ {"timeoutMs", "maxInlineBytes"}
    ELSE input.given

Ended(c, input, action, outcome) ==
    calls' = [calls EXCEPT ![c] =
        [@ EXCEPT !.input = input, !.action = action, !.at = "ended", !.outcome = outcome]]

(* The connection goes: what is pending is answered with its loss. *)
WithLost ==
    [c \in Calls |->
        IF calls[c].at = "sent" THEN [calls[c] EXCEPT !.at = "ended", !.outcome = "connection lost"]
        ELSE IF calls[c].at \in {"running", "changed"} /\ calls[c].outcome = "none"
                /\ calls[c].input.from # "devtools"
             THEN [calls[c] EXCEPT !.outcome = "connection lost"]
        ELSE calls[c]]

(* sendRequest, with the gates it checks; every scope is granted at a pairing *)
(* and every action is an available capability of the plugin.                 *)
SendRequest(c, input, action) ==
    IF ~linked THEN Ended(c, input, None, "no bridge")
    ELSE IF action \notin BridgeActions THEN Ended(c, input, None, "unsupported operation")
    ELSE IF ACTION_POLICIES[action].scope \notin CAPABILITY_SCOPES
         THEN Ended(c, input, None, "no capability")
    ELSE calls' = [calls EXCEPT ![c] =
            [@ EXCEPT !.input = input, !.action = action, !.args = Payload(input), !.at = "sent"]]

CallTool(c, input) ==
    /\ input.from \in {"agent", "cli"}
    /\ input.tool # "remnote_reset_pairing"
    /\ IF input.tool \in LocalTools \/ (input.tool \in StatusTools /\ ~linked)
       THEN Ended(c, input, None, "done")
       ELSE IF ~ArgumentsParse(input) THEN Ended(c, input, None, "invalid arguments")
       ELSE IF ActionOf(input) = "unsupported"
            THEN Ended(c, input, None, "unsupported operation")
       ELSE SendRequest(c, input, ActionOf(input))
    /\ UNCHANGED <<cache, ran, touched, listed, cutShort, settings, linked, changes, repeats>>

(* remnote_reset_pairing closes the connection; then comes another pairing. *)
ResetPairing(c, input) ==
    /\ input.from = "agent" /\ input.tool = "remnote_reset_pairing"
    /\ linked' = FALSE
    /\ calls' = [WithLost EXCEPT ![c] =
            [@ EXCEPT !.input = input, !.at = "ended", !.outcome = "done"]]
    /\ UNCHANGED <<cache, ran, touched, listed, cutShort, settings, changes, repeats>>

-----------------------------------------------------------------------------
(* The plugin. *)

(* The fields of the payload that the runtime's handler hands to the adapter. *)
HandedOnOfNotes ==
    [create_note |-> {"title", "content", "parentId", "tagRemIds", "asDocument", "aliases"},
     append_journal |-> {"content", "timestamp", "tagRemIds"},
     search |-> {"query", "parentRemId", "limit", "cursor", "contentMode", "depth",
                 "childLimit", "maxContentLength", "ancestorDepth", "view"},
     get_media_locator |-> {"remId", "field", "mediaId"},
     search_by_tag |-> {"tagRemId", "resultMode", "limit", "cursor", "contentMode", "depth",
                        "childLimit", "maxContentLength", "ancestorDepth", "view"},
     read_note |-> {"remId", "includeMediaMetadata", "depth", "contentMode", "childLimit",
                    "maxContentLength", "ancestorDepth", "view"},
     list_children |-> {"parentRemId", "limit", "cursor", "ancestorDepth", "view"},
     read_table |-> {"tableRemId", "tableTitle", "limit", "offset", "propertyFilter"}]
HandedOnOfChanges ==
    [update_note |-> {"remId", "title", "addAliases", "removeAliases"},
     set_document_status |-> {"remId", "isDocument", "dryRun", "expectedOldRemType"},
     insert_children |-> {"parentRemId", "content", "position", "siblingRemId"},
     move_note |-> {"remId", "newParentRemId", "position", "siblingRemId", "dryRun",
                    "expectedOldParentRemId", "ancestorDepth"},
     replace_children |-> {"parentRemId", "content"},
     update_tags |-> {"remId", "addTagRemIds", "removeTagRemIds"},
     set_property |-> {"remId", "tagRemId", "propertyRemId", "value"},
     get_status |-> {}]
HandedOn == Merge(HandedOnOfNotes, HandedOnOfChanges)

AdapterReads ==
    {"search", "search_by_tag", "read_note", "list_children", "read_table",
     "get_media_locator", "get_status"}
Previewed == {"set_document_status", "move_note"}

(* Every writing operation of the adapter looks at the switches first. *)
SwitchedOff(action) ==
    /\ ~IsSdkAgentAction(action) /\ action \notin AdapterReads
    /\ ~settings.write \/ (action = "replace_children" /\ ~settings.replace)

(* A preview: dryRun is anything but false. *)
DryRun(input, action) ==
    action \in Previewed /\ ~("dryRun" \in input.given /\ input.twist = "apply")

(* What the handler is going to change. *)
WillChange(input, action) ==
    IF IsSdkAgentAction(action) THEN Changes(action, input.op)
    ELSE IF action \in AdapterReads \/ DryRun(input, action) THEN {} ELSE {"notes"}

(* The answer the handler gives at once, before it changes anything. *)
Refusal(input, action) ==
    IF IsSdkAgentAction(action)
    THEN IF ~Supports(action, input.op) THEN "unsupported operation"
         ELSE IF ~Validates(action, input.op, input.given, input.wrong)
              THEN "invalid arguments" ELSE "none"
    ELSE IF SwitchedOff(action) THEN "failed" ELSE "none"

Reaching(action, args) == IF IsSdkAgentAction(action) THEN args ELSE args \cap HandedOn[action]

IsCached(c) == \E i \in DOMAIN cache : cache[i].call = c
CachedOutcome(c) == cache[CHOOSE i \in DOMAIN cache : cache[i].call = c].outcome

(* A faulty variant: one response too many is kept. *)
CachedOneMore(c, outcome) ==
    LET longer == Append(cache, [call |-> c, outcome |-> outcome])
    IN  IF Len(longer) > CacheSize + 1 THEN Tail(longer) ELSE longer

(* A faulty variant: only a success is kept. *)
CachedIfDone(c, outcome) ==
    LET longer == IF outcome = "done" THEN Append(cache, [call |-> c, outcome |-> outcome])
                                      ELSE cache
    IN  IF Len(longer) > CacheSize THEN Tail(longer) ELSE longer

(* cacheResponse: any response is kept, and beyond the limit the oldest goes. *)
Cached(c, outcome) ==
    LET longer == Append(cache, [call |-> c, outcome |-> outcome])
    IN  IF Len(longer) > CacheSize THEN Tail(longer) ELSE longer

(* The response reaches the caller while the connection it came by still stands; *)
(* the loss of that connection has already been the answer otherwise.            *)
Answer(c, outcome) == IF calls[c].outcome = "none" THEN outcome ELSE calls[c].outcome

(* handleRequest of the client, up to the first await of the handler. *)
BridgeReceives(c) ==
    /\ calls[c].at = "sent"
    /\ IF IsCached(c)
       THEN /\ calls' = [calls EXCEPT ![c].at = "ended", ![c].outcome = Answer(c, CachedOutcome(c))]
            /\ UNCHANGED <<cache, ran>>
       ELSE LET refusal == IF ~linked THEN "not authenticated"
                           ELSE Refusal(calls[c].input, calls[c].action)
            IN  /\ calls' = [calls EXCEPT ![c] =
                     IF refusal # "none"
                     THEN [@ EXCEPT !.at = "ended", !.outcome = Answer(c, refusal)]
                     ELSE [@ EXCEPT !.at = "running", !.writable = settings.write,
                                    !.args = Reaching(calls[c].action, calls[c].args)]]
                /\ cache' = IF refusal # "none" THEN Cached(c, refusal) ELSE cache
                /\ ran' = IF refusal = "none" THEN [ran EXCEPT ![c] = @ + 1] ELSE ran
    /\ UNCHANGED <<touched, listed, cutShort, settings, linked, changes, repeats>>

(* The developer tools hand a request straight to the runtime's handler. *)
DevToolsExecute(c, input) ==
    LET action == input.tool
        refusal == Refusal(input, action)
    IN  /\ input.from = "devtools"
        /\ action \in BridgeActions
        /\ calls' = [calls EXCEPT ![c] =
             [@ EXCEPT !.input = input, !.action = action,
                       !.args = Reaching(action, input.given),
                       !.writable = settings.write,
                       !.at = IF refusal = "none" THEN "running" ELSE "ended",
                       !.outcome = IF refusal = "none" THEN "none" ELSE refusal]]
        /\ ran' = IF refusal = "none" THEN [ran EXCEPT ![c] = @ + 1] ELSE ran
        /\ UNCHANGED <<cache, touched, listed, cutShort, settings, linked, changes, repeats>>

(* The SDK does what it was asked for. *)
Work(c) ==
    /\ calls[c].at = "running"
    /\ touched' = [touched EXCEPT ![c] = @ \cup WillChange(calls[c].input, calls[c].action)]
    /\ calls' = [calls EXCEPT ![c].at = "changed"]
    /\ UNCHANGED <<cache, ran, listed, cutShort, settings, linked, changes, repeats>>

(* A faulty variant: what can be previewed is taken for a preview. *)
ListedUnlessPreviewed(input, action) ==
    IF IsSdkAgentAction(action) THEN action \notin ReadActions
    ELSE action \notin {"get_media_locator", "get_status"} \cup Previewed

(* The calls that are entered in the history: all but the agent's reads, a     *)
(* preview, the place of an image and the status.                              *)
Listed(input, action) ==
    IF IsSdkAgentAction(action) THEN action \notin ReadActions
    ELSE action \notin {"get_media_locator", "get_status"} /\ ~DryRun(input, action)

Respond(c, outcome) ==
    /\ calls' = [calls EXCEPT ![c].at = "ended", ![c].outcome = Answer(c, outcome)]
    /\ cache' = IF calls[c].input.from = "devtools" \/ calls[c].late THEN cache
                ELSE Cached(c, outcome)

(* The handler returns: history, then the response. *)
HandlerReturns(c) ==
    /\ calls[c].at = "changed"
    /\ listed' = IF Listed(calls[c].input, calls[c].action) THEN listed \cup {c} ELSE listed
    /\ Respond(c, "done")
    /\ UNCHANGED <<ran, touched, cutShort, settings, linked, changes, repeats>>

(* The handler throws: something it looks for is missing, or, after it has     *)
(* changed something, one of several changes fails or the result is not what   *)
(* was asked for.  Nothing is entered in the history.                          *)
HandlerThrows(c) ==
    /\ calls[c].at \in {"running", "changed"}
    /\ cutShort' = IF calls[c].at = "changed" THEN cutShort \cup {c} ELSE cutShort
    /\ Respond(c, "failed")
    /\ UNCHANGED <<ran, touched, listed, settings, linked, changes, repeats>>

(* The action timeout wins the race; the handler goes on. *)
ActionTimesOut(c) ==
    /\ calls[c].at \in {"running", "changed"}
    /\ calls[c].input.from # "devtools"
    /\ ~calls[c].late
    /\ calls' = [calls EXCEPT ![c].outcome = Answer(c, "timeout"), ![c].late = TRUE]
    /\ cache' = Cached(c, "timeout")
    /\ UNCHANGED <<ran, touched, listed, cutShort, settings, linked, changes, repeats>>

-----------------------------------------------------------------------------
(* The user and the connection. *)

SettingsChange ==
    /\ changes < MaxChanges
    /\ \E write, replace \in BOOLEAN : settings' = [write |-> write, replace |-> replace]
    /\ settings' # settings
    /\ changes' = changes + 1
    /\ UNCHANGED <<calls, cache, ran, touched, listed, cutShort, linked, repeats>>

ConnectionLost ==
    /\ changes < MaxChanges /\ linked
    /\ linked' = FALSE
    /\ changes' = changes + 1
    /\ calls' = WithLost
    /\ UNCHANGED <<cache, ran, touched, listed, cutShort, settings, repeats>>

Reconnected ==
    /\ ~linked
    /\ linked' = TRUE
    /\ UNCHANGED <<calls, cache, ran, touched, listed, cutShort, settings, changes, repeats>>

(* A companion sends a request again once the plugin has ended it (this server *)
(* never does; the plugin's cache is there for companions that do).            *)
RequestRepeated(c) ==
    /\ linked /\ repeats < Repeats
    /\ calls[c].at = "ended" /\ calls[c].action # None
    /\ calls[c].input.from # "devtools"
    /\ calls' = [calls EXCEPT ![c].at = "sent", ![c].outcome = "none",
                              ![c].late = FALSE]
    /\ repeats' = repeats + 1
    /\ UNCHANGED <<cache, ran, touched, listed, cutShort, settings, linked, changes>>

Next ==
    \/ \E c \in Calls :
        \/ \E input \in Askable(c) : CallTool(c, input) \/ ResetPairing(c, input) \/ DevToolsExecute(c, input)
        \/ BridgeReceives(c) \/ Work(c) \/ HandlerReturns(c) \/ HandlerThrows(c)
        \/ ActionTimesOut(c) \/ RequestRepeated(c)
    \/ SettingsChange \/ ConnectionLost \/ Reconnected

Spec == Init /\ [][Next]_vars

-----------------------------------------------------------------------------
(* Properties. *)

WellFormed(input) ==
    /\ input.wrong = None
    /\ input.from = "cli" \/
        /\ Published[input.tool].required \subseteq input.given
        /\ input.given \subseteq FieldsOf(Published[input.tool])
    /\ Refined(input.tool, input.given, input.twist)

(* What callers ask for is on offer: a tool there is and, of an agent's tool,  *)
(* an operation it lists; a command sends what it always sends and of its      *)
(* options any.  `None` is not the name of a field.                            *)
AskedAsOffered ==
    /\ \A tool \in NoteTools : None \notin FieldsOf(Schemas[tool])
    /\ \A input \in Inputs :
        /\ input.from \in {"agent", "cli"} =>
            /\ input.tool \in NoteTools \cup AgentTools \cup LocalTools \cup StatusTools
            /\ input.tool \in AgentTools => input.op \in Offered(input.tool)
        /\ input.from = "cli" => \E command \in DOMAIN Commands :
            /\ input.tool = BRIDGE_ACTION_TO_TOOL[command]
            /\ Commands[command].required \subseteq input.given
            /\ input.given \subseteq FieldsOf(Commands[command])

(* Of the arguments a note tool has accepted the adapter is handed every one   *)
(* but the two that the server keeps: no stage on the way forgets a field.     *)
NothingDropped(c) ==
    calls[c].at \in {"running", "changed"} /\ calls[c].input.tool \in NoteTools =>
        (calls[c].input.given \cap FieldsOf(Published[calls[c].input.tool]))
            \ {"timeoutMs", "maxInlineBytes"} \subseteq calls[c].args

(* What the server publishes and the command line sends is what the next stage *)
(* takes, and takes whole: a note tool given what its published schema asks    *)
(* for, within the rules it describes, is not refused for its arguments, nor   *)
(* is a command's payload; no operation a tool offers is unknown to the plugin *)
(* and no argument is lost on the way.                                         *)
OfferedIsTaken ==
    \A c \in Calls : LET input == calls[c].input IN
        /\ calls[c].at # "idle" /\ input.from \in {"agent", "cli"} =>
            /\ calls[c].outcome # "unsupported operation"
            /\ input.tool \in NoteTools /\ WellFormed(input) =>
                  calls[c].outcome # "invalid arguments"
        /\ NothingDropped(c)

(* A call changes no note and no card when its action is classed as a read, its *)
(* tool is hinted neither destructive nor reaching outside, or it is a preview   *)
(* ("Read scopes still prevent KB mutations", annotations.ts).                   *)
ReadsChangeNothing(c) ==
    LET input == calls[c].input IN
    calls[c].action # None /\
        \/ ACTION_POLICIES[calls[c].action].risk = "read"
        \/ input.tool \in effects
        \/ calls[c].action \in Previewed /\ input.twist # "apply"
    => touched[c] \cap {"notes", "cards"} = {}

(* What has changed notes or cards is in the sidebar's history once its handler *)
(* has ended, unless the handler threw after the change.                        *)
ChangeIsListed(c) ==
    calls[c].at = "ended" /\ touched[c] \cap {"notes", "cards"} # {}
        => c \in listed \cup cutShort

(* What a call changes is declared before and listed after: nothing classed as  *)
(* a read, hinted harmless or previewed changes notes or cards, and what has    *)
(* changed them is in the history, also when its caller has been told of a      *)
(* timeout or a loss and when its request has come again.  Excepted are calls   *)
(* whose handler threw half-way: what those changed stays and is not listed.    *)
EffectsAreDeclared ==
    \A c \in Calls : ReadsChangeNothing(c) /\ ChangeIsListed(c)

(* A repeated request is not carried out again, whether it failed, timed out or *)
(* lost its connection: only when as many others came as the plugin keeps.      *)
RanOnce ==
    \A c \in Calls : ran[c] > 1 =>
        Cardinality({d \in Calls \ {c} :
            calls[d].action # None /\ calls[d].input.from # "devtools"}) >= CacheSize

(* While the write switch is off no call changes notes, as the playbook says:  *)
(* "Create/update/insert/replace/tag/journal writes require                    *)
(* acceptWriteOperations=true" (tools/index.ts).  The SDK agent never looks.   *)
WritesNeedTheSwitch ==
    \A c \in Calls :
        calls[c].at = "changed" /\ "notes" \in touched[c] => calls[c].writable
=============================================================================
