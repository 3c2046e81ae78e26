------------------------------ MODULE MCToolCalls ------------------------------
(***************************************************************************)
(* The inputs of ToolCalls for TLC: every note tool with its required      *)
(* fields, all its fields, one more, one less, one of another type, one    *)
(* unknown, and every twist; every command with every one of its options;  *)
(* every offered operation with its arguments, one missing, one wrong; and *)
(* every action of the plugin from its developer tools.                    *)
(***************************************************************************)
EXTENDS ToolCalls, TLC

Agent(tool, given, wrong, twist) == Input("agent", tool, None, given, wrong, twist)

GivenTo(tool) ==
    LET required == Published[tool].required
        all == FieldsOf(Published[tool])
    IN  {required, all, all \cup {"unknown"}}
            \cup {required \cup {f} : f \in all} \cup {all \ {f} : f \in all}

ToNoteTools ==
    UNION {{Agent(tool, given, None, twist) : given \in GivenTo(tool), twist \in Twists}
           \cup {Agent(tool, Published[tool].required \cup {f}, f, "plain") :
                    f \in FieldsOf(Published[tool])} : tool \in NoteTools}

ToAgentTools ==
    UNION {UNION {
        LET action == OperationAction(tool, op)
            needs == Arguments(action, op)
        IN  {Input("agent", tool, op, needs, wrong, "plain") :
                wrong \in needs \cup Optional(action, op) \cup {None}}
            \cup {Input("agent", tool, op, needs \ {f}, None, "plain") : f \in needs}
        : op \in Offered(tool)} : tool \in AgentTools}

ToOtherTools ==
    {Agent(tool, {}, None, "plain") :
        tool \in LocalTools \cup StatusTools}

FromCommands ==
    UNION {LET takes == Commands[command] IN
        {Input("cli", BRIDGE_ACTION_TO_TOOL[command], None, given, None, twist) :
            given \in {g \in {takes.required \cup {f} : f \in takes.optional}
                             \cup {takes.required, FieldsOf(takes),
                                   takes.required \cup ({"title", "content", "aliases"}
                                        \cap FieldsOf(takes))}
                             : CommandAccepts(command, g)},
            twist \in Twists}
        : command \in DOMAIN Commands}

FromDevTools ==
    {Input("devtools", action, None, HandedOn[action], None, twist) :
        action \in DOMAIN HandedOn, twist \in {"plain", "apply"}}
    \cup UNION {{Input("devtools", action, op, Arguments(action, op), None, "plain") :
            op \in DOMAIN SDK_AGENT_ACTIONS[action]} : action \in DOMAIN SDK_AGENT_ACTIONS}
    \cup {Input("devtools", action, "unknown", {}, None, "plain") :
            action \in DOMAIN SDK_AGENT_ACTIONS}

MCInputs == ToNoteTools \cup ToAgentTools \cup ToOtherTools \cup FromCommands \cup FromDevTools

MCCommon ==
    {Agent("remnote_replace_children", {"parentRemId", "content"}, None, "plain"),
     Agent("remnote_move_note", {"remId", "newParentRemId", "dryRun"}, None, "apply"),
     Agent("remnote_search", {"query"}, None, "plain"),
     Agent("remnote_reset_pairing", {}, None, "plain"),
     Input("agent", "remnote_rem", "create_rem", {}, None, "plain"),
     Input("devtools", "create_note", None, HandedOn.create_note, None, "plain")}

(* The inputs are what the theorem about OfferedIsTaken asks of them. *)
ASSUME InputsAreOffered == AskedAsOffered

Symmetry == Permutations(Calls)
=============================================================================
