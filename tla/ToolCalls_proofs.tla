--------------------------- MODULE ToolCalls_proofs ---------------------------
(***************************************************************************)
(* Theorems about the tool calls, for any calls and inputs, any size of    *)
(* the plugin's response cache and any number of repeated requests: a      *)
(* request is carried out once, what a call changes is declared before and *)
(* listed after, and what is on offer is taken.                            *)
(***************************************************************************)
EXTENDS ToolCalls, FiniteSetTheorems, TLAPS

-----------------------------------------------------------------------------
(* The tables *)

LEMMA PoliciesFields ==
    ASSUME NEW S, NEW p
    PROVE  DOMAIN Policies(S, p) = S /\ \A a \in S : Policies(S, p)[a] = p
  BY DEF Policies

\* The actions the server classes as reads are those the plugin serves as reads,
\* and no tool that is hinted harmless has the name of an action.
LEMMA PolicyTable ==
    ASSUME NEW a \in BridgeActions
    PROVE  /\ a \notin effects /\ a # "unsupported"
           /\ ACTION_POLICIES[a].risk = "read" => a \in ReadActions \cup AdapterReads
<1> DEFINE reads == {"search", "search_by_tag", "read_note", "list_children", "read_table",
                     "get_status", "rem_read", "rich_text_read", "kb_read"}
           writes == {"create_note", "append_journal", "update_note", "set_document_status",
                      "insert_children", "move_note", "update_tags", "set_property",
                      "rem_write", "daily_document_write", "reader_write"}
           destroys == {"replace_children", "editor_delete", "card_delete", "rem_delete"}
           reviews == {"queue_write", "card_write"}
           peeks == {"queue_read", "card_read"}
           rest == [get_media_locator |-> Policy("media", "read"),
                    editor_read |-> Policy("editor", "read"),
                    editor_write |-> Policy("editor", "write"),
                    window_read |-> Policy("window", "read"),
                    window_write |-> Policy("window", "write")]
           p1 == Policies(reads, Policy("read", "read"))
           p2 == Policies(writes, Policy("write", "write"))
           p3 == Policies(destroys, Policy("destructive", "destructive"))
           p4 == Policies(reviews, Policy("review", "review"))
           p5 == Policies(peeks, Policy("review", "read"))
           m5 == Merge(p5, rest)
           m4 == Merge(p4, m5)
           m3 == Merge(p3, m4)
           m2 == Merge(p2, m3)
<1>1. /\ DOMAIN p1 = reads /\ DOMAIN p2 = writes /\ DOMAIN p3 = destroys
      /\ DOMAIN p4 = reviews /\ DOMAIN p5 = peeks
  BY PoliciesFields
<1>2. /\ \A x \in writes : p2[x].risk = "write"
      /\ \A x \in destroys : p3[x].risk = "destructive"
      /\ \A x \in reviews : p4[x].risk = "review"
  BY PoliciesFields DEF Policy
<1>3. /\ DOMAIN rest = {"get_media_locator", "editor_read", "editor_write", "window_read",
                        "window_write"}
      /\ rest["editor_write"].risk = "write" /\ rest["window_write"].risk = "write"
  BY DEF Policy
<1>4. ACTION_POLICIES = Merge(p1, m2)
  BY DEF ACTION_POLICIES
<1> HIDE DEF p1, p2, p3, p4, p5, rest
<1>5. /\ DOMAIN m5 = DOMAIN p5 \cup DOMAIN rest
      /\ \A x \in DOMAIN p5 \cup DOMAIN rest :
            m5[x] = IF x \in DOMAIN p5 THEN p5[x] ELSE rest[x]
  BY DEF Merge
<1> HIDE DEF m5
<1>6. /\ DOMAIN m4 = DOMAIN p4 \cup DOMAIN m5
      /\ \A x \in DOMAIN p4 \cup DOMAIN m5 :
            m4[x] = IF x \in DOMAIN p4 THEN p4[x] ELSE m5[x]
  BY DEF Merge
<1> HIDE DEF m4
<1>7. /\ DOMAIN m3 = DOMAIN p3 \cup DOMAIN m4
      /\ \A x \in DOMAIN p3 \cup DOMAIN m4 :
            m3[x] = IF x \in DOMAIN p3 THEN p3[x] ELSE m4[x]
  BY DEF Merge
<1> HIDE DEF m3
<1>8. /\ DOMAIN m2 = DOMAIN p2 \cup DOMAIN m3
      /\ \A x \in DOMAIN p2 \cup DOMAIN m3 :
            m2[x] = IF x \in DOMAIN p2 THEN p2[x] ELSE m3[x]
  BY DEF Merge
<1> HIDE DEF m2
<1>9. /\ BridgeActions = DOMAIN p1 \cup DOMAIN m2
      /\ a \notin DOMAIN p1 => ACTION_POLICIES[a] = m2[a]
  BY <1>4 DEF BridgeActions, Merge
<1>10. a \in reads \cup writes \cup destroys \cup reviews \cup peeks \cup DOMAIN rest
  BY <1>1, <1>5, <1>6, <1>7, <1>8, <1>9
<1>11. a \notin effects /\ a # "unsupported"
  BY <1>3, <1>10 DEF effects
<1>12. ASSUME ACTION_POLICIES[a].risk = "read", a \notin reads
       PROVE  a \in peeks \cup {"get_media_locator", "editor_read", "window_read"}
  <2>1. a \in DOMAIN m2 /\ m2[a].risk = "read"
    BY <1>1, <1>9, <1>12
  <2>2. a \in DOMAIN m3 /\ m3[a].risk = "read"
    BY <2>1, <1>1, <1>8, <1>2
  <2>3. a \in DOMAIN m4 /\ m4[a].risk = "read"
    BY <2>2, <1>1, <1>7, <1>2
  <2>4. a \in DOMAIN m5 /\ m5[a].risk = "read"
    BY <2>3, <1>1, <1>6, <1>2
  <2> QED BY <2>4, <1>1, <1>5, <1>3
<1> QED BY <1>11, <1>12 DEF ReadActions, AdapterReads

LEMMA SdkActions ==
    /\ \A a \in ReadActions : IsSdkAgentAction(a)
    /\ \A a \in AdapterReads \cup Previewed : ~IsSdkAgentAction(a)
<1>1. DOMAIN SDK_AGENT_ACTIONS =
        {"editor_read", "editor_write", "editor_delete", "window_read", "window_write",
         "queue_read", "queue_write", "card_read", "card_write", "card_delete", "rem_read",
         "rem_write", "rem_delete", "rich_text_read", "kb_read", "daily_document_write",
         "reader_write"}
  BY DEF SDK_AGENT_ACTIONS
<1> QED BY <1>1 DEF ReadActions, AdapterReads, Previewed, IsSdkAgentAction

Effects == {"notes", "cards", "view", "clipboard"}
Lasting == {"notes", "cards"}

\* Reads and previews change neither notes nor cards, and every call that
\* changes them is one that the history lists.
LEMMA WillChangeFields ==
    ASSUME NEW input, NEW a
    PROVE  /\ WillChange(input, a) \subseteq Effects
           /\ a \in ReadActions \cup AdapterReads \/ DryRun(input, a) =>
                 WillChange(input, a) \cap Lasting = {}
           /\ WillChange(input, a) \cap Lasting # {} => Listed(input, a)
<1>1. Changes(a, input.op) \subseteq Effects
      /\ (a \in ReadActions => Changes(a, input.op) \subseteq {"clipboard"})
  BY DEF Changes, Effects
<1>2. CASE IsSdkAgentAction(a)
  <2>1. a \notin AdapterReads /\ ~DryRun(input, a)
    BY <1>2, SdkActions DEF DryRun
  <2> QED BY <1>1, <1>2, <2>1 DEF WillChange, Listed, Lasting
<1>3. CASE ~IsSdkAgentAction(a)
  BY <1>3, SdkActions DEF WillChange, Listed, Lasting, Effects, AdapterReads, ReadActions,
     IsSdkAgentAction, SDK_AGENT_ACTIONS
<1> QED BY <1>2, <1>3

LEMMA ReadingTools ==
    ASSUME NEW input, input.tool \in effects \ LocalTools, ActionOf(input) # "unsupported"
    PROVE  ActionOf(input) \in ReadActions \cup AdapterReads
<1>1. DOMAIN Groups = {"remnote_editor", "remnote_window", "remnote_queue", "remnote_card",
        "remnote_rem", "remnote_rich_text", "remnote_knowledge_base",
        "remnote_daily_document", "remnote_reader"}
  BY DEF Groups
<1>2. CASE input.tool \in AgentTools
  <2>2. input.tool \in {"remnote_rich_text", "remnote_knowledge_base"}
    BY <1>1, <1>2 DEF AgentTools, effects
  <2>1. ActionOf(input) = OperationAction(input.tool, input.op)
    BY <1>2, <2>2 DEF ActionOf, StatusTools
  <2> DEFINE action == IF input.tool = "remnote_rich_text" THEN "rich_text_read" ELSE "kb_read"
             operations == IF input.tool = "remnote_rich_text" THEN RICH_TEXT_OPERATIONS
                           ELSE {"current", "is_primary"}
  <2>3. Groups[input.tool] = <<Group(operations, action)>>
    BY <2>2 DEF Groups
  <2>4. /\ DOMAIN Groups[input.tool] = {1}
        /\ Groups[input.tool][1].action = action
    BY <2>3 DEF Group
  <2> DEFINE found == {i \in DOMAIN Groups[input.tool] :
                          input.op \in Groups[input.tool][i].operations}
  <2>5. CASE found = {}
    BY <2>1, <2>5 DEF OperationAction
  <2>6. CASE found = {1}
    <3>1. (CHOOSE i \in found : \A j \in found : i <= j) = 1
      BY <2>6
    <3>2. OperationAction(input.tool, input.op) = action
      BY <2>4, <2>6, <3>1 DEF OperationAction
    <3> QED BY <2>1, <2>3, <3>2 DEF ReadActions
  <2> QED BY <2>4, <2>5, <2>6
<1>3. CASE input.tool \notin AgentTools
  BY <1>1, <1>3 DEF effects, LocalTools, AgentTools, ActionOf, AdapterReads, StatusTools
<1> QED BY <1>2, <1>3


-----------------------------------------------------------------------------
(* The inductive invariant *)

Lists == [call : Calls, outcome : Outcomes \ {"none"}]

IsCall(r) ==
    /\ DOMAIN r = {"input", "action", "args", "at", "outcome", "writable", "late"}
    /\ r.input \in Inputs \cup {None} /\ r.action \in BridgeActions \cup {None}
    /\ r.at \in Stages /\ r.outcome \in Outcomes
    /\ r.writable \in BOOLEAN /\ r.late \in BOOLEAN

\* A call comes from its input: the action is the one the tool's handler picks.
Asked(r) ==
    /\ r.at = "idle" <=> r.input = None
    /\ r.at = "idle" => r.action = None
    /\ r.at # "idle" => r.input.from \in {"agent", "cli", "devtools"}
    /\ r.at \in {"sent", "running", "changed"} => r.action # None
    /\ r.at = "sent" => r.input.from # "devtools" /\ ~r.late
    /\ r.action # None =>
          IF r.input.from = "devtools" THEN r.action = r.input.tool
          ELSE r.action = ActionOf(r.input) /\ r.input.tool \notin LocalTools

\* What a call c has done: its handler was started n times, it has changed t, and
\* it is among the entered or not.  The requests repeated so far are many.
Did(r, n, t, c, entered, many) ==
    /\ n \in Nat /\ t \subseteq Effects
    /\ r.action = None => n = 0 /\ t = {}
    /\ r.at \in {"running", "changed"} => n > 0
    /\ n + (IF r.at = "sent" THEN 1 ELSE 0) <= many + 1
    /\ r.action # None /\ r.input.from = "devtools" => n <= 1
    /\ r.action # None => t \subseteq WillChange(r.input, r.action)
    /\ t \cap Lasting # {} => r.at = "changed" \/ c \in entered

CallOk(c) ==
    IsCall(calls[c]) /\ Asked(calls[c])
        /\ Did(calls[c], ran[c], touched[c], c, listed \cup cutShort, repeats)

CallInv ==
    /\ DOMAIN calls = Calls
    /\ ran \in [Calls -> Nat] /\ touched \in [Calls -> SUBSET Effects]
    /\ listed \subseteq Calls /\ cutShort \subseteq Calls /\ repeats \in 0..Repeats
    /\ \A c \in Calls : CallOk(c)

RestInv ==
    /\ settings \in [write : BOOLEAN, replace : BOOLEAN] /\ linked \in BOOLEAN
    /\ changes \in 0..MaxChanges

\* The calls that reach, or reached, the plugin's client.
IsRequest(r) == r.action # None /\ r.input.from # "devtools"
Requests == {d \in Calls : IsRequest(calls[d])}

\* The handler is under way and the plugin has not answered yet.
IsOpen(r) == r.at \in {"running", "changed"} /\ ~r.late

\* Enough other requests came to push a response out of the cache.
Outnumbered(c) == Cardinality(Requests \ {c}) >= CacheSize

CacheTypes ==
    /\ cache \in Seq(Lists) /\ Len(cache) <= CacheSize
    /\ \A i, j \in 1..Len(cache) : cache[i].call = cache[j].call => i = j

\* A request that was carried out and answered has its answer in the cache, or
\* enough others came since.
Remembered(c) ==
    /\ IsOpen(calls[c]) => ~IsCached(c)
    /\ ran[c] = 1 /\ ~IsOpen(calls[c]) => IsCached(c) \/ Outnumbered(c)
    /\ ran[c] > 1 => Outnumbered(c)

CacheInv ==
    /\ CacheTypes
    /\ \A i \in 1..Len(cache) : cache[i].call \in Requests
    /\ IsFiniteSet(Requests)
    /\ \A c \in Requests : Remembered(c)
    /\ \A c \in Calls \ Requests : ran[c] <= 1

CallsInv == CallInv /\ RestInv /\ CacheInv

-----------------------------------------------------------------------------
(* The cache *)

\* As many distinct calls among T as a sequence has entries.
LEMMA DistinctCalls ==
    ASSUME NEW s \in Seq(Lists), NEW T, IsFiniteSet(T),
           \A i \in 1..Len(s) : s[i].call \in T,
           \A i, j \in 1..Len(s) : s[i].call = s[j].call => i = j
    PROVE  Cardinality(T) >= Len(s)
<1> DEFINE f == [i \in 1..Len(s) |-> s[i].call]
<1>1. Len(s) \in Nat /\ IsFiniteSet(1..Len(s)) /\ Cardinality(1..Len(s)) = Len(s)
  <2>1. Len(s) \in Nat
    OBVIOUS
  <2> DEFINE n == Len(s)
  <2> HIDE DEF n
  <2>2. n \in Nat /\ 1 \in Int /\ n \in Int
    BY <2>1 DEF n
  <2>3. IsFiniteSet(1..n) /\ Cardinality(1..n) = IF 1 > n THEN 0 ELSE n - 1 + 1
    BY <2>2, FS_Interval
  <2>4. Cardinality(1..n) = n
    BY <2>2, <2>3
  <2> QED BY <2>2, <2>3, <2>4 DEF n
<1>2. f \in [1..Len(s) -> T]
  OBVIOUS
<1>3. ~ \E i, j \in 1..Len(s) : i # j /\ f[i] = f[j]
  OBVIOUS
<1> HIDE DEF f
<1>4. ~(Cardinality(T) < Cardinality(1..Len(s)))
  BY <1>1, <1>2, <1>3, FS_PigeonHole
<1>5. Cardinality(T) \in Nat
  BY FS_CardinalityType
<1> QED BY <1>1, <1>4, <1>5

\* What keeping one response more makes of the cache: it stays within its size
\* and free of repetitions; what was in it still is, or it is full of others.
LEMMA CachedFields ==
    ASSUME CacheTypes, NEW c \in Calls, ~IsCached(c), NEW o \in Outcomes \ {"none"},
           cache' = Cached(c, o)
    PROVE  /\ CacheTypes' /\ IsCached(c)'
           /\ \A i \in 1..Len(cache') : cache'[i].call = c \/ IsCached(cache'[i].call)
           /\ \A d \in Calls : IsCached(d)' => d = c \/ IsCached(d)
           /\ \A d \in Calls : IsCached(d) => IsCached(d)' \/ Len(cache') = CacheSize
<1> DEFINE e == [call |-> c, outcome |-> o]
           longer == Append(cache, e)
<1>1. /\ e \in Lists /\ e.call = c
  BY DEF Lists
<1>2. /\ cache \in Seq(Lists) /\ Len(cache) \in Nat /\ DOMAIN cache = 1..Len(cache)
      /\ CacheSize \in Nat /\ CacheSize > 0 /\ Len(cache) <= CacheSize
  BY CallsAssumption DEF CacheTypes
<1>3. /\ longer \in Seq(Lists) /\ Len(longer) = Len(cache) + 1
      /\ longer[Len(cache) + 1] = e
      /\ \A i \in 1..Len(cache) : longer[i] = cache[i]
  BY <1>1, <1>2
<1>5. cache' = IF Len(longer) > CacheSize THEN Tail(longer) ELSE longer
  BY DEF Cached
<1> HIDE DEF e, longer
<1>8. cache' \in Seq(Lists) /\ DOMAIN cache' = 1..Len(cache')
  <2>1. cache' \in Seq(Lists)
    BY <1>2, <1>3, <1>5
  <2> QED BY <2>1
<1>4. /\ \A d : IsCached(d) <=> \E i \in 1..Len(cache) : cache[i].call = d
      /\ \A d : IsCached(d)' <=> \E i \in 1..Len(cache') : cache'[i].call = d
  BY <1>2, <1>8 DEF IsCached
<1>6. CASE Len(longer) <= CacheSize
  <2>1. cache' = longer
    BY <1>2, <1>3, <1>5, <1>6
  <2>2. CacheTypes'
    BY <1>1, <1>2, <1>3, <1>4, <1>6, <2>1 DEF CacheTypes
  <2>3. IsCached(c)' /\ \A d \in Calls : IsCached(d) => IsCached(d)'
    BY <1>1, <1>2, <1>3, <1>4, <2>1
  <2>4. \A i \in 1..Len(cache') : cache'[i].call = c \/ IsCached(cache'[i].call)
    BY <1>1, <1>2, <1>3, <1>4, <2>1
  <2> QED BY <1>4, <2>2, <2>3, <2>4
<1>7. CASE Len(longer) > CacheSize
  <2> DEFINE l == Len(longer)
             n == Len(cache)
  <2>0. n \in Nat /\ CacheSize \in Nat /\ n <= CacheSize /\ l = n + 1 /\ l > CacheSize
    BY <1>2, <1>3, <1>7
  <2>1. /\ cache' = Tail(longer) /\ Len(cache) = CacheSize
    <3>1. cache' = Tail(longer)
      BY ONLY <1>5, <1>7
    <3> HIDE DEF l, n
    <3>2. n = CacheSize
      BY ONLY <2>0
    <3> QED BY <3>1, <3>2 DEF n
  <2>2. /\ cache' \in Seq(Lists) /\ Len(cache') = CacheSize
        /\ \A i \in 1..CacheSize : cache'[i] = longer[i + 1]
    BY <1>2, <1>3, <2>1
  <2>3. cache'[CacheSize] = e /\ \A i \in 1..(CacheSize - 1) : cache'[i] = cache[i + 1]
    BY <1>2, <1>3, <2>1, <2>2
  <2>4. CacheTypes'
    <3> SUFFICES ASSUME NEW i \in 1..CacheSize, NEW j \in 1..CacheSize, i < j
                 PROVE  cache'[i].call # cache'[j].call
      BY <1>2, <2>2 DEF CacheTypes
    <3>1. i \in 1..(CacheSize - 1) /\ i + 1 \in 1..Len(cache)
      BY <1>2, <2>1
    <3>2. cache'[i] = cache[i + 1]
      BY <2>3, <3>1
    <3>3. CASE j = CacheSize
      BY <1>1, <1>4, <2>3, <3>1, <3>2, <3>3
    <3>4. CASE j # CacheSize
      <4>1. j \in 1..(CacheSize - 1) /\ j + 1 \in 1..Len(cache) /\ i + 1 # j + 1
        BY <1>2, <2>1, <3>4
      <4>2. cache'[j] = cache[j + 1]
        BY <2>3, <4>1
      <4> QED BY <3>1, <3>2, <4>1, <4>2 DEF CacheTypes
    <3> QED BY <3>3, <3>4
  <2>5. IsCached(c)'
    BY <1>1, <1>2, <1>4, <2>2, <2>3
  <2>6. \A i \in 1..Len(cache') : cache'[i].call = c \/ IsCached(cache'[i].call)
    BY <1>1, <1>2, <1>4, <2>1, <2>2, <2>3
  <2> QED BY <1>4, <2>2, <2>4, <2>5, <2>6
<1> QED BY <1>2, <1>3, <1>6, <1>7

\* A step of one call c, which may have its answer kept.
LEMMA CacheMoves ==
    ASSUME CacheInv, NEW c \in Calls,
           \A d \in Calls \ {c} :
              /\ d \in Requests' <=> d \in Requests
              /\ IsOpen(calls[d])' <=> IsOpen(calls[d])
              /\ ran'[d] = ran[d],
           c \in Requests => c \in Requests',
           c \notin Requests' => ran'[c] <= 1,
           c \in Requests' => (ran'[c] > 1 => Outnumbered(c)),
           \/ /\ cache' = cache
              /\ c \in Requests' =>
                    /\ IsOpen(calls[c])' => ~IsCached(c)
                    /\ ran'[c] = 1 /\ ~IsOpen(calls[c])' => IsCached(c) \/ Outnumbered(c)
           \/ /\ \E o \in Outcomes \ {"none"} : cache' = Cached(c, o)
              /\ ~IsCached(c) /\ c \in Requests' /\ ~IsOpen(calls[c])'
    PROVE  CacheInv'
<1>1. /\ CacheTypes /\ \A i \in 1..Len(cache) : cache[i].call \in Requests
      /\ IsFiniteSet(Requests) /\ \A d \in Requests : Remembered(d)
      /\ Requests \subseteq Calls /\ CacheSize \in Nat
  BY CallsAssumption DEF CacheInv, Requests
<1>2. Requests \subseteq Requests' /\ Requests' \subseteq Requests \cup {c}
      /\ Requests' \subseteq Calls
  BY DEF Requests
<1>3. IsFiniteSet(Requests')
  <2>1. IsFiniteSet(Requests \cup {c})
    BY <1>1, FS_AddElement
  <2> QED BY <1>2, <2>1, FS_Subset
<1>4. ASSUME NEW d, Outnumbered(d) PROVE Outnumbered(d)'
  <2>1. IsFiniteSet(Requests' \ {d}) /\ Requests \ {d} \in SUBSET (Requests' \ {d})
    BY <1>2, <1>3, FS_RemoveElement
  <2>2. Cardinality(Requests \ {d}) <= Cardinality(Requests' \ {d})
    BY <2>1, FS_Subset
  <2>3. Cardinality(Requests \ {d}) \in Nat /\ Cardinality(Requests' \ {d}) \in Nat
    BY <2>1, <1>1, FS_RemoveElement, FS_CardinalityType
  <2> QED BY <1>1, <1>4, <2>2, <2>3 DEF Outnumbered
<1>5. /\ CacheTypes'
      /\ \A i \in 1..Len(cache') : cache'[i].call \in Requests'
      /\ \A d \in Requests \ {c} : IsCached(d)' => IsCached(d)
      /\ \A d \in Requests : IsCached(d) => IsCached(d)' \/ Outnumbered(d)'
  <2>1. CASE cache' = cache
    BY <1>1, <1>2, <2>1 DEF CacheTypes, IsCached
  <2>2. CASE /\ \E o \in Outcomes \ {"none"} : cache' = Cached(c, o)
             /\ ~IsCached(c) /\ c \in Requests' /\ ~IsOpen(calls[c])'
    <3>1. /\ CacheTypes' /\ IsCached(c)'
          /\ \A i \in 1..Len(cache') : cache'[i].call = c \/ IsCached(cache'[i].call)
          /\ \A d \in Calls : IsCached(d)' => d = c \/ IsCached(d)
          /\ \A d \in Calls : IsCached(d) => IsCached(d)' \/ Len(cache') = CacheSize
      BY <1>1, <2>2, CachedFields
    <3>2. \A d : IsCached(d) => d \in Requests
      BY <1>1 DEF IsCached, CacheTypes
    <3>3. \A i \in 1..Len(cache') : cache'[i].call \in Requests'
      BY <1>2, <2>2, <3>1, <3>2
    <3>4. ASSUME NEW d \in Requests, ~IsCached(d)', Len(cache') = CacheSize
          PROVE  Outnumbered(d)'
      <4>1. \A i \in 1..Len(cache') : cache'[i].call \in Requests' \ {d}
        BY <3>1, <3>3, <3>4 DEF IsCached, CacheTypes
      <4>2. Cardinality(Requests' \ {d}) >= Len(cache')
        <5>1. IsFiniteSet(Requests' \ {d})
          BY <1>3, FS_RemoveElement
        <5> QED BY <3>1, <4>1, <5>1, DistinctCalls DEF CacheTypes
      <4> QED BY <3>4, <4>2 DEF Outnumbered
    <3> QED BY <1>1, <3>1, <3>3, <3>4
  <2> QED BY <2>1, <2>2
<1>6. ASSUME NEW d \in Requests' PROVE Remembered(d)'
  <2>1. CASE d # c
    <3>1. d \in Requests /\ d \in Calls /\ ran'[d] = ran[d]
          /\ (IsOpen(calls[d])' <=> IsOpen(calls[d]))
      BY <1>2, <1>6, <2>1
    <3> QED BY <1>1, <1>4, <1>5, <2>1, <3>1 DEF Remembered
  <2>2. CASE d = c /\ \E o \in Outcomes \ {"none"} : cache' = Cached(c, o)
              /\ ~IsCached(c) /\ ~IsOpen(calls[c])'
    <3>1. IsCached(c)'
      BY <1>1, <2>2, CachedFields
    <3> QED BY <1>4, <1>6, <2>2, <3>1 DEF Remembered
  <2>3. CASE d = c /\ cache' = cache
              /\ (IsOpen(calls[c])' => ~IsCached(c))
              /\ (ran'[c] = 1 /\ ~IsOpen(calls[c])' => IsCached(c) \/ Outnumbered(c))
    <3>1. IsCached(c)' <=> IsCached(c)
      BY <2>3 DEF IsCached
    <3> QED BY <1>4, <1>6, <2>3, <3>1 DEF Remembered
  <2> QED BY <2>1, <2>2, <2>3
<1>7. \A d \in Calls \ Requests' : ran'[d] <= 1
  <2>1. \A d \in Calls \ Requests : ran[d] <= 1
    BY DEF CacheInv
  <2> QED BY <1>2, <2>1
<1> QED BY <1>3, <1>5, <1>6, <1>7 DEF CacheInv

-----------------------------------------------------------------------------
(* Steps of one call, and the loss of the connection *)

\* The step leaves c as the record r, with its handler started n times and t
\* changed; other calls stay as they are.
Moves(c, r, n, t) ==
    /\ calls' = [calls EXCEPT ![c] = r]
    /\ ran' = [ran EXCEPT ![c] = n] /\ touched' = [touched EXCEPT ![c] = t]
    /\ listed \subseteq listed' /\ listed' \subseteq listed \cup {c}
    /\ cutShort \subseteq cutShort' /\ cutShort' \subseteq cutShort \cup {c}
    /\ repeats' \in repeats..Repeats

\* What r has to be for that.
Fits(c, r, n, t) ==
    /\ IsCall(r) /\ Asked(r) /\ Did(r, n, t, c, listed' \cup cutShort', repeats')
    /\ IsRequest(calls[c]) => IsRequest(r)

\* The answer of c is kept, or there is nothing to keep.
Keeps(c, r, n) ==
    /\ ~IsRequest(r) => n <= 1
    /\ IsRequest(r) => (n > 1 => Outnumbered(c))
    /\ \/ /\ cache' = cache
          /\ IsRequest(r) =>
                /\ IsOpen(r) => ~IsCached(c)
                /\ n = 1 /\ ~IsOpen(r) => IsCached(c) \/ Outnumbered(c)
       \/ /\ \E o \in Outcomes \ {"none"} : cache' = Cached(c, o)
          /\ ~IsCached(c) /\ IsRequest(r) /\ ~IsOpen(r)

LEMMA OneCallMoves ==
    ASSUME CallsInv, RestInv', NEW c \in Calls, NEW r, NEW n, NEW t,
           Moves(c, r, n, t), Fits(c, r, n, t), Keeps(c, r, n)
    PROVE  CallsInv'
<1> USE DEF Moves, Fits, Keeps
<1>1. /\ DOMAIN calls = Calls /\ ran \in [Calls -> Nat]
      /\ touched \in [Calls -> SUBSET Effects]
      /\ listed \subseteq Calls /\ cutShort \subseteq Calls
      /\ repeats \in 0..Repeats /\ n \in Nat /\ t \in SUBSET Effects /\ Repeats \in Nat
      /\ \A d \in Calls : CallOk(d)
  BY CallsAssumption DEF CallsInv, CallInv, Did
<1>2. /\ DOMAIN calls' = Calls /\ calls'[c] = r
      /\ \A d \in Calls \ {c} : calls'[d] = calls[d]
  BY <1>1
<1>3. /\ ran' \in [Calls -> Nat] /\ ran'[c] = n
      /\ \A d \in Calls \ {c} : ran'[d] = ran[d]
  BY <1>1
<1>4. /\ touched' \in [Calls -> SUBSET Effects] /\ touched'[c] = t
      /\ \A d \in Calls \ {c} : touched'[d] = touched[d]
  BY <1>1
<1>5. ASSUME NEW d \in Calls PROVE CallOk(d)'
  <2>1. CASE d = c
    BY <1>2, <1>3, <1>4, <2>1 DEF CallOk
  <2>2. CASE d # c
    <3>1. IsCall(calls[d]) /\ Asked(calls[d])
          /\ Did(calls[d], ran[d], touched[d], d, listed \cup cutShort, repeats)
      BY <1>1 DEF CallOk
    <3>2. ran[d] \in Nat /\ repeats <= repeats' /\ repeats \in Nat /\ repeats' \in Nat
      BY <1>1
    <3>3. Did(calls[d], ran[d], touched[d], d, listed' \cup cutShort', repeats')
      BY <3>1, <3>2 DEF Did
    <3> QED BY <1>2, <1>3, <1>4, <2>2, <3>1, <3>3 DEF CallOk
  <2> QED BY <2>1, <2>2
<1>6. CallInv'
  BY <1>1, <1>2, <1>3, <1>4, <1>5 DEF CallInv
<1>7. /\ c \in Requests <=> IsRequest(calls[c])
      /\ c \in Requests' <=> IsRequest(r)
      /\ IsOpen(calls[c])' <=> IsOpen(r)
      /\ \A d \in Calls \ {c} :
            /\ d \in Requests' <=> d \in Requests
            /\ IsOpen(calls[d])' <=> IsOpen(calls[d])
            /\ ran'[d] = ran[d]
  BY <1>2, <1>3 DEF Requests, IsRequest, IsOpen
<1>8. CacheInv'
  BY <1>3, <1>7, CacheMoves DEF CallsInv
<1> QED BY <1>6, <1>8 DEF CallsInv

LEMMA WithLostFields ==
    ASSUME CallInv, NEW c \in Calls
    PROVE  LET r == WithLost[c] IN
           /\ IsCall(r) /\ Asked(r)
           /\ Did(r, ran[c], touched[c], c, listed \cup cutShort, repeats)
           /\ IsRequest(r) <=> IsRequest(calls[c])
           /\ IsOpen(r) <=> IsOpen(calls[c])
           /\ calls[c].at = "idle" => r = calls[c]
<1> DEFINE k == calls[c]
           r == WithLost[c]
<1>1. IsCall(k) /\ Asked(k) /\ Did(k, ran[c], touched[c], c, listed \cup cutShort, repeats)
      /\ ran[c] \in Nat /\ repeats \in Nat
  <2>1. CallOk(c) /\ ran[c] \in Nat /\ repeats \in Nat
    BY CallsAssumption DEF CallInv
  <2> QED BY <2>1 DEF CallOk
<1>2. \/ k.at = "sent" /\ r = [k EXCEPT !.at = "ended", !.outcome = "connection lost"]
      \/ k.at \in {"running", "changed"} /\ r = [k EXCEPT !.outcome = "connection lost"]
      \/ r = k
  BY DEF WithLost
<1>3. CASE r = k
  BY <1>1, <1>3
<1>4. CASE k.at = "sent" /\ r = [k EXCEPT !.at = "ended", !.outcome = "connection lost"]
  <2> HIDE DEF r, k
  <2>1. /\ r.input = k.input /\ r.action = k.action /\ r.at = "ended"
        /\ r.outcome = "connection lost" /\ r.writable = k.writable /\ r.late = k.late
        /\ DOMAIN r = DOMAIN k
    BY <1>1, <1>4 DEF IsCall
  <2>2. IsCall(r) /\ Asked(r) /\ (IsRequest(r) <=> IsRequest(k))
        /\ (IsOpen(r) <=> IsOpen(k))
    BY <1>1, <1>4, <2>1 DEF IsCall, Asked, Stages, Outcomes, IsRequest, IsOpen
  <2>3. Did(r, ran[c], touched[c], c, listed \cup cutShort, repeats)
    BY <1>1, <1>4, <2>1 DEF Did
  <2> QED BY <1>4, <2>2, <2>3 DEF r, k
<1>5. CASE k.at \in {"running", "changed"} /\ r = [k EXCEPT !.outcome = "connection lost"]
  <2> HIDE DEF r, k
  <2>1. /\ r.input = k.input /\ r.action = k.action /\ r.at = k.at
        /\ r.outcome = "connection lost" /\ r.writable = k.writable /\ r.late = k.late
        /\ DOMAIN r = DOMAIN k
    BY <1>1, <1>5 DEF IsCall
  <2>2. IsCall(r) /\ Asked(r) /\ (IsRequest(r) <=> IsRequest(k))
        /\ (IsOpen(r) <=> IsOpen(k))
    BY <1>1, <1>5, <2>1 DEF IsCall, Asked, Outcomes, IsRequest, IsOpen
  <2>3. Did(r, ran[c], touched[c], c, listed \cup cutShort, repeats)
    BY <1>1, <1>5, <2>1 DEF Did
  <2> QED BY <1>5, <2>2, <2>3 DEF r, k
<1> QED BY <1>2, <1>3, <1>4, <1>5

\* A step that leaves the cache and what the plugin does with the calls alone.
LEMMA CacheStays ==
    ASSUME CacheInv, cache' = cache, ran' = ran,
           \A d \in Calls : /\ IsRequest(calls[d])' <=> IsRequest(calls[d])
                            /\ IsOpen(calls[d])' <=> IsOpen(calls[d])
    PROVE  CacheInv'
<1>1. Requests' = Requests
  BY DEF Requests
<1>2. /\ CacheTypes' /\ \A i \in 1..Len(cache') : cache'[i].call \in Requests'
      /\ IsFiniteSet(Requests')
  BY <1>1 DEF CacheInv, CacheTypes
<1>3. ASSUME NEW d \in Requests' PROVE Remembered(d)'
  <2>1. (IsCached(d)' <=> IsCached(d)) /\ (Outnumbered(d)' <=> Outnumbered(d))
    BY <1>1 DEF IsCached, Outnumbered
  <2>2. d \in Calls /\ Remembered(d) /\ (IsOpen(calls[d])' <=> IsOpen(calls[d]))
    BY <1>1, <1>3 DEF CacheInv, Requests
  <2> QED BY <2>1, <2>2 DEF Remembered
<1>4. \A d \in Calls \ Requests' : ran'[d] <= 1
  BY <1>1 DEF CacheInv
<1> QED BY <1>2, <1>3, <1>4 DEF CacheInv

-----------------------------------------------------------------------------
(* Every step keeps it *)

\* A call that nobody made yet.
LEMMA AskedOnce ==
    ASSUME CallsInv, NEW c \in Calls, NEW input \in Askable(c)
    PROVE  /\ calls[c] = Idle /\ input \in Inputs /\ input # None
           /\ ran[c] = 0 /\ touched[c] = {} /\ c \notin Requests
           /\ ran = [ran EXCEPT ![c] = 0] /\ touched = [touched EXCEPT ![c] = {}]
           /\ repeats \in Nat /\ Repeats \in Nat /\ repeats \in repeats..Repeats
<1>1. calls[c] = Idle /\ input \in Inputs
  BY CallsAssumption DEF Askable
<1>2. calls[c].action = None
  BY <1>1 DEF Idle
<1>3. CallOk(c) /\ ran \in [Calls -> Nat] /\ touched \in [Calls -> SUBSET Effects]
      /\ repeats \in 0..Repeats
  BY DEF CallsInv, CallInv
<1>4. ran[c] = 0 /\ touched[c] = {}
  BY <1>2, <1>3 DEF CallOk, Did
<1> QED BY <1>1, <1>2, <1>3, <1>4, NoneAssumption, CallsAssumption
        DEF Requests, IsRequest

LEMMA DidNothing ==
    ASSUME NEW r, NEW n \in {0, 1}, NEW c, NEW entered, NEW many \in Nat,
           n = 0 => r.at \notin {"running", "changed"},
           n = 1 => r.at # "sent" /\ r.action # None
    PROVE  Did(r, n, {}, c, entered, many)
<1>1. n + (IF r.at = "sent" THEN 1 ELSE 0) <= many + 1
  OBVIOUS
<1>2. {} \cap Lasting = {}
  OBVIOUS
<1> QED BY <1>1, <1>2 DEF Did

\* A call that ends at once, before any request is sent.
LEMMA EndsAtOnce ==
    ASSUME CallsInv, NEW c \in Calls, NEW input \in Askable(c), NEW r, RestInv',
           input.from \in {"agent", "cli"}, r.input = input, r.action = None,
           r.at = "ended", r.outcome \in Outcomes, r.writable = FALSE, r.late = FALSE,
           DOMAIN r = {"input", "action", "args", "at", "outcome", "writable", "late"},
           calls' = [calls EXCEPT ![c] = r],
           UNCHANGED <<cache, ran, touched, listed, cutShort, repeats>>
    PROVE  CallsInv'
<1>1. /\ calls[c] = Idle /\ input \in Inputs /\ input # None
      /\ ran[c] = 0 /\ touched[c] = {} /\ c \notin Requests
      /\ ran = [ran EXCEPT ![c] = 0] /\ touched = [touched EXCEPT ![c] = {}]
      /\ repeats \in Nat /\ Repeats \in Nat /\ repeats \in repeats..Repeats
  BY AskedOnce
<1>2. IsCall(r) /\ Asked(r) /\ ~IsRequest(r) /\ ~IsRequest(calls[c])
  BY <1>1 DEF IsCall, Asked, Stages, IsRequest, Requests
<1>3. Did(r, 0, {}, c, listed' \cup cutShort', repeats')
  BY <1>1, DidNothing
<1>4. Moves(c, r, 0, {})
  BY <1>1 DEF Moves
<1>5. Fits(c, r, 0, {})
  BY <1>2, <1>3 DEF Fits
<1>6. Keeps(c, r, 0)
  <2>1. 0 <= 1
    OBVIOUS
  <2> QED BY <1>2, <2>1 DEF Keeps
<1> QED BY <1>4, <1>5, <1>6, OneCallMoves

LEMMA CallToolKeeps ==
    ASSUME CallsInv, NEW c \in Calls, NEW input \in Askable(c), CallTool(c, input)
    PROVE  CallsInv'
<1>1. /\ calls[c] = Idle /\ input \in Inputs /\ input # None
      /\ ran[c] = 0 /\ touched[c] = {} /\ c \notin Requests
      /\ ran = [ran EXCEPT ![c] = 0] /\ touched = [touched EXCEPT ![c] = {}]
      /\ repeats \in Nat /\ Repeats \in Nat /\ repeats \in repeats..Repeats
  BY AskedOnce
<1>2. /\ UNCHANGED <<cache, ran, touched, listed, cutShort, settings, linked, changes, repeats>>
      /\ input.from \in {"agent", "cli"}
      /\ ran' = [ran EXCEPT ![c] = 0] /\ touched' = [touched EXCEPT ![c] = {}]
      /\ listed \subseteq listed' /\ listed' \subseteq listed \cup {c}
      /\ cutShort \subseteq cutShort' /\ cutShort' \subseteq cutShort \cup {c}
      /\ repeats' \in repeats..Repeats /\ repeats' \in Nat
  BY <1>1 DEF CallTool
<1>3. RestInv'
  BY <1>2 DEF CallsInv, RestInv
<1> DEFINE ended(o) == [Idle EXCEPT !.input = input, !.action = None, !.at = "ended",
                                    !.outcome = o]
           sent == [Idle EXCEPT !.input = input, !.action = ActionOf(input),
                                !.args = Payload(input), !.at = "sent"]
<1>4. \/ \E o \in {"done", "invalid arguments", "unsupported operation", "no bridge",
                   "no capability"} : calls' = [calls EXCEPT ![c] = ended(o)]
      \/ /\ input.tool \notin LocalTools /\ ActionOf(input) \in BridgeActions
         /\ calls' = [calls EXCEPT ![c] = sent]
  BY <1>1 DEF CallTool, SendRequest, Ended
<1>5. ASSUME NEW o \in {"done", "invalid arguments", "unsupported operation", "no bridge",
                        "no capability"}, calls' = [calls EXCEPT ![c] = ended(o)]
      PROVE  CallsInv'
  <2> DEFINE r == ended(o)
  <2>1. /\ r.input = input /\ r.action = None /\ r.at = "ended" /\ r.outcome = o
        /\ r.writable = FALSE /\ r.late = FALSE
        /\ DOMAIN r = {"input", "action", "args", "at", "outcome", "writable", "late"}
    BY DEF Idle
  <2>2. calls' = [calls EXCEPT ![c] = r] /\ r.outcome \in Outcomes
    BY <1>5, <2>1 DEF Outcomes
  <2> HIDE DEF r, ended
  <2> QED BY <1>2, <1>3, <2>1, <2>2, EndsAtOnce
<1>6. ASSUME input.tool \notin LocalTools, ActionOf(input) \in BridgeActions,
             calls' = [calls EXCEPT ![c] = sent]
      PROVE  CallsInv'
  <2>1. /\ sent.input = input /\ sent.action = ActionOf(input) /\ sent.at = "sent"
        /\ sent.outcome = "none" /\ sent.writable = FALSE /\ sent.late = FALSE
        /\ DOMAIN sent = {"input", "action", "args", "at", "outcome", "writable", "late"}
    BY DEF Idle
  <2> HIDE DEF sent
  <2>2. ActionOf(input) # None
    BY <1>6, NoneAssumption
  <2>3. /\ IsCall(sent) /\ Asked(sent) /\ IsRequest(sent) /\ ~IsOpen(sent)
        /\ ~IsRequest(calls[c])
    BY <1>1, <1>2, <1>6, <2>1, <2>2
       DEF IsCall, Asked, Stages, Outcomes, IsRequest, IsOpen, Requests
  <2>4. Did(sent, 0, {}, c, listed' \cup cutShort', repeats')
    BY <1>2, <2>1, DidNothing
  <2>5. Moves(c, sent, 0, {})
    BY <1>2, <1>6 DEF Moves
  <2>6. Fits(c, sent, 0, {})
    BY <2>3, <2>4 DEF Fits
  <2>7. Keeps(c, sent, 0)
    BY <1>2, <2>3 DEF Keeps
  <2> QED BY <1>3, <2>5, <2>6, <2>7, OneCallMoves
<1> QED BY <1>4, <1>5, <1>6

LEMMA DevToolsKeeps ==
    ASSUME CallsInv, NEW c \in Calls, NEW input \in Askable(c), DevToolsExecute(c, input)
    PROVE  CallsInv'
<1>1. /\ calls[c] = Idle /\ input \in Inputs /\ input # None
      /\ ran[c] = 0 /\ touched[c] = {} /\ c \notin Requests
      /\ ran = [ran EXCEPT ![c] = 0] /\ touched = [touched EXCEPT ![c] = {}]
      /\ repeats \in Nat /\ Repeats \in Nat /\ repeats \in repeats..Repeats
  BY AskedOnce
<1> DEFINE action == input.tool
           refusal == Refusal(input, action)
           n == IF refusal = "none" THEN 1 ELSE 0
           r == [Idle EXCEPT !.input = input, !.action = action,
                       !.args = Reaching(action, input.given),
                       !.writable = settings.write,
                       !.at = IF refusal = "none" THEN "running" ELSE "ended",
                       !.outcome = IF refusal = "none" THEN "none" ELSE refusal]
<1>2. /\ UNCHANGED <<cache, touched, listed, cutShort, settings, linked, changes, repeats>>
      /\ input.from = "devtools" /\ action \in BridgeActions
      /\ calls' = [calls EXCEPT ![c] = r]
  BY <1>1 DEF DevToolsExecute
<1>10. ran' = [ran EXCEPT ![c] = n]
  <2>1. ran' = IF refusal = "none" THEN [ran EXCEPT ![c] = ran[c] + 1] ELSE ran
    BY DEF DevToolsExecute
  <2> HIDE DEF refusal
  <2>2. CASE refusal = "none"
    BY <1>1, <2>1, <2>2
  <2>3. CASE refusal # "none"
    BY <1>1, <2>1, <2>3
  <2> QED BY <2>2, <2>3
<1>11. /\ touched' = [touched EXCEPT ![c] = {}] /\ listed \subseteq listed'
       /\ listed' \subseteq listed \cup {c}
       /\ cutShort \subseteq cutShort' /\ cutShort' \subseteq cutShort \cup {c}
       /\ repeats' \in repeats..Repeats
       /\ repeats' \in Nat
  BY <1>1, <1>2
<1>3. RestInv' /\ settings.write \in BOOLEAN
  BY <1>2 DEF CallsInv, RestInv
<1>4. refusal \in Outcomes
  BY DEF Refusal, Outcomes
<1>5. /\ r.input = input /\ r.action = action
      /\ r.at = IF refusal = "none" THEN "running" ELSE "ended"
      /\ r.outcome = (IF refusal = "none" THEN "none" ELSE refusal)
      /\ r.writable = settings.write /\ r.late = FALSE
      /\ DOMAIN r = {"input", "action", "args", "at", "outcome", "writable", "late"}
  BY DEF Idle
<1>6. n \in {0, 1} /\ (n = 0 <=> refusal # "none")
  OBVIOUS
<1>7. action # None
  BY <1>2, NoneAssumption
<1> HIDE DEF r, n, refusal
<1>8. IsCall(r) /\ Asked(r) /\ ~IsRequest(r) /\ ~IsRequest(calls[c])
  BY <1>1, <1>2, <1>3, <1>4, <1>5, <1>7
     DEF IsCall, Asked, Stages, Outcomes, IsRequest, Requests
<1>9. Did(r, n, {}, c, listed' \cup cutShort', repeats')
  BY <1>5, <1>6, <1>7, <1>11, DidNothing
<1>12. Moves(c, r, n, {})
  BY <1>2, <1>10, <1>11 DEF Moves
<1>13. Fits(c, r, n, {})
  BY <1>8, <1>9 DEF Fits
<1>14. Keeps(c, r, n)
  BY <1>2, <1>6, <1>8 DEF Keeps
<1> QED BY <1>3, <1>12, <1>13, <1>14, OneCallMoves

LEMMA ResetPairingKeeps ==
    ASSUME CallsInv, NEW c \in Calls, NEW input \in Askable(c), ResetPairing(c, input)
    PROVE  CallsInv'
<1>1. /\ calls[c] = Idle /\ input \in Inputs /\ input # None
      /\ ran[c] = 0 /\ touched[c] = {} /\ c \notin Requests /\ repeats \in Nat
  BY AskedOnce
<1> DEFINE r == [Idle EXCEPT !.input = input, !.at = "ended", !.outcome = "done"]
<1>2. /\ UNCHANGED <<cache, ran, touched, listed, cutShort, settings, changes, repeats>>
      /\ input.from = "agent" /\ linked' = FALSE /\ WithLost[c] = Idle
      /\ calls' = [WithLost EXCEPT ![c] = r]
  <2>1. WithLost[c] = Idle
    BY <1>1, WithLostFields DEF CallsInv, Idle
  <2> QED BY <2>1 DEF ResetPairing, WithLost
<1>3. RestInv'
  BY <1>2 DEF CallsInv, RestInv
<1>4. /\ r.input = input /\ r.action = None /\ r.at = "ended" /\ r.outcome = "done"
      /\ r.writable = FALSE /\ r.late = FALSE
      /\ DOMAIN r = {"input", "action", "args", "at", "outcome", "writable", "late"}
  BY DEF Idle
<1> HIDE DEF r
<1>5. /\ IsCall(r) /\ Asked(r) /\ ~IsRequest(r) /\ ~IsRequest(calls[c])
      /\ ~IsOpen(r) /\ ~IsOpen(calls[c])
  <2>1. IsCall(r) /\ Asked(r) /\ ~IsRequest(r) /\ ~IsOpen(r)
    BY <1>1, <1>2, <1>4 DEF IsCall, Asked, Stages, Outcomes, IsRequest, IsOpen
  <2>2. calls[c].at = "idle" /\ calls[c].action = None
    BY <1>1 DEF Idle
  <2> QED BY <2>1, <2>2 DEF IsRequest, IsOpen
<1>6. Did(r, 0, {}, c, listed' \cup cutShort', repeats')
  BY <1>1, <1>2, <1>4, DidNothing
<1>7. /\ DOMAIN calls' = Calls /\ calls'[c] = r
      /\ \A d \in Calls \ {c} : calls'[d] = WithLost[d]
  BY <1>2 DEF WithLost
<1>8. ASSUME NEW d \in Calls PROVE CallOk(d)'
  <2>1. CASE d = c
    BY <1>1, <1>2, <1>5, <1>6, <1>7, <2>1 DEF CallOk
  <2>2. CASE d # c
    BY <1>2, <1>7, <2>2, WithLostFields DEF CallOk, CallsInv
  <2> QED BY <2>1, <2>2
<1>9. CallInv'
  BY <1>2, <1>7, <1>8 DEF CallsInv, CallInv
<1>10. CacheInv'
  <2>1. \A d \in Calls : /\ IsRequest(calls[d])' <=> IsRequest(calls[d])
                         /\ IsOpen(calls[d])' <=> IsOpen(calls[d])
    BY <1>5, <1>7, WithLostFields DEF CallsInv
  <2> QED BY <1>2, <2>1, CacheStays DEF CallsInv
<1> QED BY <1>3, <1>9, <1>10 DEF CallsInv

LEMMA ConnectionLostKeeps == ASSUME CallsInv, ConnectionLost PROVE CallsInv'
<1>1. /\ UNCHANGED <<cache, ran, touched, listed, cutShort, settings, repeats>>
      /\ linked' = FALSE /\ changes' = changes + 1 /\ changes < MaxChanges
      /\ calls' = WithLost
  BY DEF ConnectionLost
<1>2. RestInv'
  <2>1. RestInv /\ changes + 1 \in 0..MaxChanges
    BY <1>1, CallsAssumption DEF CallsInv, RestInv
  <2> QED BY <1>1, <2>1 DEF RestInv
<1>3. DOMAIN calls' = Calls
  BY <1>1 DEF WithLost
<1>4. CallInv'
  BY <1>1, <1>3, WithLostFields DEF CallsInv, CallInv, CallOk
<1>5. \A d \in Calls : /\ IsRequest(calls[d])' <=> IsRequest(calls[d])
                       /\ IsOpen(calls[d])' <=> IsOpen(calls[d])
  BY <1>1, WithLostFields DEF CallsInv
<1>6. CacheInv'
  BY <1>1, <1>5, CacheStays DEF CallsInv
<1> QED BY <1>2, <1>4, <1>6 DEF CallsInv

\* What the invariant says of one call.
LEMMA CallFacts ==
    ASSUME CallsInv, NEW c \in Calls
    PROVE  /\ IsCall(calls[c]) /\ Asked(calls[c])
           /\ Did(calls[c], ran[c], touched[c], c, listed \cup cutShort, repeats)
           /\ ran[c] \in Nat /\ touched[c] \subseteq Effects /\ DOMAIN calls = Calls
           /\ ran = [ran EXCEPT ![c] = ran[c]] /\ touched = [touched EXCEPT ![c] = touched[c]]
           /\ repeats \in Nat /\ Repeats \in Nat /\ repeats \in repeats..Repeats
           /\ c \in Requests <=> IsRequest(calls[c])
           /\ IsRequest(calls[c]) => Remembered(c)
           /\ ~IsRequest(calls[c]) => ran[c] <= 1
<1>1. CallOk(c)
  BY DEF CallsInv, CallInv
<1>2. /\ ran[c] \in Nat /\ touched[c] \subseteq Effects /\ DOMAIN calls = Calls
      /\ ran = [ran EXCEPT ![c] = ran[c]] /\ touched = [touched EXCEPT ![c] = touched[c]]
      /\ repeats \in Nat /\ Repeats \in Nat /\ repeats \in repeats..Repeats
  BY CallsAssumption DEF CallsInv, CallInv
<1>3. /\ c \in Requests <=> IsRequest(calls[c])
      /\ IsRequest(calls[c]) => Remembered(c)
      /\ ~IsRequest(calls[c]) => ran[c] <= 1
  BY DEF CallsInv, CacheInv, Requests
<1> QED BY <1>1, <1>2, <1>3 DEF CallOk

\* A call that goes on: it stays the call of its input.
LEMMA GoesOn ==
    ASSUME NEW k, NEW r, IsCall(k), Asked(k), k.action # None,
           DOMAIN r = DOMAIN k, r.input = k.input, r.action = k.action,
           r.at \in Stages \ {"idle"}, r.at = "sent" => k.input.from # "devtools" /\ ~r.late,
           r.outcome \in Outcomes, r.writable \in BOOLEAN, r.late \in BOOLEAN
    PROVE  IsCall(r) /\ Asked(r) /\ (IsRequest(r) <=> IsRequest(k))
<1>1. k.at # "idle"
  BY DEF Asked
<1>2. IsCall(r)
  BY DEF IsCall, Stages
<1>3. Asked(r)
  BY <1>1 DEF Asked
<1> QED BY <1>2, <1>3 DEF IsRequest

LEMMA OutcomeKept ==
    ASSUME CacheTypes, NEW c, IsCached(c)
    PROVE  CachedOutcome(c) \in Outcomes \ {"none"}
<1>1. PICK n \in DOMAIN cache : cache[n].call = c
  BY DEF IsCached
<1> DEFINE j == CHOOSE i \in DOMAIN cache : cache[i].call = c
<1>2. j \in DOMAIN cache
  BY <1>1
<1>3. cache[j] \in Lists
  BY <1>2 DEF CacheTypes
<1> QED BY <1>3 DEF CachedOutcome, Lists

LEMMA BridgeReceivesKeeps ==
    ASSUME CallsInv, NEW c \in Calls, BridgeReceives(c)
    PROVE  CallsInv'
<1> DEFINE k == calls[c]
           refusal == IF ~linked THEN "not authenticated" ELSE Refusal(k.input, k.action)
           answered(o) == [k EXCEPT !.at = "ended", !.outcome = Answer(c, o)]
           started == [k EXCEPT !.at = "running", !.writable = settings.write,
                                !.args = Reaching(k.action, k.args)]
<1>1. /\ IsCall(k) /\ Asked(k) /\ Did(k, ran[c], touched[c], c, listed \cup cutShort, repeats)
      /\ ran[c] \in Nat /\ touched[c] \subseteq Effects /\ DOMAIN calls = Calls
      /\ ran = [ran EXCEPT ![c] = ran[c]] /\ touched = [touched EXCEPT ![c] = touched[c]]
      /\ repeats \in Nat /\ Repeats \in Nat /\ repeats \in repeats..Repeats
      /\ IsRequest(k) => Remembered(c)
  BY CallFacts
<1>2. /\ UNCHANGED <<touched, listed, cutShort, settings, linked, changes, repeats>> /\ k.at = "sent"
      /\ \/ /\ IsCached(c) /\ UNCHANGED <<cache, ran>>
            /\ calls' = [calls EXCEPT ![c] = answered(CachedOutcome(c))]
         \/ /\ ~IsCached(c) /\ refusal # "none" /\ cache' = Cached(c, refusal) /\ ran' = ran
            /\ calls' = [calls EXCEPT ![c] = answered(refusal)]
         \/ /\ ~IsCached(c) /\ refusal = "none" /\ cache' = cache
            /\ calls' = [calls EXCEPT ![c] = started]
            /\ ran' = [ran EXCEPT ![c] = ran[c] + 1]
  <2>1. /\ UNCHANGED <<touched, listed, cutShort, settings, linked, changes, repeats>>
        /\ k.at = "sent"
    BY DEF BridgeReceives
  <2>2. CASE IsCached(c)
    BY <2>1, <2>2 DEF BridgeReceives
  <2>3. CASE ~IsCached(c) /\ refusal # "none"
    <3>1. cache' = Cached(c, refusal) /\ ran' = ran
      BY <2>3 DEF BridgeReceives
    <3>2. calls' = [calls EXCEPT ![c] = answered(refusal)]
      BY <2>3 DEF BridgeReceives
    <3> QED BY <2>1, <2>3, <3>1, <3>2
  <2>4. CASE ~IsCached(c) /\ refusal = "none"
    <3>1. cache' = cache /\ ran' = [ran EXCEPT ![c] = ran[c] + 1]
      BY <2>4 DEF BridgeReceives
    <3>2. calls' = [calls EXCEPT ![c] = started]
      BY <2>4 DEF BridgeReceives
    <3> HIDE DEF refusal, started
    <3> QED BY <2>1, <2>4, <3>1, <3>2
  <2> QED BY <2>2, <2>3, <2>4
<1>3. RestInv' /\ settings.write \in BOOLEAN
  BY <1>2 DEF CallsInv, RestInv
<1>4. /\ k.action # None /\ IsRequest(k) /\ k.input.from # "devtools"
      /\ ran[c] + 1 <= repeats + 1 /\ ~IsOpen(k) /\ ~k.late /\ k.outcome \in Outcomes
      /\ DOMAIN k = {"input", "action", "args", "at", "outcome", "writable", "late"}
      /\ k.late \in BOOLEAN /\ k.writable \in BOOLEAN
  BY <1>1, <1>2 DEF Asked, Did, IsRequest, IsOpen, IsCall
<1>5. ASSUME NEW o \in Outcomes, calls' = [calls EXCEPT ![c] = answered(o)], ran' = ran,
             \/ IsCached(c) /\ cache' = cache
             \/ ~IsCached(c) /\ o # "none" /\ cache' = Cached(c, o)
      PROVE  CallsInv'
  <2> DEFINE r == answered(o)
  <2>1. /\ r.input = k.input /\ r.action = k.action /\ r.at = "ended"
        /\ r.outcome \in Outcomes /\ r.writable = k.writable /\ r.late = k.late
        /\ DOMAIN r = DOMAIN k
    BY <1>4 DEF Answer
  <2>2. calls' = [calls EXCEPT ![c] = r]
    BY <1>5
  <2> HIDE DEF r, k, answered
  <2>3. IsCall(r) /\ Asked(r) /\ IsRequest(r)
    BY <1>1, <1>4, <2>1, GoesOn DEF Stages
  <2>4. Did(r, ran[c], touched[c], c, listed' \cup cutShort', repeats')
    <3>1. Did(r, ran[c], touched[c], c, listed \cup cutShort, repeats)
      <4>1. Did(k, ran[c], touched[c], c, listed \cup cutShort, repeats) /\ k.at = "sent"
            /\ r.at = "ended" /\ r.input = k.input /\ r.action = k.action
        BY <1>1, <1>2, <2>1
      <4>2. ran[c] + (IF r.at = "sent" THEN 1 ELSE 0) <= repeats + 1
        BY <1>1, <1>4, <4>1
      <4> QED BY <4>1, <4>2 DEF Did
    <3> QED BY <1>2, <3>1
  <2>5. Moves(c, r, ran[c], touched[c])
    BY <1>1, <1>2, <1>5, <2>2 DEF Moves
  <2>6. Fits(c, r, ran[c], touched[c])
    BY <2>3, <2>4 DEF Fits
  <2>7. ~IsOpen(r)
    BY <2>1 DEF IsOpen
  <2>8. Keeps(c, r, ran[c])
    BY <1>1, <1>4, <1>5, <2>3, <2>7 DEF Keeps, Remembered
  <2> QED BY <1>3, <2>5, <2>6, <2>8, OneCallMoves
<1>6. CASE IsCached(c) /\ UNCHANGED <<cache, ran>>
            /\ calls' = [calls EXCEPT ![c] = answered(CachedOutcome(c))]
  <2>1. CachedOutcome(c) \in Outcomes
    BY <1>6, OutcomeKept DEF CallsInv, CacheInv
  <2> HIDE DEF answered
  <2> QED BY <1>5, <1>6, <2>1
<1>7. CASE ~IsCached(c) /\ refusal # "none" /\ cache' = Cached(c, refusal) /\ ran' = ran
            /\ calls' = [calls EXCEPT ![c] = answered(refusal)]
  <2>1. refusal \in Outcomes
    BY DEF Refusal, Outcomes
  <2> HIDE DEF answered, refusal
  <2> QED BY <1>5, <1>7, <2>1
<1>8. CASE ~IsCached(c) /\ refusal = "none" /\ cache' = cache
            /\ calls' = [calls EXCEPT ![c] = started]
            /\ ran' = [ran EXCEPT ![c] = ran[c] + 1]
  <2> DEFINE r == started
             n == ran[c] + 1
  <2>1. /\ r.input = k.input /\ r.action = k.action /\ r.at = "running"
        /\ r.outcome = k.outcome /\ r.writable = settings.write /\ r.late = k.late
        /\ DOMAIN r = DOMAIN k
    BY <1>4
  <2>2. calls' = [calls EXCEPT ![c] = r] /\ ran' = [ran EXCEPT ![c] = n] /\ cache' = cache
    BY <1>8
  <2>3. n \in Nat /\ n > 0 /\ n <= repeats + 1
    BY <1>1, <1>4
  <2>4. n > 1 => Outnumbered(c)
    BY <1>1, <1>4, <1>8 DEF Remembered
  <2> HIDE DEF r, started, k, n, refusal
  <2>5. IsCall(r) /\ Asked(r) /\ IsRequest(r)
    BY <1>1, <1>3, <1>4, <2>1, GoesOn DEF Stages
  <2>6. Did(r, n, touched[c], c, listed' \cup cutShort', repeats')
    BY <1>1, <1>2, <1>4, <2>1, <2>3 DEF Did
  <2>7. Moves(c, r, n, touched[c])
    BY <1>1, <1>2, <2>2 DEF Moves
  <2>8. Fits(c, r, n, touched[c])
    BY <2>5, <2>6 DEF Fits
  <2>9. Keeps(c, r, n)
    <3>1. IsOpen(r)
      BY <1>4, <2>1 DEF IsOpen
    <3> QED BY <1>8, <2>2, <2>4, <2>5, <3>1 DEF Keeps
  <2> QED BY <1>3, <2>7, <2>8, <2>9, OneCallMoves
<1> QED BY <1>2, <1>6, <1>7, <1>8

\* The handler ends, with everything it has changed listed or itself cut short.
LEMMA RespondKeeps ==
    ASSUME CallsInv, NEW c \in Calls, NEW o \in Outcomes \ {"none"}, Respond(c, o),
           calls[c].at \in {"running", "changed"},
           UNCHANGED <<ran, touched, settings, linked, changes, repeats>>,
           listed \subseteq listed', listed' \subseteq listed \cup {c},
           cutShort \subseteq cutShort', cutShort' \subseteq cutShort \cup {c},
           touched[c] \cap Lasting # {} => c \in listed' \cup cutShort'
    PROVE  CallsInv'
<1> DEFINE k == calls[c]
           r == [k EXCEPT !.at = "ended", !.outcome = Answer(c, o)]
<1>1. /\ IsCall(k) /\ Asked(k) /\ Did(k, ran[c], touched[c], c, listed \cup cutShort, repeats)
      /\ ran[c] \in Nat /\ touched[c] \subseteq Effects /\ DOMAIN calls = Calls
      /\ ran = [ran EXCEPT ![c] = ran[c]] /\ touched = [touched EXCEPT ![c] = touched[c]]
      /\ repeats \in Nat /\ Repeats \in Nat /\ repeats \in repeats..Repeats
      /\ IsRequest(k) => Remembered(c)
      /\ ~IsRequest(k) => ran[c] <= 1
  BY CallFacts
<1>2. /\ calls' = [calls EXCEPT ![c] = r]
      /\ cache' = IF k.input.from = "devtools" \/ k.late THEN cache ELSE Cached(c, o)
  BY DEF Respond
<1>3. RestInv'
  BY DEF CallsInv, RestInv
<1>4. /\ k.action # None /\ k.outcome \in Outcomes /\ k.late \in BOOLEAN
      /\ DOMAIN k = {"input", "action", "args", "at", "outcome", "writable", "late"}
      /\ k.writable \in BOOLEAN
  BY <1>1 DEF Asked, IsCall
<1>5. /\ r.input = k.input /\ r.action = k.action /\ r.at = "ended"
      /\ r.outcome \in Outcomes /\ r.writable = k.writable /\ r.late = k.late
      /\ DOMAIN r = DOMAIN k
  BY <1>4 DEF Answer
<1>6. IsOpen(k) <=> ~k.late
  BY DEF IsOpen
<1> HIDE DEF r, k
<1>7. IsCall(r) /\ Asked(r) /\ (IsRequest(r) <=> IsRequest(k)) /\ ~IsOpen(r)
  <2>1. ~IsOpen(r)
    BY <1>5 DEF IsOpen
  <2> QED BY <1>1, <1>4, <1>5, <2>1, GoesOn DEF Stages
<1>8. Did(r, ran[c], touched[c], c, listed' \cup cutShort', repeats')
  <2>1. ran[c] + (IF r.at = "sent" THEN 1 ELSE 0) <= repeats' + 1
    <3>1. ran[c] + (IF k.at = "sent" THEN 1 ELSE 0) <= repeats + 1
      BY <1>1 DEF Did
    <3> QED BY <1>1, <1>5, <3>1
  <2>2. /\ r.action = k.action /\ r.input = k.input /\ r.at = "ended" /\ r.action # None
    BY <1>4, <1>5
  <2> QED BY <1>1, <2>1, <2>2 DEF Did
<1>9. Moves(c, r, ran[c], touched[c])
  BY <1>1, <1>2 DEF Moves
<1>10. Fits(c, r, ran[c], touched[c])
  BY <1>7, <1>8 DEF Fits, k
<1>11. Keeps(c, r, ran[c])
  <2>1. CASE k.input.from = "devtools" \/ k.late
    <3>1. cache' = cache /\ (IsRequest(r) => k.late)
      BY <1>2, <1>7, <2>1 DEF IsRequest
    <3> QED BY <1>1, <1>6, <1>7, <3>1 DEF Keeps, Remembered, k
  <2>2. CASE ~(k.input.from = "devtools" \/ k.late)
    <3>1. IsRequest(k) /\ cache' = Cached(c, o) /\ IsOpen(k)
      BY <1>2, <1>4, <1>6, <2>2 DEF IsRequest
    <3>2. ~IsCached(c) /\ (ran[c] > 1 => Outnumbered(c))
      BY <1>1, <3>1 DEF Remembered, k
    <3> QED BY <1>7, <3>1, <3>2 DEF Keeps
  <2> QED BY <2>1, <2>2
<1> QED BY <1>3, <1>9, <1>10, <1>11, OneCallMoves

LEMMA HandlerReturnsKeeps ==
    ASSUME CallsInv, NEW c \in Calls, HandlerReturns(c)
    PROVE  CallsInv'
<1> DEFINE k == calls[c]
<1>1. /\ k.at = "changed" /\ Respond(c, "done")
      /\ listed' = IF Listed(k.input, k.action) THEN listed \cup {c} ELSE listed
      /\ UNCHANGED <<ran, touched, cutShort, settings, linked, changes, repeats>>
  BY DEF HandlerReturns
<1>2. touched[c] \subseteq WillChange(k.input, k.action)
  <2>1. Did(k, ran[c], touched[c], c, listed \cup cutShort, repeats) /\ Asked(k)
    BY CallFacts
  <2> QED BY <1>1, <2>1 DEF Did, Asked
<1>3. ASSUME touched[c] \cap Lasting # {} PROVE c \in listed' \cup cutShort'
  <2>1. WillChange(k.input, k.action) \cap Lasting # {}
    BY <1>2, <1>3
  <2>2. Listed(k.input, k.action)
    BY <2>1, WillChangeFields
  <2> QED BY <1>1, <2>2
<1>4. /\ listed \subseteq listed' /\ listed' \subseteq listed \cup {c}
      /\ cutShort \subseteq cutShort' /\ cutShort' \subseteq cutShort \cup {c}
  BY <1>1
<1>5. "done" \in Outcomes \ {"none"}
  BY DEF Outcomes
<1> HIDE DEF k
<1>6. calls[c].at \in {"running", "changed"}
  BY <1>1 DEF k
<1> QED BY <1>1, <1>3, <1>4, <1>5, <1>6, RespondKeeps

LEMMA HandlerThrowsKeeps ==
    ASSUME CallsInv, NEW c \in Calls, HandlerThrows(c)
    PROVE  CallsInv'
<1>1. /\ calls[c].at \in {"running", "changed"} /\ Respond(c, "failed")
      /\ cutShort' = IF calls[c].at = "changed" THEN cutShort \cup {c} ELSE cutShort
      /\ UNCHANGED <<ran, touched, listed, settings, linked, changes, repeats>>
  BY DEF HandlerThrows
<1>2. touched[c] \cap Lasting # {} => c \in listed' \cup cutShort'
  <2>1. Did(calls[c], ran[c], touched[c], c, listed \cup cutShort, repeats)
    BY CallFacts
  <2> QED BY <1>1, <2>1 DEF Did
<1>3. /\ listed \subseteq listed' /\ listed' \subseteq listed \cup {c}
      /\ cutShort \subseteq cutShort' /\ cutShort' \subseteq cutShort \cup {c}
  BY <1>1
<1>4. "failed" \in Outcomes \ {"none"}
  BY DEF Outcomes
<1> QED BY <1>1, <1>2, <1>3, <1>4, RespondKeeps

LEMMA ActionTimesOutKeeps ==
    ASSUME CallsInv, NEW c \in Calls, ActionTimesOut(c)
    PROVE  CallsInv'
<1> DEFINE k == calls[c]
           r == [k EXCEPT !.outcome = Answer(c, "timeout"), !.late = TRUE]
<1>1. /\ IsCall(k) /\ Asked(k) /\ Did(k, ran[c], touched[c], c, listed \cup cutShort, repeats)
      /\ ran[c] \in Nat /\ touched[c] \subseteq Effects /\ DOMAIN calls = Calls
      /\ ran = [ran EXCEPT ![c] = ran[c]] /\ touched = [touched EXCEPT ![c] = touched[c]]
      /\ repeats \in Nat /\ Repeats \in Nat /\ repeats \in repeats..Repeats
      /\ IsRequest(k) => Remembered(c)
  BY CallFacts
<1>2. /\ k.at \in {"running", "changed"} /\ k.input.from # "devtools" /\ ~k.late
      /\ calls' = [calls EXCEPT ![c] = r] /\ cache' = Cached(c, "timeout")
      /\ UNCHANGED <<ran, touched, listed, cutShort, settings, linked, changes, repeats>>
  BY DEF ActionTimesOut
<1>3. RestInv'
  BY <1>2 DEF CallsInv, RestInv
<1>4. /\ k.action # None /\ k.outcome \in Outcomes /\ k.at \in Stages
      /\ DOMAIN k = {"input", "action", "args", "at", "outcome", "writable", "late"}
      /\ k.writable \in BOOLEAN
  BY <1>1, <1>2 DEF Asked, IsCall
<1>5. /\ r.input = k.input /\ r.action = k.action /\ r.at = k.at
      /\ r.outcome \in Outcomes /\ r.writable = k.writable /\ r.late = TRUE
      /\ DOMAIN r = DOMAIN k
  BY <1>4 DEF Answer, Outcomes
<1>6. IsOpen(k) /\ IsRequest(k)
  BY <1>2, <1>4 DEF IsOpen, IsRequest
<1> HIDE DEF r, k
<1>7. IsCall(r) /\ Asked(r) /\ IsRequest(r) /\ ~IsOpen(r)
  <2>1. ~IsOpen(r)
    BY <1>5 DEF IsOpen
  <2>2. k.at \in Stages \ {"idle"} /\ k.at # "sent"
    BY <1>2, <1>4
  <2> QED BY <1>1, <1>4, <1>5, <1>6, <2>1, <2>2, GoesOn
<1>8. Did(r, ran[c], touched[c], c, listed' \cup cutShort', repeats')
  <2>1. Did(r, ran[c], touched[c], c, listed \cup cutShort, repeats)
    BY <1>1, <1>5 DEF Did
  <2> QED BY <1>2, <2>1
<1>9. Moves(c, r, ran[c], touched[c])
  BY <1>1, <1>2 DEF Moves
<1>10. Fits(c, r, ran[c], touched[c])
  BY <1>7, <1>8 DEF Fits
<1>11. Keeps(c, r, ran[c])
  <2>1. ~IsCached(c) /\ (ran[c] > 1 => Outnumbered(c))
    BY <1>1, <1>6 DEF Remembered, k
  <2>2. \E o \in Outcomes \ {"none"} : cache' = Cached(c, o)
    BY <1>2 DEF Outcomes
  <2> QED BY <1>7, <2>1, <2>2 DEF Keeps
<1> QED BY <1>3, <1>9, <1>10, <1>11, OneCallMoves

LEMMA RequestRepeatedKeeps ==
    ASSUME CallsInv, NEW c \in Calls, RequestRepeated(c)
    PROVE  CallsInv'
<1> DEFINE k == calls[c]
           r == [k EXCEPT !.at = "sent", !.outcome = "none", !.late = FALSE]
<1>1. /\ IsCall(k) /\ Asked(k) /\ Did(k, ran[c], touched[c], c, listed \cup cutShort, repeats)
      /\ ran[c] \in Nat /\ touched[c] \subseteq Effects /\ DOMAIN calls = Calls
      /\ ran = [ran EXCEPT ![c] = ran[c]] /\ touched = [touched EXCEPT ![c] = touched[c]]
      /\ repeats \in Nat /\ Repeats \in Nat
      /\ IsRequest(k) => Remembered(c)
  BY CallFacts
<1>2. /\ k.at = "ended" /\ k.action # None /\ k.input.from # "devtools"
      /\ calls' = [calls EXCEPT ![c] = r] /\ repeats < Repeats /\ repeats' = repeats + 1
      /\ UNCHANGED <<cache, ran, touched, listed, cutShort, settings, linked, changes>>
  BY DEF RequestRepeated
<1>3. RestInv'
  BY <1>2 DEF CallsInv, RestInv
<1>4. /\ DOMAIN k = {"input", "action", "args", "at", "outcome", "writable", "late"}
      /\ k.writable \in BOOLEAN
  BY <1>1 DEF IsCall
<1>5. /\ r.input = k.input /\ r.action = k.action /\ r.at = "sent"
      /\ r.outcome = "none" /\ r.writable = k.writable /\ r.late = FALSE
      /\ DOMAIN r = DOMAIN k
  BY <1>4
<1>6. ~IsOpen(k) /\ IsRequest(k)
  BY <1>2 DEF IsOpen, IsRequest
<1> HIDE DEF r, k
<1>7. IsCall(r) /\ Asked(r) /\ IsRequest(r) /\ ~IsOpen(r)
  <2>1. ~IsOpen(r)
    BY <1>5 DEF IsOpen
  <2> QED BY <1>1, <1>2, <1>4, <1>5, <1>6, <2>1, GoesOn DEF Stages, Outcomes
<1>8. Did(r, ran[c], touched[c], c, listed' \cup cutShort', repeats')
  <2>1. ran[c] + (IF r.at = "sent" THEN 1 ELSE 0) <= repeats' + 1
    <3>1. ran[c] + (IF k.at = "sent" THEN 1 ELSE 0) <= repeats + 1
      BY <1>1 DEF Did
    <3>2. ran[c] <= repeats + 1
      BY <1>1, <1>2, <3>1
    <3> QED BY <1>1, <1>2, <1>5, <3>2
  <2> QED BY <1>1, <1>2, <1>5, <2>1 DEF Did
<1>9. Moves(c, r, ran[c], touched[c])
  BY <1>1, <1>2 DEF Moves
<1>10. Fits(c, r, ran[c], touched[c])
  BY <1>7, <1>8 DEF Fits
<1>11. Keeps(c, r, ran[c])
  <2>1. /\ ran[c] = 1 => IsCached(c) \/ Outnumbered(c)
        /\ ran[c] > 1 => Outnumbered(c)
    BY <1>1, <1>6 DEF Remembered, k
  <2> QED BY <1>2, <1>7, <2>1 DEF Keeps
<1> QED BY <1>3, <1>9, <1>10, <1>11, OneCallMoves

LEMMA WorkKeeps ==
    ASSUME CallsInv, NEW c \in Calls, Work(c)
    PROVE  CallsInv'
<1> DEFINE k == calls[c]
           r == [k EXCEPT !.at = "changed"]
           t == touched[c] \cup WillChange(k.input, k.action)
<1>1. /\ IsCall(k) /\ Asked(k) /\ Did(k, ran[c], touched[c], c, listed \cup cutShort, repeats)
      /\ ran[c] \in Nat /\ touched[c] \subseteq Effects /\ DOMAIN calls = Calls
      /\ ran = [ran EXCEPT ![c] = ran[c]]
      /\ repeats \in Nat /\ Repeats \in Nat /\ repeats \in repeats..Repeats
      /\ IsRequest(k) => Remembered(c)
      /\ ~IsRequest(k) => ran[c] <= 1
  BY CallFacts
<1>2. /\ k.at = "running" /\ calls' = [calls EXCEPT ![c] = r]
      /\ touched' = [touched EXCEPT ![c] = t]
      /\ UNCHANGED <<cache, ran, listed, cutShort, settings, linked, changes, repeats>>
  BY DEF Work
<1>3. RestInv'
  BY <1>2 DEF CallsInv, RestInv
<1>4. /\ k.action # None /\ k.outcome \in Outcomes /\ k.writable \in BOOLEAN
      /\ DOMAIN k = {"input", "action", "args", "at", "outcome", "writable", "late"}
      /\ k.late \in BOOLEAN
  BY <1>1, <1>2 DEF Asked, IsCall
<1>5. /\ r.input = k.input /\ r.action = k.action /\ r.at = "changed"
      /\ r.outcome = k.outcome /\ r.writable = k.writable /\ r.late = k.late
      /\ DOMAIN r = DOMAIN k
  BY <1>4
<1>6. t \subseteq Effects /\ t \subseteq WillChange(k.input, k.action)
  BY <1>1, <1>4, WillChangeFields DEF Did
<1>7. ran[c] > 0 /\ ran[c] <= repeats + 1 /\ (k.input.from = "devtools" => ran[c] <= 1)
  BY <1>1, <1>2, <1>4 DEF Did
<1> HIDE DEF r, t, k
<1>8. /\ IsCall(r) /\ Asked(r) /\ (IsRequest(r) <=> IsRequest(k))
      /\ (IsOpen(r) <=> IsOpen(k))
  <2>1. IsOpen(r) <=> IsOpen(k)
    BY <1>2, <1>5 DEF IsOpen
  <2> QED BY <1>1, <1>4, <1>5, <2>1, GoesOn DEF Stages
<1>9. Did(r, ran[c], t, c, listed' \cup cutShort', repeats')
  <2>1. ran[c] + (IF r.at = "sent" THEN 1 ELSE 0) <= repeats' + 1
    BY <1>1, <1>2, <1>5, <1>7
  <2> QED BY <1>1, <1>4, <1>5, <1>6, <1>7, <2>1 DEF Did
<1>10. Moves(c, r, ran[c], t)
  BY <1>1, <1>2 DEF Moves
<1>11. Fits(c, r, ran[c], t)
  BY <1>8, <1>9 DEF Fits, k
<1>12. Keeps(c, r, ran[c])
  BY <1>1, <1>2, <1>8 DEF Keeps, Remembered, k
<1> QED BY <1>3, <1>10, <1>11, <1>12, OneCallMoves

\* A step of the settings or the connection that leaves the calls alone.
LEMMA OthersKeep ==
    ASSUME CallsInv, UNCHANGED <<calls, cache, ran, touched, listed, cutShort, repeats>>, RestInv'
    PROVE  CallsInv'
<1>1. CallInv'
  BY DEF CallsInv, CallInv, CallOk
<1>2. CacheInv'
  <2>1. \A d \in Calls : /\ IsRequest(calls[d])' <=> IsRequest(calls[d])
                         /\ IsOpen(calls[d])' <=> IsOpen(calls[d])
    OBVIOUS
  <2> QED BY <2>1, CacheStays DEF CallsInv
<1> QED BY <1>1, <1>2 DEF CallsInv

LEMMA NextKeeps == ASSUME CallsInv, [Next]_vars PROVE CallsInv'
<1>1. ASSUME NEW c \in Calls, NEW input \in Askable(c),
             CallTool(c, input) \/ ResetPairing(c, input) \/ DevToolsExecute(c, input)
      PROVE  CallsInv'
  BY <1>1, CallToolKeeps, ResetPairingKeeps, DevToolsKeeps
<1>2. ASSUME NEW c \in Calls,
             \/ BridgeReceives(c) \/ Work(c) \/ HandlerReturns(c) \/ HandlerThrows(c)
             \/ ActionTimesOut(c) \/ RequestRepeated(c)
      PROVE  CallsInv'
  BY <1>2, BridgeReceivesKeeps, WorkKeeps, HandlerReturnsKeeps, HandlerThrowsKeeps,
     ActionTimesOutKeeps, RequestRepeatedKeeps
<1>3. CASE SettingsChange
  <2>1. RestInv /\ changes + 1 \in 0..MaxChanges
    BY <1>3, CallsAssumption DEF CallsInv, RestInv, SettingsChange
  <2>2. RestInv'
    BY <1>3, <2>1 DEF RestInv, SettingsChange
  <2> QED BY <1>3, <2>2, OthersKeep DEF SettingsChange
<1>4. CASE ConnectionLost
  BY <1>4, ConnectionLostKeeps
<1>5. CASE Reconnected
  <2>1. RestInv'
    BY <1>5 DEF CallsInv, RestInv, Reconnected
  <2> QED BY <1>5, <2>1, OthersKeep DEF Reconnected
<1>6. CASE UNCHANGED vars
  <2>1. RestInv'
    BY <1>6 DEF CallsInv, RestInv, vars
  <2> QED BY <1>6, <2>1, OthersKeep DEF vars
<1> QED BY <1>1, <1>2, <1>3, <1>4, <1>5, <1>6 DEF Next

LEMMA InitCalls == Init => CallsInv
<1> SUFFICES ASSUME Init PROVE CallsInv
  OBVIOUS
<1>1. \A c \in Calls : calls[c] = Idle /\ ran[c] = 0 /\ touched[c] = {}
  BY DEF Init
<1>2. /\ IsCall(Idle) /\ Asked(Idle) /\ ~IsRequest(Idle)
      /\ \A c : Did(Idle, 0, {}, c, {} \cup {}, 0)
  <2>1. /\ Idle.input = None /\ Idle.action = None /\ Idle.at = "idle"
        /\ Idle.outcome = "none" /\ Idle.writable = FALSE /\ Idle.late = FALSE
        /\ DOMAIN Idle = {"input", "action", "args", "at", "outcome", "writable", "late"}
    BY DEF Idle
  <2>2. IsCall(Idle) /\ Asked(Idle) /\ ~IsRequest(Idle)
    BY <2>1 DEF IsCall, Asked, IsRequest, Stages, Outcomes
  <2>3. \A c : Did(Idle, 0, {}, c, {} \cup {}, 0)
    BY <2>1, DidNothing
  <2> QED BY <2>2, <2>3
<1>3. CallInv
  BY <1>1, <1>2, CallsAssumption DEF Init, CallInv, CallOk
<1>4. RestInv
  BY CallsAssumption DEF Init, RestInv
<1>5. CacheInv
  <2>1. Requests = {} /\ \A c \in Calls : ran[c] <= 1
    BY <1>1, <1>2 DEF Requests
  <2>2. CacheTypes /\ Len(cache) = 0
    BY CallsAssumption DEF Init, CacheTypes
  <2>3. IsFiniteSet(Requests)
    BY <2>1, FS_EmptySet
  <2> QED BY <2>1, <2>2, <2>3 DEF CacheInv
<1> QED BY <1>3, <1>4, <1>5 DEF CallsInv

-----------------------------------------------------------------------------
(* Theorems *)

\* The inductive invariant holds of every behaviour: what each call has done fits
\* its record, and every answered request has its answer kept or outnumbered.
THEOREM CallsInvHolds == Spec => []CallsInv
  BY InitCalls, NextKeeps, PTL DEF Spec

\* The variables keep their types, whatever calls are made, however they interleave
\* and however often a companion repeats a request.
THEOREM TypeCorrect == Spec => []TypeOK
<1>1. CallsInv => TypeOK
  <2> SUFFICES ASSUME CallsInv PROVE TypeOK
    OBVIOUS
  <2>1. ASSUME NEW c \in Calls
        PROVE  /\ calls[c].input # None => calls[c].input.from \in {"agent", "cli", "devtools"}
               /\ calls[c].action \in BridgeActions \cup {None}
               /\ calls[c].at \in Stages /\ calls[c].outcome \in Outcomes
               /\ calls[c].writable \in BOOLEAN /\ calls[c].late \in BOOLEAN
               /\ calls[c].at = "idle" <=> calls[c].input = None
               /\ calls[c].at \in {"running", "changed"} => ran[c] > 0 /\ calls[c].action # None
               /\ touched[c] \subseteq {"notes", "cards", "view", "clipboard"}
    BY CallFacts DEF IsCall, Asked, Did, Effects
  <2>2. ran \in [Calls -> 0..(Repeats + 1)]
    <3>1. ASSUME NEW c \in Calls PROVE ran[c] \in 0..(Repeats + 1)
      <4>1. ran[c] + (IF calls[c].at = "sent" THEN 1 ELSE 0) <= repeats + 1
            /\ ran[c] \in Nat /\ repeats \in 0..Repeats /\ Repeats \in Nat
        BY CallFacts, CallsAssumption DEF Did, CallsInv, CallInv
      <4> QED BY <4>1
    <3> QED BY <3>1 DEF CallsInv, CallInv
  <2>3. /\ \A i, j \in DOMAIN cache :
              /\ cache[i].call \in Calls /\ cache[i].outcome \in Outcomes \ {"none"}
              /\ cache[i].call = cache[j].call => i = j
        /\ Len(cache) <= CacheSize
    <3>1. CacheTypes /\ DOMAIN cache = 1..Len(cache)
      BY DEF CallsInv, CacheInv, CacheTypes
    <3>2. \A i \in 1..Len(cache) : cache[i] \in Lists
      BY <3>1 DEF CacheTypes
    <3> QED BY <3>1, <3>2 DEF CacheTypes, Lists
  <2> QED BY <2>1, <2>2, <2>3 DEF TypeOK, CallsInv, CallInv, RestInv
<1> QED BY <1>1, CallsInvHolds, PTL

\* A repeated request is not carried out again, whatever its end, unless as many
\* other requests came as the plugin keeps responses: for a cache of any size.
THEOREM RequestsRunOnce == Spec => []RanOnce
<1>1. CallsInv => RanOnce
  <2> SUFFICES ASSUME CallsInv, NEW c \in Calls, ran[c] > 1
               PROVE  Cardinality({d \in Calls \ {c} : calls[d].action # None
                          /\ calls[d].input.from # "devtools"}) >= CacheSize
    BY DEF RanOnce
  <2>1. Outnumbered(c)
    <3>1. CASE IsRequest(calls[c])
      BY <3>1, CallFacts DEF Remembered
    <3>2. CASE ~IsRequest(calls[c])
      BY <3>2, CallFacts
    <3> QED BY <3>1, <3>2
  <2>2. Requests \ {c} = {d \in Calls \ {c} : calls[d].action # None
                             /\ calls[d].input.from # "devtools"}
    BY DEF Requests, IsRequest
  <2> QED BY <2>1, <2>2 DEF Outnumbered
<1> QED BY <1>1, CallsInvHolds, PTL

\* What a call changes is declared before and listed after: no action classed as a
\* read, no tool hinted harmless and no preview changes notes or cards
\* (ACTION_POLICIES, effects), and what has changed them is in the history once its
\* handler has ended, whatever its caller was told and however often it was asked
\* again, unless the handler threw after the change (handleRequest of the runtime).
THEOREM DeclaredAndListed == Spec => []EffectsAreDeclared
<1>1. CallsInv => EffectsAreDeclared
  <2> SUFFICES ASSUME CallsInv, NEW c \in Calls
               PROVE  ReadsChangeNothing(c) /\ ChangeIsListed(c)
    BY DEF EffectsAreDeclared
  <2> DEFINE input == calls[c].input
             a == calls[c].action
  <2>1. IsCall(calls[c]) /\ Asked(calls[c])
        /\ Did(calls[c], ran[c], touched[c], c, listed \cup cutShort, repeats)
    BY CallFacts
  <2>2. ASSUME a # None, \/ ACTION_POLICIES[a].risk = "read" \/ input.tool \in effects
                         \/ a \in Previewed /\ input.twist # "apply"
        PROVE  touched[c] \cap {"notes", "cards"} = {}
    <3>1. /\ a \in BridgeActions /\ touched[c] \subseteq WillChange(input, a)
          /\ IF input.from = "devtools" THEN a = input.tool
             ELSE a = ActionOf(input) /\ input.tool \notin LocalTools
      BY <2>1, <2>2 DEF IsCall, Asked, Did
    <3>2. a \in ReadActions \cup AdapterReads \/ DryRun(input, a)
      <4>1. CASE ACTION_POLICIES[a].risk = "read"
        BY <3>1, <4>1, PolicyTable
      <4>2. CASE input.tool \in effects
        <5>1. a = ActionOf(input) /\ input.tool \in effects \ LocalTools
          BY <3>1, <4>2, PolicyTable
        <5> QED BY <3>1, <5>1, PolicyTable, ReadingTools
      <4>3. CASE a \in Previewed /\ input.twist # "apply"
        BY <4>3 DEF DryRun
      <4> QED BY <2>2, <4>1, <4>2, <4>3
    <3>3. WillChange(input, a) \cap Lasting = {}
      BY <3>2, WillChangeFields
    <3> QED BY <3>1, <3>3 DEF Lasting
  <2>3. ReadsChangeNothing(c)
    BY <2>2 DEF ReadsChangeNothing
  <2>4. ChangeIsListed(c)
    BY <2>1 DEF ChangeIsListed, Did, Lasting
  <2> QED BY <2>3, <2>4
<1> QED BY <1>1, CallsInvHolds, PTL

-----------------------------------------------------------------------------
(* What is offered is taken *)

SdkActionNames ==
    {"editor_read", "editor_write", "editor_delete", "window_read", "window_write",
     "queue_read", "queue_write", "card_read", "card_write", "card_delete", "rem_read",
     "rem_write", "rem_delete", "rich_text_read", "kb_read", "daily_document_write",
     "reader_write"}
AdapterActionNames ==
    AdapterReads \cup
    {"create_note", "append_journal", "update_note", "set_document_status",
     "insert_children",
     "move_note", "update_tags", "set_property", "replace_children"}

\* The actions the server has a policy for are those the plugin's two halves carry out.
LEMMA ActionNames ==
    /\ BridgeActions = SdkActionNames \cup AdapterActionNames
    /\ DOMAIN SDK_AGENT_ACTIONS = SdkActionNames
<1> DEFINE p1 == Policies({"search", "search_by_tag", "read_note", "list_children",
                           "read_table",
                    "get_status", "rem_read", "rich_text_read", "kb_read"},
                   Policy("read", "read"))
           p2 == Policies({"create_note", "append_journal", "update_note",
                           "set_document_status",
                    "insert_children", "move_note", "update_tags", "set_property",
                       "rem_write",
                    "daily_document_write", "reader_write"}, Policy("write", "write"))
           p3 == Policies({"replace_children", "editor_delete", "card_delete",
                           "rem_delete"},
                   Policy("destructive", "destructive"))
           p4 == Policies({"queue_write", "card_write"}, Policy("review", "review"))
           p5 == Policies({"queue_read", "card_read"}, Policy("review", "read"))
           p6 == [get_media_locator |-> Policy("media", "read"),
                  editor_read |-> Policy("editor", "read"),
                  editor_write |-> Policy("editor", "write"),
                  window_read |-> Policy("window", "read"),
                  window_write |-> Policy("window", "write")]
<1>1. /\ DOMAIN p1 = {"search", "search_by_tag", "read_note", "list_children", "read_table",
                      "get_status", "rem_read", "rich_text_read", "kb_read"}
      /\ DOMAIN p2 = {"create_note", "append_journal", "update_note", "set_document_status",
                      "insert_children", "move_note", "update_tags", "set_property",
                      "rem_write", "daily_document_write", "reader_write"}
      /\ DOMAIN p3 = {"replace_children", "editor_delete", "card_delete", "rem_delete"}
      /\ DOMAIN p4 = {"queue_write", "card_write"}
      /\ DOMAIN p5 = {"queue_read", "card_read"}
  BY PoliciesFields
<1>2. DOMAIN p6 = {"get_media_locator", "editor_read", "editor_write", "window_read",
                   "window_write"}
  OBVIOUS
<1> DEFINE m5 == Merge(p5, p6)
           m4 == Merge(p4, m5)
           m3 == Merge(p3, m4)
           m2 == Merge(p2, m3)
<1>3. ACTION_POLICIES = Merge(p1, m2)
  BY DEF ACTION_POLICIES
<1> HIDE DEF p1, p2, p3, p4, p5, p6
<1>4. DOMAIN m5 = DOMAIN p5 \cup DOMAIN p6
  BY DEF Merge
<1> HIDE DEF m5
<1>5. DOMAIN m4 = DOMAIN p4 \cup DOMAIN m5
  BY DEF Merge
<1> HIDE DEF m4
<1>6. DOMAIN m3 = DOMAIN p3 \cup DOMAIN m4
  BY DEF Merge
<1> HIDE DEF m3
<1>7. DOMAIN m2 = DOMAIN p2 \cup DOMAIN m3
  BY DEF Merge
<1> HIDE DEF m2
<1>8. BridgeActions = DOMAIN p1 \cup DOMAIN m2
  BY <1>3 DEF BridgeActions, Merge
<1>9. DOMAIN SDK_AGENT_ACTIONS = SdkActionNames
  BY DEF SDK_AGENT_ACTIONS, SdkActionNames
<1> QED BY <1>1, <1>2, <1>4, <1>5, <1>6, <1>7, <1>8, <1>9
        DEF SdkActionNames, AdapterActionNames, AdapterReads

\* The fields that stay with the server.
Kept == {"timeoutMs", "maxInlineBytes"}

LEMMA ToolNames ==
    /\ NoteTools = {"remnote_create_note", "remnote_search", "remnote_search_by_tag",
                    "remnote_read_note", "remnote_get_media", "remnote_list_children",
                    "remnote_move_note", "remnote_update_note",
                    "remnote_set_document_status", "remnote_insert_children",
                    "remnote_replace_children", "remnote_update_tags",
                    "remnote_set_property", "remnote_append_journal", "remnote_read_table"}
    /\ AgentTools = {"remnote_editor", "remnote_window", "remnote_queue", "remnote_card",
                     "remnote_rem", "remnote_rich_text", "remnote_knowledge_base",
                     "remnote_daily_document", "remnote_reader"}
  BY DEF NoteTools, Published, AgentTools, Groups

\* The action each note tool is sent as.
LEMMA NoteActions ==
    ASSUME NEW input
    PROVE  /\ input.tool = "remnote_create_note" => ActionOf(input) = "create_note"
           /\ input.tool = "remnote_search" => ActionOf(input) = "search"
           /\ input.tool = "remnote_search_by_tag" => ActionOf(input) = "search_by_tag"
           /\ input.tool = "remnote_read_note" => ActionOf(input) = "read_note"
           /\ input.tool = "remnote_get_media" => ActionOf(input) = "get_media_locator"
           /\ input.tool = "remnote_list_children" => ActionOf(input) = "list_children"
           /\ input.tool = "remnote_move_note" => ActionOf(input) = "move_note"
           /\ input.tool = "remnote_update_note" => ActionOf(input) = "update_note"
           /\ input.tool = "remnote_set_document_status" =>
                 ActionOf(input) = "set_document_status"
           /\ input.tool = "remnote_insert_children" => ActionOf(input) = "insert_children"
           /\ input.tool = "remnote_replace_children" =>
                 ActionOf(input) = "replace_children"
           /\ input.tool = "remnote_update_tags" => ActionOf(input) = "update_tags"
           /\ input.tool = "remnote_set_property" => ActionOf(input) = "set_property"
           /\ input.tool = "remnote_append_journal" => ActionOf(input) = "append_journal"
           /\ input.tool = "remnote_read_table" => ActionOf(input) = "read_table"
  BY ToolNames DEF ActionOf, StatusTools

\* Of the arguments a note tool publishes its schema takes all, asks for no other
\* and the plugin's handler hands all on.
LEMMA NoteTable ==
    ASSUME NEW input, input.tool \in NoteTools
    PROVE  LET a == ActionOf(input)
               s == Schemas[input.tool]
               p == Published[input.tool]
           IN  /\ a \in AdapterActionNames
               /\ s.required \subseteq p.required /\ FieldsOf(p) \subseteq FieldsOf(s)
               /\ FieldsOf(p) \ Kept \subseteq HandedOn[a]
<1> DEFINE a == ActionOf(input)
           s == Schemas[input.tool]
           p == Published[input.tool]
<1>1. HandedOn = Merge(HandedOnOfNotes, HandedOnOfChanges)
  BY DEF HandedOn
<1>2. /\ DOMAIN HandedOnOfNotes =
            {"create_note", "append_journal", "search", "get_media_locator",
             "search_by_tag", "read_note", "list_children", "read_table"}
      /\ DOMAIN HandedOnOfChanges =
            {"update_note", "set_document_status", "insert_children", "move_note",
             "replace_children", "update_tags", "set_property", "get_status"}
  BY DEF HandedOnOfNotes, HandedOnOfChanges
<1>3. /\ \A x \in DOMAIN HandedOnOfNotes : HandedOn[x] = HandedOnOfNotes[x]
      /\ \A x \in DOMAIN HandedOnOfChanges : HandedOn[x] = HandedOnOfChanges[x]
  <2>1. DOMAIN HandedOnOfChanges \cap DOMAIN HandedOnOfNotes = {}
    BY <1>2
  <2> QED BY <1>1, <2>1 DEF Merge
<1> USE DEF Takes, Parses, FieldsOf, ContentOptions, SearchContentShape
<1>4. CASE input.tool = "remnote_create_note"
  <2>1. a = "create_note" /\ p = CREATE_NOTE_TOOL /\ s = CreateNoteSchema
    BY <1>4, NoteActions DEF Published, Schemas
  <2>2. /\ a \in AdapterActionNames
        /\ s.required \subseteq p.required /\ FieldsOf(p) \subseteq FieldsOf(s)
    BY <2>1 DEF AdapterActionNames, AdapterReads, CREATE_NOTE_TOOL, CreateNoteSchema
  <2>3. FieldsOf(p) \ Kept \subseteq HandedOn[a]
    BY <1>2, <1>3, <2>1 DEF CREATE_NOTE_TOOL, Kept, HandedOnOfNotes, HandedOnOfChanges
  <2> QED BY <2>2, <2>3
<1>5. CASE input.tool = "remnote_search"
  <2>1. a = "search" /\ p = SEARCH_TOOL /\ s = SearchSchema
    BY <1>5, NoteActions DEF Published, Schemas
  <2>2. /\ a \in AdapterActionNames
        /\ s.required \subseteq p.required /\ FieldsOf(p) \subseteq FieldsOf(s)
    BY <2>1 DEF AdapterActionNames, AdapterReads, SEARCH_TOOL, SearchSchema
  <2>3. FieldsOf(p) \ Kept \subseteq HandedOn[a]
    BY <1>2, <1>3, <2>1 DEF SEARCH_TOOL, Kept, HandedOnOfNotes, HandedOnOfChanges
  <2> QED BY <2>2, <2>3
<1>6. CASE input.tool = "remnote_search_by_tag"
  <2>1. a = "search_by_tag" /\ p = SEARCH_BY_TAG_TOOL /\ s = SearchByTagSchema
    BY <1>6, NoteActions DEF Published, Schemas
  <2>2. /\ a \in AdapterActionNames
        /\ s.required \subseteq p.required /\ FieldsOf(p) \subseteq FieldsOf(s)
    BY <2>1 DEF AdapterActionNames, AdapterReads, SEARCH_BY_TAG_TOOL, SearchByTagSchema
  <2>3. FieldsOf(p) \ Kept \subseteq HandedOn[a]
    BY <1>2, <1>3, <2>1 DEF SEARCH_BY_TAG_TOOL, Kept, HandedOnOfNotes, HandedOnOfChanges
  <2> QED BY <2>2, <2>3
<1>7. CASE input.tool = "remnote_read_note"
  <2>1. a = "read_note" /\ p = READ_NOTE_TOOL /\ s = ReadNoteSchema
    BY <1>7, NoteActions DEF Published, Schemas
  <2>2. /\ a \in AdapterActionNames
        /\ s.required \subseteq p.required /\ FieldsOf(p) \subseteq FieldsOf(s)
    BY <2>1 DEF AdapterActionNames, AdapterReads, READ_NOTE_TOOL, ReadNoteSchema
  <2>3. FieldsOf(p) \ Kept \subseteq HandedOn[a]
    BY <1>2, <1>3, <2>1 DEF READ_NOTE_TOOL, Kept, HandedOnOfNotes, HandedOnOfChanges
  <2> QED BY <2>2, <2>3
<1>8. CASE input.tool = "remnote_get_media"
  <2>1. a = "get_media_locator" /\ p = GET_MEDIA_TOOL /\ s = GetMediaSchema
    BY <1>8, NoteActions DEF Published, Schemas
  <2>2. /\ a \in AdapterActionNames
        /\ s.required \subseteq p.required /\ FieldsOf(p) \subseteq FieldsOf(s)
    BY <2>1 DEF AdapterActionNames, AdapterReads, GET_MEDIA_TOOL, GetMediaSchema
  <2>3. FieldsOf(p) \ Kept \subseteq HandedOn[a]
    BY <1>2, <1>3, <2>1 DEF GET_MEDIA_TOOL, Kept, HandedOnOfNotes, HandedOnOfChanges
  <2> QED BY <2>2, <2>3
<1>9. CASE input.tool = "remnote_list_children"
  <2>1. a = "list_children" /\ p = LIST_CHILDREN_TOOL /\ s = ListChildrenSchema
    BY <1>9, NoteActions DEF Published, Schemas
  <2>2. /\ a \in AdapterActionNames
        /\ s.required \subseteq p.required /\ FieldsOf(p) \subseteq FieldsOf(s)
    BY <2>1 DEF AdapterActionNames, AdapterReads, LIST_CHILDREN_TOOL, ListChildrenSchema
  <2>3. FieldsOf(p) \ Kept \subseteq HandedOn[a]
    BY <1>2, <1>3, <2>1 DEF LIST_CHILDREN_TOOL, Kept, HandedOnOfNotes, HandedOnOfChanges
  <2> QED BY <2>2, <2>3
<1>10. CASE input.tool = "remnote_move_note"
  <2>1. a = "move_note" /\ p = MOVE_NOTE_TOOL /\ s = MoveNoteSchema
    BY <1>10, NoteActions DEF Published, Schemas
  <2>2. /\ a \in AdapterActionNames
        /\ s.required \subseteq p.required /\ FieldsOf(p) \subseteq FieldsOf(s)
    BY <2>1 DEF AdapterActionNames, AdapterReads, MOVE_NOTE_TOOL, MoveNoteSchema
  <2>3. FieldsOf(p) \ Kept \subseteq HandedOn[a]
    BY <1>2, <1>3, <2>1 DEF MOVE_NOTE_TOOL, Kept, HandedOnOfNotes, HandedOnOfChanges
  <2> QED BY <2>2, <2>3
<1>11. CASE input.tool = "remnote_update_note"
  <2>1. a = "update_note" /\ p = UPDATE_NOTE_TOOL /\ s = UpdateNoteSchema
    BY <1>11, NoteActions DEF Published, Schemas
  <2>2. /\ a \in AdapterActionNames
        /\ s.required \subseteq p.required /\ FieldsOf(p) \subseteq FieldsOf(s)
    BY <2>1 DEF AdapterActionNames, AdapterReads, UPDATE_NOTE_TOOL, UpdateNoteSchema
  <2>3. FieldsOf(p) \ Kept \subseteq HandedOn[a]
    BY <1>2, <1>3, <2>1 DEF UPDATE_NOTE_TOOL, Kept, HandedOnOfNotes, HandedOnOfChanges
  <2> QED BY <2>2, <2>3
<1>12. CASE input.tool = "remnote_set_document_status"
  <2>1. /\ a = "set_document_status"
        /\ p = SET_DOCUMENT_STATUS_TOOL /\ s = SetDocumentStatusSchema
    BY <1>12, NoteActions DEF Published, Schemas
  <2>2. /\ a \in AdapterActionNames
        /\ s.required \subseteq p.required /\ FieldsOf(p) \subseteq FieldsOf(s)
    BY <2>1 DEF AdapterActionNames, AdapterReads, SET_DOCUMENT_STATUS_TOOL,
       SetDocumentStatusSchema
  <2>3. FieldsOf(p) \ Kept \subseteq HandedOn[a]
    BY <1>2, <1>3, <2>1 DEF SET_DOCUMENT_STATUS_TOOL, Kept, HandedOnOfNotes,
       HandedOnOfChanges
  <2> QED BY <2>2, <2>3
<1>13. CASE input.tool = "remnote_insert_children"
  <2>1. a = "insert_children" /\ p = INSERT_CHILDREN_TOOL /\ s = InsertChildrenSchema
    BY <1>13, NoteActions DEF Published, Schemas
  <2>2. /\ a \in AdapterActionNames
        /\ s.required \subseteq p.required /\ FieldsOf(p) \subseteq FieldsOf(s)
    BY <2>1 DEF AdapterActionNames, AdapterReads, INSERT_CHILDREN_TOOL, InsertChildrenSchema
  <2>3. FieldsOf(p) \ Kept \subseteq HandedOn[a]
    BY <1>2, <1>3, <2>1 DEF INSERT_CHILDREN_TOOL, Kept, HandedOnOfNotes, HandedOnOfChanges
  <2> QED BY <2>2, <2>3
<1>14. CASE input.tool = "remnote_replace_children"
  <2>1. a = "replace_children" /\ p = REPLACE_CHILDREN_TOOL /\ s = ReplaceChildrenSchema
    BY <1>14, NoteActions DEF Published, Schemas
  <2>2. /\ a \in AdapterActionNames
        /\ s.required \subseteq p.required /\ FieldsOf(p) \subseteq FieldsOf(s)
    BY <2>1 DEF AdapterActionNames, AdapterReads, REPLACE_CHILDREN_TOOL,
       ReplaceChildrenSchema
  <2>3. FieldsOf(p) \ Kept \subseteq HandedOn[a]
    BY <1>2, <1>3, <2>1 DEF REPLACE_CHILDREN_TOOL, Kept, HandedOnOfNotes, HandedOnOfChanges
  <2> QED BY <2>2, <2>3
<1>15. CASE input.tool = "remnote_update_tags"
  <2>1. a = "update_tags" /\ p = UPDATE_TAGS_TOOL /\ s = UpdateTagsSchema
    BY <1>15, NoteActions DEF Published, Schemas
  <2>2. /\ a \in AdapterActionNames
        /\ s.required \subseteq p.required /\ FieldsOf(p) \subseteq FieldsOf(s)
    BY <2>1 DEF AdapterActionNames, AdapterReads, UPDATE_TAGS_TOOL, UpdateTagsSchema
  <2>3. FieldsOf(p) \ Kept \subseteq HandedOn[a]
    BY <1>2, <1>3, <2>1 DEF UPDATE_TAGS_TOOL, Kept, HandedOnOfNotes, HandedOnOfChanges
  <2> QED BY <2>2, <2>3
<1>16. CASE input.tool = "remnote_set_property"
  <2>1. a = "set_property" /\ p = SET_PROPERTY_TOOL /\ s = SetPropertySchema
    BY <1>16, NoteActions DEF Published, Schemas
  <2>2. /\ a \in AdapterActionNames
        /\ s.required \subseteq p.required /\ FieldsOf(p) \subseteq FieldsOf(s)
    BY <2>1 DEF AdapterActionNames, AdapterReads, SET_PROPERTY_TOOL, SetPropertySchema
  <2>3. FieldsOf(p) \ Kept \subseteq HandedOn[a]
    BY <1>2, <1>3, <2>1 DEF SET_PROPERTY_TOOL, Kept, HandedOnOfNotes, HandedOnOfChanges
  <2> QED BY <2>2, <2>3
<1>17. CASE input.tool = "remnote_append_journal"
  <2>1. a = "append_journal" /\ p = APPEND_JOURNAL_TOOL /\ s = AppendJournalSchema
    BY <1>17, NoteActions DEF Published, Schemas
  <2>2. /\ a \in AdapterActionNames
        /\ s.required \subseteq p.required /\ FieldsOf(p) \subseteq FieldsOf(s)
    BY <2>1 DEF AdapterActionNames, AdapterReads, APPEND_JOURNAL_TOOL, AppendJournalSchema
  <2>3. FieldsOf(p) \ Kept \subseteq HandedOn[a]
    BY <1>2, <1>3, <2>1 DEF APPEND_JOURNAL_TOOL, Kept, HandedOnOfNotes, HandedOnOfChanges
  <2> QED BY <2>2, <2>3
<1>18. CASE input.tool = "remnote_read_table"
  <2>1. a = "read_table" /\ p = READ_TABLE_TOOL /\ s = ReadTableSchema
    BY <1>18, NoteActions DEF Published, Schemas
  <2>2. /\ a \in AdapterActionNames
        /\ s.required \subseteq p.required /\ FieldsOf(p) \subseteq FieldsOf(s)
    BY <2>1 DEF AdapterActionNames, AdapterReads, READ_TABLE_TOOL, ReadTableSchema
  <2>3. FieldsOf(p) \ Kept \subseteq HandedOn[a]
    BY <1>2, <1>3, <2>1 DEF READ_TABLE_TOOL, Kept, HandedOnOfNotes, HandedOnOfChanges
  <2> QED BY <2>2, <2>3
<1> QED BY ToolNames, <1>4, <1>5, <1>6, <1>7, <1>8, <1>9, <1>10, <1>11, <1>12, <1>13, <1>14,
           <1>15, <1>16, <1>17, <1>18

\* A command sends what its tool's schema asks for and nothing the schema does not
\* take.
LEMMA CommandTable ==
    ASSUME NEW command \in DOMAIN Commands, BRIDGE_ACTION_TO_TOOL[command] \in NoteTools
    PROVE  LET s == Schemas[BRIDGE_ACTION_TO_TOOL[command]] IN
           /\ s.required \subseteq Commands[command].required
           /\ FieldsOf(Commands[command]) \subseteq FieldsOf(s)
<1> DEFINE s == Schemas[BRIDGE_ACTION_TO_TOOL[command]]
           d == Commands[command]
<1> USE DEF Takes, Parses, FieldsOf, ContentOptions, SearchOptions, SearchContentShape
<1>1. command \in {"create_note", "search", "search_by_tag", "read_note", "get_media",
                   "list_children", "move_note", "update_note", "set_document_status",
                   "insert_children", "replace_children", "update_tags", "set_property",
                   "append_journal", "read_table"}
  BY ToolNames DEF Commands, BRIDGE_ACTION_TO_TOOL
<1>2. CASE command = "create_note"
  <2>1. d = CreateCommand /\ s = CreateNoteSchema
    BY <1>2 DEF Commands, Schemas, BRIDGE_ACTION_TO_TOOL
  <2> QED BY <2>1 DEF CreateCommand, CreateNoteSchema
<1>3. CASE command = "search"
  <2>1. d = SearchCommand /\ s = SearchSchema
    BY <1>3 DEF Commands, Schemas, BRIDGE_ACTION_TO_TOOL
  <2> QED BY <2>1 DEF SearchCommand, SearchSchema
<1>4. CASE command = "search_by_tag"
  <2>1. d = SearchByTagCommand /\ s = SearchByTagSchema
    BY <1>4 DEF Commands, Schemas, BRIDGE_ACTION_TO_TOOL
  <2> QED BY <2>1 DEF SearchByTagCommand, SearchByTagSchema
<1>5. CASE command = "read_note"
  <2>1. d = ReadCommand /\ s = ReadNoteSchema
    BY <1>5 DEF Commands, Schemas, BRIDGE_ACTION_TO_TOOL
  <2> QED BY <2>1 DEF ReadCommand, ReadNoteSchema
<1>6. CASE command = "get_media"
  <2>1. d = GetMediaCommand /\ s = GetMediaSchema
    BY <1>6 DEF Commands, Schemas, BRIDGE_ACTION_TO_TOOL
  <2> QED BY <2>1 DEF GetMediaCommand, GetMediaSchema
<1>7. CASE command = "list_children"
  <2>1. d = ListChildrenCommand /\ s = ListChildrenSchema
    BY <1>7 DEF Commands, Schemas, BRIDGE_ACTION_TO_TOOL
  <2> QED BY <2>1 DEF ListChildrenCommand, ListChildrenSchema
<1>8. CASE command = "move_note"
  <2>1. d = MoveNoteCommand /\ s = MoveNoteSchema
    BY <1>8 DEF Commands, Schemas, BRIDGE_ACTION_TO_TOOL
  <2> QED BY <2>1 DEF MoveNoteCommand, MoveNoteSchema
<1>9. CASE command = "update_note"
  <2>1. d = UpdateCommand /\ s = UpdateNoteSchema
    BY <1>9 DEF Commands, Schemas, BRIDGE_ACTION_TO_TOOL
  <2> QED BY <2>1 DEF UpdateCommand, UpdateNoteSchema
<1>10. CASE command = "set_document_status"
  <2>1. d = SetDocumentStatusCommand /\ s = SetDocumentStatusSchema
    BY <1>10 DEF Commands, Schemas, BRIDGE_ACTION_TO_TOOL
  <2> QED BY <2>1 DEF SetDocumentStatusCommand, SetDocumentStatusSchema
<1>11. CASE command = "insert_children"
  <2>1. d = InsertChildrenCommand /\ s = InsertChildrenSchema
    BY <1>11 DEF Commands, Schemas, BRIDGE_ACTION_TO_TOOL
  <2> QED BY <2>1 DEF InsertChildrenCommand, InsertChildrenSchema
<1>12. CASE command = "replace_children"
  <2>1. d = ReplaceChildrenCommand /\ s = ReplaceChildrenSchema
    BY <1>12 DEF Commands, Schemas, BRIDGE_ACTION_TO_TOOL
  <2> QED BY <2>1 DEF ReplaceChildrenCommand, ReplaceChildrenSchema
<1>13. CASE command = "update_tags"
  <2>1. d = UpdateTagsCommand /\ s = UpdateTagsSchema
    BY <1>13 DEF Commands, Schemas, BRIDGE_ACTION_TO_TOOL
  <2> QED BY <2>1 DEF UpdateTagsCommand, UpdateTagsSchema
<1>14. CASE command = "set_property"
  <2>1. d = SetPropertyCommand /\ s = SetPropertySchema
    BY <1>14 DEF Commands, Schemas, BRIDGE_ACTION_TO_TOOL
  <2> QED BY <2>1 DEF SetPropertyCommand, SetPropertySchema
<1>15. CASE command = "append_journal"
  <2>1. d = JournalCommand /\ s = AppendJournalSchema
    BY <1>15 DEF Commands, Schemas, BRIDGE_ACTION_TO_TOOL
  <2> QED BY <2>1 DEF JournalCommand, AppendJournalSchema
<1>16. CASE command = "read_table"
  <2>1. d = ReadTableCommand /\ s = ReadTableSchema
    BY <1>16 DEF Commands, Schemas, BRIDGE_ACTION_TO_TOOL
  <2> QED BY <2>1 DEF ReadTableCommand, ReadTableSchema
<1> QED BY <1>1, <1>2, <1>3, <1>4, <1>5, <1>6, <1>7, <1>8, <1>9, <1>10, <1>11, <1>12, <1>13,
           <1>14, <1>15, <1>16

\* The operations of each group are among those the plugin carries out.
LEMMA OperationTable ==
    /\ EDITOR_READ_OPERATIONS \subseteq DOMAIN EditorRead
    /\ EDITOR_WRITE_OPERATIONS \subseteq DOMAIN EditorWrite
    /\ EDITOR_DELETE_OPERATIONS \subseteq DOMAIN EditorDelete
    /\ WINDOW_READ_OPERATIONS \subseteq DOMAIN WindowRead
    /\ WINDOW_WRITE_OPERATIONS \subseteq DOMAIN WindowWrite
    /\ QUEUE_READ_OPERATIONS \subseteq DOMAIN QueueRead
    /\ QUEUE_WRITE_OPERATIONS \subseteq DOMAIN QueueWrite
    /\ CARD_READ_OPERATIONS \subseteq DOMAIN CardRead
    /\ REM_READ_OPERATIONS \subseteq DOMAIN Merge(RemFind, RemRead)
    /\ REM_WRITE_OPERATIONS \subseteq DOMAIN Merge(RemCreate, RemChange)
    /\ REM_DELETE_OPERATIONS \subseteq DOMAIN RemDelete
    /\ RICH_TEXT_OPERATIONS \subseteq DOMAIN RichTextRead
    /\ {"current", "is_primary"} \subseteq DOMAIN KbRead
    /\ {"today", "date"} \subseteq DOMAIN DailyDocument
    /\ {"add_highlight"} \subseteq DOMAIN ReaderWrite
<1>1. EDITOR_READ_OPERATIONS \subseteq DOMAIN EditorRead
  BY DEF EDITOR_READ_OPERATIONS, EditorRead, Same
<1>2. EDITOR_WRITE_OPERATIONS \subseteq DOMAIN EditorWrite
  BY DEF EDITOR_WRITE_OPERATIONS, EditorWrite
<1>3. EDITOR_DELETE_OPERATIONS \subseteq DOMAIN EditorDelete
  BY DEF EDITOR_DELETE_OPERATIONS, EditorDelete
<1>4. WINDOW_READ_OPERATIONS \subseteq DOMAIN WindowRead
  BY DEF WINDOW_READ_OPERATIONS, WindowRead, Same
<1>5. WINDOW_WRITE_OPERATIONS \subseteq DOMAIN WindowWrite
  BY DEF WINDOW_WRITE_OPERATIONS, WindowWrite
<1>6. QUEUE_READ_OPERATIONS \subseteq DOMAIN QueueRead
  BY DEF QUEUE_READ_OPERATIONS, QueueRead, Same
<1>7. QUEUE_WRITE_OPERATIONS \subseteq DOMAIN QueueWrite
  BY DEF QUEUE_WRITE_OPERATIONS, QueueWrite
<1>8. CARD_READ_OPERATIONS \subseteq DOMAIN CardRead
  BY DEF CARD_READ_OPERATIONS, CardRead
<1>9. REM_READ_OPERATIONS \subseteq DOMAIN Merge(RemFind, RemRead)
  BY DEF REM_READ_OPERATIONS, RemFind, RemRead, Merge, Same
<1>10. REM_WRITE_OPERATIONS \subseteq DOMAIN Merge(RemCreate, RemChange)
  BY DEF REM_WRITE_OPERATIONS, RemCreate, RemChange, Merge, Same
<1>11. REM_DELETE_OPERATIONS \subseteq DOMAIN RemDelete
  BY DEF REM_DELETE_OPERATIONS, RemDelete
<1>12. RICH_TEXT_OPERATIONS \subseteq DOMAIN RichTextRead
  BY DEF RICH_TEXT_OPERATIONS, RichTextRead, Merge, Same
<1>13. /\ {"current", "is_primary"} \subseteq DOMAIN KbRead
       /\ {"today", "date"} \subseteq DOMAIN DailyDocument
       /\ {"add_highlight"} \subseteq DOMAIN ReaderWrite
  BY DEF KbRead, DailyDocument, ReaderWrite, Same
<1> QED BY <1>1, <1>2, <1>3, <1>4, <1>5, <1>6, <1>7, <1>8, <1>9, <1>10, <1>11, <1>12, <1>13

LEMMA GroupFields ==
    ASSUME NEW ops, NEW a
    PROVE  Group(ops, a).operations = ops /\ Group(ops, a).action = a
  BY DEF Group

CarriesOut(g) == g.action \in SdkActionNames /\ \A op \in g.operations : Supports(g.action, op)

\* The plugin carries out every operation of every group of a tool.
LEMMA GroupsTable ==
    ASSUME NEW tool \in AgentTools
    PROVE  /\ DOMAIN Groups[tool] \subseteq {1, 2, 3}
           /\ \A i \in DOMAIN Groups[tool] : CarriesOut(Groups[tool][i])
<1>1. /\ CarriesOut(Group(EDITOR_READ_OPERATIONS, "editor_read"))
      /\ CarriesOut(Group(EDITOR_WRITE_OPERATIONS, "editor_write"))
      /\ CarriesOut(Group(EDITOR_DELETE_OPERATIONS, "editor_delete"))
  BY OperationTable, GroupFields DEF CarriesOut, SdkActionNames, Supports, SDK_AGENT_ACTIONS
<1>2. /\ CarriesOut(Group(WINDOW_READ_OPERATIONS, "window_read"))
      /\ CarriesOut(Group(WINDOW_WRITE_OPERATIONS, "window_write"))
      /\ CarriesOut(Group(QUEUE_READ_OPERATIONS, "queue_read"))
      /\ CarriesOut(Group(QUEUE_WRITE_OPERATIONS, "queue_write"))
  BY OperationTable, GroupFields DEF CarriesOut, SdkActionNames, Supports, SDK_AGENT_ACTIONS
<1>3. /\ CarriesOut(Group(CARD_READ_OPERATIONS, "card_read"))
      /\ CarriesOut(Group({"update_repetition"}, "card_write"))
      /\ CarriesOut(Group({"remove"}, "card_delete"))
  BY OperationTable, GroupFields DEF CarriesOut, SdkActionNames, Supports, SDK_AGENT_ACTIONS
<1>4. /\ CarriesOut(Group(REM_READ_OPERATIONS, "rem_read"))
      /\ CarriesOut(Group(REM_WRITE_OPERATIONS, "rem_write"))
      /\ CarriesOut(Group(REM_DELETE_OPERATIONS, "rem_delete"))
  BY OperationTable, GroupFields DEF CarriesOut, SdkActionNames, Supports, SDK_AGENT_ACTIONS
<1>5. /\ CarriesOut(Group(RICH_TEXT_OPERATIONS, "rich_text_read"))
      /\ CarriesOut(Group({"current", "is_primary"}, "kb_read"))
      /\ CarriesOut(Group({"today", "date"}, "daily_document_write"))
      /\ CarriesOut(Group({"add_highlight"}, "reader_write"))
  BY OperationTable, GroupFields DEF CarriesOut, SdkActionNames, Supports, SDK_AGENT_ACTIONS
<1>6. CASE tool = "remnote_editor"
  BY <1>1, <1>6 DEF Groups
<1>7. CASE tool = "remnote_window"
  BY <1>2, <1>7 DEF Groups
<1>8. CASE tool = "remnote_queue"
  BY <1>2, <1>8 DEF Groups
<1>9. CASE tool = "remnote_card"
  BY <1>3, <1>9 DEF Groups
<1>10. CASE tool = "remnote_rem"
  BY <1>4, <1>10 DEF Groups
<1>11. CASE tool \in {"remnote_rich_text", "remnote_knowledge_base",
                      "remnote_daily_document", "remnote_reader"}
  BY <1>5, <1>11 DEF Groups
<1> QED BY ToolNames, <1>6, <1>7, <1>8, <1>9, <1>10, <1>11

\* No operation a tool offers is unknown to the server or the plugin.
LEMMA OfferedIsSupported ==
    ASSUME NEW tool \in AgentTools, NEW op \in Offered(tool)
    PROVE  /\ OperationAction(tool, op) \in SdkActionNames
           /\ Supports(OperationAction(tool, op), op)
<1> DEFINE found == {i \in DOMAIN Groups[tool] : op \in Groups[tool][i].operations}
           first == CHOOSE i \in found : \A j \in found : i <= j
<1>1. found # {} /\ found \subseteq {1, 2, 3}
  BY GroupsTable DEF Offered
<1>2. \E i \in found : \A j \in found : i <= j
  <2> HIDE DEF found
  <2>1. CASE 1 \in found
    BY <1>1, <2>1
  <2>2. CASE 1 \notin found /\ 2 \in found
    BY <1>1, <2>2
  <2>3. CASE 1 \notin found /\ 2 \notin found
    <3>1. found = {3}
      BY <1>1, <2>3
    <3> QED BY <3>1
  <2> QED BY <2>1, <2>2, <2>3
<1>3. first \in found
  <2> HIDE DEF found
  <2> QED BY <1>2
<1>4. OperationAction(tool, op) = Groups[tool][first].action
  BY <1>1 DEF OperationAction
<1>5. CarriesOut(Groups[tool][first]) /\ op \in Groups[tool][first].operations
  <2> HIDE DEF first
  <2> QED BY <1>3, GroupsTable
<1> QED BY <1>4, <1>5 DEF CarriesOut

\* The outcomes OfferedIsTaken allows.
Fair(input, outcome) ==
    input.from \in {"agent", "cli"} =>
        /\ outcome # "unsupported operation"
        /\ input.tool \in NoteTools /\ WellFormed(input) => outcome # "invalid arguments"

\* Wherever a call has come, the arguments its tool published are still there.
Whole(input, args) ==
    input.tool \in NoteTools =>
        (input.given \cap FieldsOf(Published[input.tool])) \ Kept \subseteq args

Offer(r) ==
    r.at # "idle" => Fair(r.input, r.outcome) /\ (r.action # None => Whole(r.input, r.args))

OfferInv ==
    /\ \A c \in Calls : Offer(calls[c])
    /\ \A i \in 1..Len(cache) : Fair(calls[cache[i].call].input, cache[i].outcome)

LEMMA ActionKnown ==
    ASSUME AskedAsOffered, NEW input \in Inputs, input.from \in {"agent", "cli"},
           input.tool \notin LocalTools
    PROVE  LET a == ActionOf(input) IN
           /\ a \in BridgeActions /\ a # "unsupported"
           /\ Fair(input, Refusal(input, a))
<1> DEFINE a == ActionOf(input)
<1>1. CASE input.tool \in NoteTools
  <2>1. a \in AdapterActionNames
    BY <1>1, NoteTable
  <2>2. a \in BridgeActions /\ a # "unsupported" /\ ~IsSdkAgentAction(a)
    BY <2>1, ActionNames DEF AdapterActionNames, AdapterReads, SdkActionNames, IsSdkAgentAction
  <2>3. Refusal(input, a) \in {"failed", "none"}
    BY <2>2 DEF Refusal
  <2> QED BY <2>2, <2>3 DEF Fair
<1>2. CASE input.tool \in AgentTools
  <2>1. a = OperationAction(input.tool, input.op)
    BY <1>2, ToolNames DEF ActionOf, StatusTools
  <2>2. a \in SdkActionNames /\ Supports(a, input.op)
    BY <1>2, <2>1, OfferedIsSupported DEF AskedAsOffered
  <2>3. a \in BridgeActions /\ a # "unsupported"
    BY <2>2, ActionNames DEF SdkActionNames
  <2>4. Refusal(input, a) \in {"invalid arguments", "none"}
    BY <2>2, ActionNames DEF Refusal, IsSdkAgentAction
  <2>5. input.tool \notin NoteTools
    BY <1>2, ToolNames
  <2> QED BY <2>3, <2>4, <2>5 DEF Fair
<1>3. CASE input.tool \in StatusTools
  <2>1. a = "get_status"
    BY <1>3, ToolNames DEF ActionOf, StatusTools
  <2>2. a \in BridgeActions /\ a # "unsupported" /\ ~IsSdkAgentAction(a)
    BY <2>1, ActionNames DEF AdapterActionNames, AdapterReads, SdkActionNames, IsSdkAgentAction
  <2>3. Refusal(input, a) \in {"failed", "none"}
    BY <2>2 DEF Refusal
  <2> QED BY <2>2, <2>3 DEF Fair
<1> QED BY <1>1, <1>2, <1>3 DEF AskedAsOffered

\* The schema accepts what a tool's published schema, or a command, allows.
LEMMA OfferedParses ==
    ASSUME AskedAsOffered, NEW input \in Inputs, input.from \in {"agent", "cli"},
           input.tool \in NoteTools, WellFormed(input)
    PROVE  ArgumentsParse(input)
<1> DEFINE s == Schemas[input.tool]
           p == Published[input.tool]
<1>1. s.required \subseteq input.given /\ input.given \subseteq FieldsOf(s)
  <2>1. CASE input.from = "agent"
    <3>1. p.required \subseteq input.given /\ input.given \subseteq FieldsOf(p)
      BY <2>1 DEF WellFormed
    <3> QED BY <3>1, NoteTable
  <2>2. CASE input.from = "cli"
    <3>1. PICK command \in DOMAIN Commands :
             /\ input.tool = BRIDGE_ACTION_TO_TOOL[command]
             /\ Commands[command].required \subseteq input.given
             /\ input.given \subseteq FieldsOf(Commands[command])
      BY <2>2 DEF AskedAsOffered
    <3>2. /\ s.required \subseteq Commands[command].required
          /\ FieldsOf(Commands[command]) \subseteq FieldsOf(s)
      BY <3>1, CommandTable
    <3> QED BY <3>1, <3>2
  <2> QED BY <2>1, <2>2
<1>2. input.wrong \notin FieldsOf(s)
  BY DEF WellFormed, AskedAsOffered
<1>3. Refined(input.tool, input.given, input.twist)
  BY DEF WellFormed
<1> QED BY <1>1, <1>2, <1>3 DEF ArgumentsParse, SchemaAccepts

\* The payload of a request has every published argument, and so has what the
\* plugin's handler hands on of it.
LEMMA WholeKept ==
    ASSUME NEW input
    PROVE  /\ Whole(input, Payload(input))
           /\ \A args : Whole(input, args) /\ ActionOf(input) \notin SdkActionNames =>
                 Whole(input, args \cap HandedOn[ActionOf(input)])
<1>1. CASE input.tool \in NoteTools
  <2>1. /\ FieldsOf(Published[input.tool]) \subseteq FieldsOf(Schemas[input.tool])
        /\ FieldsOf(Published[input.tool]) \ Kept \subseteq HandedOn[ActionOf(input)]
    BY <1>1, NoteTable
  <2>2. Payload(input) = ((input.given \cap FieldsOf(Schemas[input.tool]))
                            \cup Schemas[input.tool].filled) \ Kept
    BY <1>1 DEF Payload, Parsed, Kept
  <2> QED BY <2>1, <2>2 DEF Whole
<1>2. CASE input.tool \notin NoteTools
  BY <1>2 DEF Whole
<1> QED BY <1>1, <1>2

LEMMA ReachingKeeps ==
    ASSUME NEW input, NEW args, Whole(input, args)
    PROVE  Whole(input, Reaching(ActionOf(input), args))
<1>1. CASE IsSdkAgentAction(ActionOf(input))
  BY <1>1 DEF Reaching
<1>2. CASE ~IsSdkAgentAction(ActionOf(input))
  BY <1>2, WholeKept, ActionNames DEF Reaching, IsSdkAgentAction
<1> QED BY <1>1, <1>2

LEMMA CachedEntries ==
    ASSUME NEW s \in Seq(Lists), NEW e \in Lists, NEW t,
           LET longer == Append(s, e)
           IN  t = IF Len(longer) > CacheSize THEN Tail(longer) ELSE longer
    PROVE  \A i \in 1..Len(t) : t[i] = e \/ \E j \in 1..Len(s) : t[i] = s[j]
<1> DEFINE longer == Append(s, e)
<1>1. /\ longer \in Seq(Lists) /\ Len(longer) = Len(s) + 1 /\ Len(s) \in Nat
      /\ longer[Len(s) + 1] = e
      /\ \A i \in 1..Len(s) : longer[i] = s[i]
  OBVIOUS
<1>2. t = Tail(longer) \/ t = longer
  OBVIOUS
<1> HIDE DEF longer
<1>3. \A i \in 1..Len(longer) : longer[i] = e \/ \E j \in 1..Len(s) : longer[i] = s[j]
  BY <1>1
<1>4. CASE t = Tail(longer)
  <2>1. longer # <<>>
    BY <1>1
  <2>2. Len(t) = Len(s) /\ \A i \in 1..Len(s) : t[i] = longer[i + 1]
    BY <1>1, <1>4, <2>1
  <2>3. \A i \in 1..Len(s) : i + 1 \in 1..Len(longer)
    BY <1>1
  <2> QED BY <1>3, <2>2, <2>3
<1> QED BY <1>2, <1>3, <1>4

\* A step keeps the invariant when it keeps it of each call and answers fairly what
\* it adds to the cache.
LEMMA OfferStep ==
    ASSUME CallsInv, OfferInv,
           \A d \in Calls : /\ Offer(calls'[d])
                            /\ calls[d].at # "idle" => calls'[d].input = calls[d].input,
           \/ cache' = cache
           \/ \E d \in Calls, o \in Outcomes \ {"none"} :
                 cache' = Cached(d, o) /\ Fair(calls'[d].input, o)
    PROVE  OfferInv'
<1>1. /\ cache \in Seq(Lists)
      /\ \A i \in 1..Len(cache) : cache[i].call \in Calls /\ calls[cache[i].call].at # "idle"
  BY DEF CallsInv, CacheInv, CacheTypes, Requests, IsRequest, CallInv, CallOk, Asked
<1>2. \A i \in 1..Len(cache) : Fair(calls'[cache[i].call].input, cache[i].outcome)
  BY <1>1 DEF OfferInv
<1>3. \A i \in 1..Len(cache') : Fair(calls'[cache'[i].call].input, cache'[i].outcome)
  <2>1. CASE cache' = cache
    BY <1>2, <2>1
  <2>2. ASSUME NEW d \in Calls, NEW o \in Outcomes \ {"none"},
               cache' = Cached(d, o), Fair(calls'[d].input, o)
        PROVE  \A i \in 1..Len(cache') : Fair(calls'[cache'[i].call].input, cache'[i].outcome)
    <3> DEFINE e == [call |-> d, outcome |-> o]
    <3>1. e \in Lists /\ e.call = d /\ e.outcome = o
      BY DEF Lists
    <3>2. \A i \in 1..Len(cache') : cache'[i] = e \/ \E j \in 1..Len(cache) : cache'[i] = cache[j]
      <4> HIDE DEF e
      <4>1. LET longer == Append(cache, e)
            IN  cache' = IF Len(longer) > CacheSize THEN Tail(longer) ELSE longer
        BY <2>2 DEF Cached, e
      <4> QED BY <1>1, <3>1, <4>1, CachedEntries
    <3> HIDE DEF e
    <3> QED BY <1>2, <2>2, <3>1, <3>2
  <2> QED BY <2>1, <2>2
<1> QED BY <1>3 DEF OfferInv

\* The same, of a step that leaves one call as the record r.
LEMMA OneOffer ==
    ASSUME CallsInv, OfferInv, NEW c \in Calls, NEW r, calls' = [calls EXCEPT ![c] = r], Offer(r),
           calls[c].at # "idle" => r.input = calls[c].input,
           \/ cache' = cache
           \/ \E o \in Outcomes \ {"none"} : cache' = Cached(c, o) /\ Fair(r.input, o)
    PROVE  OfferInv'
<1>1. DOMAIN calls = Calls
  BY DEF CallsInv, CallInv
<1>2. calls'[c] = r /\ \A d \in Calls \ {c} : calls'[d] = calls[d]
  BY <1>1
<1>3. \A d \in Calls : /\ Offer(calls'[d])
                       /\ calls[d].at # "idle" => calls'[d].input = calls[d].input
  BY <1>2 DEF OfferInv
<1> QED BY <1>2, <1>3, OfferStep

\* A call that was made, and is still what it was when it was asked for.
LEMMA OfferFacts ==
    ASSUME CallsInv, OfferInv, NEW c \in Calls, calls[c].at # "idle"
    PROVE  /\ calls[c].input \in Inputs /\ calls[c].outcome \in Outcomes
           /\ DOMAIN calls[c] = {"input", "action", "args", "at", "outcome", "writable", "late"}
           /\ Fair(calls[c].input, calls[c].outcome)
           /\ calls[c].action # None => Whole(calls[c].input, calls[c].args)
           /\ calls[c].action # None /\ calls[c].input.from # "devtools" =>
                 /\ calls[c].input.from \in {"agent", "cli"}
                 /\ calls[c].action = ActionOf(calls[c].input)
                 /\ calls[c].input.tool \notin LocalTools
           /\ calls[c].at \in {"sent", "running", "changed"} => calls[c].action # None
           /\ calls[c].at = "sent" => calls[c].input.from # "devtools"
<1>1. IsCall(calls[c]) /\ Asked(calls[c]) /\ Offer(calls[c])
  BY CallFacts DEF OfferInv
<1> QED BY <1>1 DEF IsCall, Asked, Offer

LEMMA CallToolOffers ==
    ASSUME AskedAsOffered, CallsInv, OfferInv, NEW c \in Calls, NEW input \in Askable(c),
           CallTool(c, input)
    PROVE  OfferInv'
<1>1. /\ calls[c] = Idle /\ input \in Inputs
      /\ input.from \in {"agent", "cli"} /\ cache' = cache
      /\ Idle.at = "idle" /\ Idle.outcome = "none" /\ Idle.action = None
      /\ DOMAIN Idle = {"input", "action", "args", "at", "outcome", "writable", "late"}
  BY AskedOnce DEF CallTool, Idle
<1>2. ASSUME NEW o, Ended(c, input, None, o), Fair(input, o) PROVE OfferInv'
  <2> DEFINE r == [Idle EXCEPT !.input = input, !.action = None, !.at = "ended", !.outcome = o]
  <2>1. calls' = [calls EXCEPT ![c] = r]
    BY <1>1, <1>2 DEF Ended
  <2>2. r.input = input /\ r.action = None /\ r.outcome = o
    BY <1>1
  <2>3. Offer(r)
    <3> HIDE DEF r
    <3> QED BY <1>2, <2>2 DEF Offer
  <2> HIDE DEF r
  <2> QED BY <1>1, <2>1, <2>3, OneOffer
<1>3. \A o \in {"done", "no bridge", "no capability"} : Fair(input, o)
  BY DEF Fair
<1>4. CASE input.tool \in LocalTools \/ (input.tool \in StatusTools /\ ~linked)
  BY <1>2, <1>3, <1>4 DEF CallTool
<1>5. CASE ~(input.tool \in LocalTools \/ (input.tool \in StatusTools /\ ~linked))
           /\ ~ArgumentsParse(input)
  <2>1. Fair(input, "invalid arguments")
    BY <1>1, <1>5, OfferedParses DEF Fair
  <2> QED BY <1>2, <1>5, <2>1 DEF CallTool
<1>6. CASE ~(input.tool \in LocalTools \/ (input.tool \in StatusTools /\ ~linked))
           /\ ArgumentsParse(input)
  <2>1. ActionOf(input) \in BridgeActions /\ ActionOf(input) # "unsupported"
    BY <1>1, <1>6, ActionKnown
  <2>2. SendRequest(c, input, ActionOf(input))
    BY <1>6, <2>1 DEF CallTool
  <2>3. CASE Ended(c, input, None, "no bridge") \/ Ended(c, input, None, "no capability")
    BY <1>2, <1>3, <2>3
  <2>4. CASE ~(Ended(c, input, None, "no bridge") \/ Ended(c, input, None, "no capability"))
    <3> DEFINE r == [Idle EXCEPT !.input = input, !.action = ActionOf(input),
                                 !.args = Payload(input), !.at = "sent"]
    <3>1. calls' = [calls EXCEPT ![c] = r]
      BY <1>1, <2>1, <2>2, <2>4 DEF SendRequest
    <3>2. r.input = input /\ r.args = Payload(input) /\ r.outcome = "none"
      BY <1>1
    <3>3. Offer(r)
      <4> HIDE DEF r
      <4>1. Fair(input, "none")
        BY DEF Fair
      <4> QED BY <3>2, <4>1, WholeKept DEF Offer
    <3> HIDE DEF r
    <3> QED BY <1>1, <3>1, <3>3, OneOffer
  <2> QED BY <2>3, <2>4
<1> QED BY <1>4, <1>5, <1>6

LEMMA DevToolsOffers ==
    ASSUME CallsInv, OfferInv, NEW c \in Calls, NEW input \in Askable(c),
           DevToolsExecute(c, input)
    PROVE  OfferInv'
<1> DEFINE refusal == Refusal(input, input.tool)
           r == [Idle EXCEPT !.input = input, !.action = input.tool,
                       !.args = Reaching(input.tool, input.given),
                       !.writable = settings.write,
                       !.at = IF refusal = "none" THEN "running" ELSE "ended",
                       !.outcome = IF refusal = "none" THEN "none" ELSE refusal]
<1>1. /\ calls[c] = Idle /\ input.from = "devtools" /\ input.tool \in BridgeActions
      /\ cache' = cache /\ Idle.at = "idle"
      /\ DOMAIN Idle = {"input", "action", "args", "at", "outcome", "writable", "late"}
  BY AskedOnce DEF DevToolsExecute, Idle
<1>2. calls' = [calls EXCEPT ![c] = r]
  BY <1>1 DEF DevToolsExecute
<1>3. r.input = input
  BY <1>1
<1>4. input.tool \notin NoteTools
  BY <1>1, ActionNames, ToolNames DEF SdkActionNames, AdapterActionNames, AdapterReads
<1> HIDE DEF r
<1>5. Offer(r)
  BY <1>1, <1>3, <1>4 DEF Offer, Fair, Whole
<1> QED BY <1>1, <1>2, <1>5, OneOffer

\* A call that loses its connection is answered fairly and keeps the rest.
LEMMA LostOffers ==
    ASSUME CallsInv, OfferInv, NEW d \in Calls
    PROVE  Offer(WithLost[d]) /\ WithLost[d].input = calls[d].input
<1> DEFINE k == calls[d]
           r == WithLost[d]
<1>1. /\ DOMAIN k = {"input", "action", "args", "at", "outcome", "writable", "late"}
      /\ Offer(k)
  BY CallFacts DEF IsCall, OfferInv
<1>2. \/ k.at = "sent" /\ r = [k EXCEPT !.at = "ended", !.outcome = "connection lost"]
      \/ k.at \in {"running", "changed"} /\ r = [k EXCEPT !.outcome = "connection lost"]
      \/ r = k
  BY DEF WithLost
<1> HIDE DEF k, r
<1>3. CASE r = k
  BY <1>1, <1>3 DEF k, r
<1>4. CASE r # k
  <2>1. /\ r.input = k.input /\ r.action = k.action /\ r.args = k.args
        /\ r.outcome = "connection lost" /\ k.at # "idle"
    BY <1>1, <1>2, <1>4
  <2>2. Fair(k.input, "connection lost")
    BY DEF Fair
  <2> QED BY <1>1, <2>1, <2>2 DEF Offer, k, r
<1> QED BY <1>3, <1>4

LEMMA ResetPairingOffers ==
    ASSUME CallsInv, OfferInv, NEW c \in Calls, NEW input \in Askable(c), ResetPairing(c, input)
    PROVE  OfferInv'
<1> DEFINE r == [WithLost[c] EXCEPT !.input = input, !.at = "ended", !.outcome = "done"]
<1>1. /\ calls[c] = Idle /\ cache' = cache /\ DOMAIN WithLost = Calls
      /\ WithLost[c] = Idle /\ Idle.at = "idle" /\ Idle.action = None
      /\ DOMAIN Idle = {"input", "action", "args", "at", "outcome", "writable", "late"}
  <2>1. calls[c] = Idle /\ cache' = cache
    BY AskedOnce DEF ResetPairing
  <2>2. /\ Idle.at = "idle" /\ Idle.action = None
        /\ DOMAIN Idle = {"input", "action", "args", "at", "outcome", "writable", "late"}
    BY DEF Idle
  <2>3. DOMAIN WithLost = Calls /\ WithLost[c] = Idle
    BY <2>1, <2>2 DEF WithLost
  <2> QED BY <2>1, <2>2, <2>3
<1>2. r.input = input /\ r.action = None /\ r.outcome = "done"
  BY <1>1
<1>3. calls' = [WithLost EXCEPT ![c] = r]
  BY DEF ResetPairing
<1> HIDE DEF r
<1>4. calls'[c] = r /\ \A d \in Calls \ {c} : calls'[d] = WithLost[d]
  BY <1>1, <1>3
<1>5. Offer(r)
  BY <1>2 DEF Offer, Fair
<1>6. \A d \in Calls : /\ Offer(calls'[d])
                       /\ calls[d].at # "idle" => calls'[d].input = calls[d].input
  BY <1>1, <1>4, <1>5, LostOffers
<1> QED BY <1>1, <1>6, OfferStep

LEMMA ConnectionLostOffers ==
    ASSUME CallsInv, OfferInv, ConnectionLost
    PROVE  OfferInv'
<1>1. calls' = WithLost /\ cache' = cache
  BY DEF ConnectionLost
<1>2. \A d \in Calls : /\ Offer(calls'[d])
                       /\ calls[d].at # "idle" => calls'[d].input = calls[d].input
  BY <1>1, LostOffers
<1> QED BY <1>1, <1>2, OfferStep

\* A step of a call that answers it or goes on with it.
LEMMA GoesOnOffers ==
    ASSUME CallsInv, OfferInv, NEW c \in Calls, calls[c].at # "idle", NEW r,
           calls' = [calls EXCEPT ![c] = r],
           r.input = calls[c].input, r.action = calls[c].action,
           r.args = calls[c].args \/ r.args = Reaching(calls[c].action, calls[c].args),
           calls[c].at = "sent" \/ r.args = calls[c].args,
           Fair(r.input, r.outcome),
           \/ cache' = cache
           \/ \E o \in Outcomes \ {"none"} : cache' = Cached(c, o) /\ Fair(r.input, o)
    PROVE  OfferInv'
<1>1. ASSUME r.action # None PROVE Whole(r.input, r.args)
  <2>1. Whole(calls[c].input, calls[c].args)
    BY <1>1, OfferFacts
  <2>2. CASE r.args = calls[c].args
    BY <2>1, <2>2
  <2>3. CASE calls[c].at = "sent" /\ r.args = Reaching(calls[c].action, calls[c].args)
    <3>1. calls[c].action = ActionOf(calls[c].input)
      BY <2>3, OfferFacts
    <3> QED BY <2>1, <2>3, <3>1, ReachingKeeps
  <2> QED BY <2>2, <2>3
<1>2. Offer(r)
  BY <1>1 DEF Offer
<1> QED BY <1>2, OneOffer

LEMMA BridgeReceivesOffers ==
    ASSUME AskedAsOffered, CallsInv, OfferInv, NEW c \in Calls, BridgeReceives(c)
    PROVE  OfferInv'
<1> DEFINE k == calls[c]
           refusal == IF ~linked THEN "not authenticated" ELSE Refusal(k.input, k.action)
           kept == CachedOutcome(c)
           found == [k EXCEPT !.at = "ended", !.outcome = Answer(c, kept)]
           refused == [k EXCEPT !.at = "ended", !.outcome = Answer(c, refusal)]
           runs == [k EXCEPT !.at = "running", !.writable = settings.write,
                             !.args = Reaching(k.action, k.args)]
<1>1. k.at = "sent"
  BY DEF BridgeReceives
<1>2. /\ k.input \in Inputs /\ k.action # None /\ k.input.from \in {"agent", "cli"}
      /\ k.action = ActionOf(k.input) /\ k.input.tool \notin LocalTools
      /\ Fair(k.input, k.outcome)
      /\ DOMAIN k = {"input", "action", "args", "at", "outcome", "writable", "late"}
  BY <1>1, OfferFacts
<1>3. Fair(k.input, refusal)
  <2>1. Fair(k.input, Refusal(k.input, k.action))
    BY <1>2, ActionKnown
  <2>2. Fair(k.input, "not authenticated")
    BY DEF Fair
  <2> QED BY <2>1, <2>2
<1>4. \A o : Answer(c, o) = o \/ Answer(c, o) = k.outcome
  BY DEF Answer
<1>5. CASE IsCached(c)
  <2>1. Fair(k.input, kept)
    <3>1. DOMAIN cache = 1..Len(cache)
      BY DEF CallsInv, CacheInv, CacheTypes
    <3>2. PICK i \in DOMAIN cache : cache[i].call = c /\ kept = cache[i].outcome
      BY <1>5 DEF IsCached, CachedOutcome
    <3> QED BY <3>1, <3>2 DEF OfferInv
  <2>2. calls' = [calls EXCEPT ![c] = found] /\ cache' = cache
    BY <1>5 DEF BridgeReceives
  <2>3. /\ found.input = k.input /\ found.action = k.action /\ found.args = k.args
        /\ found.outcome = Answer(c, kept)
    BY <1>2
  <2>4. Fair(found.input, found.outcome)
    BY <1>2, <1>4, <2>1, <2>3
  <2> HIDE DEF found
  <2> QED BY <1>1, <2>2, <2>3, <2>4, GoesOnOffers
<1>6. CASE ~IsCached(c) /\ refusal # "none"
  <2>1. calls' = [calls EXCEPT ![c] = refused] /\ cache' = Cached(c, refusal)
    BY <1>6 DEF BridgeReceives
  <2>2. /\ refused.input = k.input /\ refused.action = k.action /\ refused.args = k.args
        /\ refused.outcome = Answer(c, refusal)
    BY <1>2
  <2>3. Fair(refused.input, refused.outcome)
    BY <1>2, <1>3, <1>4, <2>2
  <2>4. refusal \in Outcomes \ {"none"}
    BY <1>6 DEF Refusal, Outcomes
  <2> HIDE DEF refused, refusal
  <2> QED BY <1>1, <1>3, <2>1, <2>2, <2>3, <2>4, GoesOnOffers
<1>7. CASE ~IsCached(c) /\ refusal = "none"
  <2>1. calls' = [calls EXCEPT ![c] = runs] /\ cache' = cache
    BY <1>7 DEF BridgeReceives
  <2>2. /\ runs.input = k.input /\ runs.action = k.action
        /\ runs.args = Reaching(k.action, k.args) /\ runs.outcome = k.outcome
    BY <1>2
  <2>3. Fair(runs.input, runs.outcome)
    BY <1>2, <2>2
  <2> HIDE DEF runs
  <2> QED BY <1>1, <2>1, <2>2, <2>3, GoesOnOffers
<1> QED BY <1>5, <1>6, <1>7

LEMMA RespondOffers ==
    ASSUME CallsInv, OfferInv, NEW c \in Calls, calls[c].at \in {"running", "changed"},
           NEW o \in {"done", "failed"}, Respond(c, o)
    PROVE  OfferInv'
<1> DEFINE k == calls[c]
           r == [k EXCEPT !.at = "ended", !.outcome = Answer(c, o)]
<1>1. /\ Fair(k.input, k.outcome) /\ Fair(k.input, o)
      /\ DOMAIN k = {"input", "action", "args", "at", "outcome", "writable", "late"}
  BY OfferFacts DEF Fair
<1>2. calls' = [calls EXCEPT ![c] = r] /\ (cache' = cache \/ cache' = Cached(c, o))
  BY DEF Respond
<1>3. /\ r.input = k.input /\ r.action = k.action /\ r.args = k.args
      /\ r.outcome \in {o, k.outcome}
  BY <1>1 DEF Answer
<1>4. Fair(r.input, r.outcome) /\ Fair(r.input, o) /\ o \in Outcomes \ {"none"}
  BY <1>1, <1>3 DEF Outcomes
<1> HIDE DEF r
<1> QED BY <1>2, <1>3, <1>4, GoesOnOffers

LEMMA ActionTimesOutOffers ==
    ASSUME CallsInv, OfferInv, NEW c \in Calls, ActionTimesOut(c)
    PROVE  OfferInv'
<1> DEFINE k == calls[c]
           r == [k EXCEPT !.outcome = Answer(c, "timeout"), !.late = TRUE]
<1>1. k.at # "idle"
  BY DEF ActionTimesOut
<1>2. /\ Fair(k.input, k.outcome) /\ Fair(k.input, "timeout")
      /\ DOMAIN k = {"input", "action", "args", "at", "outcome", "writable", "late"}
  BY <1>1, OfferFacts DEF Fair
<1>3. calls' = [calls EXCEPT ![c] = r] /\ cache' = Cached(c, "timeout")
  BY DEF ActionTimesOut
<1>4. /\ r.input = k.input /\ r.action = k.action /\ r.args = k.args
      /\ r.outcome \in {"timeout", k.outcome}
  BY <1>2 DEF Answer
<1>5. Fair(r.input, r.outcome) /\ Fair(r.input, "timeout") /\ "timeout" \in Outcomes \ {"none"}
  BY <1>2, <1>4 DEF Outcomes
<1> HIDE DEF r
<1> QED BY <1>1, <1>3, <1>4, <1>5, GoesOnOffers

LEMMA RequestRepeatedOffers ==
    ASSUME CallsInv, OfferInv, NEW c \in Calls, RequestRepeated(c)
    PROVE  OfferInv'
<1> DEFINE k == calls[c]
           r == [k EXCEPT !.at = "sent", !.outcome = "none", !.late = FALSE]
<1>1. k.at # "idle"
  BY DEF RequestRepeated
<1>2. DOMAIN k = {"input", "action", "args", "at", "outcome", "writable", "late"}
  BY <1>1, OfferFacts
<1>3. calls' = [calls EXCEPT ![c] = r] /\ cache' = cache
  BY DEF RequestRepeated
<1>4. r.input = k.input /\ r.action = k.action /\ r.args = k.args /\ r.outcome = "none"
  BY <1>2
<1>5. Fair(r.input, r.outcome)
  BY <1>4 DEF Fair
<1> HIDE DEF r
<1> QED BY <1>1, <1>3, <1>4, <1>5, GoesOnOffers

LEMMA WorkOffers ==
    ASSUME CallsInv, OfferInv, NEW c \in Calls, Work(c)
    PROVE  OfferInv'
<1> DEFINE k == calls[c]
           r == [k EXCEPT !.at = "changed"]
<1>1. k.at # "idle"
  BY DEF Work
<1>2. /\ Fair(k.input, k.outcome)
      /\ DOMAIN k = {"input", "action", "args", "at", "outcome", "writable", "late"}
  BY <1>1, OfferFacts
<1>3. calls' = [calls EXCEPT ![c] = r] /\ cache' = cache
  BY DEF Work
<1>4. r.input = k.input /\ r.action = k.action /\ r.args = k.args /\ r.outcome = k.outcome
  BY <1>2
<1> HIDE DEF r
<1> QED BY <1>1, <1>2, <1>3, <1>4, GoesOnOffers

LEMMA OfferNext ==
    ASSUME AskedAsOffered, CallsInv, OfferInv, [Next]_vars
    PROVE  OfferInv'
<1>1. ASSUME NEW c \in Calls, NEW input \in Askable(c),
             CallTool(c, input) \/ ResetPairing(c, input) \/ DevToolsExecute(c, input)
      PROVE  OfferInv'
  BY <1>1, CallToolOffers, ResetPairingOffers, DevToolsOffers
<1>2. ASSUME NEW c \in Calls, HandlerReturns(c) \/ HandlerThrows(c) PROVE OfferInv'
  BY <1>2, RespondOffers DEF HandlerReturns, HandlerThrows
<1>3. ASSUME NEW c \in Calls,
             BridgeReceives(c) \/ Work(c) \/ ActionTimesOut(c) \/ RequestRepeated(c)
      PROVE  OfferInv'
  BY <1>3, BridgeReceivesOffers, WorkOffers, ActionTimesOutOffers, RequestRepeatedOffers
<1>4. CASE SettingsChange \/ Reconnected \/ UNCHANGED vars
  <2>1. calls' = calls /\ cache' = cache
    BY <1>4 DEF SettingsChange, Reconnected, vars
  <2> QED BY <2>1, OfferStep DEF OfferInv
<1>5. CASE ConnectionLost
  BY <1>5, ConnectionLostOffers
<1> QED BY <1>1, <1>2, <1>3, <1>4, <1>5 DEF Next

LEMMA OfferInit == Init => OfferInv
<1>1. Idle.at = "idle"
  BY DEF Idle
<1> QED BY <1>1 DEF Init, OfferInv, Offer

\* What is offered is taken: whichever of a tool's fields or a command's options a
\* caller gives, within the rules the tool describes, its arguments are not refused
\* and reach the adapter whole, and no operation on offer is unknown to the plugin.
THEOREM OfferedAlwaysTaken == ASSUME AskedAsOffered PROVE Spec => []OfferedIsTaken
<1>1. CallsInv /\ OfferInv => OfferedIsTaken
  <2> SUFFICES ASSUME CallsInv, OfferInv, NEW c \in Calls
               PROVE  LET input == calls[c].input IN
                      /\ calls[c].at # "idle" /\ input.from \in {"agent", "cli"} =>
                          /\ calls[c].outcome # "unsupported operation"
                          /\ input.tool \in NoteTools /\ WellFormed(input) =>
                                calls[c].outcome # "invalid arguments"
                      /\ NothingDropped(c)
    BY DEF OfferedIsTaken
  <2>1. CASE calls[c].at # "idle"
    <3>1. Fair(calls[c].input, calls[c].outcome)
      BY <2>1, OfferFacts
    <3>2. ASSUME calls[c].at \in {"running", "changed"}
          PROVE  Whole(calls[c].input, calls[c].args)
      BY <2>1, <3>2, OfferFacts
    <3> QED BY <3>1, <3>2 DEF Fair, Whole, NothingDropped, Kept
  <2>2. CASE calls[c].at = "idle"
    BY <2>2 DEF NothingDropped
  <2> QED BY <2>1, <2>2
<1>2. Init => CallsInv /\ OfferInv
  BY InitCalls, OfferInit
<1>3. CallsInv /\ OfferInv /\ [Next]_vars => CallsInv' /\ OfferInv'
  BY NextKeeps, OfferNext
<1> QED BY <1>1, <1>2, <1>3, PTL DEF Spec
=============================================================================
