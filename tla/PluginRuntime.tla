--------------------------- MODULE PluginRuntime ---------------------------
(***************************************************************************)
(* The plugin's runtime (packages/bridge/src/bridge/runtime.ts) as it is   *)
(* seen from the sidebar: the WebSocket clients it makes, their retry      *)
(* phases and timers (websocket-client.ts), the nudges that hurry a retry, *)
(* the settings the user changes and the sidebar forwards, and the         *)
(* snapshot of it all in session storage that the sidebar shows            *)
(* (widgets/runtime-ui-bridge.ts, mcp_bridge.tsx, connection-ui.ts).       *)
(*                                                                         *)
(*   - A client reports to the runtime through callbacks, and goes on      *)
(*     doing so once updateSettings has put another in its place.          *)
(*   - Every log line publishes a snapshot; of those a handler publishes   *)
(*     only the last is kept.  Session storage keeps the order of writes.  *)
(*   - How the server authenticates a bridge is module BridgeSession's     *)
(*     subject: here it accepts, or asks for a pairing code first.         *)
(*   - Delays are abstracted: timers fire and the cooldown ends any time.  *)
(***************************************************************************)
EXTENDS Naturals, Sequences

CONSTANTS
    Urls,           \* the values of the setting wsUrl
    BadUrls,        \* those that new WebSocket throws on
    Settings,       \* the settings a user may choose: URL and write switch
    FirstSettings,  \* those the plugin may start with
    MaxAttempts,    \* maxReconnectAttempts: retries before standby
    MaxClients,     \* bound on the clients the runtime makes
    Changes,        \* bound on the settings changes the user makes
    Mounts,         \* bound on how often the sidebar is opened
    Troubles,       \* bound on connections that break, codes asked for and
                    \* uses of the button Reconnect Now, together
    None            \* no settings

ASSUME PluginAssumption ==
    /\ BadUrls \subseteq Urls /\ Settings \subseteq [url : Urls, writes : BOOLEAN]
    /\ FirstSettings \subseteq Settings
    /\ {MaxAttempts, Changes, Mounts, Troubles} \subseteq Nat /\ MaxClients \in Nat \ {0}
    /\ None \notin Settings

VARIABLES
    user,       \* the settings as RemNote has them
    up,         \* the servers that listen
    life,       \* how far initializeBridgeRuntime has got
    rt,         \* the runtime: settings, and what callbacks told it
    client,     \* every WebSocketClient made
    cur,        \* this.wsClient
    cooling,    \* whether the last automatic nudge is less than 15 s ago
    noted,      \* whether a suppressed nudge was logged since
    stored,     \* the snapshot in session storage
    mounted,    \* whether the sidebar is open
    sent,       \* the settings the open sidebar last forwarded
    cmds,       \* commands on their way from the sidebar to the runtime
    pressed,    \* whether Reconnect Now was ever used
    left        \* disturbances that may still happen

uiVars == <<mounted, sent, cmds>>
vars == <<user, up, life, rt, client, cur, cooling, noted, stored, uiVars, pressed,
          left>>

Clients  == 1..MaxClients
Statuses == {"disconnected", "connecting", "connected"}
Auths    == {"disconnected", "authenticating", "pairing-required", "authenticated"}
Phases   == {"idle", "burst", "standby"}

TypeOK ==
    /\ user \in Settings /\ up \in SUBSET Urls
    /\ life \in {"reading", "read", "on", "off"}
    /\ rt \in [set : Settings, status : Statuses, phase : Phases, auth : Auths]
    /\ client \in [Clients -> [url : Urls, ws : {"none", "connecting", "open", "closed"},
                               ghosts : Nat, status : Statuses, auth : Auths,
                               phase : Phases, attempts : 0..MaxAttempts,
                               timer : {"none", "burst", "standby"}, leaked : Nat,
                               due : BOOLEAN, down : BOOLEAN]]
    /\ cur \in Clients /\ cooling \in BOOLEAN /\ noted \in BOOLEAN
    /\ stored \in [url : Urls, status : Statuses, phase : Phases, auth : Auths,
                   attempts : 0..MaxAttempts, due : BOOLEAN]
    /\ mounted \in BOOLEAN /\ sent \in Settings \cup {None}
    /\ \A i \in DOMAIN cmds :
          cmds[i].kind \in {"request_snapshot", "reconnect", "nudge", "update", "pair"}

-----------------------------------------------------------------------------
(* WebSocketClient: what its methods make of its fields *)

\* ws: this.ws; ghosts: sockets it closed whose close event is still to come;
\* timer: this.reconnectTimeout; leaked: timers whose handle was overwritten;
\* due: whether nextRetryAt is set; down: isShuttingDown.
NewClient(u) ==
    [url |-> u, ws |-> "none", ghosts |-> 0, status |-> "disconnected",
     auth |-> "disconnected", phase |-> "idle", attempts |-> 0, timer |-> "none",
     leaked |-> 0, due |-> FALSE, down |-> FALSE]

IsLive(k) == k.ws \in {"connecting", "open"}

Offline(k) == [k EXCEPT !.status = "disconnected", !.auth = "disconnected"]

\* Faulty variant: one fast retry too many.
ScheduledOnceMore(k) ==
    IF k.down THEN k ELSE
    LET next == IF k.attempts <= MaxAttempts THEN "burst" ELSE "standby"
    IN [k EXCEPT !.attempts = IF next = "burst" THEN @ + 1 ELSE @,
                 !.phase = next, !.timer = next, !.due = TRUE,
                 !.leaked = IF k.timer = "none" THEN @ ELSE @ + 1]

\* scheduleReconnect: fast retries first, then standby for good.
Scheduled(k) ==
    IF k.down THEN k ELSE
    LET fast == k.attempts < MaxAttempts
        next == IF fast THEN "burst" ELSE "standby"
    IN [k EXCEPT !.attempts = IF fast THEN @ + 1 ELSE @,
                 !.phase = next, !.timer = next, !.due = TRUE,
                 !.leaked = IF k.timer = "none" THEN @ ELSE @ + 1]

\* connect(): a live socket is left alone, a bad URL is retried like a failure.
Connected(k) ==
    IF IsLive(k) THEN k
    ELSE LET fresh == [k EXCEPT !.down = FALSE, !.due = FALSE]
         IN IF k.url \in BadUrls THEN Scheduled(Offline(fresh))
            ELSE [fresh EXCEPT !.ws = "connecting", !.status = "connecting",
                               !.auth = "authenticating"]

\* Faulty variant: disconnect() leaves the retry timer armed.
DisconnectedTimed(k) ==
    [Offline(k) EXCEPT !.down = TRUE, !.due = FALSE, !.phase = "idle", !.ws = "none",
                       !.ghosts = IF IsLive(k) THEN @ + 1 ELSE @]

\* disconnect()
Disconnected(k) ==
    [Offline(k) EXCEPT !.down = TRUE, !.timer = "none", !.due = FALSE, !.phase = "idle",
                       !.ws = "none", !.ghosts = IF IsLive(k) THEN @ + 1 ELSE @]

Reconnected(k) == Connected([Disconnected(k) EXCEPT !.attempts = 0])

\* Faulty variant: the wake-up leaves the retry to the timer.
WokenLater(k) == [k EXCEPT !.attempts = 0]

\* wakeReconnect() and nudgeReconnect() once past their guard.
Woken(k) == Connected([k EXCEPT !.timer = "none", !.attempts = 0, !.phase = "burst",
                                !.due = FALSE])
Nudged(k) == Connected([k EXCEPT !.timer = "none", !.due = FALSE])

\* onclose: the same for the present socket and for one already replaced.
Lost(k, ghost) ==
    Scheduled(IF ghost THEN [Offline(k) EXCEPT !.ghosts = @ - 1]
                       ELSE [Offline(k) EXCEPT !.ws = "closed"])

-----------------------------------------------------------------------------
(* The runtime hears of it, and publishes *)

Snapshot(r, k) ==
    [url |-> r.set.url, status |-> r.status, phase |-> r.phase, auth |-> r.auth,
     attempts |-> k.attempts, due |-> k.due]

\* setStatus and setRetryPhase tell the runtime of changes only, setAuthStatus
\* always.  always: the fields that changed on the way, whatever the outcome.
Told(r, old, k, always) ==
    [r EXCEPT
       !.status = IF k.status # old.status \/ "status" \in always THEN k.status ELSE @,
       !.phase  = IF k.phase # old.phase \/ "phase" \in always THEN k.phase ELSE @,
       !.auth   = IF k.auth # old.auth \/ "auth" \in always THEN k.auth ELSE @]

\* Faulty variant: the log line comes before the change.
ReportEarly(c, k, due, always) ==
    LET r == Told(rt, client[c], k, always) IN
    /\ client' = [client EXCEPT ![c] = k]
    /\ rt' = r
    /\ stored' = Snapshot(r, client[cur])

\* Client c becomes k.  due: nextRetryAt when the last log line was written.
Report(c, k, due, always) ==
    LET r == Told(rt, client[c], k, always) IN
    /\ client' = [client EXCEPT ![c] = k]
    /\ rt' = r
    /\ stored' = Snapshot(r, IF c = cur THEN [k EXCEPT !.due = due] ELSE client[cur])

\* A log line, and with it a snapshot of what has not changed.
Publish == stored' = Snapshot(rt, client[cur]) /\ UNCHANGED <<rt, client>>

Quiet == UNCHANGED <<rt, client, stored>>

-----------------------------------------------------------------------------
(* Events of the sockets and timers of client c *)

sockVars == <<user, life, cur, cooling, noted, uiVars, pressed>>

OnOpen(c) ==
    /\ client[c].ws = "connecting" /\ client[c].url \in up
    /\ Report(c, [client[c] EXCEPT !.ws = "open", !.attempts = 0, !.due = FALSE,
                                   !.phase = "idle"], FALSE, {})
    /\ UNCHANGED <<sockVars, up, left>>

\* handleAuthAccepted
Accepted(c) ==
    /\ client[c].ws = "open" /\ client[c].auth = "authenticating"
    /\ Report(c, [client[c] EXCEPT !.status = "connected", !.auth = "authenticated"],
              client[c].due, {"auth"})
    /\ UNCHANGED <<sockVars, up, left>>

\* handlePairingRequired
PairingRequired(c) ==
    /\ client[c].ws = "open" /\ client[c].auth = "authenticating"
    /\ client[c].status = "connecting" /\ left.troubles > 0
    /\ Report(c, [client[c] EXCEPT !.auth = "pairing-required"], client[c].due, {"auth"})
    /\ left' = [left EXCEPT !.troubles = @ - 1]
    /\ UNCHANGED <<sockVars, up>>

\* The connection fails, or breaks, or its server stops.
OnClose(c) ==
    /\ \/ client[c].ws = "connecting" /\ client[c].url \notin up /\ UNCHANGED <<left, up>>
       \/ /\ client[c].ws = "open" /\ left.troubles > 0
          /\ left' = [left EXCEPT !.troubles = @ - 1]
          /\ up' \in {up, up \ {client[c].url}}
    /\ Report(c, Lost(client[c], FALSE), client[c].due, {"auth"})
    /\ UNCHANGED sockVars

\* The close event of a socket that disconnect() closed.
OnGhostClose(c) ==
    /\ client[c].ghosts > 0
    /\ Report(c, Lost(client[c], TRUE), client[c].due, {"auth"})
    /\ UNCHANGED <<sockVars, up, left>>

TimerFires(c) ==
    /\ client[c].timer # "none"
    /\ LET k == [client[c] EXCEPT !.timer = "none"] IN
       IF IsLive(k) THEN client' = [client EXCEPT ![c] = k] /\ UNCHANGED <<rt, stored>>
       ELSE Report(c, Connected(k), FALSE, {"status", "auth"})
    /\ UNCHANGED <<sockVars, up, left>>

LeakedTimerFires(c) ==
    /\ client[c].leaked > 0
    /\ LET k == [client[c] EXCEPT !.leaked = @ - 1] IN
       IF IsLive(k) THEN client' = [client EXCEPT ![c] = k] /\ UNCHANGED <<rt, stored>>
       ELSE Report(c, Connected(k), FALSE, {"status", "auth"})
    /\ UNCHANGED <<sockVars, up, left>>

ServerStarts(u) ==
    /\ u \in Urls \ (BadUrls \cup up)
    /\ up' = up \cup {u}
    /\ UNCHANGED <<sockVars, rt, client, stored, left>>

-----------------------------------------------------------------------------
(* Methods of the runtime *)

\* nudgeReconnect
Nudge ==
    IF rt.status # "disconnected" THEN Quiet /\ UNCHANGED <<cooling, noted>>
    ELSE IF cooling THEN
       /\ IF noted THEN Quiet ELSE Publish
       /\ noted' = TRUE /\ UNCHANGED cooling
    ELSE
       /\ cooling' = TRUE /\ noted' = FALSE
       /\ LET k == client[cur] IN
          IF k.down \/ k.status # "disconnected" THEN Publish
          ELSE Report(cur, IF rt.phase = "standby" THEN Woken(k) ELSE Nudged(k),
                      FALSE, IF IsLive(k) THEN {} ELSE {"status", "auth"})

\* updateSettings: the client is replaced when the URL changed.
UpdateSettings(s) ==
    IF s.url = rt.set.url THEN
       /\ rt' = [rt EXCEPT !.set = s]
       /\ stored' = Snapshot(rt', client[cur])
       /\ UNCHANGED <<client, cur>>
    ELSE
       LET old == Disconnected(client[cur])
           new == Connected(NewClient(s.url))
           r   == Told(Told([rt EXCEPT !.set = s], client[cur], old, {"auth"}),
                       NewClient(s.url), new, {"status", "auth"})
       IN /\ cur < MaxClients
          /\ cur' = cur + 1
          /\ client' = [client EXCEPT ![cur] = old, ![cur + 1] = new]
          /\ rt' = r
          /\ stored' = Snapshot(r, new)

\* pair: confirmPairing throws unless a code is asked for on an open socket.
Pair ==
    LET k == client[cur] IN
    IF k.auth = "pairing-required" /\ k.ws = "open"
    THEN Report(cur, [k EXCEPT !.auth = "authenticating"], k.due, {"auth"})
    ELSE Publish

\* initializeBridgeRuntime reads the settings, then the stored identity and
\* secret, and starts a runtime with what it read.
ReadSettings ==
    /\ life = "reading" /\ life' = "read"
    /\ rt' = [rt EXCEPT !.set = user]
    /\ UNCHANGED <<user, up, client, cur, cooling, noted, stored, uiVars, pressed, left>>

Start ==
    /\ life = "read" /\ life' = "on"
    /\ LET k == Connected(NewClient(rt.set.url))
           r == Told(rt, NewClient(rt.set.url), k, {"status", "auth"})
       IN client' = [client EXCEPT ![cur] = k] /\ rt' = r /\ stored' = Snapshot(r, k)
    /\ UNCHANGED <<user, up, cur, cooling, noted, uiVars, pressed, left>>

\* shutdown: the sidebar's bridge goes first, so nothing is published.
Shutdown ==
    /\ life = "on" /\ life' = "off"
    /\ client' = [client EXCEPT ![cur] = Disconnected(@)]
    /\ rt' = Told(rt, client[cur], client'[cur], {"auth"})
    /\ mounted' = FALSE /\ sent' = None /\ cmds' = <<>>
    /\ UNCHANGED <<user, up, cur, cooling, noted, stored, pressed, left>>

\* Focus, visibility and online events.
Activity ==
    /\ life = "on" /\ Nudge
    /\ UNCHANGED <<user, up, life, cur, uiVars, pressed, left>>

CooldownEnds ==
    /\ cooling /\ cooling' = FALSE
    /\ UNCHANGED <<user, up, life, rt, client, cur, noted, stored, uiVars, pressed, left>>

-----------------------------------------------------------------------------
(* The user and the sidebar *)

runtimeVars == <<up, life, rt, client, cur, cooling, noted, stored>>
restVars == <<runtimeVars, pressed>>

ChangeSettings(s) ==
    /\ s # user /\ left.changes > 0
    /\ user' = s /\ left' = [left EXCEPT !.changes = @ - 1]
    /\ UNCHANGED <<restVars, uiVars>>

Write(kind) == cmds' = Append(cmds, [kind |-> kind])

\* Opening the sidebar asks for a snapshot and nudges.
Mount ==
    /\ life = "on" /\ ~mounted /\ left.mounts > 0
    /\ mounted' = TRUE /\ left' = [left EXCEPT !.mounts = @ - 1]
    /\ cmds' = cmds \o <<[kind |-> "request_snapshot"], [kind |-> "nudge"]>>
    /\ UNCHANGED <<user, restVars, sent>>

Unmount ==
    /\ mounted /\ mounted' = FALSE /\ sent' = None
    /\ UNCHANGED <<user, restVars, cmds, left>>

\* Faulty variant: only changes made while the sidebar is open are forwarded.
ForwardChanges ==
    /\ mounted /\ sent # user
    /\ sent' = user
    /\ cmds' = IF sent = None THEN cmds
               ELSE Append(cmds, [kind |-> "update", set |-> user])
    /\ UNCHANGED <<user, restVars, mounted, left>>

\* The settings effect: on mount, and whenever the settings differ.
ForwardSettings ==
    /\ mounted /\ sent # user
    /\ sent' = user
    /\ cmds' = Append(cmds, [kind |-> "update", set |-> user])
    /\ UNCHANGED <<user, restVars, mounted, left>>

\* The buttons Reconnect Now and Pair.
PressReconnect ==
    /\ mounted /\ left.troubles > 0
    /\ left' = [left EXCEPT !.troubles = @ - 1]
    /\ Write("reconnect") /\ pressed' = TRUE
    /\ UNCHANGED <<user, runtimeVars, mounted, sent>>

PressPair ==
    /\ mounted /\ stored.auth = "pairing-required"
    /\ \A i \in DOMAIN cmds : cmds[i].kind # "pair"
    /\ Write("pair")
    /\ UNCHANGED <<user, restVars, mounted, sent, left>>

\* The runtime's listener on the command slot.
Command ==
    /\ life = "on" /\ cmds # <<>> /\ cmds' = Tail(cmds)
    /\ \/ /\ Head(cmds).kind = "request_snapshot"
          /\ Publish /\ UNCHANGED <<cur, cooling, noted>>
       \/ /\ Head(cmds).kind = "reconnect"
          /\ Report(cur, Reconnected(client[cur]), FALSE, {"status", "phase", "auth"})
          /\ UNCHANGED <<cur, cooling, noted>>
       \/ /\ Head(cmds).kind = "nudge"
          /\ Nudge /\ UNCHANGED cur
       \/ /\ Head(cmds).kind = "update"
          /\ UpdateSettings(Head(cmds).set) /\ UNCHANGED <<cooling, noted>>
       \/ /\ Head(cmds).kind = "pair"
          /\ Pair /\ UNCHANGED <<cur, cooling, noted>>
    /\ UNCHANGED <<user, up, life, mounted, sent, pressed, left>>

-----------------------------------------------------------------------------
Init ==
    /\ user \in FirstSettings /\ up \in SUBSET (Urls \ BadUrls)
    /\ life = "reading"
    /\ rt = [set |-> user, status |-> "disconnected", phase |-> "idle",
             auth |-> "disconnected"]
    /\ client = [c \in Clients |-> NewClient(user.url)]
    /\ cur = 1 /\ cooling = FALSE /\ noted = FALSE
    /\ stored = Snapshot(rt, client[1])
    /\ mounted = FALSE /\ sent = None /\ cmds = <<>>
    /\ left = [changes |-> Changes, mounts |-> Mounts, troubles |-> Troubles]
    /\ pressed = FALSE

ClientStep(c) ==
    \/ OnOpen(c) \/ Accepted(c) \/ PairingRequired(c) \/ OnClose(c) \/ OnGhostClose(c)
    \/ TimerFires(c) \/ LeakedTimerFires(c)

Next ==
    \/ \E c \in Clients : ClientStep(c)
    \/ \E u \in Urls : ServerStarts(u)
    \/ ReadSettings \/ Start \/ Shutdown \/ Activity \/ CooldownEnds
    \/ \E s \in Settings : ChangeSettings(s)
    \/ Mount \/ Unmount \/ ForwardSettings \/ PressReconnect \/ PressPair \/ Command

Spec == Init /\ [][Next]_vars

\* The user is active now and then, which the cooldown thins out; sockets get
\* an answer; nothing is assumed of the retry timers.
Fairness ==
    /\ WF_vars(Activity) /\ WF_vars(CooldownEnds) /\ WF_vars(Command)
    /\ \A c \in Clients :
          WF_vars(OnOpen(c)) /\ WF_vars(Accepted(c)) /\ WF_vars(OnClose(c))

FairSpec == Spec /\ Fairness

-----------------------------------------------------------------------------
(* Properties *)

\* A client that updateSettings replaced is done: its late close event neither
\* dials the old server again nor changes the status and phase the runtime
\* shows, which are those of the present client.  (Reconnect Now replaces the
\* socket of a client that lives on, and a late close event then counts for the
\* new one: module BridgeSession.)
OldClientsAreDone ==
    (life = "on" /\ ~pressed) =>
    /\ rt.status = client[cur].status /\ rt.phase = client[cur].phase
    /\ \A c \in 1..(cur - 1) :
          client[c].ws = "none" /\ client[c].timer = "none" /\ client[c].leaked = 0

\* What the sidebar can show is what is so: every handler logs after its last
\* change, the countdown to the next retry excepted.
StoredIsCurrent ==
    life = "on" =>
    LET now == Snapshot(rt, client[cur]) IN
    /\ [stored EXCEPT !.due = FALSE] = [now EXCEPT !.due = FALSE]
    /\ stored.due => now.due

\* An open sidebar that has forwarded the user's settings, with no command
\* outstanding: the runtime obeys them, the write switch included, and its
\* client talks to the server they name.
SettingsObeyed ==
    (life = "on" /\ mounted /\ sent = user /\ cmds = <<>>) =>
    rt.set = user /\ client[cur].url = user.url

\* Activity alone brings a runtime back to a server that listens, from standby
\* too, without waiting for the standby timer.
Reachable ==
    /\ life = "on" /\ client[cur].url \in up
    /\ client[cur].auth # "pairing-required"
    /\ ~pressed

ActivityReconnects == <>[]Reachable => []<>(rt.status = "connected")
=============================================================================
