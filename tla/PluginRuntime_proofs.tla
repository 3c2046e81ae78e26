-------------------------- MODULE PluginRuntime_proofs --------------------------
(***************************************************************************)
(* Theorems about the plugin's runtime, for any servers, settings, numbers *)
(* of clients and disturbances: a client that was replaced is done, what   *)
(* the sidebar can show is what is so, and the settings that an open       *)
(* sidebar forwarded are obeyed.                                           *)
(***************************************************************************)
EXTENDS PluginRuntime, TLAPS

Sockets == {"none", "connecting", "open", "closed"}
Timers  == {"none", "burst", "standby"}

ClientStates ==
    [url : Urls, ws : Sockets, ghosts : Nat, status : Statuses, auth : Auths,
     phase : Phases, attempts : 0..MaxAttempts, timer : Timers, leaked : Nat,
     due : BOOLEAN, down : BOOLEAN]
RuntimeStates == [set : Settings, status : Statuses, phase : Phases, auth : Auths]
Snapshots ==
    [url : Urls, status : Statuses, phase : Phases, auth : Auths,
     attempts : 0..MaxAttempts, due : BOOLEAN]
Commands ==
    [kind : {"request_snapshot", "reconnect", "nudge", "pair"}]
        \cup [kind : {"update"}, set : Settings]

-----------------------------------------------------------------------------
(* What the methods of a client make of its fields *)

LEMMA NewClientFields ==
    ASSUME NEW u \in Urls
    PROVE  /\ NewClient(u) \in ClientStates /\ NewClient(u).url = u
           /\ NewClient(u).ws = "none" /\ NewClient(u).status = "disconnected"
           /\ NewClient(u).phase = "idle" /\ NewClient(u).timer = "none"
           /\ NewClient(u).ghosts = 0 /\ NewClient(u).leaked = 0
           /\ NewClient(u).auth = "disconnected"
           /\ ~NewClient(u).down /\ ~NewClient(u).due
  BY PluginAssumption DEF NewClient, ClientStates, Sockets, Timers, Statuses, Auths, Phases

\* Without a timer set scheduling a retry loses none; a client that was told to
\* shut down is left alone.
LEMMA ScheduledFields ==
    ASSUME NEW k \in ClientStates
    PROVE  /\ Scheduled(k) \in ClientStates
           /\ Scheduled(k).url = k.url /\ Scheduled(k).ws = k.ws
           /\ Scheduled(k).status = k.status /\ Scheduled(k).auth = k.auth
           /\ Scheduled(k).ghosts = k.ghosts /\ Scheduled(k).down = k.down
           /\ k.timer = "none" => Scheduled(k).leaked = k.leaked
           /\ k.due => Scheduled(k).due
           /\ k.down => Scheduled(k) = k
<1>1. CASE k.down
  BY <1>1 DEF Scheduled
<1> DEFINE leaked == IF k.timer = "none" THEN k.leaked ELSE k.leaked + 1
           in(phase, attempts) ==
             [k EXCEPT !.attempts = attempts, !.phase = phase, !.timer = phase,
                       !.due = TRUE, !.leaked = leaked]
<1>2. leaked \in Nat /\ (k.timer = "none" => leaked = k.leaked)
  BY DEF ClientStates
<1>3. ASSUME NEW phase \in {"burst", "standby"}, NEW n \in 0..MaxAttempts
      PROVE  /\ in(phase, n) \in ClientStates
             /\ in(phase, n).url = k.url /\ in(phase, n).ws = k.ws
             /\ in(phase, n).status = k.status /\ in(phase, n).auth = k.auth
             /\ in(phase, n).ghosts = k.ghosts /\ in(phase, n).down = k.down
             /\ in(phase, n).leaked = leaked /\ in(phase, n).due
  <2> HIDE DEF leaked
  <2> QED BY <1>2 DEF ClientStates, Timers, Phases
<1>4. CASE ~k.down /\ k.attempts < MaxAttempts
  <2>1. k.attempts + 1 \in 0..MaxAttempts
    BY <1>4, PluginAssumption DEF ClientStates
  <2>2. Scheduled(k) = in("burst", k.attempts + 1)
    BY <1>4 DEF Scheduled
  <2> HIDE DEF leaked, in
  <2> QED BY <1>2, <1>3, <1>4, <2>1, <2>2
<1>5. CASE ~k.down /\ ~(k.attempts < MaxAttempts)
  <2>1. k.attempts \in 0..MaxAttempts
    BY DEF ClientStates
  <2>2. Scheduled(k) = in("standby", k.attempts)
    BY <1>5 DEF Scheduled
  <2> HIDE DEF leaked, in
  <2> QED BY <1>2, <1>3, <1>5, <2>1, <2>2
<1> QED BY <1>1, <1>4, <1>5

LEMMA OfflineFields ==
    ASSUME NEW k \in ClientStates
    PROVE  /\ Offline(k) \in ClientStates
           /\ Offline(k).status = "disconnected" /\ Offline(k).auth = "disconnected"
           /\ Offline(k).url = k.url /\ Offline(k).ws = k.ws
           /\ Offline(k).ghosts = k.ghosts /\ Offline(k).leaked = k.leaked
           /\ Offline(k).timer = k.timer /\ Offline(k).phase = k.phase
           /\ Offline(k).due = k.due /\ Offline(k).down = k.down
  BY DEF Offline, ClientStates, Statuses, Auths

\* A client with no event to come that is not its own socket's or timer's.
Tidy(k) == k.ghosts = 0 /\ k.leaked = 0 /\ (IsLive(k) => k.timer = "none")

\* A client that disconnect() has left for good.
Done(k) ==
    /\ k.down /\ k.ws = "none" /\ k.timer = "none" /\ k.leaked = 0
    /\ k.status = "disconnected" /\ k.phase = "idle"

LEMMA ConnectedFields ==
    ASSUME NEW k \in ClientStates
    PROVE  /\ Connected(k) \in ClientStates /\ Connected(k).url = k.url
           /\ Tidy(k) /\ k.timer = "none" => Tidy(Connected(k))
           /\ ~k.down => ~Connected(k).down
           /\ IsLive(k) => Connected(k) = k
<1>1. CASE IsLive(k)
  BY <1>1 DEF Connected
<1> DEFINE fresh == [k EXCEPT !.down = FALSE, !.due = FALSE]
           dialled == [fresh EXCEPT !.ws = "connecting", !.status = "connecting",
                                    !.auth = "authenticating"]
<1>2. fresh \in ClientStates /\ fresh.url = k.url /\ fresh.ws = k.ws /\ ~fresh.down
      /\ fresh.timer = k.timer /\ fresh.leaked = k.leaked /\ fresh.ghosts = k.ghosts
  BY DEF ClientStates
<1>3. CASE ~IsLive(k) /\ k.url \in BadUrls
  <2> HIDE DEF fresh
  <2>1. Connected(k) = Scheduled(Offline(fresh))
    BY <1>3, <1>2 DEF Connected, fresh
  <2>2. Offline(fresh) \in ClientStates /\ Offline(fresh).url = k.url
        /\ Offline(fresh).ws = k.ws /\ ~Offline(fresh).down
        /\ Offline(fresh).timer = k.timer /\ Offline(fresh).leaked = k.leaked
        /\ Offline(fresh).ghosts = k.ghosts
    BY <1>2, OfflineFields
  <2> QED BY <1>3, <2>1, <2>2, ScheduledFields DEF Tidy, IsLive
<1>4. CASE ~IsLive(k) /\ k.url \notin BadUrls
  <2>1. Connected(k) = dialled
    BY <1>4, <1>2 DEF Connected
  <2> HIDE DEF fresh
  <2>2. dialled \in ClientStates /\ dialled.url = k.url /\ ~dialled.down
        /\ dialled.timer = k.timer /\ dialled.leaked = k.leaked
        /\ dialled.ghosts = k.ghosts
    BY <1>2 DEF ClientStates, Sockets, Statuses, Auths
  <2> HIDE DEF dialled
  <2> QED BY <1>4, <2>1, <2>2 DEF Tidy
<1> QED BY <1>1, <1>3, <1>4

LEMMA DisconnectedFields ==
    ASSUME NEW k \in ClientStates
    PROVE  /\ Disconnected(k) \in ClientStates /\ Disconnected(k).url = k.url
           /\ k.leaked = 0 => Done(Disconnected(k))
           /\ Disconnected(k).status = "disconnected" /\ Disconnected(k).phase = "idle"
<1> DEFINE ghosts == IF IsLive(k) THEN k.ghosts + 1 ELSE k.ghosts
           off == Offline(k)
<1>1. ghosts \in Nat
  BY DEF ClientStates
<1>2. off \in ClientStates /\ off.url = k.url /\ off.leaked = k.leaked
      /\ off.status = "disconnected" /\ off.ghosts = k.ghosts
  BY OfflineFields DEF ClientStates
<1> HIDE DEF ghosts, off
<1>3. Disconnected(k) = [off EXCEPT !.down = TRUE, !.timer = "none", !.due = FALSE,
                                    !.phase = "idle", !.ws = "none", !.ghosts = ghosts]
  BY <1>2 DEF Disconnected, ghosts, off, ClientStates
<1> QED BY ZenonT(30), <1>1, <1>2, <1>3 DEF ClientStates, Sockets, Timers, Phases, Done

LEMMA ReconnectedFields ==
    ASSUME NEW k \in ClientStates
    PROVE  Reconnected(k) \in ClientStates /\ Reconnected(k).url = k.url
<1>1. [Disconnected(k) EXCEPT !.attempts = 0] \in ClientStates
      /\ [Disconnected(k) EXCEPT !.attempts = 0].url = k.url
  BY DisconnectedFields, PluginAssumption DEF ClientStates
<1> QED BY <1>1, ConnectedFields DEF Reconnected

LEMMA NudgedFields ==
    ASSUME NEW k \in ClientStates
    PROVE  /\ Woken(k) \in ClientStates /\ Woken(k).url = k.url
           /\ Nudged(k) \in ClientStates /\ Nudged(k).url = k.url
           /\ Tidy(k) => Tidy(Woken(k)) /\ Tidy(Nudged(k))
           /\ IsLive(k) => Woken(k).status = k.status /\ Nudged(k).status = k.status
<1> DEFINE woken == [k EXCEPT !.timer = "none", !.attempts = 0, !.phase = "burst",
                              !.due = FALSE]
           nudged == [k EXCEPT !.timer = "none", !.due = FALSE]
<1>1. woken \in ClientStates /\ woken.url = k.url /\ woken.ghosts = k.ghosts
      /\ woken.leaked = k.leaked /\ woken.timer = "none" /\ woken.ws = k.ws
      /\ woken.status = k.status
  <2>1. 0 \in 0..MaxAttempts
    BY PluginAssumption
  <2> QED BY <2>1 DEF ClientStates, Timers, Phases
<1>2. nudged \in ClientStates /\ nudged.url = k.url /\ nudged.ghosts = k.ghosts
      /\ nudged.leaked = k.leaked /\ nudged.timer = "none" /\ nudged.ws = k.ws
      /\ nudged.status = k.status
  BY DEF ClientStates, Timers
<1>3. Woken(k) = Connected(woken) /\ Nudged(k) = Connected(nudged)
  BY DEF Woken, Nudged
<1> HIDE DEF woken, nudged
<1> QED BY <1>1, <1>2, <1>3, ConnectedFields DEF Tidy, IsLive

LEMMA LostFields ==
    ASSUME NEW k \in ClientStates
    PROVE  /\ Lost(k, FALSE) \in ClientStates /\ Lost(k, FALSE).url = k.url
           /\ Tidy(k) /\ IsLive(k) => Tidy(Lost(k, FALSE))
           /\ k.due => Lost(k, FALSE).due
           /\ k.ghosts > 0 =>
                 /\ Lost(k, TRUE) \in ClientStates /\ Lost(k, TRUE).url = k.url
                 /\ Done(k) => Done(Lost(k, TRUE))
                 /\ k.due => Lost(k, TRUE).due
<1> DEFINE off  == Offline(k)
           own  == [off EXCEPT !.ws = "closed"]
           late == [off EXCEPT !.ghosts = k.ghosts - 1]
<1>1. /\ off \in ClientStates /\ off.status = "disconnected" /\ off.url = k.url
      /\ off.ws = k.ws /\ off.ghosts = k.ghosts /\ off.leaked = k.leaked
      /\ off.timer = k.timer /\ off.phase = k.phase /\ off.due = k.due /\ off.down = k.down
  BY OfflineFields
<1>2. Lost(k, FALSE) = Scheduled(own)
  BY DEF Lost
<1>3. Lost(k, TRUE) = Scheduled(late)
  BY <1>1 DEF Lost
<1> HIDE DEF off
<1>4. own \in ClientStates /\ own.url = k.url /\ own.ghosts = k.ghosts
      /\ own.leaked = k.leaked /\ own.timer = k.timer /\ own.ws = "closed"
      /\ own.due = k.due
  BY <1>1 DEF ClientStates, Sockets
<1>5. ASSUME k.ghosts > 0
      PROVE  /\ late \in ClientStates /\ late.url = k.url /\ late.due = k.due
             /\ Done(k) => late.down /\ Done(late)
  <2>1. k.ghosts - 1 \in Nat
    BY <1>5 DEF ClientStates
  <2>2. late \in ClientStates
    BY <1>1, <2>1 DEF ClientStates
  <2>3. late.url = k.url /\ late.due = k.due /\ late.down = k.down /\ late.ws = k.ws
        /\ late.timer = k.timer /\ late.leaked = k.leaked /\ late.phase = k.phase
        /\ late.status = "disconnected"
    BY <1>1 DEF ClientStates
  <2> HIDE DEF late
  <2> QED BY <2>2, <2>3 DEF Done
<1> HIDE DEF own, late
<1>6. /\ Lost(k, FALSE) \in ClientStates /\ Lost(k, FALSE).url = k.url
      /\ k.due => Lost(k, FALSE).due
  BY <1>2, <1>4, ScheduledFields
<1>7. ASSUME Tidy(k), IsLive(k)
      PROVE  Tidy(Lost(k, FALSE))
  <2>1. own.timer = "none" /\ own.ghosts = 0 /\ own.leaked = 0
    BY <1>4, <1>7 DEF Tidy
  <2>2. Scheduled(own).ghosts = 0 /\ Scheduled(own).leaked = 0
        /\ Scheduled(own).ws = "closed"
    BY <1>4, <2>1, ScheduledFields
  <2> QED BY <1>2, <2>2 DEF Tidy, IsLive
<1>8. ASSUME k.ghosts > 0
      PROVE  /\ Lost(k, TRUE) \in ClientStates /\ Lost(k, TRUE).url = k.url
             /\ k.due => Lost(k, TRUE).due
  <2>1. late \in ClientStates /\ late.url = k.url /\ late.due = k.due
    BY <1>5, <1>8
  <2>2. /\ Scheduled(late) \in ClientStates /\ Scheduled(late).url = late.url
        /\ late.due => Scheduled(late).due
    BY <2>1, ScheduledFields
  <2> QED BY <1>3, <2>1, <2>2
<1>9. ASSUME k.ghosts > 0, Done(k)
      PROVE  Done(Lost(k, TRUE))
  <2>1. late \in ClientStates /\ late.down /\ Done(late)
    BY <1>5, <1>9
  <2>2. Scheduled(late) = late
    BY <2>1, ScheduledFields
  <2> QED BY <1>3, <2>1, <2>2
<1> QED BY <1>6, <1>7, <1>8, <1>9

-----------------------------------------------------------------------------
(* What the runtime makes of it *)

LEMMA ToldFields ==
    ASSUME NEW r \in RuntimeStates, NEW old \in ClientStates, NEW k \in ClientStates,
           NEW always
    PROVE  /\ Told(r, old, k, always) \in RuntimeStates
           /\ Told(r, old, k, always).set = r.set
           /\ Told(r, old, k, always).status =
                 IF k.status # old.status \/ "status" \in always THEN k.status ELSE r.status
           /\ Told(r, old, k, always).phase =
                 IF k.phase # old.phase \/ "phase" \in always THEN k.phase ELSE r.phase
<1> DEFINE st == IF k.status # old.status \/ "status" \in always THEN k.status ELSE r.status
           ph == IF k.phase # old.phase \/ "phase" \in always THEN k.phase ELSE r.phase
           au == IF k.auth # old.auth \/ "auth" \in always THEN k.auth ELSE r.auth
<1>1. st \in Statuses /\ ph \in Phases /\ au \in Auths
  BY DEF ClientStates, RuntimeStates
<1>2. Told(r, old, k, always) = [r EXCEPT !.status = st, !.phase = ph, !.auth = au]
  BY DEF Told, RuntimeStates
<1> HIDE DEF st, ph, au
<1>3. /\ Told(r, old, k, always) \in RuntimeStates
      /\ Told(r, old, k, always).set = r.set
      /\ Told(r, old, k, always).status = st /\ Told(r, old, k, always).phase = ph
  BY <1>1, <1>2 DEF RuntimeStates
<1> QED BY <1>3 DEF st, ph

LEMMA SnapshotFields ==
    ASSUME NEW r \in RuntimeStates, NEW k \in ClientStates
    PROVE  Snapshot(r, k) \in Snapshots
<1>1. r.set.url \in Urls
  BY PluginAssumption DEF RuntimeStates
<1> QED BY <1>1 DEF Snapshot, Snapshots, RuntimeStates, ClientStates

-----------------------------------------------------------------------------
(* The inductive invariant *)

RuntimeTypes ==
    /\ life \in {"reading", "read", "on", "off"}
    /\ rt \in RuntimeStates /\ client \in [Clients -> ClientStates]
    /\ cur \in Clients /\ cooling \in BOOLEAN /\ noted \in BOOLEAN
    /\ stored \in Snapshots /\ pressed \in BOOLEAN

OtherTypes ==
    /\ user \in Settings /\ up \in SUBSET Urls
    /\ mounted \in BOOLEAN /\ sent \in Settings \cup {None}
    /\ cmds \in Seq(Commands)
    /\ left \in [changes : Nat, mounts : Nat, troubles : Nat]

\* A client that is not made yet has no socket and no timer.
Unmade(k) == k.ws = "none" /\ k.timer = "none" /\ k.ghosts = 0 /\ k.leaked = 0

\* What the callbacks told the runtime is what the client k says of itself.
Agrees(r, k) == r.status = k.status /\ r.phase = k.phase

\* The snapshot s shows the runtime r and the client k, but for the countdown.
Shows(s, r, k) ==
    /\ s.url = r.set.url /\ s.status = r.status /\ s.phase = r.phase /\ s.auth = r.auth
    /\ s.attempts = k.attempts /\ (s.due => k.due)

NothingBeforeStart ==
    life \in {"reading", "read"} =>
    /\ cur = 1 /\ Unmade(client[1])
    /\ rt.status = "disconnected" /\ rt.phase = "idle"

UnmadeAreIdle == \A c \in Clients : c > cur => Unmade(client[c])

RuntimeShown ==
    life = "on" => client[cur].url = rt.set.url /\ Shows(stored, rt, client[cur])

OldOnesDone ==
    (life = "on" /\ ~pressed) =>
    /\ Agrees(rt, client[cur]) /\ Tidy(client[cur])
    /\ \A c \in Clients : c < cur => Done(client[c])

RuntimeInv ==
    RuntimeTypes /\ NothingBeforeStart /\ UnmadeAreIdle /\ RuntimeShown /\ OldOnesDone

\* The sidebar lives in the runtime's bridge, and forgets what it sent when closed.
SidebarNeedsRuntime == (mounted => life = "on") /\ (~mounted => sent = None)

\* A reconnection is under way only if the button was used.
ReconnectsArePressed == \A i \in 1..Len(cmds) : cmds[i].kind = "reconnect" => pressed

NoUpdate(s, i) == \A j \in 1..Len(s) : j > i => s[j].kind # "update"

\* Once it has carried out the commands s, the runtime with the settings set
\* obeys x.
WillObey(s, set, x) ==
    \/ set = x /\ NoUpdate(s, 0)
    \/ \E i \in 1..Len(s) : s[i].kind = "update" /\ s[i].set = x /\ NoUpdate(s, i)

Forwarded == (mounted /\ sent # None) => WillObey(cmds, rt.set, sent)

SidebarInv == OtherTypes /\ SidebarNeedsRuntime /\ ReconnectsArePressed /\ Forwarded

PlugInv == RuntimeInv /\ SidebarInv

LEMMA InitPlug == Init => PlugInv
<1> SUFFICES ASSUME Init PROVE PlugInv
  OBVIOUS
<1>1. user \in Settings /\ user.url \in Urls /\ 1 \in Clients
  BY PluginAssumption DEF Init, Clients
<1> DEFINE k == NewClient(user.url)
<1>2. /\ k \in ClientStates /\ Unmade(k)
  BY <1>1, NewClientFields DEF Unmade
<1>3. rt \in RuntimeStates
  BY <1>1 DEF Init, RuntimeStates, Statuses, Phases, Auths
<1>4. \A c \in Clients : client[c] = k
  BY DEF Init
<1>5. stored \in Snapshots
  BY <1>1, <1>2, <1>3, <1>4, SnapshotFields DEF Init
<1> HIDE DEF k
<1>6. RuntimeInv
  <2>1. client \in [Clients -> ClientStates]
    BY <1>2, <1>4 DEF Init
  <2> QED
    BY <1>1, <1>2, <1>3, <1>4, <1>5, <2>1 DEF RuntimeInv, RuntimeTypes, Init,
       NothingBeforeStart, UnmadeAreIdle, RuntimeShown, OldOnesDone
<1>7. SidebarInv
  <2>1. OtherTypes
    <3>1. up \in SUBSET Urls /\ cmds \in Seq(Commands) /\ sent \in Settings \cup {None}
      BY DEF Init
    <3>2. left \in [changes : Nat, mounts : Nat, troubles : Nat]
      BY PluginAssumption DEF Init
    <3> QED BY <1>1, <3>1, <3>2 DEF OtherTypes, Init
  <2> QED BY <2>1 DEF Init, SidebarInv, SidebarNeedsRuntime, ReconnectsArePressed,
             Forwarded
<1> QED BY <1>6, <1>7 DEF PlugInv

\* A step that leaves the runtime alone.
LEMMA RuntimeStays ==
    ASSUME RuntimeInv, UNCHANGED <<life, rt, client, cur, cooling, noted, stored>>,
           pressed => pressed', pressed' \in BOOLEAN
    PROVE  RuntimeInv'
  BY DEF RuntimeInv, RuntimeTypes, NothingBeforeStart, UnmadeAreIdle, RuntimeShown,
         OldOnesDone

\* A step that leaves the sidebar, its commands and the settings obeyed alone.
LEMMA SidebarStays ==
    ASSUME SidebarInv, UNCHANGED <<mounted, sent, cmds, pressed>>,
           user' \in Settings, up' \in SUBSET Urls,
           left' \in [changes : Nat, mounts : Nat, troubles : Nat],
           rt'.set = rt.set, mounted => life' = "on"
    PROVE  SidebarInv'
  BY DEF SidebarInv, OtherTypes, SidebarNeedsRuntime, ReconnectsArePressed, Forwarded,
         WillObey, NoUpdate

\* A client that can have an event is the present one or an older one.
LEMMA MadeClients ==
    ASSUME RuntimeInv, NEW c \in Clients, ~Unmade(client[c])
    PROVE  /\ c <= cur /\ life \in {"on", "off"}
           /\ life = "on" /\ ~pressed /\ c # cur => Done(client[c])
<1>1. c <= cur
  BY DEF RuntimeInv, RuntimeTypes, UnmadeAreIdle, Clients
<1>2. life \in {"on", "off"}
  BY <1>1 DEF RuntimeInv, RuntimeTypes, NothingBeforeStart, Clients
<1> QED BY <1>1, <1>2 DEF RuntimeInv, RuntimeTypes, OldOnesDone, Clients

\* A client reports.  If it is the present one it stays tidy, if an older one it
\* stays done and tells of no status or phase.
LEMMA ReportKeeps ==
    ASSUME RuntimeInv, UNCHANGED <<life, cur, pressed>>, life \in {"on", "off"},
           cooling' \in BOOLEAN, noted' \in BOOLEAN,
           NEW c \in Clients, c <= cur, NEW k \in ClientStates, NEW due \in BOOLEAN,
           NEW always, Report(c, k, due, always),
           k.url = client[c].url, due => k.due,
           life = "on" /\ ~pressed /\ c = cur => Tidy(k),
           life = "on" /\ ~pressed /\ c # cur =>
              Done(k) /\ "status" \notin always /\ "phase" \notin always
    PROVE  RuntimeInv' /\ rt'.set = rt.set
<1>1. /\ rt \in RuntimeStates /\ client \in [Clients -> ClientStates] /\ cur \in Clients
  BY DEF RuntimeInv, RuntimeTypes
<1>2. /\ client[c] \in ClientStates /\ client[cur] \in ClientStates
      /\ client' = [client EXCEPT ![c] = k]
  BY <1>1 DEF Report
<1>3. /\ client' \in [Clients -> ClientStates] /\ client'[c] = k
      /\ \A d \in Clients : d # c => client'[d] = client[d]
  BY <1>1, <1>2
<1>4. /\ rt' \in RuntimeStates /\ rt'.set = rt.set
      /\ rt'.status = IF k.status # client[c].status \/ "status" \in always
                      THEN k.status ELSE rt.status
      /\ rt'.phase = IF k.phase # client[c].phase \/ "phase" \in always
                     THEN k.phase ELSE rt.phase
  BY <1>1, <1>2, ToldFields DEF Report
<1> DEFINE shown == IF c = cur THEN [k EXCEPT !.due = due] ELSE client[cur]
<1>5. shown \in ClientStates /\ stored' = Snapshot(rt', shown)
      /\ shown.attempts = client'[cur].attempts /\ (shown.due => client'[cur].due)
  <2>1. stored' = Snapshot(rt', shown)
    BY DEF Report
  <2>2. CASE c = cur
    <3>1. [k EXCEPT !.due = due] \in ClientStates
          /\ [k EXCEPT !.due = due].attempts = k.attempts
          /\ [k EXCEPT !.due = due].due = due
      BY DEF ClientStates
    <3> QED BY <1>3, <2>1, <2>2, <3>1
  <2>3. CASE c # cur
    BY <1>1, <1>2, <1>3, <2>1, <2>3
  <2> QED BY <2>2, <2>3
<1> HIDE DEF shown
<1>6. stored' \in Snapshots
  BY <1>4, <1>5, SnapshotFields
<1>7. RuntimeTypes'
  BY <1>1, <1>3, <1>4, <1>6 DEF RuntimeInv, RuntimeTypes
<1>8. NothingBeforeStart'
  BY DEF NothingBeforeStart
<1>9. UnmadeAreIdle'
  BY <1>1, <1>3 DEF RuntimeInv, UnmadeAreIdle, Clients
<1>10. RuntimeShown'
  <2> SUFFICES ASSUME life' = "on"
               PROVE  client'[cur].url = rt'.set.url /\ Shows(stored', rt', client'[cur])
    BY DEF RuntimeShown
  <2>1. client'[cur].url = rt'.set.url
    BY <1>1, <1>3, <1>4 DEF RuntimeInv, RuntimeShown
  <2>2. Shows(stored', rt', client'[cur])
    BY <1>5 DEF Shows, Snapshot
  <2> QED BY <2>1, <2>2
<1>11. OldOnesDone'
  <2> SUFFICES ASSUME life' = "on", ~pressed'
               PROVE  /\ Agrees(rt', client'[cur]) /\ Tidy(client'[cur])
                      /\ \A d \in Clients : d < cur => Done(client'[d])
    BY DEF OldOnesDone
  <2>1. /\ Agrees(rt, client[cur]) /\ Tidy(client[cur])
        /\ \A d \in Clients : d < cur => Done(client[d])
    BY DEF RuntimeInv, OldOnesDone
  <2>2. CASE c = cur
    BY <1>1, <1>3, <1>4, <2>1, <2>2 DEF Agrees, Clients
  <2>3. CASE c # cur
    <3>1. Done(k) /\ Done(client[c]) /\ c < cur
      BY <1>1, <2>1, <2>3 DEF Clients
    <3>2. rt'.status = rt.status /\ rt'.phase = rt.phase
      BY <1>4, <2>3, <3>1 DEF Done
    <3> QED BY <1>1, <1>3, <2>1, <2>3, <3>1, <3>2 DEF Agrees
  <2> QED BY <2>2, <2>3
<1> QED BY <1>4, <1>7, <1>8, <1>9, <1>10, <1>11 DEF RuntimeInv

\* A client's timer goes and nothing else of it changes.
LEMMA QuietTimer ==
    ASSUME RuntimeInv, UNCHANGED <<life, cur, pressed, rt, stored, cooling, noted>>,
           life \in {"on", "off"}, NEW c \in Clients, c <= cur,
           life = "on" /\ ~pressed => c = cur,
           NEW k \in ClientStates, client' = [client EXCEPT ![c] = k],
           k.url = client[c].url, k.status = client[c].status, k.phase = client[c].phase,
           k.attempts = client[c].attempts, k.due = client[c].due,
           Tidy(client[c]) => Tidy(k)
    PROVE  RuntimeInv'
<1>1. /\ rt \in RuntimeStates /\ client \in [Clients -> ClientStates] /\ cur \in Clients
  BY DEF RuntimeInv, RuntimeTypes
<1>2. /\ client' \in [Clients -> ClientStates] /\ client'[c] = k
      /\ \A d \in Clients : d # c => client'[d] = client[d]
  BY <1>1
<1>3. RuntimeTypes' /\ NothingBeforeStart'
  BY <1>2 DEF RuntimeInv, RuntimeTypes, NothingBeforeStart
<1>4. UnmadeAreIdle'
  BY <1>1, <1>2 DEF RuntimeInv, UnmadeAreIdle, Clients
<1>5. RuntimeShown'
  BY <1>1, <1>2 DEF RuntimeInv, RuntimeShown, Shows
<1>6. OldOnesDone'
  BY <1>1, <1>2 DEF RuntimeInv, OldOnesDone, Agrees, Clients
<1> QED BY <1>3, <1>4, <1>5, <1>6 DEF RuntimeInv

-----------------------------------------------------------------------------
(* Every step keeps it *)

\* The sockets and timers of a client.
LEMMA ClientStepKeeps == ASSUME PlugInv, NEW c \in Clients, ClientStep(c) PROVE PlugInv'
<1> DEFINE k == client[c]
<1>1. /\ RuntimeInv /\ SidebarInv /\ k \in ClientStates
      /\ UNCHANGED <<user, life, cur, cooling, noted, mounted, sent, cmds, pressed>>
      /\ cooling' \in BOOLEAN /\ noted' \in BOOLEAN
  BY DEF PlugInv, RuntimeInv, RuntimeTypes, ClientStep, OnOpen, Accepted, PairingRequired,
         OnClose, OnGhostClose, TimerFires, LeakedTimerFires, sockVars, uiVars
<1>2. up' \in SUBSET Urls /\ left' \in [changes : Nat, mounts : Nat, troubles : Nat]
  <2>1. /\ up \in SUBSET Urls /\ left \in [changes : Nat, mounts : Nat, troubles : Nat]
    BY <1>1 DEF SidebarInv, OtherTypes
  <2>2. CASE left.troubles > 0 /\ left' = [left EXCEPT !.troubles = @ - 1]
             /\ up' \subseteq up
    <3>1. left.troubles - 1 \in Nat
      BY <2>1, <2>2
    <3> QED BY <2>1, <2>2, <3>1
  <2>3. CASE UNCHANGED left /\ up' \subseteq up
    BY <2>1, <2>3
  <2>4. PairingRequired(c) => left.troubles > 0 /\ left' = [left EXCEPT !.troubles = @ - 1]
             /\ up' \subseteq up
    BY DEF PairingRequired
  <2>5. OnClose(c) => \/ UNCHANGED left /\ up' \subseteq up
                      \/ left.troubles > 0 /\ left' = [left EXCEPT !.troubles = @ - 1]
                         /\ up' \subseteq up
    BY DEF OnClose
  <2>6. (OnOpen(c) \/ Accepted(c) \/ OnGhostClose(c) \/ TimerFires(c) \/ LeakedTimerFires(c))
        => UNCHANGED left /\ up' \subseteq up
    BY DEF OnOpen, Accepted, OnGhostClose, TimerFires, LeakedTimerFires
  <2> QED BY <2>2, <2>3, <2>4, <2>5, <2>6 DEF ClientStep
<1>3. ~Unmade(k)
  <2>1. OnOpen(c) \/ Accepted(c) \/ PairingRequired(c) \/ OnClose(c) => k.ws # "none"
    BY DEF OnOpen, Accepted, PairingRequired, OnClose
  <2>2. /\ OnGhostClose(c) => k.ghosts # 0
        /\ LeakedTimerFires(c) => k.leaked # 0
        /\ TimerFires(c) => k.timer # "none"
    <3>1. k.ghosts \in Nat /\ k.leaked \in Nat
      BY <1>1 DEF ClientStates
    <3>2. ASSUME OnGhostClose(c) PROVE k.ghosts > 0
      BY <3>2 DEF OnGhostClose
    <3>3. ASSUME LeakedTimerFires(c) PROVE k.leaked > 0
      BY <3>3 DEF LeakedTimerFires
    <3>4. ASSUME TimerFires(c) PROVE k.timer # "none"
      BY <3>4 DEF TimerFires
    <3> QED BY <3>1, <3>2, <3>3, <3>4
  <2> QED BY <2>1, <2>2 DEF ClientStep, Unmade
<1>4. c <= cur /\ life \in {"on", "off"}
  BY <1>1, <1>3, MadeClients
<1>5. (life = "on" /\ ~pressed) => IF c = cur THEN Tidy(k) ELSE Done(k)
  BY <1>1, <1>3, MadeClients DEF RuntimeInv, OldOnesDone
<1>6. k.due \in BOOLEAN
  BY <1>1 DEF ClientStates
<1> DEFINE Kept == RuntimeInv' /\ rt'.set = rt.set
<1>7. ASSUME OnOpen(c) PROVE Kept
  <2> DEFINE new == [k EXCEPT !.ws = "open", !.attempts = 0, !.due = FALSE,
                              !.phase = "idle"]
  <2>1. 0 \in 0..MaxAttempts
    BY PluginAssumption
  <2>2. new \in ClientStates /\ new.url = k.url /\ (Tidy(k) => Tidy(new))
    BY <1>1, <1>7, <2>1 DEF ClientStates, Sockets, Phases, Tidy, IsLive, OnOpen
  <2>3. Report(c, new, FALSE, {}) /\ ~Done(k)
    BY <1>7 DEF OnOpen, Done
  <2> HIDE DEF new
  <2> QED BY <1>1, <1>4, <1>5, <2>2, <2>3, ReportKeeps
<1>8. ASSUME Accepted(c) PROVE Kept
  <2> DEFINE new == [k EXCEPT !.status = "connected", !.auth = "authenticated"]
  <2>1. new \in ClientStates /\ new.url = k.url /\ new.due = k.due
        /\ (Tidy(k) => Tidy(new))
    BY <1>1, <1>8 DEF ClientStates, Statuses, Auths, Tidy, IsLive
  <2>2. Report(c, new, k.due, {"auth"}) /\ ~Done(k)
    BY <1>8 DEF Accepted, Done
  <2> HIDE DEF new
  <2> QED BY <1>1, <1>4, <1>5, <1>6, <2>1, <2>2, ReportKeeps
<1>9. ASSUME PairingRequired(c) PROVE Kept
  <2> DEFINE new == [k EXCEPT !.auth = "pairing-required"]
  <2>1. new \in ClientStates /\ new.url = k.url /\ new.due = k.due
        /\ (Tidy(k) => Tidy(new))
    BY <1>1, <1>9 DEF ClientStates, Auths, Tidy, IsLive
  <2>2. Report(c, new, k.due, {"auth"}) /\ ~Done(k)
    BY <1>9 DEF PairingRequired, Done
  <2> HIDE DEF new
  <2> QED BY <1>1, <1>4, <1>5, <1>6, <2>1, <2>2, ReportKeeps
<1>10. ASSUME OnClose(c) PROVE Kept
  <2>1. IsLive(k) /\ ~Done(k) /\ Report(c, Lost(k, FALSE), k.due, {"auth"})
    BY <1>10 DEF OnClose, IsLive, Done
  <2>2. /\ Lost(k, FALSE) \in ClientStates /\ Lost(k, FALSE).url = k.url
        /\ Tidy(k) => Tidy(Lost(k, FALSE))
        /\ k.due => Lost(k, FALSE).due
    BY <1>1, <2>1, LostFields
  <2> QED BY <1>1, <1>4, <1>5, <1>6, <2>1, <2>2, ReportKeeps
<1>11. ASSUME OnGhostClose(c) PROVE Kept
  <2>1. k.ghosts > 0 /\ Report(c, Lost(k, TRUE), k.due, {"auth"})
    BY <1>11 DEF OnGhostClose
  <2>3. ~Tidy(k)
    BY <1>1, <2>1 DEF Tidy, ClientStates
  <2>2. /\ Lost(k, TRUE) \in ClientStates /\ Lost(k, TRUE).url = k.url
        /\ Done(k) => Done(Lost(k, TRUE))
        /\ k.due => Lost(k, TRUE).due
    BY <1>1, <2>1, LostFields
  <2> QED BY <1>1, <1>4, <1>5, <1>6, <2>1, <2>2, <2>3, ReportKeeps
<1>12. ASSUME TimerFires(c) PROVE Kept
  <2> DEFINE new == [k EXCEPT !.timer = "none"]
  <2>1. /\ new \in ClientStates /\ new.url = k.url /\ new.status = k.status
        /\ new.phase = k.phase /\ new.attempts = k.attempts /\ new.due = k.due
        /\ new.timer = "none" /\ (Tidy(k) => Tidy(new)) /\ ~Done(k)
        /\ (IsLive(new) <=> IsLive(k))
    BY <1>1, <1>12 DEF ClientStates, Timers, Tidy, IsLive, Done, TimerFires
  <2>2. IF IsLive(new) THEN client' = [client EXCEPT ![c] = new] /\ UNCHANGED <<rt, stored>>
        ELSE Report(c, Connected(new), FALSE, {"status", "auth"})
    BY <1>12 DEF TimerFires
  <2> HIDE DEF new
  <2>3. /\ Connected(new) \in ClientStates /\ Connected(new).url = k.url
        /\ Tidy(k) => Tidy(Connected(new))
    BY <2>1, ConnectedFields
  <2>4. ASSUME IsLive(new) PROVE Kept
    BY <1>1, <1>4, <1>5, <2>1, <2>2, <2>4, QuietTimer
  <2>5. ASSUME ~IsLive(new) PROVE Kept
    BY <1>1, <1>4, <1>5, <2>1, <2>2, <2>3, <2>5, ReportKeeps
  <2> QED BY <2>4, <2>5
<1>13. ASSUME LeakedTimerFires(c) PROVE Kept
  <2> DEFINE new == [k EXCEPT !.leaked = @ - 1]
  <2>1. /\ new \in ClientStates /\ new.url = k.url /\ new.status = k.status
        /\ new.phase = k.phase /\ new.attempts = k.attempts /\ new.due = k.due
        /\ ~Tidy(k) /\ ~Done(k)
    BY <1>1, <1>13 DEF ClientStates, Tidy, Done, LeakedTimerFires
  <2>2. IF IsLive(new) THEN client' = [client EXCEPT ![c] = new] /\ UNCHANGED <<rt, stored>>
        ELSE Report(c, Connected(new), FALSE, {"status", "auth"})
    BY <1>13 DEF LeakedTimerFires
  <2> HIDE DEF new
  <2>3. /\ Connected(new) \in ClientStates /\ Connected(new).url = k.url
    BY <2>1, ConnectedFields
  <2>4. ASSUME IsLive(new) PROVE Kept
    BY <1>1, <1>4, <1>5, <2>1, <2>2, <2>4, QuietTimer
  <2>5. ASSUME ~IsLive(new) PROVE Kept
    BY <1>1, <1>4, <1>5, <2>1, <2>2, <2>3, <2>5, ReportKeeps
  <2> QED BY <2>4, <2>5
<1>14. Kept
  BY <1>7, <1>8, <1>9, <1>10, <1>11, <1>12, <1>13 DEF ClientStep
<1>15. SidebarInv'
  BY <1>1, <1>2, <1>14, SidebarStays DEF SidebarInv, OtherTypes, SidebarNeedsRuntime
<1> QED BY <1>14, <1>15 DEF PlugInv

\* A log line.
LEMMA PublishKeeps ==
    ASSUME RuntimeInv, UNCHANGED <<life, cur, pressed>>, Publish,
           cooling' \in BOOLEAN, noted' \in BOOLEAN
    PROVE  RuntimeInv' /\ rt'.set = rt.set
<1>1. /\ rt \in RuntimeStates /\ client[cur] \in ClientStates
      /\ UNCHANGED <<rt, client>> /\ stored' = Snapshot(rt, client[cur])
  BY DEF RuntimeInv, RuntimeTypes, Publish
<1>2. stored' \in Snapshots
  BY <1>1, SnapshotFields
<1>3. RuntimeTypes' /\ NothingBeforeStart' /\ UnmadeAreIdle' /\ OldOnesDone'
  BY <1>1, <1>2 DEF RuntimeInv, RuntimeTypes, NothingBeforeStart, UnmadeAreIdle,
     OldOnesDone
<1>4. RuntimeShown'
  BY <1>1 DEF RuntimeInv, RuntimeShown, Shows, Snapshot
<1> QED BY <1>1, <1>3, <1>4 DEF RuntimeInv

LEMMA NudgeKeeps ==
    ASSUME RuntimeInv, life = "on", UNCHANGED <<life, cur, pressed>>, Nudge
    PROVE  RuntimeInv' /\ rt'.set = rt.set
<1> DEFINE k == client[cur]
           new == IF rt.phase = "standby" THEN Woken(k) ELSE Nudged(k)
           always == IF IsLive(k) THEN {} ELSE {"status", "auth"}
<1>1. k \in ClientStates /\ cur \in Clients /\ cooling' \in BOOLEAN /\ noted' \in BOOLEAN
  BY DEF RuntimeInv, RuntimeTypes, Nudge, Quiet
<1>2. new \in ClientStates /\ new.url = k.url /\ (Tidy(k) => Tidy(new))
  BY <1>1, NudgedFields
<1>3. CASE Quiet /\ UNCHANGED <<cooling, noted>>
  BY <1>3, RuntimeStays DEF Quiet, RuntimeInv, RuntimeTypes
<1>4. CASE Quiet
  BY <1>1, <1>4 DEF Quiet, RuntimeInv, RuntimeTypes, NothingBeforeStart, UnmadeAreIdle,
                    RuntimeShown, OldOnesDone
<1>5. CASE Publish
  BY <1>1, <1>5, PublishKeeps
<1>6. CASE Report(cur, new, FALSE, always)
  <2> HIDE DEF new, always
  <2>1. life = "on" /\ ~pressed => Tidy(new)
    BY <1>2 DEF RuntimeInv, OldOnesDone
  <2>2. cur <= cur
    BY <1>1 DEF Clients
  <2> QED BY <1>1, <1>2, <1>6, <2>1, <2>2, ReportKeeps
<1> HIDE DEF new, always
<1> QED BY <1>3, <1>4, <1>5, <1>6 DEF Nudge, new, always

\* The client is replaced when the URL changes.
LEMMA UpdateKeeps ==
    ASSUME RuntimeInv, life = "on", NEW s \in Settings, UpdateSettings(s),
           UNCHANGED <<life, pressed, cooling, noted>>
    PROVE  RuntimeInv' /\ rt'.set = s
<1> DEFINE k == client[cur]
<1>1. /\ rt \in RuntimeStates /\ client \in [Clients -> ClientStates] /\ cur \in Clients
      /\ k \in ClientStates /\ k.url = rt.set.url /\ s.url \in Urls
      /\ cooling' \in BOOLEAN /\ noted' \in BOOLEAN
  BY PluginAssumption DEF RuntimeInv, RuntimeTypes, RuntimeShown
<1> DEFINE set == [rt EXCEPT !.set = s]
<1>2. /\ set \in RuntimeStates /\ set.set = s /\ set.status = rt.status
      /\ set.phase = rt.phase
  BY <1>1 DEF RuntimeStates
<1>3. NothingBeforeStart'
  BY DEF NothingBeforeStart
<1>4. CASE s.url = rt.set.url
  <2>1. rt' = set /\ stored' = Snapshot(set, k) /\ UNCHANGED <<client, cur>>
    BY <1>4 DEF UpdateSettings
  <2> HIDE DEF set
  <2>2. stored' \in Snapshots /\ Shows(stored', set, k)
    BY <1>1, <1>2, <2>1, SnapshotFields DEF Shows, Snapshot
  <2>3. RuntimeTypes'
    BY <1>1, <1>2, <2>1, <2>2 DEF RuntimeInv, RuntimeTypes
  <2>4. UnmadeAreIdle' /\ RuntimeShown'
    BY <1>1, <1>2, <1>4, <2>1, <2>2 DEF RuntimeInv, UnmadeAreIdle, RuntimeShown
  <2>5. OldOnesDone'
    BY <1>2, <2>1 DEF RuntimeInv, OldOnesDone, Agrees
  <2> QED BY <1>2, <1>3, <2>1, <2>3, <2>4, <2>5 DEF RuntimeInv
<1>5. CASE s.url # rt.set.url
  <2> DEFINE old   == Disconnected(k)
             blank == NewClient(s.url)
             new   == Connected(blank)
             r1    == Told(set, k, old, {"auth"})
             r     == Told(r1, blank, new, {"status", "auth"})
  <2>1. /\ cur < MaxClients /\ cur' = cur + 1 /\ cur + 1 \in Clients
        /\ client' = [client EXCEPT ![cur] = old, ![cur + 1] = new]
        /\ rt' = r /\ stored' = Snapshot(r, new)
    BY <1>1, <1>5, PluginAssumption DEF UpdateSettings, Clients
  <2>2. /\ old \in ClientStates /\ old.status = "disconnected" /\ old.phase = "idle"
        /\ k.leaked = 0 => Done(old)
    BY <1>1, DisconnectedFields
  <2>3. /\ blank \in ClientStates /\ blank.url = s.url /\ Tidy(blank)
        /\ blank.timer = "none" /\ blank.status = "disconnected" /\ blank.phase = "idle"
    BY <1>1, NewClientFields DEF Tidy
  <2>4. new \in ClientStates /\ new.url = s.url /\ Tidy(new)
    BY <2>3, ConnectedFields
  <2> HIDE DEF set, k, old, blank, new
  <2>5. /\ r1 \in RuntimeStates /\ r1.set = s
        /\ Agrees(rt, k) => Agrees(r1, blank)
    BY <1>1, <1>2, <2>2, <2>3, ToldFields DEF Agrees
  <2> HIDE DEF r1
  <2>6. /\ r \in RuntimeStates /\ r.set = s
        /\ Agrees(r1, blank) => Agrees(r, new)
    BY <2>3, <2>4, <2>5, ToldFields DEF Agrees
  <2> HIDE DEF r
  <2>7. stored' \in Snapshots /\ Shows(stored', r, new)
    BY <2>1, <2>4, <2>6, SnapshotFields DEF Shows, Snapshot
  <2>8. /\ client' \in [Clients -> ClientStates]
        /\ client'[cur] = old /\ client'[cur + 1] = new
        /\ \A c \in Clients : c # cur /\ c # cur + 1 => client'[c] = client[c]
    BY <1>1, <2>1, <2>2, <2>4 DEF Clients
  <2>9. RuntimeTypes'
    BY <1>1, <2>1, <2>6, <2>7, <2>8 DEF RuntimeInv, RuntimeTypes
  <2>10. UnmadeAreIdle'
    BY <1>1, <2>1, <2>8 DEF RuntimeInv, UnmadeAreIdle, Clients
  <2>11. RuntimeShown'
    BY <2>1, <2>4, <2>6, <2>7, <2>8 DEF RuntimeShown
  <2>12. OldOnesDone'
    <3> SUFFICES ASSUME life' = "on", ~pressed'
                 PROVE  /\ Agrees(rt', client'[cur']) /\ Tidy(client'[cur'])
                        /\ \A c \in Clients : c < cur' => Done(client'[c])
      BY DEF OldOnesDone
    <3>1. /\ Agrees(rt, k) /\ Tidy(k)
          /\ \A c \in Clients : c < cur => Done(client[c])
      BY DEF RuntimeInv, OldOnesDone, k
    <3>2. Agrees(rt', client'[cur']) /\ Tidy(client'[cur'])
      BY <2>1, <2>4, <2>5, <2>6, <2>8, <3>1
    <3>3. ASSUME NEW c \in Clients, c < cur' PROVE Done(client'[c])
      <4>1. CASE c = cur
        BY <2>2, <2>8, <3>1, <4>1 DEF Tidy
      <4>2. CASE c # cur
        BY <1>1, <2>1, <2>8, <3>1, <3>3, <4>2 DEF Clients
      <4> QED BY <4>1, <4>2
    <3> QED BY <3>2, <3>3
  <2> QED BY <1>3, <2>1, <2>6, <2>9, <2>10, <2>11, <2>12 DEF RuntimeInv
<1> QED BY <1>4, <1>5

LEMMA PairKeeps ==
    ASSUME RuntimeInv, life = "on", Pair, UNCHANGED <<life, cur, pressed, cooling, noted>>
    PROVE  RuntimeInv' /\ rt'.set = rt.set
<1> DEFINE k == client[cur]
           new == [k EXCEPT !.auth = "authenticating"]
<1>1. /\ k \in ClientStates /\ cur \in Clients /\ k.due \in BOOLEAN /\ cur <= cur
      /\ cooling' \in BOOLEAN /\ noted' \in BOOLEAN
  BY DEF RuntimeInv, RuntimeTypes, ClientStates, Clients
<1>2. new \in ClientStates /\ new.url = k.url /\ new.due = k.due /\ (Tidy(k) => Tidy(new))
  BY <1>1 DEF ClientStates, Auths, Tidy, IsLive
<1>3. Publish \/ Report(cur, new, k.due, {"auth"})
  BY DEF Pair
<1>4. life = "on" /\ ~pressed => Tidy(new)
  BY <1>2 DEF RuntimeInv, OldOnesDone
<1> HIDE DEF new
<1>5. CASE Publish
  BY <1>1, <1>5, PublishKeeps
<1>6. CASE Report(cur, new, k.due, {"auth"})
  BY <1>1, <1>2, <1>4, <1>6, ReportKeeps
<1> QED BY <1>3, <1>5, <1>6

\* The tail of the commands once their head is carried out.
LEMMA TailObeys ==
    ASSUME NEW s \in Seq(Commands), s # <<>>, NEW set, NEW x, WillObey(s, set, x)
    PROVE  IF Head(s).kind = "update" THEN WillObey(Tail(s), Head(s).set, x)
           ELSE WillObey(Tail(s), set, x)
<1>1. /\ Tail(s) \in Seq(Commands) /\ Len(s) \in Nat /\ Len(s) > 0
      /\ Len(Tail(s)) = Len(s) - 1 /\ Head(s) = s[1]
      /\ \A i \in 1..(Len(s) - 1) : Tail(s)[i] = s[i + 1]
  OBVIOUS
<1>2. ASSUME NEW i \in 1..Len(s), NoUpdate(s, i) PROVE NoUpdate(Tail(s), i - 1)
  BY <1>1, <1>2 DEF NoUpdate
<1>3. CASE set = x /\ NoUpdate(s, 0)
  <2>1. s[1].kind # "update" /\ NoUpdate(Tail(s), 0)
    BY <1>1, <1>3 DEF NoUpdate
  <2> QED BY <1>1, <1>3, <2>1 DEF WillObey
<1>4. ASSUME NEW i \in 1..Len(s), s[i].kind = "update", s[i].set = x, NoUpdate(s, i)
      PROVE  IF Head(s).kind = "update" THEN WillObey(Tail(s), Head(s).set, x)
             ELSE WillObey(Tail(s), set, x)
  <2>1. CASE i = 1
    BY <1>1, <1>2, <1>4, <2>1 DEF WillObey
  <2>2. CASE i # 1
    <3>1. i - 1 \in 1..Len(Tail(s)) /\ Tail(s)[i - 1] = s[i] /\ NoUpdate(Tail(s), i - 1)
      BY <1>1, <1>2, <1>4, <2>2
    <3> QED BY <1>4, <3>1 DEF WillObey
  <2> QED BY <2>1, <2>2
<1> QED BY <1>3, <1>4 DEF WillObey

\* The same once a command more is under way.
LEMMA AppendObeys ==
    ASSUME NEW s \in Seq(Commands), NEW c \in Commands, NEW set, NEW x
    PROVE  /\ c.kind # "update" /\ WillObey(s, set, x) => WillObey(Append(s, c), set, x)
           /\ c.kind = "update" => WillObey(Append(s, c), set, c.set)
<1> DEFINE t == Append(s, c)
<1>1. /\ t \in Seq(Commands) /\ Len(s) \in Nat /\ Len(t) = Len(s) + 1
      /\ t[Len(s) + 1] = c /\ \A i \in 1..Len(s) : t[i] = s[i]
  OBVIOUS
<1> HIDE DEF t
<1>2. ASSUME c.kind # "update", NEW i \in 0..Len(s), NoUpdate(s, i)
      PROVE  NoUpdate(t, i)
  BY <1>1, <1>2 DEF NoUpdate
<1>3. ASSUME c.kind # "update", WillObey(s, set, x)
      PROVE  WillObey(t, set, x)
  BY <1>1, <1>2, <1>3 DEF WillObey
<1>4. NoUpdate(t, Len(s) + 1)
  BY <1>1 DEF NoUpdate
<1>5. ASSUME c.kind = "update" PROVE WillObey(t, set, c.set)
  BY <1>1, <1>4, <1>5 DEF WillObey
<1> QED BY <1>3, <1>5 DEF t

LEMMA StartKeeps == ASSUME PlugInv, Start PROVE PlugInv'
<1>1. /\ RuntimeInv /\ SidebarInv /\ life = "read" /\ life' = "on" /\ cur' = cur
      /\ UNCHANGED <<user, up, cooling, noted, mounted, sent, cmds, pressed, left>>
      /\ cur = 1 /\ rt.status = "disconnected" /\ rt.phase = "idle" /\ cur \in Clients
      /\ rt \in RuntimeStates /\ client \in [Clients -> ClientStates]
  BY DEF PlugInv, RuntimeInv, RuntimeTypes, NothingBeforeStart, Start, uiVars
<1>2. rt.set.url \in Urls
  BY <1>1, PluginAssumption DEF RuntimeStates
<1> DEFINE blank == NewClient(rt.set.url)
           new   == Connected(blank)
           r     == Told(rt, blank, new, {"status", "auth"})
<1>3. client' = [client EXCEPT ![cur] = new] /\ rt' = r /\ stored' = Snapshot(r, new)
  BY DEF Start
<1>4. /\ blank \in ClientStates /\ blank.url = rt.set.url /\ Tidy(blank)
      /\ blank.timer = "none" /\ blank.status = "disconnected" /\ blank.phase = "idle"
  BY <1>2, NewClientFields DEF Tidy
<1>5. new \in ClientStates /\ new.url = rt.set.url /\ Tidy(new)
  BY <1>4, ConnectedFields
<1> HIDE DEF blank, new
<1>6. r \in RuntimeStates /\ r.set = rt.set /\ Agrees(r, new)
  BY <1>1, <1>4, <1>5, ToldFields DEF Agrees
<1> HIDE DEF r
<1>7. stored' \in Snapshots /\ Shows(stored', r, new)
  BY <1>3, <1>5, <1>6, SnapshotFields DEF Shows, Snapshot
<1>8. /\ client' \in [Clients -> ClientStates] /\ client'[cur] = new
      /\ \A c \in Clients : c # cur => client'[c] = client[c]
  BY <1>1, <1>3, <1>5
<1>9. RuntimeTypes'
  BY <1>1, <1>3, <1>6, <1>7, <1>8 DEF RuntimeInv, RuntimeTypes
<1>10. NothingBeforeStart' /\ UnmadeAreIdle'
  BY <1>1, <1>8 DEF RuntimeInv, NothingBeforeStart, UnmadeAreIdle, Clients
<1>11. RuntimeShown'
  BY <1>1, <1>3, <1>5, <1>6, <1>7, <1>8 DEF RuntimeShown
<1>12. OldOnesDone'
  BY <1>1, <1>3, <1>5, <1>6, <1>8 DEF OldOnesDone, Clients
<1>13. SidebarInv'
  BY <1>1, <1>3, <1>6, SidebarStays DEF SidebarInv, OtherTypes
<1> QED BY <1>9, <1>10, <1>11, <1>12, <1>13 DEF PlugInv, RuntimeInv

LEMMA ShutdownKeeps == ASSUME PlugInv, Shutdown PROVE PlugInv'
<1>1. /\ RuntimeInv /\ SidebarInv /\ life' = "off"
      /\ UNCHANGED <<user, up, cur, cooling, noted, stored, pressed, left>>
      /\ mounted' = FALSE /\ sent' = None /\ cmds' = <<>>
      /\ rt \in RuntimeStates /\ client \in [Clients -> ClientStates] /\ cur \in Clients
      /\ client[cur] \in ClientStates
  BY DEF PlugInv, RuntimeInv, RuntimeTypes, Shutdown
<1> DEFINE old == Disconnected(client[cur])
<1>2. old \in ClientStates
  BY <1>1, DisconnectedFields
<1>3. client' = [client EXCEPT ![cur] = old]
  BY DEF Shutdown
<1> HIDE DEF old
<1>4. /\ client' \in [Clients -> ClientStates] /\ client'[cur] = old
      /\ \A c \in Clients : c # cur => client'[c] = client[c]
  BY <1>1, <1>2, <1>3
<1>5. rt' \in RuntimeStates
  BY <1>1, <1>2, <1>4, ToldFields DEF Shutdown
<1>6. RuntimeInv'
  BY <1>1, <1>4, <1>5 DEF RuntimeInv, RuntimeTypes, NothingBeforeStart, UnmadeAreIdle,
     RuntimeShown, OldOnesDone, Clients
<1>7. SidebarInv'
  <2>1. cmds' \in Seq(Commands) /\ Len(cmds') = 0
    BY <1>1
  <2>2. OtherTypes'
    BY <1>1, <2>1 DEF SidebarInv, OtherTypes
  <2>3. ReconnectsArePressed'
    BY <2>1 DEF ReconnectsArePressed
  <2> QED BY <1>1, <2>2, <2>3 DEF SidebarInv, SidebarNeedsRuntime, Forwarded
<1> QED BY <1>6, <1>7 DEF PlugInv

LEMMA CommandKeeps == ASSUME PlugInv, Command PROVE PlugInv'
<1> DEFINE h == Head(cmds)
<1>1. /\ RuntimeInv /\ SidebarInv /\ life = "on" /\ cmds # <<>> /\ cmds' = Tail(cmds)
      /\ UNCHANGED <<user, up, life, mounted, sent, pressed, left>>
      /\ cmds \in Seq(Commands) /\ cooling \in BOOLEAN /\ noted \in BOOLEAN
      /\ cur \in Clients /\ client[cur] \in ClientStates
  BY DEF PlugInv, RuntimeInv, RuntimeTypes, SidebarInv, OtherTypes, Command
<1>2. /\ h \in Commands /\ h = cmds[1] /\ cmds' \in Seq(Commands) /\ Len(cmds) \in Nat
      /\ Len(cmds') = Len(cmds) - 1 /\ Len(cmds) > 0
      /\ \A i \in 1..(Len(cmds) - 1) : cmds'[i] = cmds[i + 1]
  BY <1>1
<1>3. RuntimeInv' /\ rt'.set = IF h.kind = "update" THEN h.set ELSE rt.set
  <2>1. CASE h.kind = "request_snapshot"
    BY <1>1, <2>1, PublishKeeps DEF Command
  <2>2. CASE h.kind = "reconnect"
    <3>1. pressed
      BY <1>1, <1>2, <2>2 DEF SidebarInv, ReconnectsArePressed
    <3> DEFINE new == Reconnected(client[cur])
    <3>2. new \in ClientStates /\ new.url = client[cur].url /\ cur <= cur
      BY <1>1, ReconnectedFields DEF Clients
    <3>3. /\ Report(cur, new, FALSE, {"status", "phase", "auth"})
          /\ UNCHANGED <<cur, cooling, noted>>
      BY <2>2 DEF Command
    <3> HIDE DEF new
    <3> QED BY <1>1, <2>2, <3>1, <3>2, <3>3, ReportKeeps
  <2>3. CASE h.kind = "nudge"
    BY <1>1, <2>3, NudgeKeeps DEF Command
  <2>4. CASE h.kind = "update"
    <3>1. h.set \in Settings
      BY <1>2, <2>4 DEF Commands
    <3>2. UpdateSettings(h.set) /\ UNCHANGED <<cooling, noted>>
      BY <2>4 DEF Command
    <3> QED BY <1>1, <2>4, <3>1, <3>2, UpdateKeeps
  <2>5. CASE h.kind = "pair"
    BY <1>1, <2>5, PairKeeps DEF Command
  <2> QED BY <1>2, <2>1, <2>2, <2>3, <2>4, <2>5 DEF Commands
<1>4. OtherTypes' /\ SidebarNeedsRuntime'
  BY <1>1, <1>2 DEF SidebarInv, OtherTypes, SidebarNeedsRuntime
<1>5. ReconnectsArePressed'
  BY <1>1, <1>2 DEF SidebarInv, ReconnectsArePressed
<1>6. Forwarded'
  BY <1>1, <1>3, TailObeys DEF SidebarInv, Forwarded
<1> QED BY <1>3, <1>4, <1>5, <1>6 DEF PlugInv, SidebarInv

\* The user and the sidebar.
LEMMA SidebarKeeps ==
    ASSUME PlugInv,
           \/ \E s \in Settings : ChangeSettings(s)
           \/ Mount \/ Unmount \/ ForwardSettings \/ PressReconnect \/ PressPair
    PROVE  PlugInv'
<1>1. /\ RuntimeInv /\ SidebarInv /\ UNCHANGED runtimeVars
      /\ cmds \in Seq(Commands) /\ user \in Settings /\ up \in SUBSET Urls
      /\ left \in [changes : Nat, mounts : Nat, troubles : Nat]
      /\ sent \in Settings \cup {None} /\ mounted \in BOOLEAN /\ pressed \in BOOLEAN
  BY DEF PlugInv, RuntimeInv, RuntimeTypes, SidebarInv, OtherTypes, ChangeSettings, Mount,
         Unmount, ForwardSettings, PressReconnect, PressPair, restVars
<1>2. (pressed => pressed') /\ pressed' \in BOOLEAN
  BY <1>1 DEF ChangeSettings, Mount, Unmount, ForwardSettings, PressReconnect, PressPair,
              restVars
<1>3. RuntimeInv'
  BY <1>1, <1>2, RuntimeStays DEF runtimeVars
<1>4. UNCHANGED <<life, rt, up>>
  BY <1>1 DEF runtimeVars
<1>5. left' \in [changes : Nat, mounts : Nat, troubles : Nat]
  <2>1. CASE \E s \in Settings : ChangeSettings(s)
    <3>1. left.changes > 0 /\ left' = [left EXCEPT !.changes = @ - 1]
      BY <2>1 DEF ChangeSettings
    <3>2. left.changes - 1 \in Nat
      BY <1>1, <3>1
    <3> QED BY <1>1, <3>1, <3>2
  <2>2. CASE Mount
    <3>1. left.mounts > 0 /\ left' = [left EXCEPT !.mounts = @ - 1]
      BY <2>2 DEF Mount
    <3>2. left.mounts - 1 \in Nat
      BY <1>1, <3>1
    <3> QED BY <1>1, <3>1, <3>2
  <2>3. CASE PressReconnect
    <3>1. left.troubles > 0 /\ left' = [left EXCEPT !.troubles = @ - 1]
      BY <2>3 DEF PressReconnect
    <3>2. left.troubles - 1 \in Nat
      BY <1>1, <3>1
    <3> QED BY <1>1, <3>1, <3>2
  <2>4. CASE Unmount \/ ForwardSettings \/ PressPair
    BY <1>1, <2>4 DEF Unmount, ForwardSettings, PressPair
  <2> QED BY <2>1, <2>2, <2>3, <2>4
<1>6. CASE \E s \in Settings : ChangeSettings(s)
  <2>1. user' \in Settings /\ UNCHANGED <<mounted, sent, cmds, pressed>>
    BY <1>6 DEF ChangeSettings, restVars, uiVars
  <2> QED BY <1>1, <1>3, <1>4, <1>5, <2>1, SidebarStays
             DEF PlugInv, SidebarInv, SidebarNeedsRuntime
<1>7. CASE Mount
  <2> DEFINE ask == [kind |-> "request_snapshot"]
             nudge == [kind |-> "nudge"]
  <2>1. /\ life = "on" /\ ~mounted /\ mounted' = TRUE
        /\ UNCHANGED <<user, pressed, sent>> /\ sent = None
        /\ cmds' = Append(Append(cmds, ask), nudge)
    <3>1. cmds \o <<ask, nudge>> = Append(Append(cmds, ask), nudge)
      BY <1>1
    <3> QED BY <1>1, <1>7, <3>1 DEF Mount, restVars, SidebarInv, SidebarNeedsRuntime
  <2>2. ask \in Commands /\ nudge \in Commands
    BY DEF Commands
  <2>3. cmds' \in Seq(Commands)
    BY <1>1, <2>1, <2>2
  <2>4. ReconnectsArePressed'
    <3> SUFFICES ASSUME NEW i \in 1..Len(cmds'), cmds'[i].kind = "reconnect" PROVE pressed
      BY <2>1 DEF ReconnectsArePressed
    <3>1. i \in 1..Len(cmds) /\ cmds[i].kind = "reconnect"
      BY <1>1, <2>1, <2>2
    <3> QED BY <1>1, <3>1 DEF SidebarInv, ReconnectsArePressed
  <2> QED BY <1>1, <1>3, <1>4, <1>5, <2>1, <2>3, <2>4
             DEF PlugInv, SidebarInv, OtherTypes, SidebarNeedsRuntime, Forwarded
<1>8. CASE Unmount
  BY <1>1, <1>3, <1>4, <1>5, <1>8 DEF Unmount, restVars, PlugInv, SidebarInv, OtherTypes,
     SidebarNeedsRuntime, ReconnectsArePressed, Forwarded
<1> DEFINE Written(c) == cmds' = Append(cmds, c) /\ c \in Commands
<1>9. ASSUME NEW c, Written(c), c.kind = "reconnect" => pressed'
      PROVE  cmds' \in Seq(Commands) /\ ReconnectsArePressed'
  <2>1. cmds' \in Seq(Commands) /\ Len(cmds') = Len(cmds) + 1 /\ Len(cmds) \in Nat
        /\ cmds'[Len(cmds) + 1] = c /\ \A i \in 1..Len(cmds) : cmds'[i] = cmds[i]
    BY <1>1, <1>9
  <2> HIDE DEF Written
  <2> QED BY <1>1, <1>2, <1>9, <2>1 DEF SidebarInv, ReconnectsArePressed
<1>10. CASE ForwardSettings
  <2> DEFINE c == [kind |-> "update", set |-> user]
  <2>1. /\ mounted /\ sent' = user /\ UNCHANGED <<user, mounted, pressed>>
        /\ Written(c) /\ c.kind = "update" /\ c.set = user
    BY <1>1, <1>10 DEF ForwardSettings, restVars, Commands
  <2>2. cmds' \in Seq(Commands) /\ ReconnectsArePressed'
    BY <1>9, <2>1
  <2>3. WillObey(cmds', rt'.set, sent')
    BY <1>1, <1>4, <2>1, AppendObeys
  <2> QED BY <1>1, <1>3, <1>4, <1>5, <2>1, <2>2, <2>3
             DEF PlugInv, SidebarInv, OtherTypes, SidebarNeedsRuntime, Forwarded
<1>11. CASE PressReconnect \/ PressPair
  <2>1. PICK c \in {[kind |-> "reconnect"], [kind |-> "pair"]} :
           cmds' = Append(cmds, c) /\ (c.kind = "reconnect" => pressed')
    BY <1>11 DEF PressReconnect, PressPair, Write
  <2>2. mounted /\ UNCHANGED <<user, mounted, sent>>
    BY <1>11 DEF PressReconnect, PressPair
  <2>3. Written(c) /\ c.kind # "update"
    BY <2>1 DEF Commands
  <2>4. cmds' \in Seq(Commands) /\ ReconnectsArePressed'
    BY <1>9, <2>1, <2>3
  <2>5. Forwarded'
    BY <1>1, <1>4, <2>2, <2>3, AppendObeys DEF SidebarInv, Forwarded
  <2> QED BY <1>1, <1>3, <1>4, <1>5, <2>2, <2>4, <2>5
             DEF PlugInv, SidebarInv, OtherTypes, SidebarNeedsRuntime
<1> QED BY <1>6, <1>7, <1>8, <1>10, <1>11

LEMMA NextKeeps == PlugInv /\ [Next]_vars => PlugInv'
<1> SUFFICES ASSUME PlugInv, [Next]_vars PROVE PlugInv'
  OBVIOUS
<1> USE DEF PlugInv
<1>1. CASE UNCHANGED vars
  BY <1>1 DEF vars, uiVars, RuntimeInv, RuntimeTypes, NothingBeforeStart, UnmadeAreIdle,
     RuntimeShown, OldOnesDone, SidebarInv, OtherTypes, SidebarNeedsRuntime,
     ReconnectsArePressed, Forwarded
<1>2. CASE \E c \in Clients : ClientStep(c)
  BY <1>2, ClientStepKeeps
<1>3. CASE \E u \in Urls : ServerStarts(u)
  <2>1. /\ up' \in SUBSET Urls /\ UNCHANGED <<life, rt, client, cur, cooling, noted, stored>>
        /\ UNCHANGED <<user, mounted, sent, cmds, pressed, left>>
    BY <1>3 DEF ServerStarts, sockVars, uiVars, SidebarInv, OtherTypes
  <2>2. RuntimeInv'
    BY <2>1, RuntimeStays DEF RuntimeInv, RuntimeTypes
  <2>3. SidebarInv'
    BY <2>1, SidebarStays DEF SidebarInv, OtherTypes, SidebarNeedsRuntime
  <2> QED BY <2>2, <2>3
<1>4. CASE ReadSettings
  <2>1. /\ life = "reading" /\ life' = "read" /\ rt' = [rt EXCEPT !.set = user]
        /\ UNCHANGED <<user, up, client, cur, cooling, noted, stored, pressed, left>>
        /\ UNCHANGED <<mounted, sent, cmds>> /\ ~mounted
        /\ rt \in RuntimeStates /\ user \in Settings
    BY <1>4 DEF ReadSettings, uiVars, SidebarInv, OtherTypes, SidebarNeedsRuntime,
                RuntimeInv, RuntimeTypes
  <2>2. rt' \in RuntimeStates /\ rt'.status = rt.status /\ rt'.phase = rt.phase
    BY <2>1 DEF RuntimeStates
  <2>3. RuntimeInv'
    BY <2>1, <2>2 DEF RuntimeInv, RuntimeTypes, NothingBeforeStart, UnmadeAreIdle,
                      RuntimeShown, OldOnesDone
  <2>4. SidebarInv'
    BY <2>1 DEF SidebarInv, OtherTypes, SidebarNeedsRuntime, ReconnectsArePressed, Forwarded
  <2> QED BY <2>3, <2>4
<1>5. CASE Start
  BY <1>5, StartKeeps
<1>6. CASE Shutdown
  BY <1>6, ShutdownKeeps
<1>7. CASE Activity
  <2>1. /\ life = "on" /\ Nudge /\ UNCHANGED <<life, cur, pressed>>
        /\ UNCHANGED <<user, up, mounted, sent, cmds, left>>
    BY <1>7 DEF Activity, uiVars
  <2>2. RuntimeInv' /\ rt'.set = rt.set
    BY <2>1, NudgeKeeps
  <2>3. SidebarInv'
    BY <2>1, <2>2, SidebarStays DEF SidebarInv, OtherTypes
  <2> QED BY <2>2, <2>3
<1>8. CASE CooldownEnds
  BY <1>8 DEF CooldownEnds, uiVars, RuntimeInv, RuntimeTypes, NothingBeforeStart,
     UnmadeAreIdle, RuntimeShown, OldOnesDone, SidebarInv, OtherTypes, SidebarNeedsRuntime,
     ReconnectsArePressed, Forwarded
<1>9. CASE \/ \E s \in Settings : ChangeSettings(s)
           \/ Mount \/ Unmount \/ ForwardSettings \/ PressReconnect \/ PressPair
  BY <1>9, SidebarKeeps
<1>10. CASE Command
  BY <1>10, CommandKeeps
<1> QED BY <1>1, <1>2, <1>3, <1>4, <1>5, <1>6, <1>7, <1>8, <1>9, <1>10 DEF Next

-----------------------------------------------------------------------------
(* The theorems *)

\* The inductive invariant of the runtime, its clients and its sidebar.
THEOREM PlugInvHolds == Spec => []PlugInv
<1> QED BY InitPlug, NextKeeps, PTL DEF Spec

\* The variables keep their types: the retries of a client stay within the
\* configured number, and no counter of late events goes below zero.
THEOREM TypeCorrect == Spec => []TypeOK
<1>1. PlugInv => TypeOK
  <2> SUFFICES ASSUME PlugInv PROVE TypeOK
    OBVIOUS
  <2>1. \A i \in DOMAIN cmds :
           cmds[i].kind \in {"request_snapshot", "reconnect", "nudge", "update", "pair"}
    BY DEF PlugInv, SidebarInv, OtherTypes, Commands
  <2>2. /\ user \in Settings /\ up \in SUBSET Urls
        /\ mounted \in BOOLEAN /\ sent \in Settings \cup {None}
    BY DEF PlugInv, SidebarInv, OtherTypes
  <2> QED BY <2>1, <2>2 DEF PlugInv, RuntimeInv, RuntimeTypes, TypeOK, ClientStates,
             RuntimeStates, Snapshots, Sockets, Timers
<1> QED BY <1>1, PlugInvHolds, PTL

\* updateSettings leaves no client behind that dials the old server again, or
\* whose late close event changes the status and the phase the runtime shows.
THEOREM OldClientsStayDone == Spec => []OldClientsAreDone
<1>1. PlugInv => OldClientsAreDone
  <2> SUFFICES ASSUME PlugInv, life = "on", ~pressed
               PROVE  /\ rt.status = client[cur].status /\ rt.phase = client[cur].phase
                      /\ \A c \in 1..(cur - 1) : client[c].ws = "none"
                            /\ client[c].timer = "none" /\ client[c].leaked = 0
    BY DEF OldClientsAreDone
  <2>1. \A c \in 1..(cur - 1) : c \in Clients /\ c < cur
    BY PluginAssumption DEF PlugInv, RuntimeInv, RuntimeTypes, Clients
  <2> QED BY <2>1 DEF PlugInv, RuntimeInv, OldOnesDone, Agrees, Done
<1> QED BY <1>1, PlugInvHolds, PTL

\* Whatever handler ran last, it logged after its last change: the snapshot in
\* session storage is the runtime as it is, the countdown excepted.
THEOREM StoredStaysCurrent == Spec => []StoredIsCurrent
<1>1. PlugInv => StoredIsCurrent
  <2> SUFFICES ASSUME PlugInv, life = "on" PROVE StoredIsCurrent
    BY DEF StoredIsCurrent
  <2>1. /\ Shows(stored, rt, client[cur]) /\ stored \in Snapshots
    BY DEF PlugInv, RuntimeInv, RuntimeTypes, RuntimeShown
  <2> DEFINE now == Snapshot(rt, client[cur])
  <2>2. [stored EXCEPT !.due = FALSE] = [now EXCEPT !.due = FALSE]
    <3>1. now \in Snapshots
      BY SnapshotFields DEF PlugInv, RuntimeInv, RuntimeTypes
    <3>2. /\ now.url = stored.url /\ now.status = stored.status /\ now.phase = stored.phase
          /\ now.auth = stored.auth /\ now.attempts = stored.attempts
      BY <2>1 DEF Shows, Snapshot
    <3> HIDE DEF now
    <3> QED BY <2>1, <3>1, <3>2 DEF Snapshots
  <2>3. stored.due => now.due
    BY <2>1 DEF Shows, Snapshot
  <2> QED BY <2>2, <2>3 DEF StoredIsCurrent
<1> QED BY <1>1, PlugInvHolds, PTL

\* A runtime that has carried out what an open sidebar forwarded obeys the
\* user's settings, and its client talks to the server they name.
THEOREM SettingsAreObeyed == Spec => []SettingsObeyed
<1>1. PlugInv => SettingsObeyed
  <2> SUFFICES ASSUME PlugInv, life = "on", mounted, sent = user, cmds = <<>>
               PROVE  rt.set = user /\ client[cur].url = user.url
    BY DEF SettingsObeyed
  <2>1. sent # None
    BY PluginAssumption DEF PlugInv, SidebarInv, OtherTypes
  <2>2. rt.set = user
    BY <2>1 DEF PlugInv, SidebarInv, Forwarded, WillObey
  <2>3. client[cur].url = rt.set.url
    BY DEF PlugInv, RuntimeInv, RuntimeShown
  <2> QED BY <2>2, <2>3
<1> QED BY <1>1, PlugInvHolds, PTL
=============================================================================
