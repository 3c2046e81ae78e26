# RemNote agent runtime: specifications and proofs

This directory holds TLA+ models of the RemNote agent runtime (`packages/`), the TLC runs that
check them on small instances and the TLAPS proofs of what holds for every instance. File names
below are relative to the repository's `packages/`.

## 1. The system

An MCP client (an AI assistant, the `remnote` command line, the Claude Desktop extension) calls
tools of a *companion server*, a Node process. The server owns no RemNote data: for each tool call
it sends a request over a WebSocket to the *bridge*, a plugin inside RemNote, which executes it
through the RemNote SDK and answers. A server accepts one bridge, which was paired with it once by
a six-digit code and from then on proves that it holds the pairing secret.

```
 MCP clients --HTTP/MCP--> http-server + tools --sendRequest--> websocket-server
                                                    |  auth-store (auth.json)
                                                    |  audit-log  (audit.jsonl)
                                                WebSocket
                                                    |
      sidebar (UI) <--session storage--> runtime + websocket-client --> rem-adapter, sdk-agent
                                                    |  pairing secret in RemNote storage
 daemon supervisor --spawns, signals--> the server process
```

### Components

| component | state | operations | interacts through | hard behaviours |
|---|---|---|---|---|
| `server/src/websocket-server.ts`, handshake | `client`, `clientAccepted`, `clientHello`, `grantedScopes`, `serverNonce`, hello timer | `handleConnection`, `handleClientHello`, `handlePairingConfirm`, `acceptBridge`, `handleClose`, `resetPairing`, `stop` | WebSocket messages, `AuthStore` | a client replaced while it closes; close events of clients no longer current; partial failure in a reset |
| same file, requests | `pendingRequests`, one timer each | `sendRequest`, `handleResponse`, timeout, connection loss | WebSocket messages, `AuditLog` | timeout against response against loss; requests that outlive their connection |
| `server/src/auth-store.ts` | pairing and challenge in memory, pairing in `auth.json` | `ensurePairingChallenge`, `completePairing`, `verifyBridgeProof`, `resetPairing`, `persist`, `loadOrCreate` | called by the server | memory ahead of the disk when a write fails; restart between the two; expiry |
| `server/src/audit-log.ts` | `audit.jsonl` | `append`, `readRecent` | called by `sendRequest` | failed or truncated appends |
| `server/src/tools/index.ts`, `schemas/`, `tools/annotations.ts` | none | publish schemas, parse, dispatch to a bridge action | MCP calls, `sendRequest` | three descriptions of every input (published, parsed, sent by the command line) that must agree; effects declared in hints and policies |
| `server/src/http-server.ts` | the map of MCP sessions | initialise, request, delete, `stop` | MCP SDK transports | sessions made while stopping; sessions nobody ends |
| `server/src/shutdown.ts`, `index.ts` | signal state, timer | start, signal, cleanup | both servers | cleanup against the timeout and a second signal |
| `server/src/daemon.ts` | lock file, pid file, state file, the child process | start, stop, restart, status, launchd | process table, ports, files | commands that race or are killed; stale pids |
| `server/src/remnote-cli/`, `server/mcpb/` | one MCP session for one call | connect, call, close | HTTP/MCP | ends before its cleanup; payloads built by hand |
| `bridge/src/bridge/websocket-client.ts` | `ws`, status, auth status, scopes, pairing id, secret, retry timer, attempts and phase, response cache | `connect`, `disconnect`, `reconnect`, nudges, message handlers, `confirmPairing`, `handleRequest` | WebSocket events, storage callbacks, the runtime's request handler | closures of replaced sockets, awaits in handlers, overwritten timers, action timeout with the handler still running, repeated requests |
| `bridge/src/bridge/runtime.ts`, `settings.ts` | the client, settings, nudge cooldown, stored secret, history | start, shutdown, `updateSettings`, nudge, `handleRequest` | the client's callbacks, RemNote storage, adapter and agent | settings changed while connected; late events of a replaced client; two initialisations |
| `bridge/src/widgets/` | one command slot and one snapshot slot in session storage | register, command, snapshot, forwarding of settings | storage events | what is shown or obeyed lags behind what is so |
| `bridge/src/bridge/sdk-agent.ts` | none | the SDK's operations in 17 actions, validated by hand | RemNote SDK | operations offered and not known, or known and not declared as writes |
| `bridge/src/api/rem-adapter.ts` | search snapshots (cursors); the knowledge base itself | search, paging, create, move, update, replace, tags | RemNote SDK | eviction and expiry under a cursor; check-then-act on a tree the user edits; operations without a transaction |
| `server/src/oauth-provider.ts`, `media.ts`, `config.ts`, `cli.ts`, `logger.ts`, scripts | configuration, files | parsing, formatting | - | - |

What makes each correct, in short: the server serves only the paired installation, and bridge and
server agree on being connected; a pairing is never taken over and a valid secret never dropped; a
request is settled once, audited once, and reported as done only if it was; a bridge finds its way
back, and what the sidebar shows and the user set is what is so; an input that one stage offers the
next accepts, and what changes notes is declared and listed; an operation on notes does what it says
and disturbs nothing else, or fails and changes nothing; a cursor yields each result once; sessions are
returned; one daemon at a time, recorded where `stop` finds it; a signal ends the process once, and
cleanly if it says so. `PROJECT.json` lists the hazards behind these at their lines, and which property
covers which.

## 2. Modules

| module | models | state |
|---|---|---|
| `Transport` | the WebSockets underneath, as the code relies on them (external code) | `net`: per connection, both ready states, two FIFO channels, whether it broke |
| `BridgeServer` | handshake and pairing of the server | `sv`: the fields of `WebSocketServer`; `store`: memory and disk of `AuthStore` |
| `BridgeClient` | the plugin's client in the handshake, as its runtime drives it | `cl`: fields of `WebSocketClient`; `proofs`, `writes`: handlers suspended in an `await`; `stored`: RemNote storage |
| `BridgeSession` | composes the three and the environment | `left`: disturbances that may still happen |
| `Requests` | the life of a request at both ends | see below |
| `RequestService` | the abstract service `Requests` implements | `status`, `effect` |
| `PluginRuntime` | the runtime, its clients, the sidebar and the storage between them | `rt`, `client`, `cur`: the runtime and every client it made; `user`, `sent`, `cmds`, `stored`: the settings, and the two slots |
| `RemTree` | the tree of rems and the adapter's helpers on it | - (operators) |
| `NoteWrites` | the adapter's operations on notes, overlapping each other and the user | `kb`: the tree; `call`: where each call is suspended; `switch`: the settings |
| `SearchCursors` | paged searches of the adapter | `snap`, `live`: snapshots and the keys of the two Maps; `call`: what each tool call awaits; `cursors`: those handed out |
| `ToolInputs` | the inputs of the note tools as the server publishes and parses them and the command line builds them | - (operators) |
| `AgentOperations` | the operations of the SDK agent and the tools that offer them | - (operators) |
| `ToolCalls` | a call from the tool's handler to the SDK and back | `calls`, `cache`, `ran`, `touched`, `listed`, `cutShort`, `settings`, `linked` |
| `McpSessions` | the server process, its MCP sessions and their callers | `phase`, `timer`, `exitCode`; `transports`, `kept`; `callers` |
| `Daemon` | the commands of the daemon supervisor, and starting and stopping servers | `cmd`: where each command is suspended; `lock`, `pidFile`, `stateFile`; `proc`, `port`: the process table and the listening sockets |
| `MC...` | symmetry, inputs and instances for TLC | - |
| `..._proofs` | the theorems about the module in the name | - |

**Handshake and pairing.** Every handler is one action, cut in two where the code awaits something
that another event can overtake: the proof (`createProof`, module variable `proofs`) and the storage
of the pairing secret (`writes`). The `case` analysis of `handleClientHello` and
`handlePairingConfirm` is one action for each way out. Handlers of the browser's socket are closures
that do not ask whether their socket is still `this.ws`, and neither do the actions `OnClose(b, s)`
and `Handle...(b, s)`. `cl[b].live` counts retry timers that will fire and `tracked` whether
`this.reconnectTimeout` holds the latest: `scheduleReconnect` overwrites the handle without clearing
it. A nonce is represented by its socket and an HMAC by the pair of secret and nonce; random
identifiers are constrained to be fresh (`FreshIdentifiers`). Versions are abstracted to the set
`CompatibleBridges`. Heartbeats, disconnect diagnostics, texts and logging are left out.

**Requests.** `client`, `accepted`, `srv`, `pending`, `timers`, `status` and `audit` are the server's;
`ws`, `handling`, `from` and `effect` the bridge's; `down` and `up` what is in flight. `sendRequest`
is `Refuse`, `Send` or `SendFails`; its promise is `status`. `handleRequest` is `BridgeReceives` and then
the race of `HandlerEnds` and `ActionTimeout`; after the timeout has answered, `effect` may still be
"running". Connections come and go through `HandleConnection`, `StartsClosing`, `HandleClose`,
`BridgeDisconnects` and `DropClient` (`resetPairing`, `stop`). How a connection gets accepted is
the session's subject and one step here. `RequestService` keeps only what a tool sees and what was
carried out: a request is settled once, succeeds only after its effect is done, and otherwise may
have had an effect, or may yet have one. The audit outcome of a request is appended to `audit`, unless
the append fails.

**Plugin.** `client[c]` has the fields of one `WebSocketClient`; its methods are operators from record to
record (`Connected`, `Disconnected`, `Scheduled`, `Woken`, `Nudged`), and the events of its sockets and timers are the actions.
A client tells the runtime of a changed status or phase, and of its authentication status always (`Told`), also when
`updateSettings` has put another in its place. Every log line publishes a snapshot; of those one handler
writes only the last is kept, so `Report` is given what `nextRetryAt` was when that line was written.
Session storage keeps the order of writes: commands are a queue. The sidebar forwards the user's settings on
mounting and at every change while open (`ForwardSettings`); while it is closed nothing reaches the runtime, the
switch for write operations included. Delays are abstracted: a timer fires and the cooldown ends at any time. How
the server authenticates is the session's subject: here it accepts, or first asks for a code. Two calls of
`initializeBridgeRuntime` that overlap are left out.

**Notes.** A call goes through the lookups of its operation one step at a time, since each awaits RemNote: `look`,
for a move also each rem of the walk up (`MoveWalk`), the parent and the place, `prepare` for the references and the document
of the day, and `commit`. What runs in `app.transaction` is one step; `moveNote`, `setDocumentStatus`
and `updateTags` have no transaction, and tags are changed one at a time. `createRemsFromPreparedMarkdown` is
`CreateRems`: a dummy root is made at the end of the parent, each top-level rem is moved from it to its place,
and the dummy is removed, which promotes what is left in it. The user moves or removes rems while a call is
under way. A text is a word and whether it is padded, so that trimming aliases matters; the lines of markdown
are their levels. `createNote` does not check that its parent exists, and RemNote then puts the note at
the top. The lookups of RemNote are taken to be atomic and its transactions isolated, which is external.

**Calls.** `ToolInputs` has each note tool's published schema, the zod schema its handler parses with (strict, with
defaults and refinements), and the payload each command builds from its options; `AgentOperations` has the operations of the
SDK agent, the arguments each requires and validates, what each changes, and which tool offers it.
In `ToolCalls` a call is parsed and dispatched (`CallTool`), gated by the server, received (`BridgeReceives`: cache,
authentication, dispatch to agent or adapter, the switches), worked on and answered, raced by the action timeout
and the loss of the connection. The developer tools reach the runtime's handler directly (`DevToolsExecute`).
A response is kept for `CacheSize` others; `RequestRepeated` is a companion that sends a request again after
the plugin has ended it. A value matters only where a rule looks at it (`Twists`).

**Sessions.** An agent keeps its session until it ends it or is killed; a command opens one, makes one call and closes it,
except that a failure calls `process.exit` before the `finally`; the proxy opens one for each call and closes
it in a `finally`. `stop()` walks the live map in the order of its making, closing with an await each (`CloseSession`),
so that sessions made meanwhile are closed too; a close may fail and leave its session in the map (`kept`).
The HTTP server's close waits for the streams and calls of open sessions, the WebSocket server's for every socket, and a
five-second timer or a second signal ends the process with 1.

**Search cursors.** `search` and `search_by_tag` share their shape, and `Kinds` tells them apart: each has
its Map of snapshots, both are pruned by either. A search without a cursor prunes
(`StartSearch`), waits for RemNote, collects what was found once each in the order of
types (`IsCollected`), keeps the snapshot and evicts the least recently used
(`SearchReturns`); one with a cursor prunes and finds its snapshot (`ContinueSearch`) or fails
(`CursorRefused`). The page is then rendered with further awaits and ends with the next
cursor (`PageReturned`). Calls hold their snapshot by reference, so eviction does not
disturb a page being rendered: `snap` keeps every snapshot made, `live` is what the Maps hold.
`born` stands for the insertion order of a Map, which decides between snapshots used in the same
millisecond.

**Daemon.** Each command is a process, and each `await` and each file that is read or written is a step, so
that commands interleave as the operating system lets them. `at` is where a command is suspended and
`for` what for, since `canBind` serves the check before the spawn, the wait after it and `status`. `canBind`
listens on the port it tries until it has closed it again (`ProbeBinds`, `HttpWasFree`, `WsWasFree`), so the
attempts of one command are what another finds occupied. `start` takes the lock, looks at the record
(`AlreadyRunning`, or cleaning up), checks both ports, spawns, writes the two files, polls (`Poll`, `HttpIsBusy`,
`WsIsBusy`), and releases the lock on every way out; `stop` takes no lock, and `restart` is a stop
followed by a start. A server binds the WebSocket port, then the HTTP port, and only then handles signals. If the
HTTP port is taken, Express calls the callback of `listen` with the error that is also emitted, and either may
settle `start()` first: the server ends, or goes on without HTTP ("halfway"). A timeout may run out at any
time. A pid is a model value; it is assumed that a new server does not get one that a running command
has seen, and that strangers get the pid of a dead server only while no command runs
(the kernel hands pids out in turn). Of a stranger, `LooksManaged` asks what `assertManagedProcess` asks: is its command line
free of the entry point's path and of its base name (`"other"`), or does it hold the base name, which is `index.js` (`"alike"`)? `ps`
may fail or be missing at any `Inspect`; a stop that goes on for that reason only, to a process whose command line would have stopped it, is `blind`. launchd, logs, `--force` apart from its SIGKILL, servers run in
the foreground and failing file writes are left out.

**Composition.** `BridgeSession` composes transport, server and client. The other modules each take as one step what
another module details: `Requests` and `ToolCalls` the accepted connection of `BridgeSession`, `PluginRuntime` the handshake,
`ToolCalls` the operation of `NoteWrites` or `AgentOperations`, `Daemon` the shutdown of `McpSessions`.

## 3. Runs

All runs set `CHECK_DEADLOCK FALSE`: the system may really stop, when the disturbances are used up
and nothing is left to do, or every request is settled.

| run | question | instance |
|---|---|---|
| `SessionAll` | served and not paired, or without the secret? a pairing taken over? | 2 installations, 2 simultaneous sockets, all ten disturbances, two of them; the write of a pairing may fail |
| `SessionCalm` | do plugin and server agree, is a valid secret kept, does shutdown last, does a paired bridge get back? | 1 installation, 2 sockets, three of seven disturbances, fair; without reconnect, hasty code and late proof (see the findings) |
| `Requests` | is each request settled, once, truthfully, with an audit entry, as the service promises? | 3 requests (one refused, one that may fail to send), 2 connections, fair |
| `Plugin` | is a replaced client done, the snapshot true, are an open sidebar's settings obeyed, does activity reconnect? | 2 servers and a malformed URL, 2 clients, one change of settings, one opening of the sidebar, one trouble, one fast retry, fair |
| `Notes` | does an operation do what was asked, leave the rest alone, and change nothing when it fails? | any 2 of 21 requests of ten kinds, overlapping, three settings of the switches, one edit of the user or failure of RemNote, 17 rems, fair walks |
| `SearchCursors` | is each result offered once, is the right snapshot evicted? | 2 overlapping calls, 2 kinds, 3 rems, 3 snapshots with at most 2 of a kind, time to 2 with a TTL of 1 |
| `Calls` | is what is offered taken, are effects declared and changes listed, is a repeated request not run again? | the whole table of inputs one at a time, six common inputs two at a time, a cache of one, two changes of switches or connection, one repetition |
| `Sessions` | are sessions returned, does a clean exit cut nothing, does stopping end? | an agent, a command, the proxy, 4 sessions, 2 starts, fair |
| `Daemon` | one server at most? success and failure reported truthfully? the record right? strangers spared where they can be told? | 3 commands of all four kinds, 3 pids, two of: a command killed, a server crashed, a pid reused |
| `StaleProof`, `CyclicMoves`, `WriteSwitch` | see Findings | the smallest instance that shows each, or that of `Calls` |

*Bounds.* `Sockets` bounds simultaneous connections in the session (an identifier is used again when
both ends have forgotten it): a bridge has at most one live socket, so two are the present and a replaced one, or
one of each installation. Three secrets and pairings are the present, a previous and a new one. A disturbance (break,
reset, restart, reload, expiry, a late hello, reconnect, hasty code, late proof, shutdown) happens at
most `MaxDisturbances` times; two are what the interactions among them need, since each property
relates one fault to one handshake, and `SessionCalm` has three since getting back must survive a fault on the way.
`MaxTimers` caps live retry timers: two are a tracked and a leaked
one. `MaxUnsent` bounds what is in flight when the user submits a code. In `Requests`, two connections are
the one a request was sent on and its successor. In `Plugin`, two clients are the present one and its predecessor; one
fast retry before standby is enough to pass through both phases (the code has ten). In `Notes`, a race is between two: two calls, or a
call and the user; 17 rems are the seven at the start and what two calls can make; `MCNoteWrites` draws the tree, in which children
stand beside an alias, a tag has a property, and the user may move a parent or a child. In `Calls`, an
input is a tool with a set of fields given: the required ones, all, one more, one less, an unknown one, one of a wrong type, with every
twist a refinement looks at, so that one at a time covers the stages, and common ones
together the cache. In `Sessions`, one of each kind of caller and four sessions let one be made while `stop()` walks over
another, and two starts let a caller come with the session of an earlier process. In `SearchCursors`, three snapshots are one more than may be kept,
two calls let a search return while another is suspended, three rems with one found twice give
pages of one and two results an odd end, and time 2 with TTL 1 lets a snapshot expire after it
was used. The code's values are 20 snapshots and 15 minutes. In
`Daemon`, three commands are two that overlap and one that finds what they left, three pids are a server
for each, and two disturbances let a start be killed and its server crash, or a server crash
and its pid be reused; each command is given once, with any operation. Where a proof exists (section 5) it removes the bound.

*Fairness.* In the session: event loops deliver what has arrived, timers fire, awaited work
completes, broken and closing connections are noticed; these are weak fairness of each handler.
Nothing is assumed of the user, and no disturbance is fair. `PairedReconnects` starts from a bridge and a server that both hold and have stored the
same secret, and promises nothing once the pairing is reset or the plugin shut down. A `pairing_complete` lost on its way, or a
reload before the secret is stored, leaves the
server paired with a secret nobody holds, which only an operator's reset ends; that is outside the
property's premise. In `Requests` only: a pending request's
timeout fires. In `Plugin`: focus and visibility events happen now and then (the property is about them), the cooldown
ends, commands are delivered, and sockets that try to connect succeed or fail; nothing is assumed of the retry timers, which `ActivityReconnects`
must do without. In `Notes`: RemNote answers the lookups of a walk. In `Sessions`: the shutdown timer fires. The code
`unref`s that timer, so that it does not keep the process alive by itself: the process then ends without it.

## 4. Findings

Three runs end with a violation, and `PROJECT.json` quotes the line of the repository each disagrees with.

- `StaleProof`: a proof that is computed while the connection changes is sent on the next one; the
  server answers with an order to reset the pairing and the plugin drops a valid secret.
- `CyclicMoves`: `moveNote` walks up from the new parent to see that the note is not among its ancestors, and then
  moves, with no transaction around the two. Two moves, each under the other's note, both pass.
- `WriteSwitch`: the operations of the SDK agent are dispatched before the runtime looks at the switch for
  write operations, and the agent does not look: `remnote_rem` changes notes while writes are off.

More were met while modelling. They have no run of their own; the first five are left out of a run by its choice of disturbances and failures, or by the
premise of a property, as said there.

- `StaleClose` (websocket-client.ts:162): after `reconnect()` the close event of the old socket resets the state of the new one;
  the plugin shows Disconnected while it is served. `SessionCalm` has no manual reconnect.
- `LeakedTimer` (websocket-client.ts:481): `scheduleReconnect` overwrites a timer that `disconnect()` can then not clear; it
  dials after shutdown. It takes a manual reconnect as well.
- Hasty codes (websocket-client.ts:183): a second pairing code submitted before the first is answered is rejected on the
  connection that the first got accepted, and the plugin shows rejected while it is served.
- `HalfReset` (websocket-server.ts:264): when `auth.json` cannot be written, `resetPairing` forgets the pairing in memory and
  goes no further: the bridge is still served. If later the write of a new pairing fails too, a restart brings back the pairing
  that was reset.
- `LostRecord` (daemon.ts:414): a stop that found nothing on record deletes the record a start has written meanwhile. The
  next stop, alone, says that no daemon is running and succeeds, while the server serves. `RecordedAtRest` is about commands that do not overlap.
- `LostConnection` (websocket-server.ts:495): the requests of a client that is replaced, reset or stopped wait for their
  timeouts, where server/docs/architecture.md:58 says they are rejected at once.
- `HiddenCountdown` (websocket-client.ts:479): `scheduleReconnect` logs, and so publishes, before `nextRetryAt` is set: the
  snapshot in storage has no countdown for the retry just scheduled, which bridge/docs/guides/connection-lifecycle.md:76-79 says is displayed.
  `StoredIsCurrent` excepts it.
- The late close event of a client that was replaced by a change of URL still overwrites the authentication status
  the runtime shows (`OldClientsAreDone` is about status and phase).
- `BlankJournal` (rem-adapter.ts:3010): a short journal entry with a prefix is built from the content as it came, so that the
  blank lines `normalizeContent` has taken out (the comment at 2590) come back.
- `createNote` does not check that its parent exists: the note then ends at the top level.
- `writeDaemonState` (daemon.ts:380) is outside the `try` that terminates the server: if it fails the
  server is left without a record.
- A stop and a start that overlap can leave a pid file without a state
  file, and then `stop` cannot tell whose pid it is (`LooksManaged`): hence the premise of `OthersAreSpared`.
- `StrangerStopped` (daemon.ts:847-851, 890-896): `assertManagedProcess` lets a stop signal the pid on record when the command line
  found there holds only the base name of the entry point, `index.js`, and when it cannot be read, because `ps` failed or is missing. A program that
  got the pid of a server that died is then terminated, though commands come one after the other, where the test at daemon.test.ts:316
  "refuses to stop a pid that does not match the managed command". `OthersAreSpared` excepts both: a program without `index.js` in
  its command line is signalled only by a stop that could not read it (`blind`).
- `setDocumentStatus` (rem-adapter.ts:3502) writes and may then throw (3507, 3517), `updateTags` (3707) may fail after its first tags, and so
  may an operation of the SDK agent. The runtime makes its history entry when the operation has returned (runtime.ts:371-376,
  507-520, 569-575), so that what such a call has changed stays and is not in the history. `HandlerThrows` therefore happens before and after
  the change; `EffectsAreDeclared` excepts the calls it cuts short after one (`cutShort`).
- The ports that `status` tries look occupied to a start that waits, which may then report success
  before its server serves: hence `NoStatus` in `OneDaemon` and `StartedServes`.
- A command that fails leaves its MCP session in the server, where nothing expires it (status.ts:36 and the like).
- A WebSocket that is not the bridge's keeps `wss.close` waiting until the shutdown timer forces an exit with 1.
- A request repeated before the first has ended would run twice, since the cache is filled at the end (websocket-client.ts:392).
- bridge/README.md:214 gives `false` as the default of the replace switch; settings.ts:19 has `true`.
- The schema `createAgentTool` publishes lists only part of the fields that operations take (it allows others).

## 5. Proofs

Eight modules hold theorems, one for each component that has a run. Each extends the module it is about and assumes what that module
assumes of its constants, and nothing else unless said. What the modules assume are the kinds of their constants (subsets, bounds that are numbers,
`None` apart from the values it stands beside), that the plugin makes at least one client (`PluginAssumption`), and that a page
of children has at least one (`ListAssumption`, from `ListChildrenSchema`).

`BridgeSession_proofs` proves, for any installations, sockets, secrets and disturbances:

- `PairingNeverStolen`, where not both writes of `auth.json` can fail (`OneWriteIsSafe`). `completePairing` does not look at the
  pairing that stands; what protects it is `StoreInv`: while there is a pairing there is no challenge, and the disk has that pairing or none. The hypothesis is
  needed: see `HalfReset`.
- `TypesHold` and `TypeCorrect`. The types of the messages on their way are part of it; a timer the client keeps track of is live (`TimersTracked`),
  else stopping it would count below zero.
- `AlwaysServedPaired`, the first half of `AcceptedIsPaired`, where the write of a reset cannot fail. Whom the server serves is the
  owner of its connection, but what it compares with the pairing is the hello that came in. `SessionInv` therefore says what makes a message belong to the connection it comes
  on: clients send on connections of their own (`ClientsOK`), what is on its way up a connection names the connection's owner (`NetOK`), and
  the owner changes only when both ends have let go. The steps are proved for the two sides apart: what a client's or the transport's
  step leaves of the server's connection (`ServerSees`), and what a server's step leaves of the clients' (`ClientsSee`).
- `AcceptedStaysPaired`, all of `AcceptedIsPaired`, under the same hypothesis. The other half, `SharesSecret`, says that the bridge at the other end of a served
  connection has the secret on record, or a `pairing_complete` that brings it. What could go wrong is a proof: it is computed while the connection and the
  pairing change, so the server may accept one made from a secret the bridge has since replaced. `SecretInv` says, of each
  socket, that whoever claims the pairing on it (is accepted, has a proof in the making for its nonce, or has sent a hello with
  one) knows the secret (`ClaimantsKnow`); that what the server has sent down it is true of it (`AllTold`: its own challenge,
  the secret on record, no order to drop a secret while it stays open); that nothing refers to a socket still being dialled (`StillFresh`), since connections are
  reused; and that a client's live connection is the one it holds. A secret on record is fresh when it is
  made, so no proof that is under way can hold it already. `NewIsIdle` (a client that has not started has nothing an event could come from)
  covers the plugin that is reloaded.
- `ShutdownIsFinal`: `ShutdownStaysDown`, where the user makes no manual reconnect. The hypothesis is needed: see `LeakedTimer`. `DownInv` says that without one a client has a
  connection, or one timer, which it tracks, or neither; `disconnect()` then leaves neither, and nothing else can dial.
- `SecretKeptUnlessRevoked`: `SecretDroppedOnlyWhenRevoked`, where the write of a reset cannot fail and no proof outlasts its connection; hasty codes and manual reconnects
  are allowed. The second hypothesis is needed: see `StaleProof`. An order to drop the secret is one that
  answers a bad proof, so `TokenInv` follows the hello of each dialled connection. There is one: it is asked for, its proof is being computed, or it is on its way, never two of
  these, and once the server has heard it nothing of it is left (`Heard`, `HelloDue`). Every proof offered on the connection is of its nonce and of the secret its
  bridge holds now (`Honest`), because the secret changes only by a message that comes after the hello was heard. So a proof the server refuses
  is of a secret it is not paired with, and that stays so while the order is on its way (`Revoked`), because a later pairing has a new secret (`Renews`).
- `ServedIsAgreed`: `ConnectedAgreement`, where the write of a reset cannot fail, no proof outlasts its connection, and the user neither
  reconnects by hand nor submits a code before it is asked for. Without any one of the last three TLC finds the property violated in an instance like that
  of `SessionCalm` (see `StaleProof`, `StaleClose` and hasty codes); the first comes with `SecretInv`, on which the proof rests, and no run shows
  it to be needed. `PhasesInv` carries `TokenInv` on through the rest of the handshake: after the hello the server decides, or asks for a code
  and decides when it has that. What is on its way is the hello, the code or the decision, never two of them (`CodePhase`), so that no second answer can
  undo the first. While a rejection is being carried out, the secret is already gone and nothing that pairs its
  bridge is under way (`RejectInv`, `Unpairing`), so that it cannot spoil a later acceptance. And a served connection is
  shown, or has its `auth_accepted` on the way and no rejection (`Showing`): once nothing is on its way, the two ends agree.

`Requests_proofs` proves, for any sets of requests and connections and whether or not the audit log
can be written: `TypeCorrect`, `PendingAlwaysTimed`, `AlwaysAuditedOnce`, `SuccessAlwaysDone`,
`RequestInvHolds`, `AlwaysOnOwnConnection` and `RequestsImplementService`. `SuccessIsDone` is not inductive, since a
response in flight could claim a success that
was not earned. `RequestInv` adds what is true of a request on its way (`InTransitIsNew`: it was
sent on that very connection, is there once, and the bridge has not seen it), in the bridge's hands
(`TakenUpWasSent`: the socket the handler noted is the one it was sent on) and on its way back
(`ResponseIsTrue`). `PendingIsTimed` and `AuditedOnce` are inductive together with the types: a request
leaves `pending`, `timers` and the status "pending" in one step, which is the step that audits it.
`AlwaysOnOwnConnection` needs the whole invariant: a success is taken from a response on the present
client's connection, and `ResponseIsTrue` says that is where the request was sent. The same facts show
that every step is one of `RequestService` or a stutter, with several pending requests failing in one
abstract step when a connection is lost.

`SearchCursors_proofs` proves, for any numbers of calls, kinds, queries, rems and snapshots, any
limits and any TTL: `TypeCorrect`, `AlwaysBounded`, `AlwaysEachResultOnce`, `AlwaysKeepsFresh` and
`AlwaysGoneOnlyIfOld`. `CursorInv` adds to the properties
that a snapshot holds each result once (`NoRepetition`), that a cursor at an offset has offered just
what lies before it (`OfferedIsBefore`), and that snapshots are numbered as they were made and
were used in the past (`InMadeOrder`), which is why a snapshot just made is never the oldest: among
those used in the same millisecond it was made last. Eviction removes exactly one, so those left
are as many as may be kept, and `IsOldest` says all of them were used since.

`Daemon_proofs` proves, for any commands, pids, operations and disturbances, `TypeCorrect` (which says
that no start ends with the lock) and `AlwaysOneDaemon`. `OneDaemon` needs more than
the lock, since a killed start leaves its server behind and `stop` works without the lock. `DaemonInv` adds what
the code relies on: who may be where (`ControlOK`), that the lock belongs to the one start that holds it
or to a killed one (`LockIsHeld`), that a server which serves has the HTTP port (`HttpIsOwned`), that from
the port check to the end of the wait no one but that start and its server has it (`HttpIsKept`), and
that a server which does not serve yet is that start's, until it is found serving or is given up
(`HatchingIsHeld`). So when a start spawns no server is up: one that served would hold the port the
start has just found free, and one still starting would belong to a start with the lock. The
last three hold only while no `status` command exists (`NoStatus`), as its attempts at the port break them.

The rest is about what commands leave: `StartsServe`, `FailuresLeaveNothing`, `ServerIsRecorded`, `StopsStop` and `OthersStaySpared`. `StartsServe` needs
`HttpIsKept`: whoever has the port when the wait ends is the start's own server. `FailuresLeaveNothing`
holds however commands overlap: from its signal on, what a failing start removed stays removed, since pids are not given out while they are held
(`LeavesNothing`). The others are about commands that come one after the other. `RestInv` adds what such a command knows at each of its places: what it has read
and removed (`AloneInv`), which servers may be up and whether they are on record (`KnownInv`), and whom it may signal (`SparedInv`: the state file, which names the
entry point to compare, is written last and removed last, so that a stop which signals a stranger of another name could not read its command line). It also has to say that a lock lost to a killed start stays lost, since
every later start then fails before it writes.

`McpSessions_proofs` proves, for any callers and any numbers of sessions and starts, `TypeCorrect`, `AlwaysReturned` and
`CleanExitAlwaysCutsNothing`. `SessionsInv` adds to `SessionsAreReturned` that there are no sessions in a process that is down or starting
(`NoneWhileDown`) and none with an idle caller (`IdleHasNone`), so that whoever makes one has no other; and that once the
HTTP server has stopped no caller is being answered (`StoppedHoldsNone`), since no session is made and no call taken after that.

`PluginRuntime_proofs` proves, for any servers, settings, numbers of clients and disturbances, `TypeCorrect`, `OldClientsStayDone`, `StoredStaysCurrent` and
`SettingsAreObeyed`. `PlugInv` joins two parts. `RuntimeInv` says of the clients that those not made yet are idle and that
those replaced are down and hold no socket and no timer, so that nothing can come from them but a close event (`OldOnesDone`, until the user presses Reconnect Now);
and of the runtime that it shows its present client's state and that storage has that too (`RuntimeShown`). `SidebarInv` says why settings arrive: what the sidebar sent last is either obeyed already with no
update outstanding, or is the last update among the commands (`WillObey`), and a sidebar that was closed forgets what it sent.

`ToolCalls_proofs` proves, for any calls and inputs and any size of the response cache, `TypeCorrect`, `RequestsRunOnce` and `DeclaredAndListed`.
`RanOnce` counts the requests that came; the cache counts those it holds. `CacheInv` connects the two: entries are of distinct requests, and a
request that was answered is in the cache or as many others came as the cache holds (`Remembered`), by the pigeonhole lemma at the step that evicts it.
`DeclaredAndListed` rests on `PolicyTable`, which goes through every action of the server's table: one classed as a read is served by a handler
that changes nothing; and on `CallInv`: a call that has changed notes or cards is still in its handler, or in the sidebar's history, or
its handler threw after the change; and no timeout, loss or repetition takes a call out of the history.
`OfferedAlwaysTaken` is `OfferedIsTaken` for every set of fields a caller may give, where the run tries one more or one less. Its hypothesis `AskedAsOffered`
says that callers ask for tools, operations and options that exist; `MCToolCalls` assumes it too, so that the run checks it of its inputs. `OfferInv` says
that the outcome of a call, and of every cached one, is one the property allows (`Fair`), and that from the server to the adapter the arguments its tool published are all
there (`Whole`). At each stage that drops or refuses arguments the tables on both sides of it are gone through entry by entry (`NoteTable`, `CommandTable`, `GroupsTable`).

`NoteWrites_proofs` proves, for any requests, trees, edits of the user and calls that overlap, `FailuresLeaveNothing`: an operation that is not one
of the two excepted writes in its last step (`WritesLast`), after every lookup that can fail. `PagesCover` is `PagesCoverAll` under
the hypothesis that the children of a rem are a sequence of rems at all times, which is part of `TypeOK` and checked in `Notes`: the operators that edit the tree are folds over
its content, and that a fold keeps a type takes induction over data. `ListInv` says that a listing during which nobody changed the tree has offered the children up to its offset.

Model-checked only:

- `TypeOK`, `DoneAsAsked` and `SiblingsKept` of `NoteWrites`: what the folds of `RemTree` compute for content of any length takes induction over data, which is out of this prover's reach.
- The liveness properties `PairedReconnects`, `EverySentIsSettled`, `ActivityReconnects`, `EveryWalkEnds` and `StoppingEnds`, which need fairness and ENABLED.

## 6. Not modelled

`PROJECT.json` gives the status of each component. Left out for good:

- what is only text: rendering notes, tables and search results, playbook, tool descriptions, output of the command line, icons, logging;
- pure file and option handling: media files, configuration, readRecent, reading content from files, build scripts, generated tool lists;
- the OAuth provider, whose protocol is the MCP SDK's, and HTTP authentication;
- heartbeats, statistics and disconnect diagnostics, which no decision depends on;
- two processes on one `auth.json`, and two initialisations of the plugin that overlap: the hazards of `PROJECT.json` say why;
- launchd, and failing writes of the daemon's files.

## 7. Plan

What is left is `ServedIsAgreed` where the write of a reset may fail: it needs an invariant that does not go through `SecretInv`.
What section 6 leaves out would come next if the code gave it a lock or a recovery to reason about.
