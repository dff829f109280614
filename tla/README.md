# TLA+ models of shrinking-server

shrinking-server is code-server: a Node program that serves VS Code to a
browser, together with `code-server-mcp`, an MCP server that lets a language
model use the same host and the same editor. This directory holds TLA+ modules
that model the parts of the two programs in which things happen in an order
that nobody chose, the TLC configurations that check them on small instances,
and proofs, checked by TLAPS, that hold for instances of any size.

- [The system](#the-system) — components, state, interactions, what is hard
- [The modules](#the-modules) — what each one models and how it relates to the code
- [The runs](#the-runs) — what is checked, the bounds, the fairness
- [Where the code and its comments differ](#where-the-code-and-its-comments-differ)
- [The proofs](#the-proofs) — what is proved, from what, and how
- [What is not modelled](#what-is-not-modelled)
- [Plan](#plan)

Paths below are relative to `src/`. Run TLC and tlapm inside this directory:
`tlc -workers 2 -config MCHeart.cfg MCHeart`, `tlapm HeartProofs.tla`.

## The system

`lib/vscode` is a vendored copy of VS Code with the patches of `patches/`; of
it, only the connection between a browser window and the server is modelled, on
which everything the editor does in a browser depends. The program's own logic
is in `src/node` (the server) and `code-server-mcp/src` (the MCP server);
`code-server-mcp/build` is compiled from the latter.

### The server (`src/node`)

| Component | State | Operations | What makes it correct |
|---|---|---|---|
| Wrapper: `wrapper.ts`, `entry.ts` | the parent's current child, its listeners and timers; in the child the progress of its start | start, hotswap on SIGUSR1/2, handshake, disposal on SIGINT/SIGTERM/exit, the child's poll of its parent | one owned child; none is left behind; a dead child is noticed; every disposal ends |
| Heartbeat, idle shutdown: `heart.ts`, `main.ts`, `routes/index.ts`, `routes/health.ts` | alive/expired/unknown, the time of the last beat, three timers | beat, timer, probe of open connections, dispose | a user is never cut off; an idle server ends; a heart that is alive is looked at again |
| Editor sessions: `vscodeSocket.ts` | a Map from socket path to entry | add, delete, find the best socket for a file | the best answer, whatever happens during the lookup; a running host is not forgotten |
| TLS socket proxy: `socket.ts` | one promise of a proxy server, its path, the sockets that wait for their partner | createProxy, stop | the server's path leads to it; who asks gets a proxy or an error |
| Settings: `settings.ts`; update check: `update.ts` | the file `coder.json`; the promise of a running check | read, write; getUpdate | nothing that was stored is lost; one request at a time |
| HTTP server: `app.ts`, `http.ts` | open sockets, whether it is closing, the timer of a disposal | listen, dispose | connections do not hold up a disposal |
| VS Code loader and key: `routes/vscode.ts` | two promises, a key file | load on demand, mint-key, dispose | no page without VS Code; one key for all browsers |
| Login and cookies: `routes/login.ts`, `logout.ts`, `util.ts` | two buckets of tokens; each browser's cookie | login, logout, the recognition of a cookie | the limit holds for requests that come together; a cookie is worth what its login is worth now |
| Routing, proxies: `http.ts`, `wsRouter.ts`, `pathProxy.ts`, `domainProxy.ts`, `errors.ts` | none | one request at a time | — |
| Command line: `cli.ts`, `main.ts` | none once it has started | parse, configuration file, defaults, open in an existing instance | precedence of the sources |
| `common/emitter.ts` | listeners | emit, which waits for all of them | every listener runs, whichever of them fail |

The parent and the child talk over an IPC channel and by signals, and the
child learns of its parent's death from a poll. The child runs everything
else: main.ts builds the HTTP server and the routes, the heart emits change
events that start and stop the idle timer, and the idle timer disposes of the
process through the wrapper. Extension hosts (inside VS Code) register with
the session server over a Unix socket, and a second `code-server file` on the
command line asks the same server for a host. Page loads and update checks
share the settings file. Two processes of one user share the settings, the key
file, and the directory of the proxy's sockets: two instances, or the old and
the new child of a hotswap.

### The remote connection of VS Code (`lib/vscode/src/vs`)

| Component | State | Operations | What makes it correct |
|---|---|---|---|
| PersistentProtocol: `base/parts/ipc/common/ipc.net.ts`, the same code at both ends | message numbers, the queue of what is not acknowledged, three timers, buffered control messages, the socket | send, receive, acknowledge, ask for a replay, begin and end a reconnection, dispose | what is sent arrives once and in order, over as many sockets as it takes |
| The client's loop: `platform/remote/common/remoteAgentConnection.ts` | whether it reconnects, the attempt under way | reconnect, time out, give up | one loop at a time; an attempt is judged by its own answers only |
| The handshake: `server/node/remoteExtensionHostAgentServer.ts` | a state for each new socket, a table of connections | authenticate, take over, reject | a living connection is found again |
| Grace timers: `server/node/remoteExtensionManagement.ts` | two timers | wait, shorten, take a reconnection, clean up | a lost client is waited for, and not for ever |

The client and the server see the death of a socket at different times, or not
at all, and the client may begin another attempt while the server is still in
the handshake of the last one.

### The MCP server (`code-server-mcp/src`)

| Component | State | Operations | What makes it correct |
|---|---|---|---|
| Terminal bridge: `bridge/TerminalWebSocket.ts`, `tools/terminal.ts` | a socket and a flag, a queue of creations, a slot for a listing, buffers and handlers of each terminal | connect, create, exec, execNew, read, list | an answer reaches the call it belongs to; output is not lost; calls end |
| Heartbeat: `bridge/HeartbeatManager.ts`, `index.ts` | the number of failed beats | beat, log in and connect again | the bridge is on the socket it believes to be on |
| Language servers: `bridge/LSPClient.ts`, `tools/lsp.ts` | a table of clients; in each a process, pending requests, a read buffer | getClient, request, handleData | a server hears its messages in a legal order; calls end |
| Tool context: `context.ts` | the times of the last calls, terminal sessions, the files that were opened | guardTool, sessions | the limit of the window; the table has the sessions that live |
| Commands: `tools/terminal.ts` | one process per call | execCommand, sessions | a command ends with its time limit |
| Client: `client/*.ts` | a cookie jar | login, requests | — |
| Native socket bridge: `bridge/NativeSocketBridge.ts` | a flag | one request per call | — |
| File, search, git, extension, editor, server tools | none | one operation per call | — |

### What is hard

Every one of these programs is a set of event loops: what runs between two
awaits is atomic, and everything else interleaves. The hazards are listed with
their lines in `PROJECT.json`; in short:

- two children live at once during a hotswap, with signals, messages, timers
  and exits of both (Wrapper);
- what was read before an await is acted on after it: a lookup's snapshot, a
  probe of connections, a path found free, settings read before they are
  merged, a check for a limit;
- answers are matched to requests by their order, over sockets that are
  replaced (TerminalBridge);
- promises are kept and shared: they must be forgotten when they fail and only
  then (SocketProxy, Server, Settings);
- files are emptied and then filled, by processes that may be killed;
- timers outlive what they were armed for (the handshake, a listing), or must
  not (the grace timers of a client that has come back);
- answers to an attempt that timed out arrive during the next one, messages are
  lost with their socket and written again on another (RemoteConnection);
- requests that come together share a limit, or start a server each (Login,
  LanguageServers);
- the wall clock is not monotonic, and `setTimeout` has 32 bits.

## The modules

| Module | Models | Checked by |
|---|---|---|
| `Supervisor` | what the wrapper promises, in three variables | (refined by `Wrapper`) |
| `Wrapper` | `wrapper.ts`, `entry.ts` | `MCWrapper`: wrapper, wrapper_stale_timeout; `WrapperProofs` |
| `Heart` | `heart.ts`, the probe in `routes/index.ts`, the idle timer of `main.ts` | `MCHeart`: heart; `HeartProofs` |
| `EditorSessions` | `vscodeSocket.ts`, the client in `main.ts` | `MCEditorSessions`: sessions; `EditorSessionsProofs` |
| `SocketProxy` | `socket.ts` | `MCSocketProxy`: proxy; `SharedFilesProofs` |
| `Settings` | `settings.ts`, `update.ts`, the page load of `routes/vscode.ts` | `MCSettings`: settings; `SharedFilesProofs` |
| `Server` | `app.ts`, the disposer of `http.ts`, loader and key of `routes/vscode.ts` | `MCServer`: server; `ServerProofs` |
| `Login` | `login.ts`, `logout.ts`, passwords and cookies of `util.ts` | `MCLogin`: login; `LoginProofs` |
| `ReliableChannel` | what the remote connection promises: messages arrive once and in order | (refined by `RemoteConnection`) |
| `PersistentProtocol` | `ipc.net.ts`, two ends over any sockets | `RemoteConnectionProofs`; extended by `RemoteConnection` |
| `RemoteConnection` | the client's loop, the server's handshake and grace timers, the network | `MCRemoteConnection`: remote, remote_live; `RemoteConnectionProofs` |
| `TerminalBridge` | `TerminalWebSocket.ts`, `HeartbeatManager.ts`, the callback of `index.ts` | `MCTerminalBridge`: terminal; `McpProofs` |
| `LanguageServers` | `LSPClient.ts`, the table of `tools/lsp.ts` | `MCLanguageServers`: lsp; `McpProofs` |

`PROJECT.json` maps every definition to its lines. Conventions they share: an
action is one turn of an event loop, a handler with the continuations that run
before the next event; a timer has no clock, but in Heart, and may fire
whenever it is armed; messages, paths and settings are members of small sets;
a definition that begins with "Mutated form" is a plausible bug, used to check
that a property would notice it, and belongs to no specification. A variable
marked "history" records what has happened and is read by properties only.

**Wrapper.** `parent` and `proc` say how far the two kinds of process have
come; `watch` is which listeners the parent has on a child (those of the
handshake, the one for the exit, or none after `removeAllListeners`), `armed`
the handshake timers. `signal`, `greeted`, `answered` and `unreported` are what
is on its way. Hotswap kills the old child and forks the next without waiting,
so any number of children live at once. `port` is the configured address: a new
child may find it taken by the old one and end (`EADDRINUSE`). SIGKILL and
default signal actions are external.

**Heart** counts time in ticks with H, P, I for the 60 s beat, the 5 s of the
probe and the idle timeout. `since` is `Date.now() - lastHeartbeat`, which the
wall clock may move back once; the count-downs do not. Connections are users
(some request was not for `/healthz`) or health checks, which are counted as
connections but do not beat. `IdleDelay` is what `setTimeout` makes of a delay
beyond its 32 bits.

**EditorSessions.** `entries` with `stamp` is the Map in its order of insertion.
A lookup keeps its snapshot (`candidates`, `left`) through its awaits, and
`gone` records the candidates that were no longer running when it began; each
host posts its registration and its removal once, over connections of their
own, so they may arrive in any order or be lost. `bare` are the hosts of windows
without a folder: their entries have no workspace, and a lookup that has to
compare one with another entry fails before it tries any.

**SocketProxy.** `start` is the promise in `_proxyServer`, step by step: a free
path is looked for, cleared and bound, while `server` is what the other processes
make of the paths; "stuck" is a promise that nothing will settle. Nothing keeps
two processes from these steps at the same time: `contested` (history) are the
processes of which two had chosen one path.

**Settings.** `Merge`, `Truncate` and `Fill` are the three steps of a write, each
of which may fail, and `Crash` kills the process between any two of them.
`saved` is what the last write of each key wrote, the state a reader of
`settings.ts` would expect. A read may fail on a file that is whole (`ReadResults`):
`misread` are the requests whose write then went on with no settings, and
`wiped` the keys that such writes have dropped from the file, until they are
written again.

**Server.** `life` is a process from listen() to its end; `vscode` and `mint`
are the promises of `ensureVSCodeLoaded` and `/mint-key`. A process may be
killed at any time and start again; the key file remains, and reading and
writing it may fail. `astray` are the processes that have looked for the key
while another made one, made one while another did, or could not begin to store
theirs, and `misled` those who asked them; `rough` says that the key in the file
was given up: it could not be read, so another was drawn, or its writing was cut
short.

**TerminalBridge.** `up` and `down` are the messages of each socket, in order;
`pendingCreates` and `slot` belong to the bridge and outlive a socket, as in the
code. `call`, `got` and `result` are the callers of execNew, `taken` what
read() has removed from a buffer. The `/terminal` endpoint is external. A socket
ends in two steps: it is "closing" from the moment at which nothing sent on it
arrives any more, and closed with its "close" event, by which alone the bridge
learns of it. `crossed` records that a creation was asked for while the queue held
one asked for over another socket (`asked`).

**Login.** A request is two steps, before and after the await of its password
check (`pending`). `Argon` and `Sha` are what the hash functions give: a hash has
the password it is of and a salt, and a login under a plain password makes a
salt of its own. A restart may change the password and its method; buckets are
new then, cookies stay. `earned`, `failed` and `granted` are history. A browser
has one request under way; the window per interval that the limiter library has
besides its buckets is left out, so the model refuses no attempt that the
program would accept.

**PersistentProtocol** keeps the variables of the class for each end: `unack` is
the queue `_outgoingUnackMsg`, `inId` and `outAck` the numbers, `ackTimer` and
`unackTimer` the two timeouts, `control` the buffered control messages. `sent`
and `delivered` are all the payloads so far. `wire[s][e]` is what is on its way
to end e on socket s; a "dead" link swallows what is written and tells nobody.
`Environment` stands for whatever networks and handshakes may do: messages vanish,
repeat or change places, and control messages appear. `ProtocolSpec` is the
layer under that environment, for the proofs.

**RemoteConnection** composes it with its users. `phase` is where the client's
loop is, `handshake[s]` what the server waits for on a new socket, `long` and
`short` the grace timers, `told` whether the close of the current socket was
seen. The listener of the client runs in the turn in which a control message
is read (`ListenerCalled`), so nothing else of the client runs before it. The
state of `Init` is the one the first handshake leaves.

**LanguageServers.** The client of a server is named after the call that spawned
it. `written` is all a client has written, `said` what its server has said and
the client not read; an answer is its number. `short` is a reader that waits for
more than a body has: `Content-Length` counts bytes, the buffer UTF-16 units. The
next message then completes the wait with the wrong text, which
`JSON.parse` throws out of the listener, and the process ends (`Crash`). Over the
HTTP transport every request has a table of clients of its own, so the model is
of the stdio transport.

## The runs

| Run | Question | Bounds | States |
|---|---|---|---|
| wrapper | Is there no child left behind or unwatched, in every interleaving; do disposals end, do children die with their parent, is the Supervisor implemented? | 2 forks | 9.5 k |
| wrapper_stale_timeout | Does a handshake timeout concern the child that is supervised? No. | 2 forks | — |
| heart | Is a user ever cut off, is the idle timer in step, does an idle server end? | H=3 P=2 I=4, 2+2 connections | 6.3 k |
| sessions | Is an answer the best, is no running host forgotten? | 3 hosts, 2 lookups, 1 file | 3.1 M |
| proxy | Does the path lead to the server and does each websocket get its answer, when processes probe, clear and bind paths at the same time, but where two had chosen one path? | 2 processes, 3 websockets, 2 paths | 155 k |
| settings | Is nothing lost, unless writes overlap, one is cut short, or the file cannot be read? One request at a time? | 2 page loads, 2 checks, 2 releases, 1 kill | 284 k |
| server | One key, but where processes meet at its file or fail on it; no page without VS Code, no connection that holds up a disposal? | 2 processes, 3 starts, 2 pages, 2 keys asked for | 1.2 M |
| login | By how much can attempts that come together exceed the limit? What is a cookie worth after a restart? | 3 browsers, 2 passwords, 5 configurations, buckets of 1 and 2, 2 refills, 1 restart | 32 k |
| remote | Is nothing forgotten, is every wait timed, is a connected client heard, is none refused too early? | 3 sockets, 2 faults, 2 messages of the client and 1 of the server | 1.6 M |
| remote_live | Is the channel reliable, does everything arrive, do both ends end together? | 3 sockets, 2 faults, 1 loss, messages one way | 127 k |
| terminal | Do ids and output reach the right call, while sockets end and a heartbeat replaces them? Is what has a socket sent on one whose end is not known? | 2 commands, 1 listing, 1 beat, 2 sockets | 2.5 M |
| lsp | Does every server hear a legal order, and does every call end? | 3 calls, 1 of them for diagnostics, 1 message of a server's own | 840 k |

*Why the bounds are enough.* Two forks are the first child and the one that
replaces it while it starts; the proofs cover any number. In Heart the orders
that matter are P < H < I, which the least values that satisfy it have; two
connections let one leave while one stays, and the wall clock goes back by one
tick once. Three hosts let a lookup find its first two candidates dead, and two
lookups delete each other's. Two processes with two paths are the least in which
a path is taken. Two page loads overlap with each other and with a check, and
two checks share one promise. With two sockets an answer to a call of the old
one may be late; MaxText = 1 puts one chunk before the sentinel. Three sockets
are the one that was lost, that of an attempt that timed out, and that of the
next attempt, and a socket both ends have left is used again; two faults break a
socket during the handshake that follows the break of another. A loss on a
living link is combined with them in remote_live. Three browsers can all have
passed the check of a limit that has one token left, and the buckets 1 and 2 let
one run out before the other. Two of the three calls of lsp may start a server
at the same time, and the third find either. The symmetry sets permute
identities that the modules compare for equality only, and are used in runs
without liveness properties alone. Deadlock is not checked: each of these
systems may stop, when a process has ended or when every call has been made.

*Fairness.* `Wrapper!FairSpec`: the event loops of living processes run, armed
timers fire, and signals, messages and exits are delivered; nobody has to send a
signal, crash or end by himself, but for a child that disposes of its server
(`wrapper.ts` 123 exits after 5 s) or waits for a handshake (10 s). `Heart`:
time passes and timers that are due fire. `SocketProxy`: promises and timers of
a process that runs make progress; nothing is assumed of browsers or other
processes. Weak fairness is enough, since nothing but the step itself, or a step
that ends the wait, disables what a loop has queued. `RemoteConnection`: the
event loops at both ends take up what has come and what is due, in whatever
order, grace timers expire, and TCP gives up on a dead connection; nobody has to
send, close a window, give up, or break the network, and a client is not owed an
attempt that succeeds (it may give up, which `EverythingArrives` allows).
`LanguageServers`: the event loop, and a living server that answers. The other
runs have safety properties only.

Each property has a mutant in `PROJECT.json`: a definition changed the way a
slip in the code would change it, with which the run no longer passes.

## Where the code and its comments differ

One run ends with a counterexample, against a line of the repository:

- **wrapper_stale_timeout.** relaunch() removes the listeners of the child it
  replaces, not the 10 s timer of its handshake (`wrapper.ts` 32, 285). A
  hotswap during a handshake makes the parent exit ten seconds later, with a
  healthy child. Line 218 says that the child is relaunched.

Six more sequences are steps of the models, and the properties name them, so
that they do not hide them:

- A proxy path is found free, cleared and bound in three steps, and the server
  has no "error" handler (`socket.ts` 77-105). Two processes that have chosen
  one path take it from each other: one listens on a path that no longer leads
  to it, or meets a path that is taken, and then the promise in `_proxyServer`
  never settles and every later websocket waits for it, where lines 32-33
  promise a server on demand. `ReadyIsReachable` and `ProxySettles` except such
  processes (`contested`), and no others; without the exception TLC shows both.
- write() reads, merges and stores with awaits in between (`settings.ts` 33-37):
  of two writes that overlap one is lost, where line 30 says that settings are
  combined with the current ones. `SettingsSurvive` excepts it (`spoilt`).
- A read of the settings that fails, for want of descriptors or with an error of
  the disk, gives `{}`, where the comment (14-15) promises the last known settings
  (26). The write that asked goes on with it and stores its own key alone: all
  others are lost. A page load without a folder that misreads the last one stores the
  empty query over it. `SettingsSurvive` excepts the keys that such a write does
  not have (`wiped`).
- A key file that is there and cannot be read is logged, and another key is drawn
  and written over it (`routes/vscode.ts` 221-233), so browsers that have
  the old one no longer have that of the server. `OneKey` ends with it (`rough`).
- Two processes that find no key file draw a key each (219-238), and one that reads
  while another writes may hand out an empty key. `OneKey` excepts
  those who ask such a process (`misled`).
- The timer of a listing is not cleared when it is answered, and empties the
  slot whoever is in it (`TerminalWebSocket.ts` 110, `ListTimeout`): the next
  listing then waits for ever, although line 113 rejects it with a time-out.

Smaller observations made while modelling; no run checks them:

- The "relaunch" message of `ChildProcess.relaunch` reaches no listener:
  `_onChildMessage` is never emitted (`wrapper.ts` 230, 258). It has no caller.
- An idle timeout of more than 2^31 ms (24.8 days) is accepted (`cli.ts` 650) and
  fires at once (`Heart!IdleDelay`). The proofs about Heart assume I <= MaxDelay.
- A wall clock that is set back leaves the heart alive without a timer until the
  next request, so an idle server may not end (`heart.ts` 41). The properties of
  Heart exclude it.
- A connection that only asks for `/healthz` keeps the heart alive, since the
  probe counts every connection (`routes/index.ts` 35).
- A host that registers during a lookup is not considered by it.
- The host of a window without a folder posts an entry without a workspace
  (`extHostExtensionService.ts` 237-244, `remoteExtensionHost.ts` 231), and a
  lookup that compares it with another entry throws (`vscodeSocket.ts` 101): the
  request is answered with 500. If the host is killed before it deletes its
  entry, no lookup comes to find that out, and they all fail as long as there is
  another entry.
- A check for updates that is forced, and comes while another runs, gets the
  answer of that one, which may be the stored one (`update.ts` 43).
- A process killed between the creation and the filling of the key file leaves an
  empty key, which is handed out from then on (`routes/vscode.ts` 219-233).
- The limit of logins is looked at before a password is checked and counted
  after it, so attempts that come together exceed "2 logins every minute plus 12
  logins every hour" (`login.ts` 13) by as many as there are less one; `LimitIsKept`
  has exactly that slack.
- Calls that come together start a language server each, of which the table
  keeps the last; the others are used by their call and never ended. A client
  whose server has died stays in the table, and the next write to it ends the
  MCP process, since a broken pipe has no listener (`LSPClient.ts` 229-239).
- A request of a language server's own, whose number is in use, is taken for the
  answer to a call (`LSPClient.ts` 264).
- A message lost on a link that stays up is missed when the next one arrives
  (`ipc.net.ts` 1011), so the last one may be missed for ever; `EverythingArrives`
  excepts runs with such losses, `ImplementsChannel` does not.
- The server has no listener for a socket timeout: a client that has silently
  gone is noticed by TCP alone.
- execCommand sends one SIGTERM when its time is over and waits for the process
  to close (`tools/terminal.ts` 29).
- listen() unlinks a socket path before it binds it, and a server that closes
  removes its path whoever has bound it since (`app.ts` 36).
- An early request, between listen() and the registration of the routes, gets
  404 (`app.ts` 69-85).
- The time limit of exec() is looked at when output arrives (`TerminalWebSocket.ts`
  72): a command that stays silent is waited for for ever.
- Creations that are pending when a socket closes stay in the queue, and the
  answers of the next socket are given to them (`TerminalWebSocket.ts` 43, 173).
  `RequestsArrive` excepts what follows a creation that is asked for meanwhile
  (`crossed`).
- A socket leaves its open state before its "close" event lowers the flag
  (32-34). Until then requireSocket() passes (137-142), and what is sent is lost
  without an error: a creation waits for its time limit, a command for ever.
- The bridge connects again only after two failed beats and a login that works:
  a server that is back after one failed beat is never connected to.

## The proofs

All proofs are checked by tlapm to the last leaf; none assumes anything but the
named assumptions of the modules.

**WrapperProofs** — for any set of children, finite or not, from `NoChild \notin
Children` alone. The inductive invariant `IInv` is the type invariant, the parts
of the safety invariants (one child is owned, none is left behind, the current
one and no other is watched, none is forked while the parent stops), and three
facts they need: a child that was not forked is unknown to the parent
(`FreshIsUnknown`; else a new child could be born killed), a parent that boots
has no child (`NothingAtBoot`), and a parent that disposes of its child has
killed it (`DisposalHasKilled`; its exit then kills nobody, since its handler
has been removed). From it: `TypeCorrect`, `OneOwner`, `NoneLeftBehind`,
`Watched`, `NoForkOnceStopping` (an action property), and `Refinement`, that
every behaviour of `Wrapper!Spec` is one of `Supervisor!Spec` under the mapping
`Mode`, `Owned`, `Unused`: Hotswap maps to Launch, which takes the old worker
out of `owned` and puts the new one in, and the death of a killed child to a
stutter.

**HeartProofs** — for all H, P, I with P < H < I, any number of connections and
any set-back of the clock, assuming `I <= MaxDelay`. `HeartIsTimed` (the
property `StateIsTimed`) is the core: the idle timer runs exactly while the
heart is expired, and an alive heart has a timer or a probe.
`IdleShutdownIsSafe` (`ShutdownIsEarned`) says that the shutdown is earned by a
whole timeout without requests and cuts off no user. The strengthening: the idle
timer has run for no longer than there has been no request (`IdleFollowsQuiet`);
the heartbeat timer is due when the last beat is H old (`TimerFollowsHeartbeat`)
and outlasts a probe (`ProbeEndsFirst`, which needs P < H); and a user who finds
the heart expired has a heartbeat timer that is due before the idle timer
(`UserIsFoundInTime`, which needs H < I).

**EditorSessionsProofs** — for any hosts, lookups and files. The invariant
relates the snapshot of every lookup to the registry: what it has passed over
has exited, what is left is no better than what is tried, and a registered host
that runs is still listed. `AnswersAreBest` and `RunningHostsStay` follow.

**SharedFilesProofs** extends both modules about files that processes share,
whose names do not meet.

*SocketProxy*: for any sockets and any set of processes, finite or not, which
start, stop and are killed at any time, from `ProxyAssumption` alone. The
invariant: only a process that listens answers, on its own path (`FilesLive`);
two processes that clear, bind or close one path are both known to contend for it
(`SharedIsContested`); and what a process has cleared stays free until it binds it,
unless it contends (`ClearedIsFree`), for nobody else writes to a path but who
has chosen it. `Reachability` and `ProxyTyped` follow.

*Settings*: for any requests, folders, releases and kills, from the
module's assumptions. Until a write begins during another there is one writer,
which finds the file empty when it fills it (`WritesAlone`); until one is also cut
short, what it will store is its own key and, unless it could not read the file,
what was last written to the other one, if no write has dropped that
(`NothingLost`). `Survival` (the property `SettingsSurvive`), `OneAtATime`
(`OneRequest`) and `SettingsTyped` follow.

**ServerProofs** — for any processes and requests, finite or not, and any bound
on restarts, from `ServerAssumption`. `KeyInv` relates the key file, what every
process makes and what every browser was given. Until the key in the file is
given up, of several makers none counts on its key (`MakersAreAstray`), an empty
file has somebody who fills it (`EmptyIsFilled`), and a process that counts on
its key, or a browser that was given one by such a process, has the key of the
file, which nobody makes anew (`SureHaveKey`, `GivenIsKey`, with `KeyIsKept`): a
process that is still to look will find it. That keys do not run out before
starts do, which the type of `key` needs, is a count: keys drawn, and processes
that may still draw one, are no more than starts (`DrawsAreCounted`).
`OneKeyForAll`, `PagesBacked` and `HangingTimed` follow, the latter two with
`SentSomewhere`.

**LoginProofs** — for any finite set of browsers, any passwords, configurations
and sizes of the buckets, from `LoginAssumption`. `LimitIsKept` is inductive with
`LateFailures`: once the buckets are empty, the failures beyond the tokens and the
requests still pending are together fewer than the browsers, for a request
passes the check only while there is a token. `CookiesAreHonest` follows from
`CookiesAreGiven`: a cookie is one that its login could have made.

**RemoteConnectionProofs** — for any sockets, scripts, and bounds on faults and
losses. It has two layers. `ProtocolInv` is the invariant of the message layer
alone, under `Environment`: the queue of each end holds a run of consecutive
numbers that ends with the last one sent; the other end has received at least
what is confirmed, and delivered a prefix of what was sent; each regular message
on any wire, old or new, is one that was sent, under its number, and each
acknowledgement says no more than was received. It is inductive because no
acknowledgement ever goes beyond that, on whatever socket it is read, so
`ProtocolIsReliable`: the layer implements `ReliableChannel`. `ConnectionRunsProtocol`
then shows that every step of the whole connection, its handshakes, timers and
breaks included, is a step of that layer, and `ConnectionIsReliable`,
`ConnectionForgetsNothing` and `ConnectionIsTyped` follow. `ConnectionInv` adds the
grace timers (`LostIsTimed`), and `ClientTimed` the timer of what the client has
sent: while it is up it accepts no socket, and something not acknowledged has a
timer. `WaitsAreTimed` is both. `HandshakeInv` follows the control messages of the
client's current socket, which a step seldom adds to (`Calm`, shown once): while
it waits for a sign request, that is the only thing that can come, once, and not
before the server has read what the client began with (`AwaitsSign`); while it waits
for an answer, whatever has come or is on its way says what is the case
(`AwaitsAnswer`), an ok that the server has the socket, or that it has been closed
since, and an error that the connection is disposed of. From it `ConnectedIsHeard`
(`ClientIsHeard`), and `RefusalsAreFinal` (`RefusedOnlyWhenGone`), an action property.

**McpProofs** extends the two modules of the MCP server, whose names do not meet.

*TerminalBridge*: for any finite set of calls, any listings and beats, and any
bounds on sockets and text, from `BridgeAssumption`. `RequestsGoHome` (the property
`RequestsArrive`: what a call types goes to a socket whose end is not known, and to
the terminal it asked for) needs, of every moment and not only of the one at which
an answer is read, that the queue of creations is in step with the socket that was
last asked. `QueueOf` says how:
the queue is the answers on their way, in their order, then the requests on
their way, in theirs, and last those that are lost, of which there are none
while that socket is open; nothing is asked that is not in it. As long as nothing
was `crossed` that is so, and no other socket carries a request or an answer
(`InStep`). With
`OneTerminalEach`, that a call asks once and gets one terminal, the head of the
queue is then the call whose answer is read. A call that has its terminal keeps
it (`OnlyOwnTerminal`), and terminals are never forgotten (`IdsExist`,
`OnlyOpenCarry`). `OutputArrivesWhole` (`OutputIsWhole`) rests on
`OutputInOrder`: of a terminal's output, each chunk that has arrived or is on its
way has all those before it buffered, read, or on their way ahead of it. The
messages are moved by the lemmas about `Moved`, which says what is the same of
two families of queues when one head is taken and some messages are appended;
each part of the invariant is shown once for any such step.

*LanguageServers*: for any calls and any bound on a server's own messages, from
the module's assumption. `ServersHearInOrder` (`ProtocolOrder`) relates three
counts of a client: a request that is pending was written under its own number
(`NumbersAreGiven`); while a client starts, the call it is named after is the only
one to wait for it, and "initialize" all that was written (`CallsArePlaced`,
`ClientsAreMade`, `StartsAlone`: the table gets a client after `start()`); and a client
that a call uses has heard "initialize" and then "initialized", and
nothing before them (`UsedAreReady`).

*Model-checked only*: every liveness property, with the fairness part of
`ImplementsSupervisor`, since TLAPS does not reason about ENABLED here. Every
invariant and every action property of the runs is a theorem.

## What is not modelled

The greater part of VS Code (`lib/vscode`), which is vendored: a million and a
half lines, so that the share of the repository the models cover is small
whatever is modelled of the rest. Of its remote connection, the connection to
the extension host (a process of its own, to which the socket is handed), the
first handshake, and the framing of messages in the byte stream. The sliding
window and the sessions of the MCP tools, and execCommand. Routing and the path
and domain proxies act on one request and keep no state. The command line is a
function of flags, file and environment. The tools for files, search and git,
and the native socket bridge, make one call each. Log files, pages,
translations, packaging, scripts, tests and the compiled MCP server have no
behaviour of their own. Within modelled components: redirects and the
comparison of versions in the update check, raw input and resizing in the
terminal bridge, overlapping heartbeats, websockets accepted by a process that
has already stopped its proxy, and the socket paths that listen() unlinks.

## Plan

Done: the process core (Supervisor, Wrapper), Heart, EditorSessions, SocketProxy,
Settings, Server and Login with proofs; the remote connection with its abstract
specification, its refinement and its proofs; TerminalBridge and LanguageServers
with runs and proofs. What would come next, in this order:

1. The extension host's connection (`extensionHostConnection.ts`): the hand-over of
   a socket to another process, whose writer is paused meanwhile, as a second user
   of PersistentProtocol.
2. Commands (`context.ts`, `tools/terminal.ts`): the sliding window against a
   reference definition, sessions and their processes, execCommand's time limit.
3. Sockets of the server (`app.ts`): listen() that unlinks, two instances on one
   path, and the session server; composed with EditorSessions.
4. Overlapping heartbeats in TerminalBridge, and exec()'s time limit.
5. Proofs: that TerminalBridge and Settings implement their abstract
   specifications, once these are stated.

Abstract specifications worth stating: a register with atomic writes, which
Settings implements as long as writes do not overlap; a service that answers
each request once, for TerminalBridge and LanguageServers.
