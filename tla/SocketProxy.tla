---------------------------- MODULE SocketProxy ----------------------------
(***************************************************************************)
(* SocketProxyProvider of src/src/node/socket.ts: a server on a Unix       *)
(* socket, started on demand, that turns TLS websockets into sockets which *)
(* can be passed to a child process.                                       *)
(*                                                                         *)
(* Several code-server processes of a user share the directory of the      *)
(* socket (two instances, or the two children of a hotswap), so each looks *)
(* for a free path before it listens.  A file that names a socket outlives *)
(* the process that made it.                                               *)
(***************************************************************************)
EXTENDS Naturals

CONSTANTS Procs,     (* code-server processes                              *)
          Sockets,   (* TLS websockets                                     *)
          Owner,     (* the process that each of them has connected to     *)
          MaxTries,  (* of findFreeSocketPath (100)                        *)
          Free,      (* a path without a file                              *)
          Stale      (* a file that nobody listens on                      *)

ASSUME ProxyAssumption ==
  /\ Owner \in [Sockets -> Procs]
  /\ MaxTries \in Nat
  /\ Free \notin Procs /\ Stale \notin Procs /\ Free # Stale

Paths == 0 .. MaxTries

VARIABLES
  start,   (* _proxyServer: "none", how far the promise is, or its outcome  *)
  stopped, (* processes that have called stop()                             *)
  pipe,    (* proxyPipe                                                     *)
  server,  (* whose server a connection to each path reaches                *)
  proxy,   (* createProxy of each socket                                    *)
  peer,    (* the process that the proxy of each socket has reached         *)
  closed,  (* websockets that the browser has closed                        *)
  contested(* history: processes that have chosen a path another one uses   *)

proxyVars == <<start, stopped, pipe, server, proxy, peer, closed, contested>>

Pending == {"probing", "removing", "binding"}
Nobody == {Free, Stale}

\* The last run of some process may have left its socket behind.
ProxyInit ==
  /\ start = [p \in Procs |-> "none"]
  /\ stopped = {}
  /\ pipe = [p \in Procs |-> 0]
  /\ server \in [Paths -> {Free, Stale}]
  /\ proxy = [s \in Sockets |-> "new"]
  /\ peer = [s \in Sockets |-> Free]
  /\ closed = {}
  /\ contested = {}

----------------------------------------------------------------------------
(* startProxyServer.                                                       *)

\* createProxy up to its await: only one start at a time, whose promise is
\* kept whatever becomes of it.
Create(s) ==
  LET p == Owner[s] IN
  /\ proxy[s] = "new"
  /\ start[p] # "dead" /\ p \notin stopped
  /\ proxy' = [proxy EXCEPT ![s] = "waiting"]
  /\ \/ start[p] # "none" /\ UNCHANGED start
     \/ start[p] = "none" /\ start' = [start EXCEPT ![p] = "probing"]
  /\ UNCHANGED <<stopped, pipe, server, peer, closed, contested>>

\* Who clears, binds or closes the path of a process, other than the one that
\* answers on it; on the last path that one too, for it is not looked at.
Using(p) ==
  \/ start[p] \in {"removing", "binding"}
  \/ start[p] = "ready" /\ p \notin stopped
Contenders(p) ==
  {q \in Procs \ {p} : /\ Using(q) /\ pipe[q] = pipe[p]
                       /\ server[pipe[p]] # q \/ pipe[p] = MaxTries}

\* The path is chosen.
Choose(p) ==
  /\ start' = [start EXCEPT ![p] = "removing"]
  /\ contested' = IF Contenders(p) = {} THEN contested ELSE contested \cup Contenders(p) \cup {p}

\* Mutated form: the path is taken whoever listens on it.
TakeFirst(p) ==
  /\ start[p] = "probing"
  /\ Choose(p)
  /\ UNCHANGED <<stopped, pipe, server, proxy, peer, closed>>

\* Mutated form: a path with a file is not free, and the tries are not
\* counted.
ProbeFiles(p) ==
  /\ start[p] = "probing"
  /\ IF server[pipe[p]] # Free
     THEN pipe' = [pipe EXCEPT ![p] = @ + 1] /\ UNCHANGED <<start, contested>>
     ELSE Choose(p) /\ UNCHANGED pipe
  /\ UNCHANGED <<stopped, server, proxy, peer, closed>>

\* One turn of findFreeSocketPath: the next path while somebody answers, the
\* last one even then.  The other processes go on meanwhile.
Probe(p) ==
  /\ start[p] = "probing"
  /\ IF server[pipe[p]] \notin Nobody /\ pipe[p] < MaxTries
     THEN pipe' = [pipe EXCEPT ![p] = @ + 1] /\ UNCHANGED <<start, contested>>
     ELSE Choose(p) /\ UNCHANGED pipe
  /\ UNCHANGED <<stopped, server, proxy, peer, closed>>

\* Mutated form: nothing is removed.
RemoveNothing(p) ==
  /\ start[p] = "removing"
  /\ start' = [start EXCEPT ![p] = "binding"]
  /\ UNCHANGED <<stopped, pipe, server, proxy, peer, closed, contested>>

\* mkdir and rm, at the same time: whatever is on the path goes, or one of
\* them fails, and the start is rejected.
Remove(p) ==
  LET cleared == [server EXCEPT ![pipe[p]] = Free] IN
  /\ start[p] = "removing"
  /\ \/ start' = [start EXCEPT ![p] = "binding"] /\ server' = cleared
     \/ start' = [start EXCEPT ![p] = "failed"] /\ server' \in {server, cleared}
  /\ UNCHANGED <<stopped, pipe, proxy, peer, closed, contested>>

\* listen(): there is only a handler for "listening".  EADDRINUSE becomes an
\* uncaught exception, which is logged, and the promise stays as it is.  A
\* stop() meanwhile closes the server before anything else can happen.
Bind(p) ==
  /\ start[p] = "binding"
  /\ IF server[pipe[p]] # Free
     THEN start' = [start EXCEPT ![p] = "stuck"] /\ UNCHANGED server
     ELSE /\ start' = [start EXCEPT ![p] = "ready"]
          /\ server' = [server EXCEPT ![pipe[p]] = IF p \in stopped THEN Free ELSE p]
  /\ UNCHANGED <<stopped, pipe, proxy, peer, closed, contested>>

\* stop(): closing a server removes the path it was given, whoever has it.
Stop(p) ==
  /\ p \notin stopped /\ start[p] # "dead"
  /\ stopped' = stopped \cup {p}
  /\ server' = IF start[p] = "ready" THEN [server EXCEPT ![pipe[p]] = Free] ELSE server
  /\ UNCHANGED <<start, pipe, proxy, peer, closed, contested>>

\* The process is killed, and with it every websocket it has.
Kill(p) ==
  /\ start[p] # "dead"
  /\ start' = [start EXCEPT ![p] = "dead"]
  /\ server' = [i \in Paths |-> IF server[i] = p THEN Stale ELSE server[i]]
  /\ proxy' = [s \in Sockets |-> IF Owner[s] = p THEN "gone" ELSE proxy[s]]
  /\ UNCHANGED <<stopped, pipe, peer, closed, contested>>

----------------------------------------------------------------------------
(* createProxy once the server has started.                                *)

\* Connect to whoever has the path, arm the 5 s timer, and listen for the
\* connections that the server accepts.
Connect(s) ==
  /\ proxy[s] = "waiting" /\ start[Owner[s]] = "ready"
  /\ proxy' = [proxy EXCEPT ![s] = "linking"]
  /\ peer' = [peer EXCEPT ![s] = server[pipe[Owner[s]]]]
  /\ UNCHANGED <<start, stopped, pipe, server, closed, contested>>

\* A failed start rejects every createProxy that awaits it.
Reject(s) ==
  /\ proxy[s] = "waiting" /\ start[Owner[s]] = "failed"
  /\ proxy' = [proxy EXCEPT ![s] = "rejected"]
  /\ UNCHANGED <<start, stopped, pipe, server, peer, closed, contested>>

\* The browser goes away: the id no longer leads to a pair.
Close(s) ==
  /\ proxy[s] \in {"waiting", "linking"}
  /\ closed' = closed \cup {s}
  /\ UNCHANGED <<start, stopped, pipe, server, proxy, peer, contested>>

\* The id that was written comes in at the server; another process has
\* nobody who waits for it.
Pair(s) ==
  /\ proxy[s] = "linking" /\ peer[s] = Owner[s] /\ s \notin closed
  /\ proxy' = [proxy EXCEPT ![s] = "paired"]
  /\ UNCHANGED <<start, stopped, pipe, server, peer, closed, contested>>

TimeOut(s) ==
  /\ proxy[s] = "linking"
  /\ proxy' = [proxy EXCEPT ![s] = "timedOut"]
  /\ UNCHANGED <<start, stopped, pipe, server, peer, closed, contested>>

----------------------------------------------------------------------------
StartStep(p) == Probe(p) \/ Remove(p) \/ Bind(p)
ProxyStep(s) == Connect(s) \/ Reject(s) \/ Pair(s) \/ TimeOut(s)

ProxyNext ==
  \/ \E p \in Procs : StartStep(p) \/ Stop(p) \/ Kill(p)
  \/ \E s \in Sockets : Create(s) \/ Close(s) \/ ProxyStep(s)

ProxySpec == ProxyInit /\ [][ProxyNext]_proxyVars

\* Promises and timers of a running process make progress.
FairProxySpec ==
  /\ ProxySpec
  /\ \A p \in Procs : WF_proxyVars(StartStep(p))
  /\ \A s \in Sockets : WF_proxyVars(ProxyStep(s))

----------------------------------------------------------------------------
(* Properties.                                                             *)

ProxyTypeOK ==
  /\ start \in [Procs -> Pending \cup {"none", "ready", "failed", "stuck", "dead"}]
  /\ stopped \subseteq Procs
  /\ pipe \in [Procs -> Paths]
  /\ server \in [Paths -> Procs \cup {Free, Stale}]
  /\ proxy \in [Sockets ->
       {"new", "waiting", "linking", "paired", "rejected", "timedOut", "gone"}]
  /\ peer \in [Sockets -> Procs \cup {Free, Stale}]
  /\ closed \subseteq Sockets
  /\ contested \subseteq Procs

\* However many processes probe, clear and bind paths at the same time, are
\* stopped or killed, one that listens loses its path, and one that binds
\* finds a file in its way, only where another had chosen the same path: it
\* had looked before the path was bound, had lost it to such a one itself, or
\* had run out of paths (socket.ts 20-28, 77-105).
ReadyIsReachable ==
  \A p \in Procs \ contested :
    /\ start[p] = "ready" /\ p \notin stopped => server[pipe[p]] = p
    /\ start[p] # "stuck"

\* "This will spawn a proxy server on demand" (socket.ts 32-33): whoever asks
\* for a proxy gets one, or learns that there is none, but for those whose
\* process has bound a path that another one had chosen too.
ProxySettles ==
  \A s \in Sockets : proxy[s] = "waiting" ~>
    \/ proxy[s] \notin {"waiting", "linking"}
    \/ start[Owner[s]] = "stuck" /\ Owner[s] \in contested

============================================================================
