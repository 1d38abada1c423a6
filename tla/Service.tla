------------------------------ MODULE Service ------------------------------
(* The process: its start with the PID file, its listeners for UDP, TCP, TLS  *)
(* and HTTPS, priming and the switching on of validation behind the running    *)
(* listeners, shutdown on SIGTERM, and the commands that look at the PID file. *)
(*                                                                             *)
(* At most one process has the sockets (port); udp, accept, sem, conn, tried,  *)
(* ready and validator are its state.  A message is not looked into: Handle    *)
(* returns a response, none, or panics.                                        *)
EXTENDS Integers, FiniteSets

CONSTANTS
    Pids, Conns,
    Kind,           \* the listener of each connection: "tcp", "dot" or "doh"
    MaxUDPWorkers, MaxConns, PipelineMax,
    Scenarios,      \* what the environment does at most; bounds the run
    NoPid, Empty     \* no PID file; one that is truncated and not yet written

VARIABLES
    proc,       \* what runs under each PID
    term,       \* PIDs with a SIGTERM to come
    pidFile,
    port,       \* the process that has the sockets
    cmd,        \* the `daemon stop` under way
    udp,        \* UDPServer: its reader and the workers that are busy
    accept,     \* TCPServer, DoTServer: the accept loop
    sem,        \* their semaphores
    conn,       \* connections: [pc, i]
    tried, ready, validator,    \* PrimeRootHints and what follows it
    left,       \* what the environment may still do
    overlapped, \* a process was started while another was there
    lost,       \* an answer was not written although nobody asked for a shutdown
    struck      \* `daemon stop` signalled a process that never was labyrinth

process == <<proc, term, pidFile, port>>
listeners == <<udp, accept, sem, conn>>
background == <<tried, ready, validator>>
serviceGhosts == <<overlapped, lost, struck>>
serviceVars == <<process, cmd, listeners, background, left, serviceGhosts>>

StreamServers == {"tcp", "dot"}

ASSUME KindAssumption == Kind \in [Conns -> StreamServers \cup {"doh"}]
ASSUME ConnsAssumption == IsFiniteSet(Conns)
ASSUME PlacesAssumption == MaxUDPWorkers \in Nat /\ MaxConns \in Nat
ASSUME PidFileAssumption == NoPid \notin Pids /\ Empty \notin Pids

Labyrinth == {"init", "truncated", "boot", "serve", "grace"}
Alive(p) == proc[p] \in Labyrinth
Up == port # NoPid
Cancelled == Up /\ proc[port] = "grace"
Spend(what) == left[what] > 0 /\ left' = [left EXCEPT ![what] = @ - 1]

NoConn == [pc |-> "none", i |-> 0]
Fresh ==
    /\ udp' = [pc |-> "read", busy |-> 0]
    /\ accept' = [s \in StreamServers |-> "accept"]
    /\ sem' = [s \in StreamServers |-> 0]
    /\ conn' = [c \in Conns |-> NoConn]
    /\ tried' = 0 /\ ready' = FALSE /\ validator' = "none"

\* The process under p is gone, and with it its sockets and connections.
Gone(p) ==
    /\ proc' = [proc EXCEPT ![p] = "free"]
    /\ term' = term \ {p}
    /\ cmd' = IF cmd.pid = p THEN [cmd EXCEPT !.moved = TRUE] ELSE cmd
    /\ IF port = p THEN port' = NoPid /\ Fresh ELSE UNCHANGED <<port, listeners, background>>

-----------------------------------------------------------------------------
(* UDPServer.                                                                 *)

\* A packet; or an error or the deadline of a second, after which the loop is
\* left if the context is done and goes on reading if not.
UDPRead ==
    /\ Up /\ udp.pc = "read"
    /\ \/ Spend("packets") /\ udp' = [udp EXCEPT !.pc = "full"]
       \/ Cancelled /\ UNCHANGED left /\ udp' = [udp EXCEPT !.pc = "closed"]
    /\ UNCHANGED <<process, cmd, accept, sem, conn, background, serviceGhosts>>

\* The packet gets a worker; the loop looks at the context and reads again.
UDPDispatch ==
    /\ Up /\ udp.pc = "full" /\ udp.busy < MaxUDPWorkers
    /\ udp' = [pc |-> IF Cancelled THEN "closed" ELSE "read", busy |-> udp.busy + 1]
    /\ UNCHANGED <<process, cmd, accept, sem, conn, background, left, serviceGhosts>>

\* Handle returned a response, which is written if the socket is still open;
\* or nothing; or panicked, which is recovered.
handleUDP ==
    /\ Up /\ udp.busy > 0
    /\ udp' = [udp EXCEPT !.busy = @ - 1]
    /\ \/ lost' = (lost \/ (udp.pc = "closed" /\ ~Cancelled)) /\ UNCHANGED left
       \/ UNCHANGED <<lost, left>>
       \/ Spend("panics") /\ UNCHANGED lost
    /\ UNCHANGED <<process, cmd, accept, sem, conn, background, overlapped, struck>>

-----------------------------------------------------------------------------
(* TCPServer and DoTServer, and handleDoH.                                    *)

\* A client connects.  net/http serves a request as soon as it is there.
Connect(c) ==
    /\ Up /\ conn[c].pc = "none" /\ c \in left.conns
    /\ left' = [left EXCEPT !.conns = @ \ {c}]
    /\ IF Kind[c] = "doh" THEN conn' = [conn EXCEPT ![c].pc = "read"]
       ELSE accept[Kind[c]] # "closed" /\ conn' = [conn EXCEPT ![c].pc = "backlog"]
    /\ UNCHANGED <<process, cmd, udp, accept, sem, background, serviceGhosts>>

\* Accept ends with a connection; or, once the context is done, with the deadline
\* of a second (TCP) or because the goroutine of DoTServer.Serve has closed the
\* listener.  A deadline before that leads back to Accept.
Accept(s) ==
    /\ Up /\ accept[s] = "accept"
    /\ \/ \E c \in Conns : /\ Kind[c] = s /\ conn[c].pc = "backlog"
                           /\ conn' = [conn EXCEPT ![c].pc = "accepted"]
                           /\ accept' = [accept EXCEPT ![s] = "full"]
       \/ Cancelled /\ accept' = [accept EXCEPT ![s] = "closed"] /\ UNCHANGED conn
    /\ UNCHANGED <<process, cmd, udp, sem, background, left, serviceGhosts>>

\* The connection gets its place; the loop looks at the context and accepts again.
Dispatch(s) ==
    /\ Up /\ accept[s] = "full" /\ sem[s] < MaxConns
    /\ sem' = [sem EXCEPT ![s] = @ + 1]
    /\ \E c \in Conns : /\ Kind[c] = s /\ conn[c].pc = "accepted"
                        /\ conn' = [conn EXCEPT ![c].pc = "read"]
    /\ accept' = [accept EXCEPT ![s] = IF Cancelled THEN "closed" ELSE "accept"]
    /\ UNCHANGED <<process, cmd, udp, background, left, serviceGhosts>>

\* The connection is closed and its place given back.
End(c) ==
    /\ conn' = [conn EXCEPT ![c] = NoConn]
    /\ sem' = IF Kind[c] = "doh" THEN sem ELSE [sem EXCEPT ![Kind[c]] = @ - 1]

QueryLimit(c) == IF Kind[c] = "doh" THEN 1 ELSE PipelineMax

\* A whole query; or the end of the stream, a length below 12 or the deadline.
ReadQuery(c) ==
    /\ Up /\ conn[c].pc = "read"
    /\ \/ conn' = [conn EXCEPT ![c].pc = "handle"] /\ UNCHANGED sem
       \/ End(c)
    /\ UNCHANGED <<process, cmd, udp, accept, background, left, serviceGhosts>>

\* A panic ends the goroutine before its place is given back.
HandleQuery_Leak(c) ==
    /\ Up /\ conn[c].pc = "handle"
    /\ \/ conn' = [conn EXCEPT ![c].pc = "write"] /\ UNCHANGED <<sem, left>>
       \/ End(c) /\ UNCHANGED left
       \/ Kind[c] # "dot" /\ Spend("panics") /\ conn' = [conn EXCEPT ![c] = NoConn] /\ UNCHANGED sem
    /\ UNCHANGED <<process, cmd, udp, accept, background, serviceGhosts>>

\* Handle returned a response or nothing, or panicked: handleTCP and net/http
\* recover.  (handleDoT does not: see PanicInDoT.)
HandleQuery(c) ==
    /\ Up /\ conn[c].pc = "handle"
    /\ \/ conn' = [conn EXCEPT ![c].pc = "write"] /\ UNCHANGED <<sem, left>>
       \/ End(c) /\ UNCHANGED left
       \/ Kind[c] # "dot" /\ Spend("panics") /\ End(c)
    /\ UNCHANGED <<process, cmd, udp, accept, background, serviceGhosts>>

\* The number of queries on a connection is not counted.
WriteResponse_Uncounted(c) ==
    /\ Up /\ conn[c].pc = "write"
    /\ \/ conn' = [conn EXCEPT ![c].pc = "read"] /\ UNCHANGED sem
       \/ End(c)
    /\ UNCHANGED <<process, cmd, udp, accept, background, left, serviceGhosts>>

\* The response is written and the deadline set anew, or the write fails.
WriteResponse(c) ==
    /\ Up /\ conn[c].pc = "write"
    /\ \/ conn[c].i + 1 < QueryLimit(c) /\ conn' = [conn EXCEPT ![c] = [pc |-> "read", i |-> @.i + 1]] /\ UNCHANGED sem
       \/ End(c)
    /\ UNCHANGED <<process, cmd, udp, accept, background, left, serviceGhosts>>

\* A panic that nobody recovers ends the process.
PanicInDoT(c) ==
    /\ Up /\ conn[c].pc = "handle" /\ Kind[c] = "dot" /\ Spend("panics")
    /\ Gone(port)
    /\ UNCHANGED <<pidFile, serviceGhosts>>

-----------------------------------------------------------------------------
(* Priming, and validation behind it.                                         *)

\* A root server that does not answer is asked again for ever.
PrimeRootHints_Forever ==
    /\ Up /\ ~ready
    /\ \/ ready' = TRUE /\ UNCHANGED tried
       \/ left.failures > 0 /\ tried' = (tried + 1) % 3 /\ UNCHANGED ready
    /\ UNCHANGED <<process, cmd, listeners, validator, left, serviceGhosts>>

\* An attempt.  After the third failure the resolver counts as ready all the same.
PrimeRootHints ==
    /\ Up /\ ~ready
    /\ \/ ready' = TRUE /\ UNCHANGED tried
       \/ left.failures > 0 /\ tried' = tried + 1 /\ ready' = (tried' = 3)
    /\ UNCHANGED <<process, cmd, listeners, validator, left, serviceGhosts>>

\* A fresh validator does not accept SHA1; then it is told what is configured.
EnableDNSSEC ==
    /\ Up /\ ready /\ validator = "none"
    /\ validator' = "fresh"
    /\ UNCHANGED <<process, cmd, listeners, tried, ready, left, serviceGhosts>>

SetDNSSECAllowSHA1 ==
    /\ Up /\ validator = "fresh"
    /\ validator' = "configured"
    /\ UNCHANGED <<process, cmd, listeners, tried, ready, left, serviceGhosts>>

-----------------------------------------------------------------------------
(* The life of a process, and the commands.                                   *)

\* `labyrinth -daemon`: Daemonize starts the child under a free PID.
Daemonize(p) ==
    /\ proc[p] = "free" /\ Spend("starts")
    /\ proc' = [proc EXCEPT ![p] = "init"]
    /\ overlapped' = (overlapped \/ \E q \in Pids : Alive(q))
    /\ UNCHANGED <<term, pidFile, port, cmd, listeners, background, lost, struck>>

\* The PID is written only where there is none.
WritePID_Once(p) ==
    /\ \/ proc[p] = "init" /\ proc' = [proc EXCEPT ![p] = "truncated"] /\ UNCHANGED pidFile
       \/ /\ proc[p] = "truncated" /\ proc' = [proc EXCEPT ![p] = "boot"]
          /\ pidFile' = IF pidFile = NoPid THEN p ELSE pidFile
    /\ UNCHANGED <<term, port, cmd, listeners, background, left, serviceGhosts>>

\* The file is opened, which truncates it, then written.
WritePID(p) ==
    /\ \/ proc[p] = "init" /\ proc' = [proc EXCEPT ![p] = "truncated"] /\ pidFile' = Empty
       \/ proc[p] = "truncated" /\ proc' = [proc EXCEPT ![p] = "boot"] /\ pidFile' = p
    /\ UNCHANGED <<term, port, cmd, listeners, background, left, serviceGhosts>>

\* The rest of run() up to waitForShutdown: everything is set up, the sockets
\* bound and the servers started.
Boot(p) ==
    /\ proc[p] = "boot" /\ port = NoPid
    /\ proc' = [proc EXCEPT ![p] = "serve"] /\ port' = p
    /\ Fresh
    /\ UNCHANGED <<term, pidFile, cmd, left, serviceGhosts>>

\* The PID file cannot be opened, or one of the error returns, the sockets of another process among the reasons;
\* also the child of `labyrinth daemon start`, which returns once it has
\* written its PID.  The PID file stays.
BootFails(p) ==
    /\ proc[p] \in {"init", "boot"} /\ Gone(p)
    /\ UNCHANGED <<pidFile, left, serviceGhosts>>

\* SIGTERM ends a process that is not in waitForShutdown yet.
Terminated(p) ==
    /\ p \in term /\ proc[p] \in {"init", "truncated", "boot"}
    /\ Gone(p)
    /\ UNCHANGED <<pidFile, left, serviceGhosts>>

\* waitForShutdown takes the signal: cancel(), then the graceful period.
Shutdown(p) ==
    /\ p \in term /\ proc[p] = "serve"
    /\ proc' = [proc EXCEPT ![p] = "grace"] /\ term' = term \ {p}
    /\ UNCHANGED <<pidFile, port, cmd, listeners, background, left, serviceGhosts>>

\* The exit waits for the listeners and everything they have started.
Exit_Drained(p) ==
    /\ proc[p] = "grace" /\ udp.pc = "closed" /\ udp.busy = 0
    /\ \A c \in Conns : conn[c].pc = "none"
    /\ pidFile' = NoPid /\ Gone(p)
    /\ UNCHANGED <<left, serviceGhosts>>

\* The period is over, whatever is under way.
Exit(p) ==
    /\ proc[p] = "grace"
    /\ pidFile' = NoPid /\ Gone(p)
    /\ UNCHANGED <<left, serviceGhosts>>

Killed(p) ==
    /\ Alive(p) /\ Spend("kills") /\ Gone(p)
    /\ UNCHANGED <<pidFile, serviceGhosts>>

\* The system gives a free PID to another program, which ends in time.
Reuse(p) ==
    /\ proc[p] = "free" /\ Spend("others")
    /\ proc' = [proc EXCEPT ![p] = "other"]
    /\ UNCHANGED <<term, pidFile, port, cmd, listeners, background, serviceGhosts>>
OtherEnds(p) == proc[p] = "other" /\ Gone(p) /\ UNCHANGED <<pidFile, left, serviceGhosts>>

\* StopDaemon: ReadPID, verifyPIDIsLabyrinth, the signal.
StopRead ==
    /\ cmd.pc = "idle" /\ pidFile \in Pids /\ Spend("stops")
    /\ cmd' = [pc |-> "verify", pid |-> pidFile, moved |-> FALSE]
    /\ UNCHANGED <<process, listeners, background, serviceGhosts>>

StopVerify ==
    /\ cmd.pc = "verify"
    /\ cmd' = IF Alive(cmd.pid) THEN [cmd EXCEPT !.pc = "signal", !.moved = FALSE] ELSE [cmd EXCEPT !.pc = "idle"]
    /\ UNCHANGED <<process, listeners, background, left, serviceGhosts>>

StopSignal ==
    /\ cmd.pc = "signal"
    /\ cmd' = [cmd EXCEPT !.pc = "idle"]
    /\ term' = IF Alive(cmd.pid) THEN term \cup {cmd.pid} ELSE term
    /\ struck' = (struck \/ (proc[cmd.pid] = "other" /\ ~cmd.moved))
    /\ UNCHANGED <<proc, pidFile, port, listeners, background, left, overlapped, lost>>

ServiceInit ==
    /\ proc = [p \in Pids |-> "free"] /\ term = {} /\ pidFile = NoPid /\ port = NoPid
    /\ cmd = [pc |-> "idle", pid |-> NoPid, moved |-> FALSE]
    /\ udp = [pc |-> "read", busy |-> 0]
    /\ accept = [s \in StreamServers |-> "accept"] /\ sem = [s \in StreamServers |-> 0]
    /\ conn = [c \in Conns |-> NoConn]
    /\ tried = 0 /\ ready = FALSE /\ validator = "none"
    /\ left \in Scenarios
    /\ overlapped = FALSE /\ lost = FALSE /\ struck = FALSE

UDPServe == UDPRead \/ UDPDispatch
TCPServe == Accept("tcp") \/ Dispatch("tcp")
DoTServe == Accept("dot") \/ Dispatch("dot")
Queried(c) == ReadQuery(c) \/ HandleQuery(c) \/ WriteResponse(c)
handleTCP(c) == Kind[c] = "tcp" /\ Queried(c)
handleDoT(c) == Kind[c] = "dot" /\ (Queried(c) \/ PanicInDoT(c))
handleDoH(c) == Kind[c] = "doh" /\ Queried(c)
Step(c) == handleTCP(c) \/ handleDoT(c) \/ handleDoH(c)
StartUp == PrimeRootHints \/ EnableDNSSEC \/ SetDNSSECAllowSHA1
waitForShutdown(p) == Shutdown(p) \/ Exit(p)
run(p) == WritePID(p) \/ Boot(p) \/ BootFails(p) \/ Terminated(p) \/ waitForShutdown(p)
StopDaemon == StopRead \/ StopVerify \/ StopSignal

ServiceNext ==
    \/ UDPServe \/ handleUDP \/ TCPServe \/ DoTServe \/ StartUp \/ StopDaemon
    \/ \E c \in Conns : Connect(c) \/ Step(c)
    \/ \E p \in Pids : run(p) \/ Daemonize(p) \/ Killed(p) \/ Reuse(p) \/ OtherEnds(p)

\* Goroutines run; reads, writes and accepts have deadlines, Handle has the
\* resolver's; the graceful period ends.  Nothing is assumed of the environment.
Fairness ==
    /\ WF_serviceVars(UDPServe) /\ WF_serviceVars(handleUDP) /\ WF_serviceVars(StartUp)
    /\ WF_serviceVars(TCPServe) /\ WF_serviceVars(DoTServe)
    /\ \A c \in Conns : WF_serviceVars(Step(c))
    /\ \A p \in Pids : WF_serviceVars(run(p))

ServiceSpec == ServiceInit /\ [][ServiceNext]_serviceVars /\ Fairness

-----------------------------------------------------------------------------
(* Properties.                                                                *)

\* The process with the sockets serves or shuts down, and what belongs to a
\* process is there only while it is.
TypeOK ==
    /\ proc \in [Pids -> Labyrinth \cup {"free", "other"}]
    /\ port \in Pids \cup {NoPid} /\ pidFile \in Pids \cup {NoPid, Empty}
    /\ \A p \in Pids : p = port <=> proc[p] \in {"serve", "grace"}
    /\ udp.busy \in 0 .. MaxUDPWorkers /\ sem \in [StreamServers -> 0 .. MaxConns]
    /\ term \subseteq {p \in Pids : Alive(p)}
    /\ ~Up => udp.busy = 0 /\ \A c \in Conns : conn[c] = NoConn

\* However a connection ends, by its client, a deadline, a short length, no
\* response or a panic, its place at the semaphore comes back exactly once
\* (the deferred receive in Serve of tcp.go and dot.go).
SlotsMatchConnections ==
    \A s \in StreamServers : sem[s] = Cardinality({c \in Conns : Kind[c] = s /\ conn[c].pc \in {"read", "handle", "write"}})

\* While nobody has asked for a shutdown the UDP socket stays open, errors of
\* it included, and the answers of the workers can be written (udp.go, Serve).
\* (In the graceful period the socket is closed under the workers.)
AnswersWritten == ~lost /\ (Up /\ udp.pc = "closed" => Cancelled)

\* As long as no process is started while another one is there, `daemon stop`
\* finds the running daemon in the PID file, whatever crashed before, and
\* whatever program got its PID (Daemonize, waitForShutdown).
PidFileNamesDaemon == ~overlapped => \A p \in Pids : proc[p] \in {"serve", "grace"} => pidFile = p

\* `daemon stop` signals another program only if it took over the PID after
\* the check, never because the PID file was stale (StopDaemon).
StopSparesStrangers == ~struck

\* What `daemon stop` signals is the daemon.
StopReachesDaemon == PidFileNamesDaemon /\ StopSparesStrangers

\* No connection stays for ever: deadlines end a silent one and the limit on
\* pipelined queries a busy one; so an accepted one gets its place in the end
\* however many are before it (handleTCP, handleDoT).  A reader that waits for a
\* worker gets one, even if handlers panic (Serve of udp.go).
NobodyIsLeftWaiting ==
    /\ \A c \in Conns : conn[c].pc \in {"accepted", "read"} ~> conn[c].pc = "none"
    /\ udp.pc = "full" ~> udp.pc # "full"

\* SIGTERM ends the process, however many clients keep it busy (waitForShutdown).
SigtermStops == \A p \in Pids : p \in term ~> ~Alive(p)

\* Whatever the root servers do, a process that goes on running validates in
\* the end, and as configured (the goroutine of main.go after PrimeRootHints).
ValidatesInTheEnd == Up ~> ~Up \/ validator = "configured"
=============================================================================
