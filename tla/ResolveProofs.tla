---------------------------- MODULE ResolveProofs ----------------------------
(* The process and its listeners, for any PIDs, connections and numbers of     *)
(* places; and a call of Resolve: where a question may go, which reply may be  *)
(* used and how many queries a call sends, for every set of zones, servers and *)
(* replies.  For the last what is inductive is a budget: the queries sent and  *)
(* the queries the rest of the call may still cost are together within the     *)
(* bound.                                                                      *)
EXTENDS Resolve, Service, FiniteSetTheorems, WellFoundedInduction, TLAPS

\* Time for the provers on a machine that is busy.
USE SMTT(30), ZenonT(30)

-----------------------------------------------------------------------------
(* The process.                                                               *)

Open == {"read", "handle", "write"}
Held(s) == {c \in Conns : Kind[c] = s /\ conn[c].pc \in Open}

\* Without an overlap there is one process, and once it has written its PID the
\* file has it; a process that was verified is there or has been noted as gone.
ProcessInv ==
    /\ proc \in [Pids -> Labyrinth \cup {"free", "other"}]
    /\ term \subseteq {p \in Pids : Alive(p)}
    /\ pidFile \in Pids \cup {NoPid, Empty}
    /\ port \in Pids \cup {NoPid}
    /\ \A p \in Pids : p = port <=> proc[p] \in {"serve", "grace"}
    /\ ~overlapped => /\ \A p, q \in Pids : Alive(p) /\ Alive(q) => p = q
                      /\ \A p \in Pids : proc[p] \in {"boot", "serve", "grace"} => pidFile = p
    /\ cmd \in [pc : {"idle", "verify", "signal"}, pid : Pids \cup {NoPid}, moved : BOOLEAN]
    /\ cmd.pc # "idle" => cmd.pid \in Pids
    /\ cmd.pc = "signal" /\ ~cmd.moved => Alive(cmd.pid)
    /\ ~struck

ListenerInv ==
    /\ udp \in [pc : {"read", "full", "closed"}, busy : 0 .. MaxUDPWorkers]
    /\ sem \in [StreamServers -> 0 .. MaxConns]
    /\ conn \in [Conns -> [pc : Open \cup {"none", "backlog", "accepted"}, i : Int]]
    /\ \A s \in StreamServers : sem[s] = Cardinality(Held(s))
    /\ ~Up => udp.busy = 0 /\ \A c \in Conns : conn[c] = NoConn
    /\ udp.pc = "closed" => Cancelled
    /\ ~lost

ServiceInv == ProcessInv /\ ListenerInv

\* The invariant says more than the properties.
LEMMA InvImplies ==
  ServiceInv => TypeOK /\ SlotsMatchConnections /\ AnswersWritten /\ PidFileNamesDaemon /\ StopSparesStrangers
  BY DEF ServiceInv, ProcessInv, ListenerInv, TypeOK, SlotsMatchConnections, AnswersWritten, PidFileNamesDaemon,
         StopSparesStrangers, Held, Open

-----------------------------------------------------------------------------
(* Places and connections.                                                    *)

\* Held is finite.
LEMMA HeldFinite == ASSUME NEW s PROVE IsFiniteSet(Held(s))
  BY ConnsAssumption, FS_Subset DEF Held

\* A connection that gets or gives back a place changes the number of places by one.
LEMMA HeldGrows ==
  ASSUME NEW s \in StreamServers, NEW c \in Conns, Kind[c] = s, c \notin Held(s), Held(s)' = Held(s) \cup {c}
  PROVE  Cardinality(Held(s))' = Cardinality(Held(s)) + 1
  BY Zenon, HeldFinite, FS_AddElement

\* ... and when it gives its place back.
LEMMA HeldShrinks ==
  ASSUME NEW s \in StreamServers, NEW c \in Held(s), Held(s)' = Held(s) \ {c}
  PROVE  /\ Cardinality(Held(s))' = Cardinality(Held(s)) - 1
         /\ Cardinality(Held(s)) \in Nat \ {0}
  <1>1. IsFiniteSet(Held(s)) BY HeldFinite
  <1>2. Cardinality(Held(s)) \in Nat BY <1>1, FS_CardinalityType
  <1>3. Cardinality(Held(s)) # 0 BY <1>1, FS_EmptySet
  <1> QED BY <1>1, <1>2, <1>3, FS_RemoveElement

-----------------------------------------------------------------------------
(* The listeners.  Their steps leave the processes alone.                     *)

\* The step of a connection that keeps what places it has.
LEMMA ConnStep ==
  ASSUME ListenerInv, Up, NEW c \in Conns, NEW r \in [pc : Open \cup {"none", "backlog", "accepted"}, i : Int],
         conn' = [conn EXCEPT ![c] = r], Kind[c] \in StreamServers => (r.pc \in Open <=> conn[c].pc \in Open),
         UNCHANGED <<process, udp, sem, lost>>
  PROVE  ListenerInv'
  <1>1. \A s \in StreamServers : Held(s)' = Held(s)
    BY KindAssumption DEF Held, ListenerInv, StreamServers
  <1>2. conn' \in [Conns -> [pc : Open \cup {"none", "backlog", "accepted"}, i : Int]]
    BY DEF ListenerInv
  <1> QED BY <1>1, <1>2 DEF ListenerInv, process, Up, Cancelled

\* End gives back one place, of the connection that had it.
LEMMA EndStep ==
  ASSUME ListenerInv, Up, NEW c \in Conns, conn[c].pc \in Open, End(c), UNCHANGED <<process, udp, lost>>
  PROVE  ListenerInv'
  <1>1. conn' = [conn EXCEPT ![c] = NoConn]
    BY DEF End
  <1>2. conn' \in [Conns -> [pc : Open \cup {"none", "backlog", "accepted"}, i : Int]]
    BY <1>1 DEF ListenerInv, NoConn
  <1>3. \A s \in StreamServers : Held(s)' = IF Kind[c] = s THEN Held(s) \ {c} ELSE Held(s)
    BY <1>1 DEF ListenerInv, Held, NoConn, Open
  <1>4. \A s \in StreamServers : sem'[s] = Cardinality(Held(s))' /\ sem'[s] \in 0 .. MaxConns
    <2> SUFFICES ASSUME NEW s \in StreamServers PROVE sem'[s] = Cardinality(Held(s))' /\ sem'[s] \in 0 .. MaxConns
      OBVIOUS
    <2>1. sem[s] = Cardinality(Held(s)) /\ sem[s] \in 0 .. MaxConns
      BY DEF ListenerInv
    <2>2. CASE Kind[c] = s
      <3>1. c \in Held(s)
        BY <2>2 DEF Held
      <3>2. Cardinality(Held(s))' = Cardinality(Held(s)) - 1 /\ Cardinality(Held(s)) \in Nat \ {0}
        BY <1>3, <2>2, <3>1, HeldShrinks
      <3>3. sem'[s] = sem[s] - 1
        BY <2>2 DEF End, ListenerInv, StreamServers
      <3> QED BY <2>1, <3>2, <3>3, PlacesAssumption
    <2>3. CASE Kind[c] # s
      <3>1. sem'[s] = sem[s]
        BY <2>3 DEF End, ListenerInv
      <3> QED BY <1>3, <2>1, <2>3, <3>1
    <2> QED BY <2>2, <2>3
  <1>5. sem' \in [StreamServers -> 0 .. MaxConns]
    <2>1. sem' = [s \in StreamServers |-> sem'[s]]
      BY Zenon, KindAssumption DEF End, ListenerInv
    <2> QED BY <1>4, <2>1
  <1> QED BY <1>2, <1>4, <1>5 DEF ListenerInv, process, Up, Cancelled

\* UDPServer.Serve and handleUDP.
LEMMA UDPStep == ASSUME ListenerInv, UDPServe \/ handleUDP PROVE ListenerInv'
  <1>1. UNCHANGED <<process, sem, conn>> /\ Up
    BY DEF UDPServe, UDPRead, UDPDispatch, handleUDP
  <1>2. \A s \in StreamServers : Held(s)' = Held(s)
    BY <1>1 DEF Held
  <1>3. udp' \in [pc : {"read", "full", "closed"}, busy : 0 .. MaxUDPWorkers]
    BY PlacesAssumption DEF ListenerInv, UDPServe, UDPRead, UDPDispatch, handleUDP
  <1>4. udp'.pc = "closed" => Cancelled
    BY DEF ListenerInv, UDPServe, UDPRead, UDPDispatch, handleUDP
  <1>5. ~lost'
    BY Zenon DEF ListenerInv, UDPServe, UDPRead, UDPDispatch, handleUDP, serviceGhosts
  <1> QED BY <1>1, <1>2, <1>3, <1>4, <1>5 DEF ListenerInv, process, Up, Cancelled

\* The accept loops of TCPServer and DoTServer.
LEMMA AcceptStep == ASSUME ListenerInv, NEW s \in StreamServers, Accept(s) \/ Dispatch(s) PROVE ListenerInv'
  <1>1. UNCHANGED <<process, udp, lost>> /\ Up
    BY DEF Accept, Dispatch, serviceGhosts
  <1>2. CASE Accept(s)
    <2>1. CASE \E c \in Conns : /\ Kind[c] = s /\ conn[c].pc = "backlog"
                               /\ conn' = [conn EXCEPT ![c].pc = "accepted"]
      <3> PICK c \in Conns : Kind[c] = s /\ conn[c].pc = "backlog" /\ conn' = [conn EXCEPT ![c].pc = "accepted"]
        BY Zenon, <2>1
      <3> DEFINE r == [conn[c] EXCEPT !.pc = "accepted"]
      <3>1. r \in [pc : Open \cup {"none", "backlog", "accepted"}, i : Int] /\ r.pc = "accepted"
        BY DEF ListenerInv
      <3>2. conn' = [conn EXCEPT ![c] = r]
        BY DEF ListenerInv
      <3> HIDE DEF r
      <3> QED BY Zenon, <1>1, <1>2, <3>1, <3>2, ConnStep DEF Accept, Open
    <2>2. CASE UNCHANGED conn
      BY <1>1, <1>2, <2>2 DEF ListenerInv, Accept, Held, process, Up, Cancelled
    <2> QED BY <1>2, <2>1, <2>2 DEF Accept
  <1>3. CASE Dispatch(s)
    <2> PICK c \in Conns : Kind[c] = s /\ conn[c].pc = "accepted" /\ conn' = [conn EXCEPT ![c].pc = "read"]
      BY Zenon, <1>3 DEF Dispatch
    <2>1. conn' \in [Conns -> [pc : Open \cup {"none", "backlog", "accepted"}, i : Int]]
      BY DEF ListenerInv, Open
    <2>2. Held(s)' = Held(s) \cup {c} /\ c \notin Held(s)
      BY DEF ListenerInv, Held, Open
    <2>3. \A t \in StreamServers \ {s} : Held(t)' = Held(t)
      BY DEF ListenerInv, Held, Open
    <2>4. Cardinality(Held(s))' = Cardinality(Held(s)) + 1
      BY <2>2, HeldGrows
    <2>5. sem' = [sem EXCEPT ![s] = @ + 1] /\ sem[s] < MaxConns
      BY <1>3 DEF Dispatch
    <2>6. sem' \in [StreamServers -> 0 .. MaxConns]
      BY <2>5, PlacesAssumption DEF ListenerInv
    <2>7. \A t \in StreamServers : sem'[t] = Cardinality(Held(t))'
      BY <2>3, <2>4, <2>5 DEF ListenerInv
    <2> QED BY <1>1, <2>1, <2>6, <2>7 DEF ListenerInv, process, Up, Cancelled
  <1> QED BY <1>2, <1>3

\* A client connects; handleTCP, handleDoT and handleDoH go on.
LEMMA QueryStep ==
  ASSUME ListenerInv, NEW c \in Conns, Connect(c) \/ Queried(c)
  PROVE  ListenerInv'
  <1> DEFINE Types == [pc : Open \cup {"none", "backlog", "accepted"}, i : Int]
  <1>1. UNCHANGED <<process, udp, lost>> /\ Up
    BY DEF Connect, Queried, ReadQuery, HandleQuery, WriteResponse, serviceGhosts
  <1>2. conn \in [Conns -> Types] /\ conn[c] \in Types
    BY DEF ListenerInv
  <1>3. ASSUME NEW q, q \in Open \cup {"backlog"}, conn' = [conn EXCEPT ![c].pc = q], UNCHANGED sem,
               Kind[c] \in StreamServers => (q \in Open <=> conn[c].pc \in Open)
        PROVE  ListenerInv'
    <2> DEFINE r == [conn[c] EXCEPT !.pc = q]
    <2>1. r \in Types /\ r.pc = q
      BY <1>2, <1>3
    <2>2. conn' = [conn EXCEPT ![c] = r]
      BY <1>2, <1>3
    <2> HIDE DEF r
    <2> QED BY Zenon, <1>1, <1>3, <2>1, <2>2, ConnStep
  <1>4. ASSUME conn[c].pc = "write", conn' = [conn EXCEPT ![c] = [pc |-> "read", i |-> @.i + 1]], UNCHANGED sem
        PROVE  ListenerInv'
    <2> DEFINE r == [pc |-> "read", i |-> conn[c].i + 1]
    <2>1. r \in Types /\ r.pc \in Open
      BY <1>2 DEF Open
    <2>2. conn' = [conn EXCEPT ![c] = r]
      BY <1>2, <1>4
    <2> HIDE DEF r
    <2> QED BY Zenon, <1>1, <1>4, <2>1, <2>2, ConnStep DEF Open
  <1>5. ASSUME conn[c].pc \in Open, End(c) PROVE ListenerInv'
    BY <1>1, <1>5, EndStep
  <1>6. CASE Connect(c)
    BY <1>3, <1>6, KindAssumption DEF Connect, Open, StreamServers
  <1>7. CASE ReadQuery(c)
    BY <1>3, <1>5, <1>7 DEF ReadQuery, Open
  <1>8. CASE HandleQuery(c)
    BY <1>3, <1>5, <1>8 DEF HandleQuery, Open
  <1>9. CASE WriteResponse(c)
    BY <1>4, <1>5, <1>9 DEF WriteResponse, Open
  <1> QED BY <1>6, <1>7, <1>8, <1>9 DEF Queried

\* Steps of no listener, unless sockets come or go.
LEMMA ListenersKept ==
  ASSUME ListenerInv, UNCHANGED <<listeners, lost, port>>, Cancelled => Cancelled'
  PROVE  ListenerInv'
  <1>1. \A s \in StreamServers : Held(s)' = Held(s)
    BY DEF listeners, Held
  <1> QED BY <1>1 DEF ListenerInv, listeners, Up

\* A process without clients, as Boot leaves it, or none.
LEMMA FreshStep == ASSUME ListenerInv, Fresh, UNCHANGED lost PROVE ListenerInv'
  <1>1. conn' = [c \in Conns |-> NoConn] /\ sem' = [s \in StreamServers |-> 0] /\ udp' = [pc |-> "read", busy |-> 0]
    BY DEF Fresh
  <1>2. \A s \in StreamServers : Held(s)' = {}
    BY <1>1 DEF Held, NoConn, Open
  <1>3. \A s \in StreamServers : Cardinality(Held(s))' = 0
    BY <1>2, FS_EmptySet
  <1>4. conn' \in [Conns -> [pc : Open \cup {"none", "backlog", "accepted"}, i : Int]]
    BY <1>1 DEF NoConn
  <1> QED BY <1>1, <1>3, <1>4, PlacesAssumption DEF ListenerInv

-----------------------------------------------------------------------------
(* The processes.                                                             *)

\* A process ends, and may have removed the PID file.
LEMMA GoneStep ==
  ASSUME ServiceInv, NEW p \in Pids, Gone(p), UNCHANGED serviceGhosts,
         pidFile' = pidFile \/ (pidFile' = NoPid /\ Alive(p))
  PROVE  ServiceInv'
  <1>1. proc' = [proc EXCEPT ![p] = "free"] /\ term' = term \ {p}
    BY DEF Gone
  <1>2. proc' \in [Pids -> Labyrinth \cup {"free", "other"}] /\ \A q \in Pids : Alive(q)' <=> Alive(q) /\ q # p
    BY <1>1 DEF ServiceInv, ProcessInv, Alive, Labyrinth
  <1>3. term' \subseteq {q \in Pids : Alive(q)'}
    BY <1>1, <1>2 DEF ServiceInv, ProcessInv
  <1>4. port' = IF port = p THEN NoPid ELSE port
    BY DEF Gone
  <1>5. \A q \in Pids : q = port' <=> proc'[q] \in {"serve", "grace"}
    BY <1>1, <1>4, PidFileAssumption DEF ServiceInv, ProcessInv
  <1>6. ~overlapped => /\ \A q, r \in Pids : Alive(q)' /\ Alive(r)' => q = r
                       /\ \A q \in Pids : proc'[q] \in {"boot", "serve", "grace"} => pidFile' = q
    BY <1>1, <1>2 DEF ServiceInv, ProcessInv, Alive, Labyrinth
  <1>7. /\ cmd' \in [pc : {"idle", "verify", "signal"}, pid : Pids \cup {NoPid}, moved : BOOLEAN]
        /\ cmd'.pc # "idle" => cmd'.pid \in Pids
        /\ cmd'.pc = "signal" /\ ~cmd'.moved => cmd.pc = "signal" /\ ~cmd.moved /\ cmd'.pid = cmd.pid /\ cmd.pid # p
    BY Zenon DEF ServiceInv, ProcessInv, Gone
  <1>8. cmd'.pc = "signal" /\ ~cmd'.moved => Alive(cmd.pid)'
    BY <1>2, <1>7 DEF ServiceInv, ProcessInv
  <1>9. ProcessInv'
    BY <1>2, <1>3, <1>4, <1>5, <1>6, <1>7, <1>8 DEF ServiceInv, ProcessInv, serviceGhosts
  <1>10. ListenerInv'
    <2>1. CASE port = p
      BY <2>1, FreshStep DEF ServiceInv, Gone, serviceGhosts
    <2>2. CASE port # p
      <3>1. Cancelled => Cancelled'
        BY <1>1, <1>4, <2>2 DEF ServiceInv, ProcessInv, Cancelled, Up
      <3> QED BY <2>2, <3>1, ListenersKept DEF ServiceInv, Gone, serviceGhosts
    <2> QED BY <2>1, <2>2
  <1> QED BY <1>9, <1>10 DEF ServiceInv

\* The steps of run() from the PID file to the sockets, and of waitForShutdown.
LEMMA RunStep == ASSUME ServiceInv, NEW p \in Pids, run(p) PROVE ServiceInv'
  <1>1. CASE WritePID(p)
    <2>1. ProcessInv'
      BY <1>1 DEF WritePID, ServiceInv, ProcessInv, Alive, Labyrinth, serviceGhosts
    <2>2. Cancelled => Cancelled'
      BY <1>1 DEF WritePID, ServiceInv, ProcessInv, Cancelled, Up
    <2> QED BY <1>1, <2>1, <2>2, ListenersKept DEF WritePID, ServiceInv, serviceGhosts
  <1>2. CASE Boot(p)
    <2>1. ProcessInv'
      BY <1>2, PidFileAssumption DEF Boot, ServiceInv, ProcessInv, Alive, Labyrinth, serviceGhosts
    <2> QED BY <1>2, <2>1, FreshStep DEF Boot, ServiceInv, serviceGhosts
  <1>3. CASE BootFails(p)
    BY <1>3, GoneStep DEF BootFails
  <1>4. CASE Terminated(p)
    BY <1>4, GoneStep DEF Terminated
  <1>5. CASE Shutdown(p)
    <2>1. ProcessInv'
      BY <1>5 DEF Shutdown, ServiceInv, ProcessInv, Alive, Labyrinth, serviceGhosts
    <2>2. Cancelled => Cancelled'
      BY <1>5 DEF Shutdown, ServiceInv, ProcessInv, Cancelled, Up
    <2> QED BY <1>5, <2>1, <2>2, ListenersKept DEF Shutdown, ServiceInv, serviceGhosts
  <1>6. CASE Exit(p)
    BY <1>6, GoneStep DEF Exit, Alive, Labyrinth
  <1> QED BY <1>1, <1>2, <1>3, <1>4, <1>5, <1>6 DEF run, waitForShutdown

\* What else happens to PIDs.
LEMMA PidStep ==
  ASSUME ServiceInv, NEW p \in Pids, Daemonize(p) \/ Killed(p) \/ Reuse(p) \/ OtherEnds(p)
  PROVE  ServiceInv'
  <1>1. CASE Daemonize(p)
    <2>1. ~overlapped' => ~overlapped /\ \A q \in Pids : ~Alive(q)
      BY Zenon, <1>1 DEF Daemonize
    <2>2. ProcessInv'
      BY <1>1, <2>1 DEF Daemonize, ServiceInv, ProcessInv, Alive, Labyrinth
    <2>3. Cancelled => Cancelled'
      BY <1>1 DEF Daemonize, ServiceInv, ProcessInv, Cancelled, Up
    <2> QED BY <1>1, <2>2, <2>3, ListenersKept DEF Daemonize, ServiceInv
  <1>2. CASE Reuse(p)
    <2>1. ProcessInv'
      BY <1>2 DEF Reuse, ServiceInv, ProcessInv, Alive, Labyrinth, serviceGhosts
    <2>2. Cancelled => Cancelled'
      BY <1>2 DEF Reuse, ServiceInv, ProcessInv, Cancelled, Up
    <2> QED BY <1>2, <2>1, <2>2, ListenersKept DEF Reuse, ServiceInv, serviceGhosts
  <1>3. CASE Killed(p)
    BY <1>3, GoneStep DEF Killed
  <1>4. CASE OtherEnds(p)
    BY <1>4, GoneStep DEF OtherEnds
  <1> QED BY <1>1, <1>2, <1>3, <1>4

\* `daemon stop`.
LEMMA StopStep == ASSUME ServiceInv, StopDaemon PROVE ServiceInv'
  <1>1. UNCHANGED <<proc, pidFile, port, listeners, overlapped, lost>>
    BY DEF StopDaemon, StopRead, StopVerify, StopSignal, process, serviceGhosts
  <1>2. ListenerInv'
    BY <1>1, ListenersKept DEF ServiceInv, Cancelled, Up
  <1>3. CASE StopRead
    BY <1>1, <1>2, <1>3 DEF StopRead, ServiceInv, ProcessInv, process, serviceGhosts, Alive
  <1>4. CASE StopVerify
    <2>1. /\ cmd' \in [pc : {"idle", "verify", "signal"}, pid : Pids \cup {NoPid}, moved : BOOLEAN]
          /\ cmd'.pid = cmd.pid /\ cmd.pid \in Pids
          /\ cmd'.pc = "signal" => Alive(cmd.pid)
      BY Zenon, <1>4 DEF StopVerify, ServiceInv, ProcessInv
    <2> QED BY <1>1, <1>2, <1>4, <2>1 DEF StopVerify, ServiceInv, ProcessInv, process, serviceGhosts, Alive
  <1>5. CASE StopSignal
    <2>1. term' \subseteq {p \in Pids : Alive(p)}
      BY <1>5 DEF StopSignal, ServiceInv, ProcessInv
    <2>2. ~struck'
      BY Zenon, <1>5 DEF StopSignal, ServiceInv, ProcessInv, Alive, Labyrinth
    <2> QED BY <1>1, <1>2, <1>5, <2>1, <2>2 DEF StopSignal, ServiceInv, ProcessInv, Alive
  <1> QED BY <1>3, <1>4, <1>5 DEF StopDaemon

-----------------------------------------------------------------------------
(* All of them.                                                               *)

\* Before the first start.
LEMMA ServiceInitial == ServiceInit => ServiceInv
  <1> SUFFICES ASSUME ServiceInit PROVE ServiceInv
    OBVIOUS
  <1>1. \A s \in StreamServers : Held(s) = {}
    BY DEF ServiceInit, Held, NoConn, Open
  <1>2. \A s \in StreamServers : Cardinality(Held(s)) = 0
    BY <1>1, FS_EmptySet
  <1>3. ListenerInv
    BY <1>2, PlacesAssumption DEF ServiceInit, ListenerInv, NoConn
  <1>4. ProcessInv
    BY PidFileAssumption DEF ServiceInit, ProcessInv, Alive, Labyrinth
  <1> QED BY <1>3, <1>4 DEF ServiceInv

\* A step of a listener leaves the processes alone.
LEMMA ProcessesKept ==
  ASSUME ServiceInv, ListenerInv', UNCHANGED <<process, cmd, overlapped, struck>>
  PROVE  ServiceInv'
  BY DEF ServiceInv, ProcessInv, process, Alive

\* Every step of Next keeps the invariant.
LEMMA ServiceStep == ServiceInv /\ [ServiceNext]_serviceVars => ServiceInv'
  <1> SUFFICES ASSUME ServiceInv, [ServiceNext]_serviceVars PROVE ServiceInv'
    OBVIOUS
  <1>1. CASE UDPServe \/ handleUDP
    <2>1. UNCHANGED <<process, cmd, overlapped, struck>>
      BY <1>1 DEF UDPServe, UDPRead, UDPDispatch, handleUDP, serviceGhosts
    <2> QED BY <1>1, <2>1, UDPStep, ProcessesKept DEF ServiceInv
  <1>2. CASE TCPServe \/ DoTServe
    <2>1. PICK s \in StreamServers : Accept(s) \/ Dispatch(s)
      BY <1>2 DEF TCPServe, DoTServe, StreamServers
    <2>2. UNCHANGED <<process, cmd, overlapped, struck>>
      BY <2>1 DEF Accept, Dispatch, serviceGhosts
    <2> QED BY <2>1, <2>2, AcceptStep, ProcessesKept DEF ServiceInv
  <1>3. CASE StartUp
    <2>1. UNCHANGED <<process, cmd, listeners, serviceGhosts>>
      BY <1>3 DEF StartUp, PrimeRootHints, EnableDNSSEC, SetDNSSECAllowSHA1
    <2>2. ListenerInv'
      BY <2>1, ListenersKept DEF ServiceInv, process, serviceGhosts, Cancelled, Up
    <2> QED BY <2>1, <2>2, ProcessesKept DEF serviceGhosts
  <1>4. CASE StopDaemon
    BY <1>4, StopStep
  <1>5. ASSUME NEW c \in Conns, Connect(c) \/ Queried(c) PROVE ServiceInv'
    <2>1. UNCHANGED <<process, cmd, overlapped, struck>>
      BY <1>5 DEF Connect, Queried, ReadQuery, HandleQuery, WriteResponse, serviceGhosts
    <2> QED BY <1>5, <2>1, QueryStep, ProcessesKept DEF ServiceInv
  <1>6. ASSUME NEW c \in Conns, PanicInDoT(c) PROVE ServiceInv'
    <2>1. port \in Pids
      BY <1>6 DEF PanicInDoT, Up, ServiceInv, ProcessInv
    <2> QED BY <1>6, <2>1, GoneStep DEF PanicInDoT
  <1>7. ASSUME NEW p \in Pids, run(p) \/ Daemonize(p) \/ Killed(p) \/ Reuse(p) \/ OtherEnds(p) PROVE ServiceInv'
    BY <1>7, RunStep, PidStep
  <1>8. CASE UNCHANGED serviceVars
    <2>1. UNCHANGED <<process, cmd, listeners, serviceGhosts>>
      BY <1>8 DEF serviceVars
    <2>2. ListenerInv'
      BY <2>1, ListenersKept DEF ServiceInv, process, serviceGhosts, Cancelled, Up
    <2> QED BY <2>1, <2>2, ProcessesKept DEF serviceGhosts
  <1> QED BY <1>1, <1>2, <1>3, <1>4, <1>5, <1>6, <1>7, <1>8
          DEF ServiceNext, Step, handleTCP, handleDoT, handleDoH

\* However packets, connections, panics, crashes, starts and commands interleave.
THEOREM ServiceInvariant == ServiceSpec => []ServiceInv
  BY ServiceInitial, ServiceStep, PTL DEF ServiceSpec

\* The deferred receive in Serve of tcp.go and dot.go: a place for every open
\* connection, and none for any other.
THEOREM PlacesComeBack == ServiceSpec => []SlotsMatchConnections
  BY ServiceInvariant, InvImplies, PTL

\* Serve of udp.go: until a shutdown is asked for the socket stays open and no
\* worker finds it closed.
THEOREM SocketStaysOpen == ServiceSpec => []AnswersWritten
  BY ServiceInvariant, InvImplies, PTL

\* Daemonize, WritePID, waitForShutdown: the PID file names the running daemon
\* as long as starts do not overlap.
THEOREM PidFileIsRight == ServiceSpec => []PidFileNamesDaemon
  BY ServiceInvariant, InvImplies, PTL

\* StopDaemon: no process is signalled that was not labyrinth when it was verified.
THEOREM StrangersAreSpared == ServiceSpec => []StopSparesStrangers
  BY ServiceInvariant, InvImplies, PTL

\* Daemonize, StopDaemon: what `daemon stop` signals is the daemon.
THEOREM StopIsRight == ServiceSpec => []StopReachesDaemon
  <1>1. PidFileNamesDaemon /\ StopSparesStrangers => StopReachesDaemon
    BY DEF StopReachesDaemon
  <1> QED BY <1>1, PidFileIsRight, StrangersAreSpared, PTL

-----------------------------------------------------------------------------
(* A call of Resolve.                                                         *)

Primary == {"forward", "servers"}
Asking == {"udp", "tcp", "got", "gaveup"}

\* The servers the route of a query gives it.
Upstreams(q) ==
    Elements(IF Match(q.name) # {} THEN (CHOOSE z \in Match(q.name) : TRUE).addrs ELSE RootServers)

Configured == Elements(RootServers) \cup UNION {Elements(z.addrs) : z \in ForwardZones}
Addresses == Configured \cup FallbackResolvers
Rcodes == {"", "NXDOMAIN", "SERVFAIL", "NOERROR"} \cup {m.rcode : m \in Replies}
Statuses == {"", "secure", "insecure", "bogus"}
ResultType ==
    [rcode : Rcodes, answers : BOOLEAN, status : Statuses, err : BOOLEAN] \cup UNION {LocalLookup(q) : q \in Queries}
CallType ==
    [pc : Asking \cup {"idle", "next", "post", "done"}, q : Queries \cup {None},
     job : Primary \cup {"", "a64", "fallback"}, todo : Seq(Addresses), server : Addresses \cup {None},
     attempt : Nat, edns : BOOLEAN, reply : Replies \cup {None}, tcp : BOOLEAN, result : ResultType,
     verdict : Statuses]

InfraType == [Servers -> [rtt : Nat, fails : Nat] \cup {None}]

CallOK ==
    /\ call \in CallType
    /\ infra \in InfraType
    /\ call.pc # "idle" => call.q \in Queries
    /\ call.pc = "got" => call.reply \in Replies
    /\ call.pc = "tcp" => call.tcp

\* A call that asks was let through by its route, and asks the servers its route
\* gave it before any other.
RouteInv ==
    /\ call.pc \notin {"idle", "done"} \/ asked # {} =>
         call.pc # "idle" /\ LocalLookup(call.q) = {} /\ ~specialUseResponse(call.q.name)
    /\ call.pc \in Asking \cup {"post"} \/ call.job \in {"a64", "fallback"} \/ asked # {} =>
         \E b \in asked : b.job \in Primary
    /\ \A a \in asked :
         /\ a.name = call.q.name
         /\ a.job \in Primary => a.server \in Upstreams(call.q)
         /\ a.job \in Primary \/ a.job = "fallback" \/ (a.job = "a64" /\ call.q.type = "AAAA")
    /\ call.job = "a64" => call.q.type = "AAAA"
    /\ call.pc = "next" => call.todo # << >>
    /\ call.pc \in Asking \cup {"next", "post"} => call.job # ""
    /\ call.pc \in Asking \cup {"next"} =>
         /\ call.job \in Primary => Elements(call.todo) \subseteq Upstreams(call.q)
         /\ call.job \in {"servers", "a64"} => Elements(call.todo) \subseteq Servers
    /\ call.pc \in Asking =>
         /\ call.server \in Addresses
         /\ call.job \in Primary => call.server \in Upstreams(call.q)
         /\ call.job \in {"servers", "a64"} => call.server \in Servers

\* Before a verdict only the servers of the iteration are asked; a bogus one
\* ends the iteration and stays the result.
VerdictInv ==
    /\ call.job = "servers" => \A a \in asked : a.job = "servers"
    /\ call.pc = "done" /\ call.job = "" => asked = {}
    /\ call.verdict = "bogus" =>
         call.job = "servers" /\ call.pc \in {"post", "done"} /\ call.result = Result("SERVFAIL", FALSE, "bogus", FALSE)

ResolveInv == CallOK /\ RepliesMatch /\ RouteInv /\ VerdictInv

-----------------------------------------------------------------------------
(* Choices: the least of a set of numbers, and what is chosen by it.          *)

\* A set of numbers has a least one.
LEMMA Least == ASSUME NEW T \in SUBSET Nat, T # {} PROVE \E x \in T : \A y \in T : x <= y
  <1>1. PICK x \in T : \A y \in T : ~(<<y, x>> \in OpToRel(<, Nat))
    BY Zenon, WFMin, NatLessThanWellFounded
  <1>2. \A y \in T : ~(y < x)
    BY Zenon, <1>1 DEF OpToRel
  <1> QED BY <1>2

\* SortByRTT of a list that is not empty has a first element.
LEMMA RankedIn ==
  ASSUME NEW servers \in Seq(Servers), servers # << >>, infra \in InfraType
  PROVE  Ranked(servers) \in DOMAIN servers
  <1> DEFINE cost(i) == effectiveRTT(servers[i])
             costs == {cost(i) : i \in DOMAIN servers}
  <1>1. \A i \in DOMAIN servers : cost(i) \in Nat
    BY DEF effectiveRTT, DefaultRTT, FailPenalty, InfraType
  <1>2. 1 \in DOMAIN servers /\ DOMAIN servers \subseteq Nat
    <2>1. Len(servers) \in Nat \ {0}
      OBVIOUS
    <2>2. DOMAIN servers = 1 .. Len(servers)
      OBVIOUS
    <2> QED BY <2>1, <2>2
  <1> HIDE DEF cost
  <1>3. PICK c \in costs : \A y \in costs : c <= y
    <2>1. costs \in SUBSET Nat /\ costs # {}
      BY <1>1, <1>2
    <2> QED BY Zenon, <2>1, Least
  <1>4. {i \in DOMAIN servers : cost(i) = c} \in SUBSET Nat /\ {i \in DOMAIN servers : cost(i) = c} # {}
    BY <1>2, <1>3
  <1>5. PICK i \in {j \in DOMAIN servers : cost(j) = c} : \A j \in {k \in DOMAIN servers : cost(k) = c} : i <= j
    BY Zenon, <1>4, Least
  <1>6. \A j \in DOMAIN servers : cost(i) < cost(j) \/ (cost(i) = cost(j) /\ i <= j)
    <2> SUFFICES ASSUME NEW j \in DOMAIN servers PROVE cost(i) < cost(j) \/ (cost(i) = cost(j) /\ i <= j)
      OBVIOUS
    <2>1. cost(i) = c /\ c <= cost(j) /\ cost(i) \in Nat /\ cost(j) \in Nat
      BY <1>1, <1>3, <1>5
    <2>2. cost(j) = c => i <= j
      BY <1>5
    <2> QED BY <2>1, <2>2
  <1>7. \E k \in DOMAIN servers :
          \A j \in DOMAIN servers : \/ effectiveRTT(servers[k]) < effectiveRTT(servers[j])
                                    \/ effectiveRTT(servers[k]) = effectiveRTT(servers[j]) /\ k <= j
    BY <1>5, <1>6 DEF cost
  <1> QED BY <1>7 DEF Ranked

\* A suffix of a name is determined by its length.
LEMMA SameSuffix ==
  ASSUME NEW n \in Seq(STRING), NEW y \in Seq(STRING), NEW z \in Seq(STRING), InZone(n, y), InZone(n, z), Len(y) = Len(z)
  PROVE  y = z
  BY Zenon DEF InZone

\* The only zone a name lies in without being within it is the root.
LEMMA WithinZone ==
  ASSUME NEW n \in Seq(STRING), NEW z \in Seq(STRING)
  PROVE  /\ Within(n, z) => InZone(n, z)
         /\ InZone(n, z) => Within(n, z) \/ Len(z) = 0
         /\ InZone(n, z) /\ z # << >> => Within(n, z)
  BY DEF Within, HasSuffix, InZone

\* findZone finds a zone where there is one.
LEMMA ZoneFound ==
  ASSUME NEW n \in Seq(STRING), \E z \in LocalZones : Within(n, z.name)
  PROVE  /\ findZone(n) \in LocalZones /\ Within(n, findZone(n).name)
         /\ \A y \in LocalZones : Within(n, y.name) => Len(y.name) <= Len(findZone(n).name)
  <1> DEFINE in == {z \in LocalZones : Within(n, z.name)}
             rest == {Len(n) - Len(z.name) : z \in in}
  <1>1. \A z \in in : z.name \in Seq(STRING) /\ Len(z.name) <= Len(n)
    BY ZoneAssumption, WithinZone DEF InZone
  <1>2. rest \in SUBSET Nat /\ rest # {}
    BY <1>1
  <1>3. PICK r \in rest : \A y \in rest : r <= y
    BY Zenon, <1>2, Least
  <1>4. PICK z \in in : r = Len(n) - Len(z.name)
    BY <1>3
  <1>5. \A y \in in : Len(y.name) <= Len(z.name)
    <2> SUFFICES ASSUME NEW y \in in PROVE Len(y.name) <= Len(z.name)
      OBVIOUS
    <2>1. r <= Len(n) - Len(y.name)
      BY <1>3
    <2> QED BY <2>1, <1>4, <1>1
  <1> QED BY <1>4, <1>5 DEF findZone

\* What a result is made of.
LEMMA ResultIn ==
  /\ \A rcode \in Rcodes, answers \in BOOLEAN, status \in Statuses, err \in BOOLEAN :
       Result(rcode, answers, status, err) \in ResultType
  /\ TRUE \in BOOLEAN /\ FALSE \in BOOLEAN
  BY DEF ResultType, Result

\* The call before anything has happened.
LEMMA IdleType == Idle \in CallType
  <1>1. NoResult \in ResultType
    BY Zenon, ResultIn DEF NoResult, Rcodes, Statuses
  <1>2. TRUE \in BOOLEAN /\ FALSE \in BOOLEAN
    OBVIOUS
  <1>3. << >> \in Seq(Addresses)
    OBVIOUS
  <1>4. \A b, d \in BOOLEAN, r \in ResultType, e \in Seq(Addresses) :
          [pc |-> "idle", q |-> None, job |-> "", todo |-> e, server |-> None, attempt |-> 0, edns |-> b,
           reply |-> None, tcp |-> d, result |-> r, verdict |-> ""] \in CallType
    BY Zenon DEF CallType, Statuses
  <1> QED BY Zenon, <1>1, <1>2, <1>3, <1>4 DEF Idle

\* The servers a route gives are addresses, and for an iteration the InfraCache
\* ranks them.
LEMMA RouteServers ==
  ASSUME NEW q \in Queries
  PROVE  /\ Match(q.name) # {} =>
              LET z == CHOOSE z \in Match(q.name) : TRUE
              IN  /\ z.addrs \in Seq(Addresses) /\ z.addrs # << >>
                  /\ Elements(z.addrs) = Upstreams(q)
                  /\ z.stub => Elements(z.addrs) \subseteq Servers
         /\ RootServers \in Seq(Addresses) /\ RootServers # << >> /\ Elements(RootServers) \subseteq Servers
         /\ Match(q.name) = {} => Elements(RootServers) = Upstreams(q)
  <1>1. \A s \in {RootServers} \cup {z.addrs : z \in ForwardZones} : s # << >> /\ s \in Seq(Addresses)
    <2> SUFFICES ASSUME NEW s \in {RootServers} \cup {z.addrs : z \in ForwardZones} PROVE s # << >> /\ s \in Seq(Addresses)
      OBVIOUS
    <2>1. s # << >> /\ s \in Seq(Elements(s))
      BY AddressAssumption
    <2>2. Elements(s) \subseteq Addresses
      BY DEF Addresses, Configured
    <2>3. s \in Seq(Addresses)
      BY <2>1, <2>2
    <2> QED BY <2>1, <2>3
  <1>2. Elements(RootServers) \subseteq Servers
    BY DEF Servers
  <1>3. Match(q.name) = {} => Elements(RootServers) = Upstreams(q)
    BY DEF Upstreams
  <1>4. ASSUME Match(q.name) # {}
        PROVE  LET z == CHOOSE z \in Match(q.name) : TRUE
               IN  /\ z.addrs \in Seq(Addresses) /\ z.addrs # << >>
                   /\ Elements(z.addrs) = Upstreams(q)
                   /\ z.stub => Elements(z.addrs) \subseteq Servers
    <2> DEFINE z == CHOOSE z \in Match(q.name) : TRUE
    <2>1. z \in ForwardZones
      BY <1>4 DEF Match
    <2>2. Elements(z.addrs) = Upstreams(q)
      BY <1>4 DEF Upstreams
    <2>3. z.stub => Elements(z.addrs) \subseteq Servers
      BY Zenon, <2>1 DEF Servers
    <2> QED BY <2>1, <2>2, <2>3, <1>1
  <1> QED BY Zenon, <1>1, <1>2, <1>3, <1>4

-----------------------------------------------------------------------------
(* The steps.                                                                 *)

\* Before the first call.
LEMMA InitInv == Init => ResolveInv
  <1> SUFFICES ASSUME Init PROVE ResolveInv
    OBVIOUS
  <1>1. call \in CallType
    BY IdleType DEF Init
  <1> QED BY Zenon, <1>1 DEF Init, Idle, ResolveInv, CallOK, InfraType, RouteInv, VerdictInv, RepliesMatch, Asking, Primary

\* ResolveWithECS starts a call: nothing was asked for it, and it goes to
\* servers only past the local zones and the special-use names.
LEMMA RouteStep == ASSUME ResolveInv, NEW q \in Queries, ResolveWithECS(q) PROVE ResolveInv'
  <1> DEFINE c == [Idle EXCEPT !.q = q]
  <1>0. c \in CallType /\ c.q = q /\ c.verdict = "" /\ c.job = "" /\ c.todo = << >>
    <2>1. Idle \in CallType
      BY IdleType
    <2>2. Idle.verdict = "" /\ Idle.job = "" /\ Idle.todo = << >>
      BY DEF Idle
    <2> QED BY Zenon, <2>1, <2>2 DEF CallType
  <1>1. infra' = infra /\ asked' = {}
    BY DEF ResolveWithECS
  <1> HIDE DEF c
  <1>2. CASE call'.pc = "done" /\ call' \in CallType /\ call'.q = q /\ call'.job = "" /\ call'.verdict = ""
    <2>1. CallOK' /\ RepliesMatch'
      BY Zenon, <1>1, <1>2 DEF ResolveInv, CallOK, RepliesMatch
    <2>2. RouteInv'
      BY Zenon, <1>1, <1>2 DEF RouteInv, Asking
    <2>3. VerdictInv'
      BY Zenon, <1>1, <1>2 DEF VerdictInv
    <2> QED BY <2>1, <2>2, <2>3 DEF ResolveInv
  <1>3. ASSUME NEW job \in Primary, NEW s, call' = Start(c, job, s), s \in Seq(Addresses), s # << >>,
               Elements(s) = Upstreams(q), job = "servers" => Elements(s) \subseteq Servers,
               LocalLookup(q) = {}, ~specialUseResponse(q.name)
        PROVE  ResolveInv'
    <2>1. call' \in CallType
      BY Zenon, <1>3, <1>0 DEF Start, Blank, CallType
    <2>2. call'.pc = "next" /\ call'.q = q /\ call'.job = job /\ call'.todo = s /\ call'.verdict = ""
      BY Zenon, <1>3, <1>0 DEF Start, Blank, CallType
    <2>3. LocalLookup(call'.q) = {} /\ ~specialUseResponse(call'.q.name) /\ Upstreams(call'.q) = Upstreams(q)
      BY Zenon, <2>2, <1>3
    <2>4. CallOK' /\ RepliesMatch'
      BY Zenon, <2>1, <2>2, <1>1 DEF ResolveInv, CallOK, RepliesMatch
    <2>5. RouteInv'
      BY Zenon, <2>2, <2>3, <1>1, <1>3 DEF RouteInv, Asking, Primary
    <2>6. VerdictInv'
      BY Zenon, <2>2, <1>1, <1>3 DEF VerdictInv, Primary
    <2> QED BY <2>4, <2>5, <2>6 DEF ResolveInv
  <1>4. ASSUME NEW r \in ResultType, call' = Answered(c, r) PROVE ResolveInv'
    BY Zenon, <1>4, <1>0, <1>2 DEF Answered, Blank, CallType
  <1>5. CASE LocalLookup(q) # {}
    <2>1. (CHOOSE r \in LocalLookup(q) : TRUE) \in ResultType
      BY <1>5 DEF ResultType
    <2> QED BY <2>1, <1>5, <1>4 DEF ResolveWithECS, Route, c
  <1>6. CASE LocalLookup(q) = {} /\ specialUseResponse(q.name)
    <2>1. Result("NXDOMAIN", FALSE, "", FALSE) \in ResultType
      BY ZenonT(40), ResultIn DEF Rcodes, Statuses
    <2> QED BY Zenon, <2>1, <1>6, <1>4 DEF ResolveWithECS, Route, c
  <1>7. CASE LocalLookup(q) = {} /\ ~specialUseResponse(q.name) /\ Match(q.name) # {}
    <2> DEFINE z == CHOOSE z \in Match(q.name) : TRUE
               job == IF z.stub THEN "servers" ELSE "forward"
    <2>1. call' = Start(c, job, z.addrs)
      BY <1>7 DEF ResolveWithECS, Route, c
    <2>2. job \in Primary /\ (job = "servers" => z.stub)
      BY DEF Primary
    <2>3. z.addrs \in Seq(Addresses) /\ z.addrs # << >> /\ Elements(z.addrs) = Upstreams(q) /\ (z.stub => Elements(z.addrs) \subseteq Servers)
      BY Zenon, <1>7, RouteServers
    <2> HIDE DEF z, job
    <2> QED BY <1>3, <1>7, <2>1, <2>2, <2>3
  <1>8. CASE LocalLookup(q) = {} /\ ~specialUseResponse(q.name) /\ Match(q.name) = {}
    <2>1. call' = Start(c, "servers", RootServers)
      BY <1>8 DEF ResolveWithECS, Route, c
    <2> QED BY <1>3, <1>8, <2>1, RouteServers DEF Primary
  <1> QED BY <1>5, <1>6, <1>7, <1>8

\* A query is sent (Ask): to a server of the route while the job is that of the
\* route, to a server the InfraCache ranks while the job is an iteration.
LEMMA AskStep ==
  ASSUME ResolveInv, NEW c \in CallType, NEW s \in Addresses, Ask(c, s),
         call.pc \in Asking \cup {"next"}, c.pc = "udp" \/ (c.pc = "tcp" /\ c.tcp),
         c.q = call.q, c.job = call.job, c.verdict = call.verdict, c.server = s,
         Elements(c.todo) \subseteq Elements(call.todo),
         call.job \in Primary => s \in Upstreams(call.q),
         call.job \in {"servers", "a64"} => s \in Servers
  PROVE  ResolveInv'
  <1> DEFINE a == [server |-> s, name |-> c.q.name, type |-> QType(c), job |-> c.job]
  <1>1. call' = c /\ asked' = asked \cup {a} /\ infra' = infra
    BY Zenon DEF Ask
  <1>2. a.server = s /\ a.name = c.q.name /\ a.job = c.job
    OBVIOUS
  <1> HIDE DEF a
  <1>3. CallOK' /\ RepliesMatch'
    BY <1>1 DEF ResolveInv, CallOK, RepliesMatch, Asking
  <1>4. call.job \in Primary \cup {"a64", "fallback"} /\ (call.job = "a64" => call.q.type = "AAAA")
    BY Zenon DEF ResolveInv, CallOK, CallType, RouteInv
  <1>5. \E b \in asked' : b.job \in Primary
    BY Zenon, <1>1, <1>2, <1>4 DEF ResolveInv, RouteInv
  <1>6. \A b \in asked' :
          /\ b.name = call'.q.name
          /\ b.job \in Primary => b.server \in Upstreams(call'.q)
          /\ b.job \in Primary \/ b.job = "fallback" \/ (b.job = "a64" /\ call'.q.type = "AAAA")
    <2> SUFFICES ASSUME NEW b \in asked'
                 PROVE  /\ b.name = call.q.name
                        /\ b.job \in Primary => b.server \in Upstreams(call.q)
                        /\ b.job \in Primary \/ b.job = "fallback" \/ (b.job = "a64" /\ call.q.type = "AAAA")
      BY <1>1
    <2>1. CASE b \in asked
      BY Zenon, <2>1 DEF ResolveInv, RouteInv
    <2>2. CASE b = a
      BY <2>2, <1>2, <1>4
    <2> QED BY Zenon, <1>1, <2>1, <2>2
  <1>7. LocalLookup(call'.q) = {} /\ ~specialUseResponse(call'.q.name)
    BY Zenon, <1>1 DEF ResolveInv, RouteInv, Asking
  <1>8. RouteInv'
    BY Zenon, <1>1, <1>4, <1>5, <1>6, <1>7 DEF ResolveInv, RouteInv, Asking
  <1>9. VerdictInv'
    BY Zenon, <1>1, <1>2 DEF ResolveInv, VerdictInv, Asking
  <1> QED BY Zenon, <1>3, <1>8, <1>9 DEF ResolveInv

\* A step that sends nothing and keeps the job.
LEMMA QuietStep ==
  ASSUME ResolveInv, call.pc \in Asking \cup {"post"}, asked' = asked, infra' \in InfraType,
         call' \in CallType, call'.q = call.q, call'.job = call.job, call'.pc \in {"got", "gaveup", "next", "post", "done"},
         call'.pc = "got" => call'.reply \in Replies /\ call'.reply.match /\ (call'.reply.tc => call'.tcp),
         call'.pc = "next" => call'.todo # << >>,
         call'.pc \in Asking \cup {"next"} => call.pc \in Asking /\ Elements(call'.todo) \subseteq Elements(call.todo),
         call'.pc \in Asking => call'.server = call.server,
         call'.verdict = "bogus" =>
            call.job = "servers" /\ call'.pc \in {"post", "done"} /\ call'.result = Result("SERVFAIL", FALSE, "bogus", FALSE),
         call.job # ""
  PROVE  ResolveInv'
  <1>1. CallOK' /\ RepliesMatch'
    BY Zenon DEF ResolveInv, CallOK, RepliesMatch, Asking
  <1>2. LocalLookup(call'.q) = {} /\ ~specialUseResponse(call'.q.name) /\ \E b \in asked' : b.job \in Primary
    BY Zenon DEF ResolveInv, RouteInv, Asking
  <1>3. RouteInv'
    BY Zenon, <1>2 DEF ResolveInv, RouteInv, Asking
  <1>4. VerdictInv'
    BY Zenon DEF ResolveInv, VerdictInv
  <1> QED BY Zenon, <1>1, <1>3, <1>4 DEF ResolveInv

\* What the InfraCache records has its type.
LEMMA Recorded ==
  ASSUME infra \in InfraType, NEW s \in Servers
  PROVE  /\ RecordRTT(s, RTT[s]) => infra' \in InfraType
         /\ RecordFailure(s) => infra' \in InfraType
  <1>1. getOrCreate(s) \in [rtt : Nat, fails : Nat]
    BY DEF getOrCreate, InfraType
  <1>2. \A x, y \in Nat : (7 * x + 3 * y) \div 10 \in Nat
    <2>1. \A x \in Nat : x \div 10 \in Nat
      OBVIOUS
    <2>2. \A x, y \in Nat : 7 * x + 3 * y \in Nat
      OBVIOUS
    <2> QED BY <2>1, <2>2
  <1>3. [getOrCreate(s) EXCEPT !.rtt = IF @ = 0 THEN RTT[s] ELSE (7 * @ + 3 * RTT[s]) \div 10] \in [rtt : Nat, fails : Nat]
    BY <1>1, <1>2, InfraAssumption
  <1>4. [getOrCreate(s) EXCEPT !.fails = IF @ < MaxFails THEN @ + 1 ELSE @] \in [rtt : Nat, fails : Nat]
    BY <1>1, InfraAssumption
  <1>5. RecordRTT(s, RTT[s]) => infra' \in InfraType
    BY <1>3 DEF RecordRTT, InfraType
  <1>6. RecordFailure(s) => infra' \in InfraType
    BY <1>4 DEF RecordFailure, InfraType
  <1> QED BY <1>5, <1>6

\* What is left of a list of servers is in it.
LEMMA Rest ==
  ASSUME NEW S, NEW todo \in Seq(S), NEW i \in DOMAIN todo
  PROVE  Without(todo, i) \in Seq(S) /\ Elements(Without(todo, i)) \subseteq Elements(todo) /\ todo[i] \in Elements(todo)
  <1>1. Len(todo) \in Nat \ {0} /\ DOMAIN todo = 1 .. Len(todo) /\ i \in 1 .. Len(todo)
    OBVIOUS
  <1>2. \A j \in 1 .. Len(todo) - 1 : (IF j < i THEN j ELSE j + 1) \in DOMAIN todo
    BY <1>1
  <1>3. Without(todo, i) \in [1 .. Len(todo) - 1 -> S]
    BY <1>1, <1>2 DEF Without
  <1>4. Without(todo, i) \in Seq(S)
    BY <1>1, <1>3
  <1>5. Elements(Without(todo, i)) \subseteq Elements(todo)
    BY <1>2 DEF Without, Elements
  <1> QED BY Zenon, <1>4, <1>5 DEF Elements

\* The server that comes next is one of the list.
LEMMA Chosen ==
  ASSUME ResolveInv, call.pc = "next", call.todo \in Seq(Addresses), call.todo # << >>
  PROVE  (IF call.job \in {"servers", "a64"} THEN Ranked(call.todo) ELSE 1) \in DOMAIN call.todo
  <1>1. CASE call.job \in {"servers", "a64"}
    <2>1. Elements(call.todo) \subseteq Servers
      BY Zenon, <1>1 DEF ResolveInv, RouteInv
    <2>2. call.todo \in Seq(Servers)
      BY <2>1 DEF Elements
    <2> QED BY <2>2, <1>1, RankedIn DEF ResolveInv, CallOK
  <1>2. CASE call.job \notin {"servers", "a64"}
    <2>1. Len(call.todo) \in Nat \ {0} /\ DOMAIN call.todo = 1 .. Len(call.todo)
      OBVIOUS
    <2> QED BY <1>2, <2>1
  <1> QED BY <1>1, <1>2

\* NextServer takes a server from the list, whichever way it is chosen.
LEMMA NextServerStep == ASSUME ResolveInv, NextServer PROVE ResolveInv'
  <1> DEFINE i == IF call.job \in {"servers", "a64"} THEN Ranked(call.todo) ELSE 1
             c == [call EXCEPT !.pc = "udp", !.server = call.todo[i], !.todo = Without(@, i), !.attempt = 1,
                               !.edns = TRUE, !.tcp = FALSE]
  <1>1. call \in CallType /\ call.pc = "next" /\ call.todo \in Seq(Addresses) /\ call.todo # << >> /\ Ask(c, call.todo[i])
    BY Zenon DEF NextServer, ResolveInv, CallOK, CallType, RouteInv
  <1>2. i \in DOMAIN call.todo
    BY <1>1, Chosen
  <1> HIDE DEF i
  <1>3. /\ Without(call.todo, i) \in Seq(Addresses) /\ Elements(Without(call.todo, i)) \subseteq Elements(call.todo)
        /\ call.todo[i] \in Elements(call.todo) /\ call.todo[i] \in Addresses
    BY <1>1, <1>2, Rest
  <1>4. /\ c \in CallType /\ c.pc = "udp" /\ c.server = call.todo[i] /\ c.todo = Without(call.todo, i)
        /\ c.q = call.q /\ c.job = call.job /\ c.verdict = call.verdict
    BY Zenon, <1>1, <1>3 DEF CallType, Asking
  <1>5. /\ call.job \in Primary => call.todo[i] \in Upstreams(call.q)
        /\ call.job \in {"servers", "a64"} => call.todo[i] \in Servers
    BY Zenon, <1>1, <1>3 DEF ResolveInv, RouteInv
  <1> HIDE DEF c
  <1> QED BY <1>1, <1>3, <1>4, <1>5, AskStep

\* Asking the same server once more: the next attempt, TCP, or without EDNS0.
LEMMA AgainStep ==
  ASSUME ResolveInv, Waiting, NEW c \in CallType, Ask(c, call.server),
         c.pc = "udp" \/ (c.pc = "tcp" /\ c.tcp),
         c.q = call.q, c.job = call.job, c.verdict = call.verdict, c.server = call.server, c.todo = call.todo
  PROVE  ResolveInv'
  <1>1. call.pc \in Asking
    BY DEF Waiting, Asking
  <1>2. /\ call.server \in Addresses
        /\ call.job \in Primary => call.server \in Upstreams(call.q)
        /\ call.job \in {"servers", "a64"} => call.server \in Servers
    BY Zenon, <1>1 DEF ResolveInv, RouteInv
  <1> QED BY Zenon, <1>1, <1>2, AskStep

\* Timeout and Mismatch: another attempt, or the server is given up.
LEMMA FailedStep == ASSUME ResolveInv, Waiting, Failed PROVE ResolveInv'
  <1>1. call \in CallType /\ call.pc \in {"udp", "tcp"} /\ call.job # "" /\ infra \in InfraType
    BY Zenon DEF Waiting, ResolveInv, CallOK, RouteInv, Asking
  <1>2. CASE call.attempt < Retries
    <2> DEFINE c == [call EXCEPT !.pc = "udp", !.attempt = @ + 1, !.edns = TRUE, !.tcp = FALSE]
    <2>1. /\ c \in CallType /\ c.pc = "udp" /\ c.q = call.q /\ c.job = call.job /\ c.verdict = call.verdict
          /\ c.server = call.server /\ c.todo = call.todo
      <3>0. call.attempt \in Nat
        BY Zenon, <1>1 DEF CallType
      <3>1. PICK n \in Nat : n = call.attempt + 1
        BY <3>0
      <3>2. c = [call EXCEPT !.pc = "udp", !.attempt = n, !.edns = TRUE, !.tcp = FALSE]
        BY <3>1
      <3> HIDE DEF c
      <3> QED BY Zenon, <1>1, <3>2 DEF CallType, Asking
    <2>2. Ask(c, call.server)
      BY <1>2 DEF Failed
    <2> HIDE DEF c
    <2> QED BY <2>1, <2>2, AgainStep
  <1>3. CASE ~(call.attempt < Retries)
    <2>1. call' = [call EXCEPT !.pc = "gaveup", !.attempt = 0, !.edns = TRUE, !.tcp = FALSE] /\ infra' = infra /\ asked' = asked
      BY <1>3 DEF Failed, Unasked
    <2>2. /\ call' \in CallType /\ call'.pc = "gaveup" /\ call'.q = call.q /\ call'.job = call.job
          /\ call'.verdict = call.verdict /\ call'.server = call.server /\ call'.todo = call.todo
      BY Zenon, <1>1, <2>1 DEF CallType, Asking
    <2>3. call.verdict # "bogus"
      BY Zenon, <1>1 DEF ResolveInv, VerdictInv
    <2> QED BY Zenon, <1>1, <2>1, <2>2, <2>3, QuietStep DEF Asking
  <1> QED BY <1>2, <1>3

\* Truncated asks over TCP.
LEMMA TruncatedStep == ASSUME ResolveInv, NEW m \in Replies, Truncated(m) PROVE ResolveInv'
  <1> DEFINE c == [call EXCEPT !.pc = "tcp", !.tcp = TRUE]
  <1>1. call \in CallType /\ Waiting /\ Ask(c, call.server)
    BY DEF ResolveInv, CallOK, Truncated, Waiting
  <1>2. /\ c \in CallType /\ c.pc = "tcp" /\ c.tcp /\ c.q = call.q /\ c.job = call.job /\ c.verdict = call.verdict
        /\ c.server = call.server /\ c.todo = call.todo
    BY Zenon, <1>1 DEF CallType, Asking
  <1> HIDE DEF c
  <1> QED BY <1>1, <1>2, AgainStep

\* Reply: the reply is taken, or a forwarder is asked again without EDNS0.
LEMMA ReplyStep == ASSUME ResolveInv, NEW m \in Replies, Reply(m) PROVE ResolveInv'
  <1>1. call \in CallType /\ Waiting /\ call.pc \in {"udp", "tcp"} /\ call.job # "" /\ infra \in InfraType /\ call.verdict # "bogus"
    BY Zenon DEF ResolveInv, CallOK, Reply, Waiting, RouteInv, VerdictInv, Asking
  <1>2. CASE call.job \in {"forward", "fallback"} /\ m.rcode = "FORMERR" /\ call.edns
    <2> DEFINE c == [call EXCEPT !.pc = "udp", !.edns = FALSE, !.tcp = FALSE]
    <2>1. /\ c \in CallType /\ c.pc = "udp" /\ c.q = call.q /\ c.job = call.job /\ c.verdict = call.verdict
          /\ c.server = call.server /\ c.todo = call.todo
      BY Zenon, <1>1 DEF CallType, Asking
    <2>2. Ask(c, call.server)
      BY <1>2 DEF Reply
    <2> HIDE DEF c
    <2> QED BY Zenon, <1>1, <2>1, <2>2, AgainStep
  <1>3. CASE ~(call.job \in {"forward", "fallback"} /\ m.rcode = "FORMERR" /\ call.edns)
    <2>1. call' = [call EXCEPT !.pc = "got", !.reply = m] /\ infra' = infra /\ asked' = asked
      BY <1>3 DEF Reply, Unasked
    <2>2. /\ call' \in CallType /\ call'.pc = "got" /\ call'.q = call.q /\ call'.job = call.job /\ call'.reply = m
          /\ call'.verdict = call.verdict /\ call'.server = call.server /\ call'.todo = call.todo /\ call'.tcp = call.tcp
      BY Zenon, <1>1, <2>1 DEF CallType, Asking
    <2>3. m.match /\ (m.tc => call.tcp)
      BY Zenon, <1>1 DEF Reply, ResolveInv, CallOK
    <2> QED BY Zenon, <1>1, <2>1, <2>2, <2>3, QuietStep DEF Asking
  <1> QED BY <1>2, <1>3

\* What Blank, Answered and Start leave of a call.
LEMMA Blanked ==
  ASSUME NEW c \in CallType
  PROVE  /\ Blank(c) \in CallType /\ Blank(c).pc = c.pc
         /\ Blank(c).q = c.q /\ Blank(c).job = c.job /\ Blank(c).todo = c.todo /\ Blank(c).verdict = c.verdict
         /\ Blank(c).result = c.result
  BY Zenon DEF Blank, CallType

\* The call with its exchanges over, and a result.
Concluded(c, pc, r) == [Blank(c) EXCEPT !.pc = pc, !.todo = << >>, !.result = r]

\* ... has its type and the rest of the call.
LEMMA Ended ==
  ASSUME NEW c \in CallType, NEW pc \in {"post", "done"}, NEW r \in ResultType
  PROVE  /\ Concluded(c, pc, r) \in CallType /\ Concluded(c, pc, r).pc = pc /\ Concluded(c, pc, r).q = c.q /\ Concluded(c, pc, r).job = c.job
         /\ Concluded(c, pc, r).verdict = c.verdict /\ Concluded(c, pc, r).result = r
  <1> DEFINE b == Blank(c)
             d == Concluded(c, pc, r)
  <1>1. b \in CallType /\ b.q = c.q /\ b.job = c.job /\ b.verdict = c.verdict
    BY Blanked
  <1>2. d = [b EXCEPT !.pc = pc, !.todo = << >>, !.result = r]
    BY DEF Concluded
  <1> HIDE DEF b, d
  <1>3. << >> \in Seq(Addresses)
    OBVIOUS
  <1>4. d \in CallType /\ d.pc = pc /\ d.q = b.q /\ d.job = b.job /\ d.verdict = b.verdict /\ d.result = r
    BY Zenon, <1>1, <1>2, <1>3 DEF CallType
  <1> QED BY <1>1, <1>4 DEF d

\* The exchange with a server is over, and so is the call or its first part.
LEMMA CallEndStep ==
  ASSUME ResolveInv, call.pc \in Asking \cup {"post"}, call.job # "", asked' = asked, infra' \in InfraType,
         NEW pc \in {"post", "done"}, NEW r \in ResultType, call' = Concluded(call, pc, r),
         call.verdict = "bogus" => r = call.result
  PROVE  ResolveInv'
  <1>1. call \in CallType
    BY Zenon DEF ResolveInv, CallOK
  <1>2. call' \in CallType /\ call'.pc = pc /\ call'.q = call.q /\ call'.job = call.job /\ call'.verdict = call.verdict /\ call'.result = r
    <2>1. /\ Concluded(call, pc, r) \in CallType /\ Concluded(call, pc, r).pc = pc /\ Concluded(call, pc, r).q = call.q
          /\ Concluded(call, pc, r).job = call.job /\ Concluded(call, pc, r).verdict = call.verdict /\ Concluded(call, pc, r).result = r
      <3>1. pc \in {"post", "done"} /\ r \in ResultType
        BY Zenon
      <3> QED BY ONLY <1>1, <3>1, Ended
    <2> QED BY Zenon, <2>1
  <1>3. call'.verdict = "bogus" => call.job = "servers" /\ call'.result = Result("SERVFAIL", FALSE, "bogus", FALSE)
    BY Zenon, <1>2 DEF ResolveInv, VerdictInv
  <1>4. pc \notin Asking \cup {"next"} /\ pc \in {"got", "gaveup", "next", "post", "done"}
    BY Zenon DEF Asking
  <1> QED BY Zenon, <1>2, <1>3, <1>4, QuietStep

\* The exchange with a server is over, and there are others.
LEMMA OtherStep ==
  ASSUME ResolveInv, call.pc \in Asking, asked' = asked, infra' \in InfraType, call.todo # << >>,
         call' = [Blank(call) EXCEPT !.pc = "next"]
  PROVE  ResolveInv'
  <1> DEFINE b == Blank(call)
  <1>1. call \in CallType /\ call.job # "" /\ call.verdict # "bogus"
    BY Zenon DEF ResolveInv, CallOK, RouteInv, VerdictInv, Asking
  <1>2. b \in CallType /\ b.q = call.q /\ b.job = call.job /\ b.todo = call.todo /\ b.verdict = call.verdict
    BY Zenon, <1>1, Blanked
  <1> HIDE DEF b
  <1>3. call' = [b EXCEPT !.pc = "next"]
    BY DEF b
  <1>4. call' \in CallType /\ call'.pc = "next" /\ call'.q = b.q /\ call'.job = b.job /\ call'.todo = b.todo /\ call'.verdict = b.verdict
    BY Zenon, <1>2, <1>3 DEF CallType
  <1> QED BY Zenon, <1>1, <1>2, <1>4, QuietStep DEF Asking

\* queryForwardECS.
LEMMA ForwardedStep == ASSUME ResolveInv, Forwarded PROVE ResolveInv'
  <1>1. /\ call \in CallType /\ call.job = "forward" /\ infra' \in InfraType /\ asked' = asked /\ call.pc \in Asking
        /\ call.verdict # "bogus"
    BY DEF Forwarded, Unasked, ResolveInv, CallOK, VerdictInv, Asking
  <1>2. CASE call.pc = "got"
    <2> DEFINE r == Result(call.reply.rcode, call.reply.answers, Secure(call.reply), FALSE)
    <2>1. call.reply \in Replies
      BY <1>2 DEF ResolveInv, CallOK
    <2>2. call.reply.answers \in BOOLEAN /\ call.reply.rcode \in Rcodes
      BY Zenon, <2>1, ReplyAssumption DEF Rcodes
    <2>3. Secure(call.reply) \in Statuses
      BY DEF Secure, Statuses
    <2>4. r \in ResultType
      BY Zenon, <2>2, <2>3, ResultIn
    <2>5. call' = Concluded(call, "post", r)
      BY <1>2 DEF Forwarded, Concluded
    <2> HIDE DEF r
    <2> QED BY <1>1, <2>4, <2>5, CallEndStep
  <1>3. CASE call.pc = "gaveup"
    <2>1. CASE call.todo = << >>
      <3> DEFINE r == Result("", FALSE, "", TRUE)
      <3>1. r \in ResultType
        BY Zenon, ResultIn DEF Rcodes, Statuses
      <3> HIDE DEF r
      <3>2. call' = [Blank(call) EXCEPT !.pc = "post", !.result = r]
        BY <1>3, <2>1 DEF Forwarded, r
      <3>3. call' = Concluded(call, "post", r)
        BY ZenonT(40), <3>2, <2>1, <1>1, Blanked DEF Concluded, CallType
      <3> QED BY <1>1, <3>1, <3>3, CallEndStep
    <2>2. CASE call.todo # << >>
      BY <1>1, <1>3, <2>2, OtherStep DEF Forwarded
    <2> QED BY <2>1, <2>2
  <1> QED BY <1>2, <1>3 DEF Forwarded

\* A server of the iteration gives nothing to go on with: the next one, or the
\* end of the iteration.
LEMMA FinishStep ==
  ASSUME ResolveInv, call.pc \in Asking, call.job \in {"servers", "a64"}, asked' = asked, infra' \in InfraType,
         NEW r \in ResultType, call' = Finish(call, r)
  PROVE  ResolveInv'
  <1>1. call \in CallType /\ call.verdict # "bogus" /\ call.result \in ResultType
    BY Zenon DEF ResolveInv, CallOK, CallType, VerdictInv, Asking
  <1>2. CASE call.job = "servers"
    BY Zenon, <1>1, <1>2, CallEndStep DEF Finish, Concluded
  <1>3. CASE call.job = "a64"
    <2> DEFINE x == IF ~r.err /\ r.rcode = "NOERROR" /\ r.answers THEN Result("NOERROR", TRUE, "", FALSE) ELSE call.result
    <2>1. Result("NOERROR", TRUE, "", FALSE) \in ResultType
      BY Zenon, ResultIn DEF Rcodes, Statuses
    <2>2. x \in ResultType
      BY Zenon, <1>1, <2>1
    <2>3. call' = Answered(call, x)
      BY Zenon, <1>3 DEF Finish
    <2> HIDE DEF x
    <2>4. call' = Concluded(call, "done", x)
      BY Zenon, <2>3, <1>1, Blanked DEF Answered, Concluded, CallType
    <2> QED BY Zenon, <1>1, <1>3, <2>2, <2>4, CallEndStep
  <1> QED BY <1>2, <1>3

\* Classified: a verdict ends the iteration; a bogus one makes it SERVFAIL.
LEMMA ClassifiedStep == ASSUME ResolveInv, Classified PROVE ResolveInv'
  <1>1. /\ call \in CallType /\ call.pc = "got" /\ call.job \in {"servers", "a64"} /\ asked' = asked
        /\ call.reply \in Replies /\ call.server \in Servers /\ infra \in InfraType
    BY Zenon DEF Classified, Unasked, ResolveInv, CallOK, RouteInv, Asking
  <1>2. infra' \in InfraType
    BY Zenon, <1>1, Recorded DEF Classified
  <1>3. call.pc \in Asking
    BY <1>1 DEF Asking
  <1>4. CASE call.reply.rcode \in {"NOERROR", "NXDOMAIN"}
    <2>1. PICK v \in Verdicts :
            call' = [Finish(call, IF v = "bogus" THEN Result("SERVFAIL", FALSE, "bogus", FALSE)
                                  ELSE Result(call.reply.rcode, call.reply.answers, v, FALSE))
                       EXCEPT !.verdict = IF call.job = "servers" THEN v ELSE @]
      BY Zenon, <1>4 DEF Classified
    <2> DEFINE r == IF v = "bogus" THEN Result("SERVFAIL", FALSE, "bogus", FALSE)
                    ELSE Result(call.reply.rcode, call.reply.answers, v, FALSE)
    <2>2. v \in Statuses
      BY Zenon DEF Verdicts, Statuses
    <2>3. r \in ResultType
      <3>1. Result("SERVFAIL", FALSE, "bogus", FALSE) \in ResultType
        BY Zenon, ResultIn DEF Rcodes, Statuses
      <3>2. call.reply.answers \in BOOLEAN /\ call.reply.rcode \in Rcodes
        BY Zenon, <1>1, ReplyAssumption DEF Rcodes
      <3>3. Result(call.reply.rcode, call.reply.answers, v, FALSE) \in ResultType
        BY Zenon, <2>2, <3>2, ResultIn
      <3> QED BY Zenon, <3>1, <3>3
    <2>4. v = "bogus" => r = Result("SERVFAIL", FALSE, "bogus", FALSE)
      OBVIOUS
    <2>5. call' = [Finish(call, r) EXCEPT !.verdict = IF call.job = "servers" THEN v ELSE @]
      BY <2>1
    <2> HIDE DEF r
    <2>6. CASE call.job = "servers"
      <3> DEFINE e == Concluded(call, "post", r)
      <3>1. e \in CallType /\ e.pc = "post" /\ e.q = call.q /\ e.job = call.job /\ e.result = r
        BY ONLY <1>1, <2>3, Ended
      <3>2. call' = [e EXCEPT !.verdict = v]
        BY <2>5, <2>6 DEF Finish, Concluded
      <3> HIDE DEF e
      <3>3. call' \in CallType /\ call'.pc = "post" /\ call'.q = call.q /\ call'.job = call.job /\ call'.result = r /\ call'.verdict = v
        BY Zenon, <3>1, <3>2, <2>2 DEF CallType
      <3> QED BY Zenon, <1>1, <1>2, <1>3, <2>4, <2>6, <3>3, QuietStep DEF Asking
    <2>7. CASE call.job = "a64"
      <3> DEFINE e == Finish(call, r)
      <3>1. call' = [e EXCEPT !.verdict = @]
        BY <2>5, <2>7
      <3>2. e \in CallType
        <4> DEFINE x == IF ~r.err /\ r.rcode = "NOERROR" /\ r.answers THEN Result("NOERROR", TRUE, "", FALSE) ELSE call.result
        <4>1. Result("NOERROR", TRUE, "", FALSE) \in ResultType
          BY Zenon, ResultIn DEF Rcodes, Statuses
        <4>2. call.result \in ResultType
          BY Zenon, <1>1 DEF CallType
        <4>3. x \in ResultType
          BY Zenon, <4>1, <4>2
        <4>4. e = Answered(call, x)
          BY <2>7 DEF Finish
        <4> HIDE DEF x, e
        <4>5. e = Concluded(call, "done", x)
          BY Zenon, <4>4, <1>1, Blanked DEF Answered, Concluded, CallType
        <4> QED BY ONLY <1>1, <4>3, <4>5, Ended
      <3> HIDE DEF e
      <3>3. call' = e
        BY Zenon, <3>1, <3>2 DEF CallType
      <3> QED BY Zenon, <1>1, <1>2, <1>3, <2>3, <3>3, FinishStep DEF e
    <2> QED BY <1>1, <2>6, <2>7
  <1>5. CASE call.reply.rcode \notin {"NOERROR", "NXDOMAIN"}
    <2>1. CASE call.todo = << >>
      <3>1. Result("SERVFAIL", FALSE, "", FALSE) \in ResultType
        BY Zenon, ResultIn DEF Rcodes, Statuses
      <3>2. call' = Finish(call, Result("SERVFAIL", FALSE, "", FALSE))
        BY Zenon, <1>5, <2>1 DEF Classified
      <3> QED BY Zenon, <1>1, <1>2, <1>3, <3>1, <3>2, FinishStep
    <2>2. CASE call.todo # << >>
      <3>1. call' = [Blank(call) EXCEPT !.pc = "next"]
        BY Zenon, <1>5, <2>2 DEF Classified
      <3> QED BY Zenon, <1>1, <1>2, <1>3, <2>2, <3>1, OtherStep
    <2> QED BY <2>1, <2>2
  <1> QED BY <1>4, <1>5

\* GaveUp: the next server, or the iteration has failed.
LEMMA GaveUpStep == ASSUME ResolveInv, GaveUp PROVE ResolveInv'
  <1>1. call \in CallType /\ call.pc \in Asking /\ call.job \in {"servers", "a64"} /\ asked' = asked /\ call.server \in Servers /\ infra \in InfraType
    BY Zenon DEF GaveUp, Unasked, ResolveInv, CallOK, RouteInv, Asking
  <1>2. infra' \in InfraType
    BY Zenon, <1>1, Recorded DEF GaveUp
  <1>3. CASE call.todo = << >>
    <2>1. Result("SERVFAIL", FALSE, "", TRUE) \in ResultType
      BY Zenon, ResultIn DEF Rcodes, Statuses
    <2>2. call' = Finish(call, Result("SERVFAIL", FALSE, "", TRUE))
      BY Zenon, <1>3 DEF GaveUp
    <2> QED BY Zenon, <1>1, <1>2, <2>1, <2>2, FinishStep
  <1>4. CASE call.todo # << >>
    <2>1. call' = [Blank(call) EXCEPT !.pc = "next"]
      BY <1>4 DEF GaveUp
    <2> QED BY <1>1, <1>2, <1>4, <2>1, OtherStep
  <1> QED BY <1>3, <1>4

\* The second part of a call, DNS64 or the fallback, comes after the first.
LEMMA SecondStep ==
  ASSUME ResolveInv, call.pc = "post", asked' = asked, infra' = infra, call.verdict # "bogus",
         NEW job \in {"a64", "fallback"}, NEW s \in Seq(Addresses), s # << >>, call' = Start(call, job, s),
         job = "a64" => Elements(s) \subseteq Servers /\ call.q.type = "AAAA"
  PROVE  ResolveInv'
  <1> DEFINE b == Blank(call)
  <1>1. call \in CallType
    BY DEF ResolveInv, CallOK
  <1>2. b \in CallType /\ b.q = call.q /\ b.verdict = call.verdict
    BY ONLY <1>1, Blanked
  <1>3. call' = [b EXCEPT !.pc = "next", !.job = job, !.todo = s]
    BY DEF Start
  <1> HIDE DEF b
  <1>4. call' \in CallType /\ call'.pc = "next" /\ call'.job = job /\ call'.todo = s /\ call'.q = call.q /\ call'.verdict # "bogus"
    BY ZenonT(40), <1>2, <1>3 DEF CallType
  <1>5. CallOK' /\ RepliesMatch'
    BY <1>4 DEF ResolveInv, CallOK, RepliesMatch
  <1>6. LocalLookup(call'.q) = {} /\ ~specialUseResponse(call'.q.name) /\ \E a \in asked' : a.job \in Primary
    BY Zenon, <1>4 DEF ResolveInv, RouteInv
  <1>7. RouteInv'
    BY ZenonT(40), <1>4, <1>6 DEF ResolveInv, RouteInv, Asking, Primary
  <1>8. VerdictInv'
    BY <1>4 DEF VerdictInv
  <1> QED BY Zenon, <1>5, <1>7, <1>8 DEF ResolveInv

\* Post: a bogus result is neither NOERROR nor one to fall back from.
LEMMA PostStep == ASSUME ResolveInv, Post PROVE ResolveInv'
  <1>0. \A s \in FallbackResolvers : s \in Addresses
    BY DEF Addresses
  <1>1. /\ call \in CallType /\ call.pc = "post" /\ infra \in InfraType /\ infra' = infra /\ asked' = asked
        /\ call.result \in ResultType /\ call.q \in Queries
    BY Zenon DEF Post, Unasked, ResolveInv, CallOK, CallType
  <1>2. call.verdict = "bogus" => call.result = Result("SERVFAIL", FALSE, "bogus", FALSE)
    BY Zenon DEF ResolveInv, VerdictInv
  <1>3. call.verdict = "bogus" => ~dns64 /\ ~shouldFallback(call.result)
    BY <1>2 DEF dns64, shouldFallback, Result
  <1>4. ASSUME dns64, call' = Start(call, "a64", RootServers) PROVE ResolveInv'
    <2>1. call.q.type = "AAAA" /\ call.verdict # "bogus"
      BY <1>3, <1>4 DEF dns64
    <2>2. RootServers \in Seq(Addresses) /\ RootServers # << >> /\ Elements(RootServers) \subseteq Servers
      BY Zenon, <1>1, RouteServers
    <2> QED BY ZenonT(40), <1>1, <1>4, <2>1, <2>2, SecondStep
  <1>5. ASSUME shouldFallback(call.result), NEW s \in FallbackResolvers, call' = Start(call, "fallback", <<s>>)
        PROVE  ResolveInv'
    <2>1. <<s>> \in Seq(Addresses) /\ <<s>> # << >>
      <3>1. s \in Addresses
        BY <1>0
      <3>2. <<s>> \in Seq(Addresses)
        BY ONLY <3>1
      <3>3. Len(<<s>>) = 1 /\ Len(<< >>) = 0
        OBVIOUS
      <3> QED BY <3>2, <3>3
    <2> QED BY Zenon, <1>1, <1>3, <1>5, <2>1, SecondStep
  <1>6. ASSUME call' = Answered(call, call.result) PROVE ResolveInv'
    <2>1. call' = Concluded(call, "done", call.result)
      BY Zenon, <1>1, <1>6, Blanked DEF Answered, Concluded, CallType
    <2>2. call.job # ""
      BY Zenon, <1>1 DEF ResolveInv, RouteInv
    <2> QED BY Zenon, <1>1, <2>1, <2>2, CallEndStep
  <1> QED BY Zenon, <1>4, <1>5, <1>6 DEF Post

\* queryFallback.
LEMMA FallbackStep == ASSUME ResolveInv, Fallback PROVE ResolveInv'
  <1>1. /\ call \in CallType /\ call.job = "fallback" /\ infra \in InfraType /\ infra' = infra /\ asked' = asked
        /\ call.pc \in Asking /\ call.result \in ResultType /\ call.verdict # "bogus"
    BY Zenon DEF Fallback, Unasked, ResolveInv, CallOK, CallType, VerdictInv, Asking
  <1>2. ASSUME NEW r \in ResultType, call' = Answered(call, r) PROVE ResolveInv'
    <2>1. call' = Concluded(call, "done", r)
      BY Zenon, <1>1, <1>2, Blanked DEF Answered, Concluded, CallType
    <2> QED BY <1>1, <2>1, CallEndStep
  <1>3. CASE call.pc = "gaveup"
    BY <1>1, <1>2, <1>3 DEF Fallback
  <1>4. CASE call.pc = "got"
    <2> DEFINE n == Result(call.reply.rcode, call.reply.answers, Secure(call.reply), FALSE)
               r == IF call.reply.rcode = "SERVFAIL" THEN call.result ELSE n
    <2>1. call.reply \in Replies
      BY <1>4 DEF ResolveInv, CallOK
    <2>2. call.reply.answers \in BOOLEAN /\ call.reply.rcode \in Rcodes
      BY Zenon, <2>1, ReplyAssumption DEF Rcodes
    <2>3. Secure(call.reply) \in Statuses
      BY DEF Secure, Statuses
    <2>4. n \in ResultType
      BY Zenon, <2>2, <2>3, ResultIn
    <2>5. call' = Answered(call, r)
      BY <1>4 DEF Fallback
    <2> HIDE DEF n
    <2>6. r \in ResultType
      BY <1>1, <2>4
    <2> HIDE DEF r
    <2> QED BY Zenon, <1>2, <2>5, <2>6
  <1> QED BY Zenon, <1>3, <1>4 DEF Fallback

\* A step that leaves the call alone.
LEMMA StutterStep == ASSUME ResolveInv, UNCHANGED <<call, asked>>, infra' \in InfraType PROVE ResolveInv'
  <1>1. CallOK' /\ RepliesMatch'
    BY DEF ResolveInv, CallOK, RepliesMatch
  <1>2. RouteInv'
    BY Zenon DEF ResolveInv, RouteInv
  <1>3. VerdictInv'
    BY Zenon DEF ResolveInv, VerdictInv
  <1> QED BY <1>1, <1>2, <1>3 DEF ResolveInv

\* What one more server of a job may cost.
PerAttempt(job) == IF job \in {"forward", "fallback"} THEN 4 ELSE 2
Tries(job) == IF job = "fallback" \/ UpstreamRetries < 1 THEN 1 ELSE UpstreamRetries
PerServer(job) == PerAttempt(job) * Tries(job)

\* What the server being asked may still cost: its other attempts, the two
\* queries without EDNS0 to a forwarder, and TCP after UDP.
StillToSend(c) ==
    IF c.pc \notin {"udp", "tcp"} THEN 0
    ELSE PerAttempt(c.job) * (Tries(c.job) - c.attempt) + (IF c.edns /\ c.job \in {"forward", "fallback"} THEN 2 ELSE 0)
           + (IF c.pc = "udp" THEN 1 ELSE 0)

\* What a call may send.
Allowed(c) ==
    CASE c.job \in {"forward", "servers"} -> RouteCost(c.q)
      [] c.job = "a64" -> RouteCost(c.q) + CostOf(2, RootServers)
      [] c.job = "fallback" -> RouteCost(c.q) + 4
      [] OTHER -> 0

\* What was sent, what the server being asked may still cost and what the others
\* may, are within what is allowed.
CostInv ==
    /\ sends \in Nat
    /\ call.pc \in {"udp", "tcp"} => call.attempt \in 1 .. Tries(call.job)
    /\ call.pc = "post" => call.job \in Primary
    /\ call.pc # "idle" => sends + StillToSend(call) + PerServer(call.job) * Len(call.todo) <= Allowed(call)

-----------------------------------------------------------------------------
(* The budget of a call.                                                      *)

\* Products that the steps below meet.
LEMMA Products == ASSUME NEW k \in Nat, NEW n \in Nat PROVE k * n \in Nat /\ k * (n + 1) = k * n + k
  OBVIOUS

\* A list of servers without one of them is one shorter.
LEMMA OneLess ==
  ASSUME NEW S, NEW todo \in Seq(S), NEW i \in DOMAIN todo
  PROVE  Len(todo) \in Nat \ {0} /\ Len(Without(todo, i)) = Len(todo) - 1
  <1>1. Len(todo) \in Nat \ {0}
    OBVIOUS
  <1> QED BY <1>1 DEF Without

\* What a server and a list of servers cost are numbers.
LEMMA CostTypes ==
  /\ \A job : Tries(job) \in Nat \ {0} /\ PerServer(job) \in Nat
  /\ \A job : PerServer(job) = (IF job \in {"forward", "fallback"} THEN 4 ELSE 2) * Tries(job)
  /\ CostOf(2, RootServers) \in Nat
  /\ \A q \in Queries : RouteCost(q) \in Nat
  <1>1. \A job : Tries(job) \in Nat \ {0}
    BY RetryAssumption DEF Tries
  <1>2. \A job : PerServer(job) \in Nat
    BY <1>1 DEF PerServer, PerAttempt
  <1>3. \A s \in Seq(Addresses), p \in {2, 4} : CostOf(p, s) \in Nat
    <2> SUFFICES ASSUME NEW s \in Seq(Addresses), NEW p \in {2, 4} PROVE CostOf(p, s) \in Nat
      OBVIOUS
    <2>1. p * (IF UpstreamRetries < 1 THEN 1 ELSE UpstreamRetries) \in Nat /\ Len(s) \in Nat
      BY RetryAssumption
    <2> QED BY <2>1, Products DEF CostOf
  <1>4. \A q \in Queries : RouteCost(q) \in Nat
    BY Zenon, <1>3, RouteServers DEF RouteCost
  <1>5. CostOf(2, RootServers) \in Nat
    <2>1. CASE Queries # {}
      BY Zenon, <2>1, <1>3, RouteServers
    <2>2. RootServers \in Seq(Elements(RootServers)) /\ Elements(RootServers) \subseteq Addresses
      BY AddressAssumption DEF Addresses, Configured
    <2>3. RootServers \in Seq(Addresses)
      BY <2>2
    <2> QED BY <2>3, <1>3
  <1> QED BY <1>1, <1>2, <1>4, <1>5 DEF PerServer, PerAttempt

\* What a call may still cost is a number.
LEMMA StillNat ==
  ASSUME ResolveInv, CostInv
  PROVE  StillToSend(call) \in Nat /\ PerServer(call.job) * Len(call.todo) \in Nat /\ Len(call.todo) \in Nat
  <1>1. Tries(call.job) \in Nat \ {0} /\ PerServer(call.job) \in Nat
    BY CostTypes
  <1>2. call.todo \in Seq(Addresses) /\ Len(call.todo) \in Nat
    <2>1. call.todo \in Seq(Addresses)
      BY Zenon DEF ResolveInv, CallOK, CallType
    <2> QED BY <2>1
  <1>3. StillToSend(call) \in Nat
    <2>1. CASE call.pc \in {"udp", "tcp"}
      <3> DEFINE remaining == Tries(call.job) - call.attempt
      <3>1. remaining \in Nat
        BY <1>1, <2>1 DEF CostInv
      <3> HIDE DEF remaining
      <3>2. 4 * remaining \in Nat /\ 2 * remaining \in Nat
        BY <3>1
      <3> QED BY <2>1, <3>2 DEF StillToSend, PerAttempt, remaining
    <2> QED BY <2>1 DEF StillToSend
  <1> QED BY Zenon, <1>1, <1>2, <1>3, Products

\* A query that was allowed for.
LEMMA AskCost ==
  ASSUME ResolveInv, CostInv, call.pc \in Asking \cup {"next"}, NEW c \in CallType, NEW s, Ask(c, s),
         c.pc \in {"udp", "tcp"}, c.q = call.q, c.job = call.job, c.attempt \in 1 .. Tries(c.job), StillToSend(c) \in Nat,
         1 + StillToSend(c) + PerServer(c.job) * Len(c.todo) <= StillToSend(call) + PerServer(call.job) * Len(call.todo)
  PROVE  CostInv'
  <1> DEFINE still == StillToSend(c)
             others == PerServer(c.job) * Len(c.todo)
             all == Allowed(c)
  <1>1. call' = c /\ sends' = sends + 1 /\ sends \in Nat
    BY DEF Ask, CostInv
  <1>2. StillToSend(call') = still /\ PerServer(call'.job) * Len(call'.todo) = others /\ Allowed(call') = all
    BY <1>1
  <1>3. call.q \in Queries
    BY DEF ResolveInv, CallOK, Asking
  <1>4. Allowed(call) = all /\ all \in Nat
    <2>1. RouteCost(call.q) \in Nat /\ CostOf(2, RootServers) \in Nat
      BY Zenon, <1>3, CostTypes
    <2>2. Allowed(call) \in Nat
      BY <2>1 DEF Allowed
    <2>3. Allowed(call) = all
      BY DEF Allowed
    <2> QED BY <2>2, <2>3
  <1>5. others \in Nat
    <2>1. c.todo \in Seq(Addresses)
      BY Zenon DEF CallType
    <2>2. PerServer(c.job) \in Nat /\ Len(c.todo) \in Nat
      BY <2>1, CostTypes
    <2> QED BY <2>2, Products
  <1>6. sends + StillToSend(call) + PerServer(call.job) * Len(call.todo) <= Allowed(call)
    BY DEF CostInv, Asking
  <1>7. StillToSend(call) \in Nat /\ PerServer(call.job) * Len(call.todo) \in Nat
    BY StillNat
  <1>8. 1 + still + others <= StillToSend(call) + PerServer(call.job) * Len(call.todo) /\ still \in Nat
    OBVIOUS
  <1> HIDE DEF still, others, all
  <1>9. (sends + 1) + still + others <= all
    BY ONLY SMTT(30), <1>1, <1>4, <1>5, <1>6, <1>7, <1>8
  <1>10. sends' \in Nat
    BY <1>1
  <1>11. sends' + StillToSend(call') + PerServer(call'.job) * Len(call'.todo) <= Allowed(call')
    BY Zenon, <1>1, <1>2, <1>9
  <1> QED BY ZenonT(40), <1>1, <1>10, <1>11 DEF CostInv

\* A step that sends nothing and gives nobody more to ask.
LEMMA QuietCost ==
  ASSUME ResolveInv, CostInv, call.pc \in Asking \cup {"post"}, call' \in CallType, sends' = sends,
         call'.q = call.q, call'.job = call.job, call'.pc \notin {"idle", "udp", "tcp"}, call'.todo \in {call.todo, << >>},
         call'.pc = "post" => call.job \in Primary
  PROVE  CostInv'
  <1>1. call.q \in Queries
    BY DEF ResolveInv, CallOK, Asking
  <1>2. Allowed(call') = Allowed(call) /\ Allowed(call) \in Nat
    BY <1>1, CostTypes DEF Allowed
  <1>3. sends + StillToSend(call) + PerServer(call.job) * Len(call.todo) <= Allowed(call)
    BY DEF CostInv, Asking
  <1>4. StillToSend(call) \in Nat /\ PerServer(call.job) * Len(call.todo) \in Nat
    BY Zenon, StillNat
  <1>5. StillToSend(call') = 0
    BY Zenon DEF StillToSend
  <1>6. PerServer(call.job) * Len(<< >>) = 0
    BY CostTypes
  <1>7. PerServer(call'.job) * Len(call'.todo) \in {0, PerServer(call.job) * Len(call.todo)}
    BY <1>6
  <1> DEFINE x == PerServer(call.job) * Len(call.todo)
             y == PerServer(call'.job) * Len(call'.todo)
  <1>8. sends \in Nat
    BY Zenon DEF CostInv
  <1> HIDE DEF x, y
  <1>9. x \in Nat /\ y \in {0, x} /\ sends + StillToSend(call) + x <= Allowed(call)
    BY <1>3, <1>4, <1>7 DEF x, y
  <1>10. sends + 0 + y <= Allowed(call)
    BY ONLY SMTT(30), <1>2, <1>4, <1>8, <1>9
  <1>11. sends' + StillToSend(call') + PerServer(call'.job) * Len(call'.todo) <= Allowed(call')
    BY <1>2, <1>5, <1>10 DEF y
  <1> QED BY Zenon, <1>8, <1>11 DEF CostInv

\* A list of servers that a call begins with.
LEMMA StartCost ==
  ASSUME NEW q \in Queries, sends' \in Nat, call' \in CallType, call'.pc = "next", call'.q = q,
         NEW n \in Nat, PerServer(call'.job) * Len(call'.todo) = n, sends' + n <= Allowed(call')
  PROVE  CostInv'
  <1>1. StillToSend(call') = 0
    BY DEF StillToSend
  <1>2. sends' + 0 + n <= Allowed(call')
    OBVIOUS
  <1> QED BY <1>1, <1>2 DEF CostInv

\* A server is taken from the list and asked for the first time.
LEMMA NextServerCost == ASSUME ResolveInv, CostInv, NextServer PROVE CostInv'
  <1> DEFINE i == IF call.job \in {"servers", "a64"} THEN Ranked(call.todo) ELSE 1
             c == [call EXCEPT !.pc = "udp", !.server = call.todo[i], !.todo = Without(@, i), !.attempt = 1,
                               !.edns = TRUE, !.tcp = FALSE]
             k == PerServer(call.job)
             n == Len(Without(call.todo, i))
  <1>1. call \in CallType /\ call.pc = "next" /\ call.todo \in Seq(Addresses) /\ call.todo # << >> /\ Ask(c, call.todo[i])
    BY Zenon DEF NextServer, ResolveInv, CallOK, CallType, RouteInv
  <1>2. i \in DOMAIN call.todo
    BY <1>1, Chosen
  <1> HIDE DEF i
  <1>3. Without(call.todo, i) \in Seq(Addresses) /\ call.todo[i] \in Addresses
    BY <1>1, <1>2, Rest
  <1>4. /\ c \in CallType /\ c.pc = "udp" /\ c.todo = Without(call.todo, i) /\ c.attempt = 1 /\ c.edns = TRUE
        /\ c.q = call.q /\ c.job = call.job
    BY Zenon, <1>1, <1>3 DEF CallType, Asking
  <1>5. Len(call.todo) = n + 1 /\ n \in Nat
    BY <1>1, <1>2, OneLess
  <1>6. k \in Nat /\ k * n \in Nat /\ k * Len(call.todo) = k * n + k
    BY Zenon, <1>5, CostTypes, Products
  <1>7. Tries(call.job) \in Nat \ {0}
    BY Zenon, CostTypes
  <1> HIDE DEF c
  <1>8. StillToSend(c) + 1 = k /\ StillToSend(c) \in Nat
    BY <1>4, <1>7 DEF StillToSend, PerAttempt, PerServer
  <1>9. StillToSend(call) = 0
    BY Zenon, <1>1 DEF StillToSend
  <1>10. PerServer(c.job) * Len(c.todo) = k * n /\ PerServer(call.job) * Len(call.todo) = k * n + k
    BY <1>4, <1>6
  <1>11. 1 + StillToSend(c) + k * n <= 0 + (k * n + k)
    <2> DEFINE p == k * n
    <2> HIDE DEF p, k, n
    <2>1. k \in Nat /\ p \in Nat
      BY <1>6 DEF p
    <2>2. 1 + StillToSend(c) + p <= 0 + (p + k)
      BY ONLY <2>1, <1>8
    <2> QED BY <2>2 DEF p
  <1>12. 1 + StillToSend(c) + PerServer(c.job) * Len(c.todo) <= StillToSend(call) + PerServer(call.job) * Len(call.todo)
    BY Zenon, <1>9, <1>10, <1>11
  <1>13. c.attempt \in 1 .. Tries(c.job)
    BY <1>4, <1>7
  <1> HIDE DEF k, n
  <1> QED BY Zenon, <1>1, <1>4, <1>8, <1>12, <1>13, AskCost

\* The same server is asked again, for less than it may still cost.
LEMMA AgainCost ==
  ASSUME ResolveInv, CostInv, Waiting, NEW c \in CallType, Ask(c, call.server), c.pc \in {"udp", "tcp"},
         c.q = call.q, c.job = call.job, c.todo = call.todo, c.attempt \in 1 .. Tries(c.job),
         StillToSend(c) \in Nat, 1 + StillToSend(c) <= StillToSend(call)
  PROVE  CostInv'
  <1> DEFINE p == PerServer(call.job) * Len(call.todo)
  <1>1. PerServer(c.job) * Len(c.todo) = p /\ p \in Nat /\ StillToSend(call) \in Nat
    BY StillNat
  <1>2. call.pc \in Asking \cup {"next"}
    BY Zenon DEF Waiting, Asking
  <1> HIDE DEF p
  <1>3. 1 + StillToSend(c) + p <= StillToSend(call) + p
    BY <1>1
  <1>4. 1 + StillToSend(c) + PerServer(c.job) * Len(c.todo) <= StillToSend(call) + PerServer(call.job) * Len(call.todo)
    BY Zenon, <1>1, <1>3 DEF p
  <1> QED BY Zenon, <1>2, <1>4, AskCost

\* Another attempt, or the server is given up.
LEMMA FailedCost == ASSUME ResolveInv, CostInv, Waiting, Failed PROVE CostInv'
  <1>1. call \in CallType /\ call.pc \in {"udp", "tcp"} /\ call.attempt \in 1 .. Tries(call.job)
    BY DEF Waiting, ResolveInv, CallOK, CostInv
  <1>2. Retries = Tries(call.job) /\ Tries(call.job) \in Nat \ {0}
    BY CostTypes DEF Retries, Tries
  <1>3. CASE call.attempt < Retries
    <2> DEFINE c == [call EXCEPT !.pc = "udp", !.attempt = @ + 1, !.edns = TRUE, !.tcp = FALSE]
    <2>1. /\ c \in CallType /\ c.pc = "udp" /\ c.q = call.q /\ c.job = call.job /\ c.todo = call.todo
          /\ c.attempt = call.attempt + 1 /\ c.edns = TRUE
      <3>1. PICK n \in Nat : n = call.attempt + 1
        BY <1>1, <1>2
      <3>2. c = [call EXCEPT !.pc = "udp", !.attempt = n, !.edns = TRUE, !.tcp = FALSE]
        BY <3>1
      <3> HIDE DEF c
      <3>3. c \in CallType /\ c.pc = "udp" /\ c.q = call.q /\ c.job = call.job /\ c.todo = call.todo /\ c.attempt = n /\ c.edns = TRUE
        BY Zenon, <1>1, <3>2 DEF CallType, Asking
      <3> QED BY <3>1, <3>3
    <2>2. Ask(c, call.server)
      BY Zenon, <1>3 DEF Failed
    <2> HIDE DEF c
    <2>3. c.attempt \in 1 .. Tries(c.job)
      <3>1. /\ c.job = call.job /\ c.attempt = call.attempt + 1 /\ call.attempt < Tries(call.job)
            /\ call.attempt \in 1 .. Tries(call.job) /\ Tries(call.job) \in Nat
        BY Zenon, <1>1, <1>2, <1>3, <2>1
      <3> QED BY ONLY <3>1
    <2>4. StillToSend(c) \in Nat /\ 1 + StillToSend(c) <= StillToSend(call)
      BY <1>1, <1>2, <1>3, <2>1 DEF StillToSend, PerAttempt
    <2> QED BY Zenon, <2>1, <2>2, <2>3, <2>4, AgainCost
  <1>4. CASE ~(call.attempt < Retries)
    <2>1. call' = [call EXCEPT !.pc = "gaveup", !.attempt = 0, !.edns = TRUE, !.tcp = FALSE] /\ sends' = sends
      BY <1>4 DEF Failed, Unasked
    <2>2. call' \in CallType /\ call'.pc = "gaveup" /\ call'.q = call.q /\ call'.job = call.job /\ call'.todo = call.todo
      BY Zenon, <1>1, <2>1 DEF CallType, Asking
    <2> QED BY Zenon, <1>1, <2>1, <2>2, QuietCost DEF Asking
  <1> QED BY Zenon, <1>3, <1>4

\* TCP after UDP.
LEMMA TruncatedCost == ASSUME ResolveInv, CostInv, NEW m \in Replies, Truncated(m) PROVE CostInv'
  <1> DEFINE c == [call EXCEPT !.pc = "tcp", !.tcp = TRUE]
  <1>1. call \in CallType /\ Waiting /\ call.pc = "udp" /\ Ask(c, call.server) /\ call.attempt \in 1 .. Tries(call.job)
    BY DEF ResolveInv, CallOK, Truncated, Waiting, CostInv
  <1>2. /\ c \in CallType /\ c.pc = "tcp" /\ c.q = call.q /\ c.job = call.job /\ c.todo = call.todo
        /\ c.attempt = call.attempt /\ c.edns = call.edns
    BY Zenon, <1>1 DEF CallType, Asking
  <1>3. Tries(call.job) \in Nat \ {0}
    BY Zenon, CostTypes
  <1> HIDE DEF c
  <1>4. StillToSend(c) \in Nat /\ 1 + StillToSend(c) <= StillToSend(call)
    BY <1>1, <1>2, <1>3 DEF StillToSend, PerAttempt
  <1>5. c.attempt \in 1 .. Tries(c.job)
    BY <1>1, <1>2
  <1> QED BY Zenon, <1>1, <1>2, <1>4, <1>5, AgainCost

\* A forwarder asked again without EDNS0, or a reply.
LEMMA ReplyCost == ASSUME ResolveInv, CostInv, NEW m \in Replies, Reply(m) PROVE CostInv'
  <1>1. call \in CallType /\ Waiting /\ call.pc \in {"udp", "tcp"} /\ call.attempt \in 1 .. Tries(call.job)
    BY DEF ResolveInv, CallOK, Reply, Waiting, CostInv
  <1>2. Tries(call.job) \in Nat \ {0}
    BY CostTypes
  <1>3. CASE call.job \in {"forward", "fallback"} /\ m.rcode = "FORMERR" /\ call.edns
    <2> DEFINE c == [call EXCEPT !.pc = "udp", !.edns = FALSE, !.tcp = FALSE]
    <2>1. /\ c \in CallType /\ c.pc = "udp" /\ c.q = call.q /\ c.job = call.job /\ c.todo = call.todo
          /\ c.attempt = call.attempt /\ c.edns = FALSE
      BY Zenon, <1>1 DEF CallType, Asking
    <2>2. Ask(c, call.server)
      BY Zenon, <1>3 DEF Reply
    <2> HIDE DEF c
    <2>3. StillToSend(c) \in Nat /\ 1 + StillToSend(c) <= StillToSend(call)
      BY <1>1, <1>2, <1>3, <2>1 DEF StillToSend, PerAttempt
    <2>4. c.attempt \in 1 .. Tries(c.job)
      BY <1>1, <2>1
    <2> QED BY Zenon, <1>1, <2>1, <2>2, <2>3, <2>4, AgainCost
  <1>4. CASE ~(call.job \in {"forward", "fallback"} /\ m.rcode = "FORMERR" /\ call.edns)
    <2>1. call' = [call EXCEPT !.pc = "got", !.reply = m] /\ sends' = sends
      BY <1>4 DEF Reply, Unasked
    <2>2. call' \in CallType /\ call'.pc = "got" /\ call'.q = call.q /\ call'.job = call.job /\ call'.todo = call.todo
      BY Zenon, <1>1, <2>1 DEF CallType, Asking
    <2> QED BY <1>1, <2>1, <2>2, QuietCost DEF Asking
  <1> QED BY <1>3, <1>4

\* What the end of an exchange leaves of the question, the job and the list.
LEMMA Leaves ==
  ASSUME NEW c \in CallType, NEW r, NEW v, NEW pc
  PROVE  /\ LET d == [Blank(c) EXCEPT !.pc = pc] IN d.pc = pc /\ d.q = c.q /\ d.job = c.job /\ d.todo = c.todo
         /\ LET d == [Blank(c) EXCEPT !.pc = pc, !.result = r] IN d.pc = pc /\ d.q = c.q /\ d.job = c.job /\ d.todo = c.todo
         /\ LET d == [Blank(c) EXCEPT !.pc = pc, !.todo = << >>, !.result = r]
            IN  d.pc = pc /\ d.q = c.q /\ d.job = c.job /\ d.todo = << >>
         /\ LET d == [[Blank(c) EXCEPT !.pc = pc, !.todo = << >>, !.result = r] EXCEPT !.verdict = v]
            IN  d.pc = pc /\ d.q = c.q /\ d.job = c.job /\ d.todo = << >>
         /\ LET d == Answered(c, r) IN d.pc = "done" /\ d.q = c.q /\ d.job = c.job /\ d.todo = << >>
         /\ LET d == [Answered(c, r) EXCEPT !.verdict = v] IN d.pc = "done" /\ d.q = c.q /\ d.job = c.job /\ d.todo = << >>
  <1> DEFINE b == Blank(c)
  <1>1. b \in CallType /\ b.q = c.q /\ b.job = c.job /\ b.todo = c.todo
    BY Blanked
  <1> HIDE DEF b
  <1>2. LET d == [b EXCEPT !.pc = pc] IN d.pc = pc /\ d.q = c.q /\ d.job = c.job /\ d.todo = c.todo
    BY Zenon, <1>1 DEF CallType
  <1>3. LET d == [b EXCEPT !.pc = pc, !.result = r] IN d.pc = pc /\ d.q = c.q /\ d.job = c.job /\ d.todo = c.todo
    BY Zenon, <1>1 DEF CallType
  <1>4. \A p : LET d == [b EXCEPT !.pc = p, !.todo = << >>, !.result = r]
               IN  d.pc = p /\ d.q = c.q /\ d.job = c.job /\ d.todo = << >>
    BY Zenon, <1>1 DEF CallType
  <1>5. \A p : LET d == [[b EXCEPT !.pc = p, !.todo = << >>, !.result = r] EXCEPT !.verdict = v]
               IN  d.pc = p /\ d.q = c.q /\ d.job = c.job /\ d.todo = << >>
    BY Zenon, <1>1 DEF CallType
  <1>6. LET d == [b EXCEPT !.pc = "done", !.result = r, !.todo = << >>]
        IN  d.pc = "done" /\ d.q = c.q /\ d.job = c.job /\ d.todo = << >>
    BY Zenon, <1>1 DEF CallType
  <1>7. LET d == [[b EXCEPT !.pc = "done", !.result = r, !.todo = << >>] EXCEPT !.verdict = v]
        IN  d.pc = "done" /\ d.q = c.q /\ d.job = c.job /\ d.todo = << >>
    BY Zenon, <1>1 DEF CallType
  <1> QED BY ZenonT(40), <1>2, <1>3, <1>4, <1>5, <1>6, <1>7 DEF Answered, b

\* The call d is c's, ended at pc.
EndsAt(d, c, pc) == d.pc = pc /\ d.q = c.q /\ d.job = c.job /\ d.todo = << >>

LEMMA AnsweredLeaves ==
  ASSUME NEW c \in CallType, NEW r, NEW v
  PROVE  EndsAt(Answered(c, r), c, "done") /\ EndsAt([Answered(c, r) EXCEPT !.verdict = v], c, "done")
  BY Leaves DEF EndsAt

LEMMA ConcludedLeaves ==
  ASSUME NEW c \in CallType, NEW r, NEW v, NEW pc
  PROVE  EndsAt(Concluded(c, pc, r), c, pc) /\ EndsAt([Concluded(c, pc, r) EXCEPT !.verdict = v], c, pc)
  BY Leaves DEF Concluded, EndsAt

\* Nothing is sent where an exchange has ended.
LEMMA EndCost ==
  ASSUME ResolveInv, CostInv, ResolveInv', Forwarded \/ Classified \/ GaveUp \/ Fallback
  PROVE  CostInv'
  <1>1. call \in CallType /\ call' \in CallType /\ sends' = sends /\ call.pc \in Asking
    BY Zenon DEF ResolveInv, CallOK, Forwarded, Classified, GaveUp, Fallback, Unasked, Asking
  <1> SUFFICES /\ call'.q = call.q /\ call'.job = call.job /\ call'.todo \in {call.todo, << >>}
               /\ call'.pc \in {"next", "post", "done"} /\ (call'.pc = "post" => call.job \in Primary)
    BY <1>1, QuietCost
  <1>2. ASSUME NEW r, NEW v, call.job \in {"servers", "a64"}
        PROVE  \A d \in {Finish(call, r), [Finish(call, r) EXCEPT !.verdict = v]} :
                 /\ d.q = call.q /\ d.job = call.job /\ d.todo \in {call.todo, << >>}
                 /\ d.pc \in {"post", "done"} /\ (d.pc = "post" => call.job \in Primary)
    <2>1. CASE call.job = "servers"
      <3>1. call.job \in Primary
        BY <2>1 DEF Primary
      <3>0. Finish(call, r) = Concluded(call, "post", r)
        BY Zenon, <2>1 DEF Finish, Concluded
      <3> DEFINE e == Finish(call, r)
                 f == [Finish(call, r) EXCEPT !.verdict = v]
      <3>2. EndsAt(e, call, "post")
        BY Zenon, <1>1, <3>0, ConcludedLeaves
      <3>3. EndsAt(f, call, "post")
        BY Zenon, <1>1, <3>0, ConcludedLeaves
      <3> HIDE DEF e, f
      <3>4. \A d \in {e, f} : /\ d.q = call.q /\ d.job = call.job /\ d.todo \in {call.todo, << >>}
                             /\ d.pc \in {"post", "done"} /\ (d.pc = "post" => call.job \in Primary)
        BY Zenon, <3>1, <3>2, <3>3 DEF EndsAt
      <3> QED BY Zenon, <3>4 DEF e, f
    <2>2. CASE call.job = "a64"
      <3> DEFINE x == IF ~r.err /\ r.rcode = "NOERROR" /\ r.answers THEN Result("NOERROR", TRUE, "", FALSE) ELSE call.result
      <3>1. Finish(call, r) = Answered(call, x)
        BY <2>2 DEF Finish
      <3> HIDE DEF x
      <3> DEFINE e == Answered(call, x)
                 f == [Answered(call, x) EXCEPT !.verdict = v]
      <3>2. EndsAt(e, call, "done")
        BY Zenon, <1>1, AnsweredLeaves
      <3>3. EndsAt(f, call, "done")
        BY Zenon, <1>1, AnsweredLeaves
      <3> HIDE DEF e, f
      <3>4. \A d \in {e, f} : /\ d.q = call.q /\ d.job = call.job /\ d.todo \in {call.todo, << >>}
                             /\ d.pc \in {"post", "done"} /\ (d.pc = "post" => call.job \in Primary)
        BY Zenon, <3>2, <3>3 DEF EndsAt
      <3> QED BY Zenon, <3>1, <3>4 DEF e, f
    <2> QED BY Zenon, <1>2, <2>1, <2>2
  <1>3. ASSUME call' = [Blank(call) EXCEPT !.pc = "next"]
        PROVE  call'.q = call.q /\ call'.job = call.job /\ call'.todo = call.todo /\ call'.pc = "next"
    BY <1>1, <1>3, Leaves
  <1>4. CASE Forwarded
    <2>1. call.job \in Primary
      BY <1>4 DEF Forwarded, Primary
    <2>2. CASE \E r : call' = [Blank(call) EXCEPT !.pc = "post", !.todo = << >>, !.result = r]
      BY <1>1, <2>1, <2>2, Leaves
    <2>3. CASE \E r : call' = [Blank(call) EXCEPT !.pc = "post", !.result = r]
      BY <1>1, <2>1, <2>3, Leaves
    <2> QED BY Zenon, <1>3, <1>4, <2>2, <2>3 DEF Forwarded
  <1>5. CASE Classified
    <2>1. call.job \in {"servers", "a64"}
      BY Zenon, <1>5 DEF Classified
    <2>2. CASE \E r, v : call' = [Finish(call, r) EXCEPT !.verdict = v]
      BY <1>2, <2>1, <2>2
    <2>3. CASE \E r : call' = Finish(call, r)
      BY <1>2, <2>1, <2>3
    <2> QED BY ZenonT(40), <1>3, <1>5, <2>2, <2>3 DEF Classified
  <1>6. CASE GaveUp
    <2>1. call.job \in {"servers", "a64"}
      BY Zenon, <1>6 DEF GaveUp
    <2>2. CASE \E r : call' = Finish(call, r)
      BY <1>2, <2>1, <2>2
    <2> QED BY Zenon, <1>3, <1>6, <2>2 DEF GaveUp
  <1>7. CASE Fallback
    <2>1. CASE \E r : call' = Answered(call, r)
      <3>1. EndsAt(call', call, "done")
        BY Zenon, <1>1, <2>1, AnsweredLeaves
      <3> QED BY Zenon, <3>1 DEF EndsAt
    <2> QED BY Zenon, <1>7, <2>1 DEF Fallback
  <1> QED BY Zenon, <1>4, <1>5, <1>6, <1>7

\* A call that comes past its route may cost what the route does.
LEMMA RouteCosts ==
  ASSUME ResolveInv', NEW q \in Queries, ResolveWithECS(q)
  PROVE  CostInv'
  <1> DEFINE c == [Idle EXCEPT !.q = q]
  <1>0. c \in CallType /\ c.q = q /\ c.job = "" /\ c.todo = << >>
    <2>1. Idle \in CallType
      BY Zenon, IdleType
    <2>2. Idle.job = "" /\ Idle.todo = << >>
      BY DEF Idle
    <2> QED BY Zenon, <2>1, <2>2 DEF CallType
  <1>1. sends' = 0 /\ call' \in CallType
    BY DEF ResolveWithECS, ResolveInv, CallOK
  <1>2. c \in CallType /\ c.q = q /\ c.job \notin {"forward", "servers", "a64", "fallback"}
    BY ZenonT(40), <1>0
  <1> HIDE DEF c
  <1>3. ASSUME NEW r, call' = Answered(c, r) PROVE CostInv'
    <2> DEFINE d == Answered(c, r)
    <2>1. EndsAt(d, c, "done")
      BY Zenon, <1>2, AnsweredLeaves
    <2> HIDE DEF d
    <2>2. call'.pc = "done" /\ call'.job = c.job /\ call'.todo = << >>
      BY ZenonT(40), <1>3, <2>1 DEF EndsAt, d
    <2>3. StillToSend(call') = 0
      BY <2>2 DEF StillToSend
    <2>4. Allowed(call') = 0
      BY Zenon, <1>2, <2>2 DEF Allowed
    <2>5. PerServer(call'.job) * Len(call'.todo) = 0
      BY <2>2, CostTypes
    <2> QED BY <1>1, <2>2, <2>3, <2>4, <2>5 DEF CostInv
  <1>4. ASSUME NEW job \in Primary, NEW s \in Seq(Addresses), call' = Start(c, job, s),
               RouteCost(q) = CostOf(PerAttempt(job), s)
        PROVE  CostInv'
    <2> DEFINE b == Blank(c)
               n == PerServer(job) * Len(s)
    <2>1. b \in CallType /\ b.q = q
      BY Zenon, <1>0, Blanked
    <2>2. call' = [b EXCEPT !.pc = "next", !.job = job, !.todo = s]
      BY <1>4 DEF Start
    <2> HIDE DEF b
    <2>3. call'.pc = "next" /\ call'.q = q /\ call'.job = job /\ call'.todo = s
      BY Zenon, <2>1, <2>2 DEF CallType
    <2>4. n \in Nat /\ RouteCost(q) = n
      <3>1. Tries(job) = IF UpstreamRetries < 1 THEN 1 ELSE UpstreamRetries
        BY DEF Tries, Primary
      <3>2. RouteCost(q) = n
        BY <1>4, <3>1 DEF CostOf, PerServer
      <3> QED BY <3>2, CostTypes
    <2>5. Allowed(call') = RouteCost(q)
      BY <2>3 DEF Allowed, Primary
    <2>6. PerServer(call'.job) * Len(call'.todo) = n
      BY <2>3
    <2> HIDE DEF n
    <2>7. sends' + n <= Allowed(call') /\ sends' \in Nat
      BY <1>1, <2>4, <2>5
    <2> QED BY Zenon, <1>1, <2>3, <2>4, <2>6, <2>7, StartCost
  <1>5. CASE LocalLookup(q) # {} \/ specialUseResponse(q.name)
    <2>1. \E r : call' = Answered(c, r)
      BY Zenon, <1>5 DEF ResolveWithECS, Route, c
    <2> QED BY <2>1, <1>3
  <1>6. CASE LocalLookup(q) = {} /\ ~specialUseResponse(q.name) /\ Match(q.name) # {}
    <2> DEFINE z == CHOOSE z \in Match(q.name) : TRUE
               job == IF z.stub THEN "servers" ELSE "forward"
    <2>1. call' = Start(c, job, z.addrs)
      BY <1>6 DEF ResolveWithECS, Route, c
    <2>2. job \in Primary /\ PerAttempt(job) = IF z.stub THEN 2 ELSE 4
      BY DEF Primary, PerAttempt
    <2>3. z.addrs \in Seq(Addresses)
      BY Zenon, <1>6, RouteServers
    <2>4. RouteCost(q) = CostOf(PerAttempt(job), z.addrs)
      BY Zenon, <1>6, <2>2 DEF RouteCost
    <2> HIDE DEF z, job
    <2> QED BY Zenon, <1>4, <2>1, <2>2, <2>3, <2>4
  <1>7. CASE LocalLookup(q) = {} /\ ~specialUseResponse(q.name) /\ Match(q.name) = {}
    <2>1. call' = Start(c, "servers", RootServers)
      BY Zenon, <1>7 DEF ResolveWithECS, Route, c
    <2>2. RootServers \in Seq(Addresses)
      BY RouteServers
    <2>3. PerAttempt("servers") = 2 /\ "servers" \in Primary
      BY DEF PerAttempt, Primary
    <2>4. RouteCost(q) = CostOf(2, RootServers)
      BY <1>7 DEF RouteCost
    <2> QED BY Zenon, <1>4, <2>1, <2>2, <2>3, <2>4
  <1> QED BY <1>5, <1>6, <1>7

\* The second part of a call is allowed for beside the route, once.
LEMMA PostCost == ASSUME ResolveInv, CostInv, ResolveInv', Post PROVE CostInv'
  <1>1. /\ call \in CallType /\ call' \in CallType /\ sends' = sends /\ call.pc = "post" /\ call.q \in Queries
        /\ call.job \in Primary
    BY DEF ResolveInv, CallOK, CostInv, Post, Unasked
  <1>2. sends \in Nat /\ sends <= RouteCost(call.q) /\ RouteCost(call.q) \in Nat /\ CostOf(2, RootServers) \in Nat
    <2>1. StillToSend(call) \in Nat /\ PerServer(call.job) * Len(call.todo) \in Nat
      BY StillNat
    <2>2. Allowed(call) = RouteCost(call.q)
      BY <1>1 DEF Allowed, Primary
    <2>3. sends + StillToSend(call) + PerServer(call.job) * Len(call.todo) <= RouteCost(call.q) /\ sends \in Nat
      BY Zenon, <1>1, <2>2 DEF CostInv
    <2>4. RouteCost(call.q) \in Nat /\ CostOf(2, RootServers) \in Nat
      BY <1>1, CostTypes
    <2> DEFINE x == PerServer(call.job) * Len(call.todo)
    <2> HIDE DEF x
    <2>5. x \in Nat /\ sends + StillToSend(call) + x <= RouteCost(call.q)
      BY <2>1, <2>3 DEF x
    <2> QED BY ONLY SMTT(30), <2>1, <2>3, <2>4, <2>5
  <1>3. ASSUME NEW job, NEW s \in Seq(Addresses), call' = Start(call, job, s)
        PROVE  call'.pc = "next" /\ call'.q = call.q /\ call'.job = job /\ call'.todo = s
    <2> DEFINE b == Blank(call)
    <2>1. b \in CallType /\ b.q = call.q
      BY ONLY <1>1, Blanked
    <2>2. call' = [b EXCEPT !.pc = "next", !.job = job, !.todo = s]
      BY <1>3 DEF Start
    <2> HIDE DEF b
    <2> QED BY Zenon, <2>1, <2>2 DEF CallType
  <1>4. CASE call' = Start(call, "a64", RootServers)
    <2>1. RootServers \in Seq(Addresses)
      BY Zenon, <1>1, RouteServers
    <2>2. call'.pc = "next" /\ call'.q = call.q /\ call'.job = "a64" /\ call'.todo = RootServers
      BY Zenon, <1>3, <1>4, <2>1
    <2>3. Allowed(call') = RouteCost(call.q) + CostOf(2, RootServers)
      BY <2>2 DEF Allowed
    <2>4. PerServer(call'.job) * Len(call'.todo) = CostOf(2, RootServers)
      BY <2>2 DEF PerServer, PerAttempt, Tries, CostOf
    <2>5. sends' \in Nat /\ sends' + CostOf(2, RootServers) <= Allowed(call')
      BY <1>1, <1>2, <2>3
    <2> QED BY Zenon, <1>1, <1>2, <2>2, <2>4, <2>5, StartCost
  <1>5. ASSUME NEW s \in FallbackResolvers, call' = Start(call, "fallback", <<s>>) PROVE CostInv'
    <2>1. s \in Addresses
      BY DEF Addresses
    <2>2. <<s>> \in Seq(Addresses) /\ Len(<<s>>) = 1
      BY ONLY <2>1
    <2>3. call'.pc = "next" /\ call'.q = call.q /\ call'.job = "fallback" /\ call'.todo = <<s>>
      BY Zenon, <1>3, <1>5, <2>2
    <2>4. Allowed(call') = RouteCost(call.q) + 4
      BY <2>3 DEF Allowed
    <2>5. PerServer(call'.job) * Len(call'.todo) = 4
      BY <2>2, <2>3 DEF PerServer, PerAttempt, Tries
    <2>6. sends' \in Nat /\ sends' + 4 <= Allowed(call')
      BY <1>1, <1>2, <2>4
    <2> QED BY Zenon, <1>1, <2>3, <2>5, <2>6, StartCost
  <1>6. CASE call' = Answered(call, call.result)
    <2>1. call'.pc = "done" /\ call'.q = call.q /\ call'.job = call.job /\ call'.todo = << >>
      BY <1>1, <1>6, Leaves
    <2> QED BY <1>1, <2>1, QuietCost
  <1> QED BY Zenon, <1>4, <1>5, <1>6 DEF Post

-----------------------------------------------------------------------------
(* The theorems.                                                              *)

\* What ResolveInv says holds in every state of every call.
THEOREM ResolveInvariant == Spec => []ResolveInv
  <1>1. Init => ResolveInv
    BY InitInv
  <1>2. ResolveInv /\ [Next]_vars => ResolveInv'
    <2> SUFFICES ASSUME ResolveInv, [Next]_vars PROVE ResolveInv'
      OBVIOUS
    <2>0. infra \in InfraType
      BY DEF ResolveInv, CallOK
    <2>1. ASSUME NEW q \in Queries, ResolveWithECS(q) PROVE ResolveInv'
      BY Zenon, <2>1, RouteStep
    <2>2. CASE NextServer
      BY <2>2, NextServerStep
    <2>3. CASE Timeout
      BY <2>3, FailedStep DEF Timeout
    <2>4. ASSUME NEW m \in Replies, Mismatch(m) \/ Truncated(m) \/ Reply(m) PROVE ResolveInv'
      BY Zenon, <2>4, FailedStep, TruncatedStep, ReplyStep DEF Mismatch
    <2>5. CASE Forwarded \/ Classified \/ GaveUp \/ Post \/ Fallback
      BY Zenon, <2>5, ForwardedStep, ClassifiedStep, GaveUpStep, PostStep, FallbackStep
    <2>6. ASSUME NEW s \in Servers, Elsewhere(s) \/ CleanStale(s) PROVE ResolveInv'
      <3>1. infra' \in InfraType
        <4>1. CASE Elsewhere(s)
          BY Zenon, <4>1, <2>0, Recorded DEF Elsewhere
        <4>2. CASE CleanStale(s)
          BY Zenon, <4>2, <2>0 DEF CleanStale, InfraType
        <4> QED BY Zenon, <2>6, <4>1, <4>2
      <3>2. UNCHANGED <<call, asked>>
        BY <2>6 DEF Elsewhere, CleanStale
      <3> QED BY Zenon, <3>1, <3>2, StutterStep
    <2>7. CASE UNCHANGED vars
      BY <2>7, <2>0, StutterStep DEF vars
    <2> QED BY Zenon, <2>1, <2>2, <2>3, <2>4, <2>5, <2>6, <2>7 DEF Next
  <1> QED BY <1>1, <1>2, PTL DEF Spec

\* Only a whole reply to the question asked is used (sendQuery).
THEOREM OnlyOwnReplies == Spec => []RepliesMatch
  <1>1. ResolveInv => RepliesMatch
    BY DEF ResolveInv
  <1> QED BY <1>1, ResolveInvariant, PTL

\* Once the validator says bogus nobody else is asked (shouldFallback).
THEOREM BogusStays == Spec => []BogusIsFinal
  <1>1. ResolveInv => BogusIsFinal
    BY Zenon DEF ResolveInv, VerdictInv, BogusIsFinal
  <1> QED BY <1>1, ResolveInvariant, PTL

\* No local or special-use name is sent anywhere (ResolveWithECS).
THEOREM NamesStayHome == Spec => []LocalNamesStayHome
  <1>1. ResolveInv => LocalNamesStayHome
    <2> SUFFICES ASSUME ResolveInv, NEW a \in asked
                 PROVE  /\ \A s \in SpecialUse : ~HasSuffix(a.name, s)
                        /\ call.q.class = "IN" =>
                             \A z \in LocalZones : InZone(a.name, z.name) /\ z.name # << >>
                                 /\ (\A y \in LocalZones : InZone(a.name, y.name) => Len(y.name) <= Len(z.name))
                                 => z.type = "transparent" /\ <<a.name, call.q.type>> \notin z.records
      BY DEF LocalNamesStayHome
    <2> DEFINE n == call.q.name
    <2>1. call.q \in Queries /\ a.name = n /\ LocalLookup(call.q) = {} /\ ~specialUseResponse(n)
      BY Zenon DEF ResolveInv, CallOK, RouteInv
    <2>2. n \in Seq(STRING)
      BY ZenonT(40), <2>1, ZoneAssumption
    <2>3. \A s \in SpecialUse : ~HasSuffix(n, s)
      <3> SUFFICES ASSUME NEW s \in SpecialUse, HasSuffix(n, s) PROVE FALSE
        OBVIOUS
      <3>1. s \in Seq(STRING) /\ s # << >> /\ Len(s) <= Len(n)
        BY ZoneAssumption DEF HasSuffix, InZone
      <3>2. Len(s) \in Nat \ {0}
        BY <3>1
      <3>3. n # << >>
        BY <3>1, <3>2, <2>2
      <3> QED BY <2>1, <3>3 DEF specialUseResponse
    <2>4. ASSUME call.q.class = "IN", NEW z \in LocalZones, InZone(n, z.name), z.name # << >>,
                 \A y \in LocalZones : InZone(n, y.name) => Len(y.name) <= Len(z.name)
          PROVE  z.type = "transparent" /\ <<n, call.q.type>> \notin z.records
      <3> DEFINE f == findZone(n)
      <3>1. \A y \in LocalZones : y.name \in Seq(STRING)
        BY Zenon, ZoneAssumption
      <3>2. Within(n, z.name)
        BY Zenon, <2>2, <2>4, <3>1, WithinZone
      <3>3. f \in LocalZones /\ Within(n, f.name) /\ Len(z.name) <= Len(f.name)
        BY Zenon, <2>2, <3>2, ZoneFound
      <3> HIDE DEF f
      <3>4. InZone(n, f.name)
        BY ZenonT(40), <2>2, <3>1, <3>3, WithinZone
      <3>5. Len(f.name) = Len(z.name)
        BY <2>4, <3>1, <3>3, <3>4
      <3>6. f.name = z.name
        BY Zenon, <2>2, <2>4, <3>1, <3>3, <3>4, <3>5, SameSuffix
      <3>7. f = z
        BY Zenon, <3>3, <3>6, ZoneAssumption
      <3>8. z.type \in {"static", "deny", "refuse", "redirect", "transparent"}
        BY ZoneAssumption
      <3>9. findZone(n) = z
        BY Zenon, <3>7 DEF f
      <3> QED BY Zenon, <2>1, <2>4, <3>2, <3>8, <3>9 DEF LocalLookup
    <2> HIDE DEF n
    <2> QED BY ZenonT(40), <2>1, <2>3, <2>4
  <1> QED BY <1>1, ResolveInvariant, PTL

\* A name of a forward or stub zone goes to that zone's servers first (Match).
THEOREM ZonesKeepTheirNames == Spec => []ForwardedToItsZone
  <1>1. ResolveInv => ForwardedToItsZone
    <2> SUFFICES ASSUME ResolveInv, NEW a \in asked, NEW z \in ForwardZones,
                        InZone(a.name, z.name), z.name # << >>,
                        \A y \in ForwardZones : InZone(a.name, y.name) => Len(y.name) <= Len(z.name)
                 PROVE  \/ a.server \in Elements(z.addrs)
                        \/ a.job = "a64" /\ call.q.type = "AAAA"
                        \/ a.job = "fallback" /\ \E b \in asked : b.job \in {"forward", "servers"}
      BY DEF ForwardedToItsZone
    <2> DEFINE n == call.q.name
               f == CHOOSE x \in Match(n) : TRUE
    <2>1. call.q \in Queries /\ a.name = n
      BY Zenon DEF ResolveInv, CallOK, RouteInv
    <2>2. n \in Seq(STRING) /\ \A y \in ForwardZones : y.name \in Seq(STRING)
      BY Zenon, <2>1, ZoneAssumption
    <2>3. z \in Match(n)
      BY Zenon, <2>1, <2>2, WithinZone DEF Match
    <2>4. f \in ForwardZones /\ Within(n, f.name) /\ Len(z.name) <= Len(f.name)
      BY Zenon, <2>3 DEF Match
    <2>5. Upstreams(call.q) = Elements(f.addrs)
      BY Zenon, <2>3 DEF Upstreams
    <2> HIDE DEF f
    <2>6. InZone(n, f.name)
      BY ZenonT(40), <2>2, <2>4, WithinZone
    <2>7. Len(f.name) = Len(z.name)
      BY <2>1, <2>2, <2>4, <2>6
    <2>8. f.name = z.name
      BY ZenonT(40), <2>1, <2>2, <2>4, <2>6, <2>7, SameSuffix
    <2>9. f = z
      BY <2>4, <2>8, ZoneAssumption
    <2>10. /\ a.job \in Primary => a.server \in Upstreams(call.q)
           /\ a.job \in Primary \/ a.job = "fallback" \/ (a.job = "a64" /\ call.q.type = "AAAA")
           /\ \E b \in asked : b.job \in Primary
      BY Zenon DEF ResolveInv, RouteInv
    <2> QED BY ZenonT(40), <2>5, <2>9, <2>10 DEF Primary
  <1> QED BY <1>1, ResolveInvariant, PTL

\* However servers fail, a call sends no more queries than its route, its
\* retries and its second part allow (sendQuery, queryForwardECS, queryFallback).
THEOREM SendsAreBounded == Spec => []SendBound
  <1>1. Init => CostInv
    <2>1. Idle.pc = "idle"
      BY Zenon DEF Idle
    <2> QED BY <2>1 DEF Init, CostInv
  <1>2. CostInv /\ ResolveInv /\ ResolveInv' /\ [Next]_vars => CostInv'
    <2> SUFFICES ASSUME CostInv, ResolveInv, ResolveInv', [Next]_vars PROVE CostInv'
      OBVIOUS
    <2>1. ASSUME NEW q \in Queries, ResolveWithECS(q) PROVE CostInv'
      BY <2>1, RouteCosts
    <2>2. CASE NextServer
      BY <2>2, NextServerCost
    <2>3. CASE Timeout
      BY <2>3, FailedCost DEF Timeout
    <2>4. ASSUME NEW m \in Replies, Mismatch(m) \/ Truncated(m) \/ Reply(m) PROVE CostInv'
      BY <2>4, FailedCost, TruncatedCost, ReplyCost DEF Mismatch
    <2>5. CASE Forwarded \/ Classified \/ GaveUp \/ Post \/ Fallback
      BY Zenon, <2>5, EndCost, PostCost
    <2>6. CASE UNCHANGED <<call, sends>>
      BY <2>6 DEF CostInv
    <2>7. CASE UNCHANGED vars
      BY Zenon, <2>6, <2>7 DEF vars
    <2>8. ASSUME NEW s \in Servers, Elsewhere(s) \/ CleanStale(s) PROVE CostInv'
      BY <2>6, <2>8 DEF Elsewhere, CleanStale
    <2> QED BY Zenon, <2>1, <2>2, <2>3, <2>4, <2>5, <2>7, <2>8 DEF Next
  <1>3. ResolveInv /\ CostInv => SendBound
    <2> SUFFICES ASSUME ResolveInv, CostInv, call.pc # "idle" PROVE sends <= Allowed(call)
      BY DEF SendBound, Allowed
    <2>1. StillToSend(call) \in Nat /\ PerServer(call.job) * Len(call.todo) \in Nat
      BY StillNat
    <2>2. sends \in Nat /\ sends + StillToSend(call) + PerServer(call.job) * Len(call.todo) <= Allowed(call)
      BY DEF CostInv
    <2>3. RouteCost(call.q) \in Nat /\ CostOf(2, RootServers) \in Nat
      BY CostTypes DEF ResolveInv, CallOK
    <2>4. Allowed(call) \in Nat
      BY <2>3 DEF Allowed
    <2> DEFINE x == PerServer(call.job) * Len(call.todo)
    <2> HIDE DEF x
    <2>5. x \in Nat /\ sends + StillToSend(call) + x <= Allowed(call)
      BY <2>1, <2>2 DEF x
    <2> QED BY ONLY <2>1, <2>2, <2>4, <2>5
  <1> QED BY <1>1, <1>2, <1>3, ResolveInvariant, PTL DEF Spec

\* A question is asked nowhere but where its route leads, and after a bogus
\* verdict nowhere else (ResolveWithECS).
THEOREM RouteIsKept == Spec => []AskedWhereItBelongs
  <1>1. LocalNamesStayHome /\ ForwardedToItsZone /\ BogusIsFinal => AskedWhereItBelongs
    BY DEF AskedWhereItBelongs
  <1> QED BY <1>1, NamesStayHome, ZonesKeepTheirNames, BogusStays, PTL
=============================================================================
