--------------------------- MODULE ResidentProofs ---------------------------
(***************************************************************************)
(* Proofs about Resident: its types, that a daemon is orphaned only when   *)
(* two daemons of a session start at the same time, that only then a start *)
(* fails without a crash, that answers are the client's own, and that a    *)
(* client is turned away for a cause alone.                                *)
(***************************************************************************)
EXTENDS Resident, TLAPS, SequenceTheorems

USE DEF Starting, Accepting, Listening

\* Closing connections keeps the type of the replies.
LEMMA CloseOnType ==
    ASSUME TypeOK, NEW S
    PROVE  CloseOn(S) \in [Clients -> {NoReply, Eof} \union FrameType]
BY DEF TypeOK, CloseOn

\* What a session answers is a frame.
LEMMA FrameInType ==
    ASSUME TypeOK, NEW d \in Clients, NEW status \in {0, 1},
           NEW tool \in SUBSET Clients, NEW reading \in SUBSET Clients
    PROVE  Frame(d, status, tool, reading) \in FrameType
<1>1. ask[d] \in RequestType
  BY RequestsAssumption DEF TypeOK
<1>2. ask[d].form \in Forms
  BY <1>1 DEF RequestType
<1>3. settings[d] \in SUBSET Clients
  BY DEF TypeOK
<1> QED
  BY <1>2, <1>3 DEF Frame, FrameType

\* A client's key is a session.
LEMMA KeyInForms ==
    ASSUME TypeOK, NEW c \in Clients
    PROVE  Key(c) \in Forms
BY RequestsAssumption DEF TypeOK, Key, RequestType

\* A connection of a process of the model.
LEMMA ConnectionInType ==
    ASSUME NEW c \in Clients, NEW b \in BOOLEAN
    PROVE  Connection(c, b) \in ConnectionType
BY DEF Connection, ConnectionType

-----------------------------------------------------------------------------
\* An attempt to connect keeps the types.
LEMMA TryConnectType ==
    ASSUME TypeOK, NEW p \in Clients, NEW at, NEW otherwise,
           \/ at = "start" /\ otherwise = "spawn"
           \/ at \in {"polling", "lastTry"} /\ otherwise \in {"waiting", "broken"},
           TryConnect(p, at, otherwise)
    PROVE  TypeOK'
<1>1. UNCHANGED <<ask, reply, stalled, killed, gone, path, dpc, exit, cur,
                  idleOut, notes, settings, crashes, overlap>>
  BY DEF TryConnect, memVars
<1>2. /\ cpc' \in [Clients -> ClientStates]
      /\ \A d \in Clients : cpc'[d] \in {"start", "spawn"} => cpc[d] \in {"start", "spawn"}
  <2>1. cpc' = [cpc EXCEPT ![p] = "writing"] \/ cpc' = [cpc EXCEPT ![p] = otherwise]
    BY DEF TryConnect, Join
  <2>2. cpc[p] = at /\ cpc \in [Clients -> ClientStates]
    BY DEF TryConnect, TypeOK
  <2>3. PICK s \in {"writing", otherwise} : cpc' = [cpc EXCEPT ![p] = s]
    BY <2>1
  <2>4. s \in ClientStates /\ (s \in {"start", "spawn"} => at = "start")
    BY DEF ClientStates
  <2>5. cpc' \in [Clients -> ClientStates] /\ cpc'[p] = s
    BY <2>2, <2>3, <2>4
  <2>6. \A d \in Clients \ {p} : cpc'[d] = cpc[d]
    BY <2>2, <2>3
  <2> QED
    BY <2>2, <2>4, <2>5, <2>6
<1>3. backlog' \in [Clients -> Seq(ConnectionType)]
  <2>1. CASE Live(Key(p)) /\ Join(p)
    <3>1. path[Key(p)] \in Clients
      BY <2>1 DEF Live
    <3>2. Append(backlog[path[Key(p)]], Connection(p, FALSE)) \in Seq(ConnectionType)
      BY <3>1, ConnectionInType, AppendProperties DEF TypeOK
    <3> QED
      BY <2>1, <3>1, <3>2 DEF Join, TypeOK
  <2>2. CASE UNCHANGED backlog
    BY <2>2 DEF TypeOK
  <2> QED
    BY <2>1, <2>2 DEF TryConnect
<1> QED
  BY <1>1, <1>2, <1>3 DEF TypeOK

\* Every step of a client keeps the types.
LEMMA ClientTypeStep ==
    ASSUME TypeOK, NEW p \in Clients, ClientStep(p)
    PROVE  TypeOK'
<1>1. CASE Connect(p)
  BY <1>1, TryConnectType DEF Connect
<1>2. CASE PollConnect(p)
  BY <1>2, TryConnectType DEF PollConnect
<1>3. CASE LastConnect(p)
  BY <1>3, TryConnectType DEF LastConnect
<1>4. CASE Spawn(p)
  <2>1. UNCHANGED <<ask, reply, stalled, killed, gone, path, exit, backlog,
                    cur, idleOut, notes, settings, crashes, overlap>>
    BY <1>4 DEF Spawn, memVars
  <2>2. /\ cpc' = [cpc EXCEPT ![p] = "polling"]
        /\ dpc' = [dpc EXCEPT ![p] = "materializing"]
        /\ cpc[p] = "spawn"
    BY <1>4 DEF Spawn
  <2>3. cpc' \in [Clients -> ClientStates] /\ dpc' \in [Clients -> DaemonStates]
    BY <2>2 DEF TypeOK, ClientStates, DaemonStates
  <2>4. \A d \in Clients : /\ cur'[d] \in Clients <=> dpc'[d] \in {"reading", "running"}
                           /\ cpc'[d] \in {"start", "spawn"} => dpc'[d] = "none"
    <3>1. cur[p] \notin Clients
      BY <2>2 DEF TypeOK
    <3>2. dpc \in [Clients -> DaemonStates] /\ cpc \in [Clients -> ClientStates]
      BY DEF TypeOK
    <3>3. dpc'[p] = "materializing" /\ cpc'[p] = "polling"
      BY <2>2, <3>2
    <3>4. \A d \in Clients \ {p} : dpc'[d] = dpc[d] /\ cpc'[d] = cpc[d]
      BY <2>2, <3>2
    <3>5. \A d \in Clients : /\ cur[d] \in Clients <=> dpc[d] \in {"reading", "running"}
                             /\ cpc[d] \in {"start", "spawn"} => dpc[d] = "none"
      BY DEF TypeOK
    <3> QED
      BY <2>1, <3>1, <3>3, <3>4, <3>5
  <2> QED
    BY <2>1, <2>3, <2>4 DEF TypeOK
<1>5. CASE TryWait(p) \/ Write(p) \/ Read(p)
  <2>1. UNCHANGED <<ask, reply, stalled, killed, gone, path, dpc, exit, backlog,
                    cur, idleOut, notes, settings, crashes, overlap>>
    BY <1>5 DEF TryWait, Write, Read, memVars
  <2>2. \E s \in ClientStates \ {"start", "spawn"} : cpc' = [cpc EXCEPT ![p] = s]
    BY <1>5 DEF TryWait, Write, Read, ClientStates
  <2>3. /\ cpc' \in [Clients -> ClientStates]
        /\ \A d \in Clients : cpc'[d] \in {"start", "spawn"} => cpc[d] \in {"start", "spawn"}
    BY <2>2 DEF TypeOK
  <2> QED
    BY <2>1, <2>3 DEF TypeOK
<1> QED
  BY <1>1, <1>2, <1>3, <1>4, <1>5 DEF ClientStep

\* Stalling, resuming and being killed keep the types.
LEMMA FaultTypeStep ==
    ASSUME TypeOK, NEW p \in Clients, Stall(p) \/ Resume(p) \/ Kill(p)
    PROVE  TypeOK'
<1>1. UNCHANGED <<ask, cpc, reply, path, dpc, exit, backlog, cur, idleOut,
                  notes, settings, crashes, overlap>>
  BY DEF Stall, Resume, Kill, memVars
<1>2. stalled' \subseteq Clients /\ killed' \subseteq Clients /\ gone' \subseteq Clients
  BY DEF Stall, Resume, Kill, TypeOK
<1> QED
  BY <1>1, <1>2 DEF TypeOK

-----------------------------------------------------------------------------
\* A daemon that moves to a state where it holds no connection, with its
\* connection let go, stays consistent with the client that spawned it.
LEMMA Consistent ==
    ASSUME TypeOK, NEW d \in Clients, NEW s \in DaemonStates,
           dpc[d] # "none", UNCHANGED cpc,
           dpc' = [dpc EXCEPT ![d] = s],
           \/ s \in {"reading", "running"} /\ cur'[d] \in Clients
           \/ s \notin {"reading", "running"} /\ cur'[d] \notin Clients,
           \A e \in Clients \ {d} : cur'[e] = cur[e]
    PROVE  /\ dpc' \in [Clients -> DaemonStates]
           /\ \A e \in Clients : /\ cur'[e] \in Clients <=> dpc'[e] \in {"reading", "running"}
                                 /\ cpc'[e] \in {"start", "spawn"} => dpc'[e] = "none"
<1>1. dpc \in [Clients -> DaemonStates] /\ cpc \in [Clients -> ClientStates]
  BY DEF TypeOK
<1>2. \A e \in Clients : /\ cur[e] \in Clients <=> dpc[e] \in {"reading", "running"}
                         /\ cpc[e] \in {"start", "spawn"} => dpc[e] = "none"
  BY DEF TypeOK
<1>3. dpc' \in [Clients -> DaemonStates] /\ dpc'[d] = s
  BY <1>1
<1>4. \A e \in Clients \ {d} : dpc'[e] = dpc[e]
  BY <1>1
<1>5. cpc[d] \notin {"start", "spawn"}
  BY <1>2
<1> QED
  BY <1>2, <1>3, <1>4, <1>5

\* The start of a daemon, up to the first accept, keeps the types.
LEMMA StartTypeStep ==
    ASSUME TypeOK, NEW d \in Clients,
           Materialize(d) \/ Bind(d) \/ Listen(d) \/ Probe(d) \/ Unlink(d) \/ Rebind(d)
    PROVE  TypeOK'
<1>1. UNCHANGED <<ask, cpc, reply, stalled, killed, gone, cur, idleOut, notes, settings>>
  BY DEF Materialize, Bind, Listen, Probe, Unlink, Rebind, StartUnchanged, clientVars, memVars
<1>2. Key(d) \in Forms
  BY KeyInForms
<1>3. path' \in [Forms -> Clients \union {NoFile, Stale}]
  <2>1. \E v \in {d, NoFile, path[Key(d)]} : path' = [path EXCEPT ![Key(d)] = v]
    <3>1. path = [path EXCEPT ![Key(d)] = path[Key(d)]]
      BY <1>2 DEF TypeOK
    <3> QED
      BY <3>1 DEF Materialize, Bind, Listen, Probe, Unlink, Rebind
  <2>2. path \in [Forms -> Clients \union {NoFile, Stale}]
    BY DEF TypeOK
  <2> QED
    BY <1>2, <2>1, <2>2
<1>4. exit' \in [Clients -> {"running", "deferred", "expired", "failed"}]
  BY DEF Materialize, Bind, Listen, Probe, Unlink, Rebind, TypeOK
<1>5. backlog' \in [Clients -> Seq(ConnectionType)]
  <2>0. backlog \in [Clients -> Seq(ConnectionType)]
    BY DEF TypeOK
  <2>1. CASE /\ Live(Key(d))
             /\ backlog' = [backlog EXCEPT ![path[Key(d)]] = Append(@, Connection(d, TRUE))]
    <3>1. path[Key(d)] \in Clients
      BY <2>1 DEF Live
    <3>2. Append(backlog[path[Key(d)]], Connection(d, TRUE)) \in Seq(ConnectionType)
      BY <2>0, <3>1, ConnectionInType, AppendProperties
    <3> QED
      BY <2>0, <2>1, <3>1, <3>2
  <2>2. CASE UNCHANGED backlog
    BY <2>0, <2>2
  <2> QED
    BY <2>1, <2>2 DEF Materialize, Bind, Listen, Probe, Unlink, Rebind
<1>6. crashes' \in 0..MaxCrashes
  <2>1. \/ UNCHANGED crashes
        \/ crashes < MaxCrashes /\ crashes' = crashes + 1
    BY DEF Materialize, Bind, Listen, Probe, Unlink, Rebind
  <2>2. crashes \in 0..MaxCrashes
    BY DEF TypeOK
  <2> QED
    BY <2>1, <2>2, LimitsAssumption
<1>7. overlap' \subseteq Forms
  <2>1. overlap' \in {overlap, overlap \union {Key(d)}}
    BY DEF Materialize, Bind, Listen, Probe, Unlink, Rebind
  <2> QED
    BY <1>2, <2>1 DEF TypeOK
<1>8. /\ dpc' \in [Clients -> DaemonStates]
      /\ \A e \in Clients : /\ cur'[e] \in Clients <=> dpc'[e] \in {"reading", "running"}
                            /\ cpc'[e] \in {"start", "spawn"} => dpc'[e] = "none"
  <2>1. dpc[d] \in {"materializing", "binding"} \union Starting
    BY DEF Materialize, Bind, Listen, Probe, Unlink, Rebind
  <2>2. PICK s \in {"binding", "serving", "gone"} \union Starting : dpc' = [dpc EXCEPT ![d] = s]
    BY DEF Materialize, Bind, Listen, Probe, Unlink, Rebind
  <2>3. cur'[d] \notin Clients /\ \A e \in Clients : cur'[e] = cur[e]
    <3>1. cur[d] \in Clients <=> dpc[d] \in {"reading", "running"}
      BY DEF TypeOK
    <3> QED
      BY <1>1, <2>1, <3>1
  <2>4. s \in DaemonStates /\ s \notin {"reading", "running"}
    BY DEF DaemonStates
  <2> QED
    BY <1>1, <2>1, <2>2, <2>3, <2>4, Consistent
<1> QED
  BY <1>1, <1>3, <1>4, <1>5, <1>6, <1>7, <1>8 DEF TypeOK

\* Serving, expiring and crashing keep the types.
LEMMA ServeTypeStep ==
    ASSUME TypeOK, NEW d \in Clients,
           \/ Accept(d) \/ Receive(d) \/ Run(d) \/ Tick(d)
           \/ Expire(d) \/ Remove(d) \/ Close(d) \/ Crash(d)
    PROVE  TypeOK'
<1> DEFINE Steady == UNCHANGED <<ask, cpc, stalled, killed, gone, overlap>>
           HoldsNone(s) == s \notin {"reading", "running"}
           Linked == \A e \in Clients :
                       /\ cur'[e] \in Clients <=> dpc'[e] \in {"reading", "running"}
                       /\ cpc'[e] \in {"start", "spawn"} => dpc'[e] = "none"
<1>1. Steady
  BY DEF Accept, Receive, Run, Tick, Expire, Remove, Close, Crash, StartUnchanged, clientVars
<1>2. Key(d) \in Forms
  BY KeyInForms
<1>3. /\ cur \in [Clients -> Clients \union {Nobody}]
      /\ dpc \in [Clients -> DaemonStates]
      /\ backlog \in [Clients -> Seq(ConnectionType)]
      /\ reply \in [Clients -> {NoReply, Eof} \union FrameType]
      /\ path \in [Forms -> Clients \union {NoFile, Stale}]
      /\ exit \in [Clients -> {"running", "deferred", "expired", "failed"}]
      /\ idleOut \in [Clients -> BOOLEAN]
      /\ notes \in [Clients -> [tool : SUBSET Clients, reading : SUBSET Clients]]
      /\ settings \in [Clients -> SUBSET Clients]
      /\ crashes \in 0..MaxCrashes
  BY DEF TypeOK
<1>4. \A e \in Clients : cur[e] \in Clients <=> dpc[e] \in {"reading", "running"}
  BY DEF TypeOK
<1>5. CASE Accept(d)
  <2>1. Head(backlog[d]) \in ConnectionType /\ Tail(backlog[d]) \in Seq(ConnectionType)
    BY <1>3, <1>5, HeadTailProperties DEF Accept
  <2>2. UNCHANGED <<reply, path, exit, notes, settings, crashes>>
    BY <1>5 DEF Accept, memVars
  <2>3. backlog' \in [Clients -> Seq(ConnectionType)] /\ idleOut' \in [Clients -> BOOLEAN]
    BY <1>3, <1>5, <2>1 DEF Accept
  <2>4. dpc[d] = "serving"
    BY <1>5 DEF Accept
  <2>5. Head(backlog[d]).by \in Clients
    BY <2>1 DEF ConnectionType
  <2>6. \/ UNCHANGED <<cur, dpc>>
        \/ /\ cur' = [cur EXCEPT ![d] = Head(backlog[d]).by]
           /\ dpc' = [dpc EXCEPT ![d] = "reading"]
    BY <1>5 DEF Accept
  <2>7. /\ cur' \in [Clients -> Clients \union {Nobody}]
        /\ dpc' \in [Clients -> DaemonStates] /\ Linked
    <3>1. CASE UNCHANGED <<cur, dpc>>
      BY <1>1, <3>1 DEF TypeOK
    <3>2. CASE /\ cur' = [cur EXCEPT ![d] = Head(backlog[d]).by]
               /\ dpc' = [dpc EXCEPT ![d] = "reading"]
      <4>1. /\ cur' \in [Clients -> Clients \union {Nobody}] /\ cur'[d] \in Clients
            /\ \A e \in Clients \ {d} : cur'[e] = cur[e]
        BY <1>3, <2>5, <3>2
      <4>2. "reading" \in DaemonStates
        BY DEF DaemonStates
      <4> QED
        BY <1>1, <2>4, <3>2, <4>1, <4>2, Consistent
    <3> QED
      BY <2>6, <3>1, <3>2
  <2> QED
    BY <1>1, <2>2, <2>3, <2>7 DEF TypeOK
<1>6. ASSUME Receive(d) \/ Run(d)
      PROVE  TypeOK'
  <2> DEFINE c == cur[d]
  <2>1. dpc[d] \in {"reading", "running"} /\ c \in Clients
    BY <1>4, <1>6 DEF Receive, Run
  <2>2. UNCHANGED <<path, exit, backlog, idleOut, crashes>>
    BY <1>6 DEF Receive, Run
  <2>3. reply' \in [Clients -> {NoReply, Eof} \union FrameType]
    <3>1. Raised(d) \in [tool : SUBSET Clients, reading : SUBSET Clients]
      BY <1>3, <2>1 DEF Raised
    <3>2. Taken(d) \in [tool : SUBSET Clients, reading : SUBSET Clients]
      BY <3>1 DEF Taken
    <3>3. /\ Frame(d, 1, {}, {}) \in FrameType
          /\ Frame(d, 0, Taken(d).tool, Taken(d).reading) \in FrameType
          /\ Frame(d, 1, Taken(d).tool, Taken(d).reading) \in FrameType
      BY <3>2, FrameInType
    <3>4. \/ reply' = CloseOn({c}) \/ reply' = reply
          \/ \E f \in FrameType : reply' = [reply EXCEPT ![c] = f]
      BY <1>6, <3>3 DEF Receive, Run
    <3> QED
      BY <1>3, <3>4, CloseOnType
  <2>4. notes' \in [Clients -> [tool : SUBSET Clients, reading : SUBSET Clients]]
    <3>1. Raised(d) \in [tool : SUBSET Clients, reading : SUBSET Clients]
      BY <1>3, <2>1 DEF Raised
    <3>2. \/ notes' = notes
          \/ \E n \in [tool : SUBSET Clients, reading : SUBSET Clients] :
               notes' = [notes EXCEPT ![d] = n]
      BY <1>6, <3>1 DEF Receive, Run, memVars
    <3> QED
      BY <1>3, <3>2
  <2>5. settings' \in [Clients -> SUBSET Clients]
    <3>1. settings' = settings \/ settings' = [settings EXCEPT ![d] = @ \union {c}]
      <4>1. settings = [settings EXCEPT ![d] = @]
        BY <1>3
      <4> QED
        BY <1>6, <4>1 DEF Receive, Run, memVars
    <3> QED
      BY <1>3, <2>1, <3>1
  <2>6. \/ /\ dpc' = [dpc EXCEPT ![d] = "serving"]
           /\ cur' = [cur EXCEPT ![d] = Nobody]
        \/ /\ dpc' = [dpc EXCEPT ![d] = "running"]
           /\ cur' = cur
    BY <1>6 DEF Receive, Run, Done
  <2>7. /\ cur' \in [Clients -> Clients \union {Nobody}]
        /\ dpc' \in [Clients -> DaemonStates] /\ Linked
    <3>1. "serving" \in DaemonStates /\ "running" \in DaemonStates
      BY DEF DaemonStates
    <3>2. CASE dpc' = [dpc EXCEPT ![d] = "serving"] /\ cur' = [cur EXCEPT ![d] = Nobody]
      <4>1. /\ cur' \in [Clients -> Clients \union {Nobody}] /\ cur'[d] \notin Clients
            /\ \A e \in Clients \ {d} : cur'[e] = cur[e]
        BY <1>3, <3>2, NamesAssumption
      <4> QED
        BY <1>1, <2>1, <3>1, <3>2, <4>1, Consistent
    <3>3. CASE dpc' = [dpc EXCEPT ![d] = "running"] /\ cur' = cur
      BY <1>1, <1>3, <2>1, <3>1, <3>3, Consistent
    <3> QED
      BY <2>6, <3>2, <3>3
  <2> QED
    BY <1>1, <2>2, <2>3, <2>4, <2>5, <2>7 DEF TypeOK
<1>7. CASE Tick(d)
  <2>1. UNCHANGED <<reply, path, dpc, exit, backlog, cur, notes, settings, crashes>>
    BY <1>7 DEF Tick, memVars
  <2>2. idleOut' \in [Clients -> BOOLEAN]
    BY <1>3, <1>7 DEF Tick
  <2> QED
    BY <1>1, <2>1, <2>2 DEF TypeOK
<1>8. CASE Expire(d) \/ Remove(d)
  <2>1. UNCHANGED <<reply, exit, backlog, cur, idleOut, notes, settings, crashes>>
    BY <1>8 DEF Expire, Remove, StartUnchanged, memVars
  <2>2. path' \in [Forms -> Clients \union {NoFile, Stale}]
    BY <1>2, <1>3, <1>8 DEF Expire, Remove
  <2>3. PICK s \in {"removing", "closing"} : dpc' = [dpc EXCEPT ![d] = s]
    BY <1>8 DEF Expire, Remove
  <2>4. dpc[d] \in {"serving", "removing"} /\ s \in DaemonStates
    BY <1>8 DEF Expire, Remove, DaemonStates
  <2>5. cur'[d] \notin Clients /\ \A e \in Clients \ {d} : cur'[e] = cur[e]
    BY <1>4, <2>1, <2>4
  <2>6. dpc' \in [Clients -> DaemonStates] /\ Linked
    BY <1>1, <2>3, <2>4, <2>5, Consistent
  <2> QED
    BY <1>1, <2>1, <2>2, <2>6 DEF TypeOK
<1>9. CASE Close(d) \/ Crash(d)
  <2>1. UNCHANGED <<path, idleOut, notes, settings>>
    BY <1>9 DEF Close, Crash, memVars
  <2>2. crashes' \in 0..MaxCrashes
    <3>1. \/ UNCHANGED crashes
          \/ crashes < MaxCrashes /\ crashes' = crashes + 1
      BY <1>9 DEF Close, Crash
    <3> QED
      BY <1>3, <3>1, LimitsAssumption
  <2>3. reply' \in [Clients -> {NoReply, Eof} \union FrameType]
    BY <1>9, CloseOnType DEF Close, Crash, End
  <2>4. exit' \in [Clients -> {"running", "deferred", "expired", "failed"}]
    BY <1>3, <1>9 DEF Close, Crash, End
  <2>5. backlog' \in [Clients -> Seq(ConnectionType)]
    <3>1. <<>> \in Seq(ConnectionType)
      OBVIOUS
    <3>2. backlog' = [backlog EXCEPT ![d] = <<>>]
      BY <1>9 DEF Close, Crash, End
    <3> QED
      BY <1>3, <3>1, <3>2
  <2>6. /\ cur' \in [Clients -> Clients \union {Nobody}] /\ cur'[d] \notin Clients
        /\ \A e \in Clients \ {d} : cur'[e] = cur[e]
    BY <1>3, <1>9, NamesAssumption DEF Close, Crash, End
  <2>7. dpc[d] # "none" /\ dpc' = [dpc EXCEPT ![d] = "gone"] /\ "gone" \in DaemonStates
    BY <1>9 DEF Close, Crash, End, DaemonStates
  <2>8. dpc' \in [Clients -> DaemonStates] /\ Linked
    BY <1>1, <2>6, <2>7, Consistent
  <2> QED
    BY <1>1, <2>1, <2>2, <2>3, <2>4, <2>5, <2>6, <2>8 DEF TypeOK
<1> QED
  BY <1>5, <1>6, <1>7, <1>8, <1>9

-----------------------------------------------------------------------------
\* The initial state has the types.
LEMMA TypeInit == Init => TypeOK
<1> SUFFICES ASSUME Init PROVE TypeOK
  OBVIOUS
<1>1. crashes \in 0..MaxCrashes
  BY LimitsAssumption DEF Init
<1>2. backlog \in [Clients -> Seq(ConnectionType)]
  BY DEF Init
<1>3. ask \in [Clients -> Requests] /\ path \in [Forms -> Clients \union {NoFile, Stale}]
  BY DEF Init
<1>4. cpc \in [Clients -> ClientStates] /\ dpc \in [Clients -> DaemonStates]
  BY DEF Init, ClientStates, DaemonStates
<1>5. /\ notes \in [Clients -> [tool : SUBSET Clients, reading : SUBSET Clients]]
      /\ settings \in [Clients -> SUBSET Clients]
      /\ reply \in [Clients -> {NoReply, Eof} \union FrameType]
      /\ cur \in [Clients -> Clients \union {Nobody}]
      /\ idleOut \in [Clients -> BOOLEAN]
      /\ exit \in [Clients -> {"running", "deferred", "expired", "failed"}]
  BY DEF Init
<1>6. \A d \in Clients : /\ cur[d] \in Clients <=> dpc[d] \in {"reading", "running"}
                         /\ cpc[d] \in {"start", "spawn"} => dpc[d] = "none"
  BY NamesAssumption DEF Init
<1>7. /\ stalled \subseteq Clients /\ killed \subseteq Clients /\ gone \subseteq Clients
      /\ overlap \subseteq Forms
  BY DEF Init
<1> QED
  BY <1>1, <1>2, <1>3, <1>4, <1>5, <1>6, <1>7 DEF TypeOK

\* Every step keeps the types.
LEMMA TypeStep == TypeOK /\ [Next]_vars => TypeOK'
<1> SUFFICES ASSUME TypeOK, [Next]_vars PROVE TypeOK'
  OBVIOUS
<1>1. CASE UNCHANGED vars
  BY <1>1 DEF vars, TypeOK
<1>2. ASSUME NEW p \in Clients,
             \/ ClientStep(p) \/ Stall(p) \/ Resume(p) \/ Kill(p)
             \/ DaemonStep(p) \/ Tick(p) \/ Crash(p)
      PROVE  TypeOK'
  <2>1. CASE ClientStep(p)
    BY <2>1, ClientTypeStep
  <2>2. CASE Stall(p) \/ Resume(p) \/ Kill(p)
    BY <2>2, FaultTypeStep
  <2>3. CASE DaemonStep(p)
    BY <2>3, StartTypeStep, ServeTypeStep DEF DaemonStep
  <2>4. CASE Tick(p) \/ Crash(p)
    BY <2>4, ServeTypeStep
  <2> QED
    BY <1>2, <2>1, <2>2, <2>3, <2>4
<1> QED
  BY <1>1, <1>2 DEF Next

\* The state of clients, daemons and sockets keeps its types, and a daemon holds
\* a connection exactly while it reads or runs its request.
THEOREM TypeCorrect == Spec => []TypeOK
BY TypeInit, TypeStep, PTL DEF Spec

-----------------------------------------------------------------------------
\* A daemon that has bound the name and not yet let go of it.
Named(d) == dpc[d] \in Accepting \union {"bound", "removing"}

\* The part of NameInv that is about daemon d.
NameOf(d) == /\ Named(d) => path[Key(d)] = d
             /\ dpc[d] \in Starting => ~StartedBy(Key(d), d)
             /\ dpc[d] \in {"unlinking", "rebinding"} =>
                  \A e \in Clients : Key(e) = Key(d) => ~Named(e)

\* It is of each daemon by itself.
LEMMA NameInvParts == NameInv <=> \A d \in Clients : Key(d) \notin overlap => NameOf(d)
BY DEF NameInv, NameOf, Named

\* A step of daemon d that keeps the names, does not put d into a state where it
\* starts or has the name unless it was in such a state, and keeps it out of
\* the states after a refused probe, keeps NameInv.
LEMMA NameKept ==
    ASSUME TypeOK, NameInv, NEW d \in Clients, NEW s,
           UNCHANGED <<ask, path, overlap>>,
           dpc' = [dpc EXCEPT ![d] = s],
           s \in Starting => dpc[d] \in Starting,
           s \in Accepting \union {"bound", "removing"} => Named(d),
           s \in {"unlinking", "rebinding"} => dpc[d] \in {"unlinking", "rebinding"}
    PROVE  NameInv'
<1>1. dpc \in [Clients -> DaemonStates]
  BY DEF TypeOK
<1>2. dpc'[d] = s /\ \A e \in Clients \ {d} : dpc'[e] = dpc[e]
  BY <1>1
<1>3. \A e \in Clients : Key(e)' = Key(e)
  BY DEF Key
<1>4. \A e \in Clients : Named(e)' => Named(e)
  BY <1>2 DEF Named
<1>5. \A e \in Clients : dpc'[e] \in Starting => dpc[e] \in Starting
  BY <1>2
<1>6. \A e \in Clients : dpc'[e] \in {"unlinking", "rebinding"} => dpc[e] \in {"unlinking", "rebinding"}
  BY <1>2
<1>7. ASSUME NEW e \in Clients, Key(e)' \notin overlap'
      PROVE  NameOf(e)'
  <2>1. NameOf(e)
    BY <1>3, <1>7, NameInvParts
  <2> QED
    BY <1>3, <1>4, <1>5, <1>6, <2>1 DEF NameOf, StartedBy
<1> QED
  BY <1>7 DEF NameInv, NameOf, Named

\* Every step keeps the names.
LEMMA NameStep ==
    ASSUME TypeOK, NameInv, [Next]_vars
    PROVE  NameInv'
<1>1. CASE UNCHANGED vars
  BY <1>1 DEF vars, NameInv, StartedBy, Key
<1>2. CASE UNCHANGED <<ask, path, overlap, dpc>>
  BY <1>2 DEF NameInv, StartedBy, Key
<1>3. ASSUME NEW p \in Clients,
             \/ ClientStep(p) \/ Stall(p) \/ Resume(p) \/ Kill(p) \/ Tick(p)
      PROVE  NameInv'
  <2>1. CASE Spawn(p)
    <3>1. /\ UNCHANGED <<ask, path, overlap>>
          /\ dpc' = [dpc EXCEPT ![p] = "materializing"]
      BY <2>1 DEF Spawn
    <3> QED
      BY <3>1, NameKept
  <2>2. CASE ~Spawn(p)
    BY <1>2, <1>3, <2>2 DEF ClientStep, Connect, PollConnect, LastConnect, TryConnect,
                            TryWait, Write, Read, Stall, Resume, Kill, Tick
  <2> QED
    BY <2>1, <2>2
<1> DEFINE Kept(d) == \A e \in Clients \ {d} : dpc'[e] = dpc[e]
<1>4. ASSUME NEW d \in Clients,
             \/ Materialize(d) \/ Listen(d) \/ (Probe(d) /\ Live(Key(d)))
             \/ Accept(d) \/ Receive(d) \/ Run(d) \/ Expire(d) \/ Close(d) \/ Crash(d)
      PROVE  NameInv'
  <2>1. UNCHANGED <<ask, path, overlap>>
    BY <1>4 DEF Materialize, Listen, Probe, Accept, Receive, Run, Expire, Close, Crash, StartUnchanged
  <2>2. CASE UNCHANGED dpc
    BY <1>2, <2>1, <2>2
  <2>3. CASE \E s \in {"binding", "gone"} : dpc' = [dpc EXCEPT ![d] = s]
    BY <2>1, <2>3, NameKept
  <2>4. CASE /\ dpc[d] \in Accepting \union {"bound"}
             /\ \E s \in Accepting \union {"removing"} : dpc' = [dpc EXCEPT ![d] = s]
    BY <2>1, <2>4, NameKept DEF Named
  <2> QED
    BY <1>4, <2>2, <2>3, <2>4 DEF Materialize, Listen, Probe, Accept, Receive, Run, Expire, Close,
                                  Crash, End, Done
<1>5. ASSUME NEW d \in Clients, \/ Bind(d) \/ Rebind(d) \/ Unlink(d) \/ Remove(d)
                             \/ (Probe(d) /\ ~Live(Key(d)))
      PROVE  NameInv'
  <2>1. /\ dpc \in [Clients -> DaemonStates]
        /\ path \in [Forms -> Clients \union {NoFile, Stale}]
        /\ \A e \in Clients : Key(e) \in Forms
    BY KeyInForms DEF TypeOK
  <2>2. UNCHANGED ask /\ \A e \in Clients : Key(e)' = Key(e)
    BY <1>5 DEF Bind, Rebind, Unlink, Remove, Probe, StartUnchanged, Key
  <2>3. PICK s \in Starting \union {"gone", "closing"} : dpc' = [dpc EXCEPT ![d] = s]
    BY <1>5 DEF Bind, Rebind, Unlink, Remove, Probe
  <2>4. dpc'[d] = s /\ \A e \in Clients \ {d} : dpc'[e] = dpc[e]
    BY <2>1, <2>3
  <2>5. \A k \in Forms \ {Key(d)} : path'[k] = path[k]
    BY <1>5, <2>1 DEF Bind, Rebind, Unlink, Remove, Probe
  <2>6. /\ overlap \subseteq overlap'
        /\ Bind(d) /\ StartedBy(Key(d), d) => Key(d) \in overlap'
    BY <1>5 DEF Bind, Rebind, Unlink, Remove, Probe
  <2>7. ASSUME NEW e \in Clients, Key(e) \notin overlap', Key(e) # Key(d)
        PROVE  NameOf(e)'
    <3>1. NameOf(e)
      BY <2>6, <2>7, NameInvParts
    <3>2. e # d /\ path'[Key(e)] = path[Key(e)]
      BY <2>1, <2>5, <2>7
    <3> QED
      BY <2>2, <2>4, <2>7, <3>1, <3>2 DEF NameOf, Named, StartedBy
  <2> DEFINE Same == {e \in Clients : Key(e) = Key(d)}
  <2>8. ASSUME Key(d) \notin overlap'
        PROVE  \A e \in Same : NameOf(e)'
    <3>1. \A e \in Same : NameOf(e)
      BY <2>6, <2>8, NameInvParts
    <3>2. \A e \in Same : e # d /\ dpc[e] \in Starting => dpc[d] \notin Starting
      BY <3>1 DEF NameOf, StartedBy
    <3>3. CASE Bind(d)
      <4>1. \A e \in Same \ {d} : dpc[e] \notin Starting
        BY <2>6, <2>8, <3>3 DEF StartedBy
      <4>2. CASE path[Key(d)] = NoFile
        <5>1. \A e \in Same : ~Named(e)
          BY <3>1, <4>2, NamesAssumption DEF NameOf
        <5>2. path'[Key(d)] = d /\ s = "bound"
          BY <2>1, <2>4, <3>3, <4>2 DEF Bind
        <5> QED
          BY <2>2, <2>4, <4>1, <5>1, <5>2 DEF NameOf, Named, StartedBy
      <4>3. CASE path[Key(d)] # NoFile
        <5>1. UNCHANGED path /\ s = "probing"
          BY <2>1, <2>4, <3>3, <4>3 DEF Bind
        <5> QED
          BY <2>2, <2>4, <3>1, <4>1, <5>1 DEF NameOf, Named, StartedBy
      <4> QED
        BY <4>2, <4>3
    <3>4. CASE Rebind(d)
      <4>1. dpc[d] = "rebinding" /\ \A e \in Same : ~Named(e)
        BY <3>1, <3>4 DEF Rebind, NameOf
      <4>2. \A e \in Same \ {d} : dpc[e] \notin Starting
        BY <3>2, <4>1
      <4>3. s = "gone" \/ (s = "bound" /\ path'[Key(d)] = d)
        <5>1. \/ dpc' = [dpc EXCEPT ![d] = "gone"]
              \/ /\ dpc' = [dpc EXCEPT ![d] = "bound"]
                 /\ path' = [path EXCEPT ![Key(d)] = d]
          BY <3>4 DEF Rebind
        <5> QED
          BY <2>1, <2>4, <5>1
      <4> QED
        BY <2>2, <2>4, <4>1, <4>2, <4>3 DEF NameOf, Named, StartedBy
    <3>5. CASE Unlink(d)
      <4>1. dpc[d] = "unlinking" /\ s = "rebinding" /\ \A e \in Same : ~Named(e)
        BY <2>1, <2>4, <3>1, <3>5 DEF Unlink, NameOf
      <4>2. \A e \in Same \ {d} : dpc[e] \notin Starting
        BY <3>2, <4>1
      <4> QED
        BY <2>2, <2>4, <4>1, <4>2 DEF NameOf, Named, StartedBy
    <3>6. CASE Remove(d)
      <4>1. dpc[d] = "removing" /\ s = "closing" /\ path[Key(d)] = d
        BY <2>1, <2>4, <3>1, <3>6 DEF Remove, NameOf, Named
      <4>2. \A e \in Same \ {d} : ~Named(e)
        BY <3>1, <4>1 DEF NameOf
      <4> QED
        BY <2>2, <2>4, <3>1, <4>1, <4>2 DEF NameOf, Named, StartedBy
    <3>7. CASE Probe(d) /\ ~Live(Key(d))
      <4>1. dpc[d] = "probing" /\ s = "unlinking" /\ UNCHANGED path
        BY <2>1, <2>4, <3>7 DEF Probe
      <4>2. \A e \in Same \ {d} : dpc[e] \notin Starting
        BY <3>2, <4>1
      <4>3. \A e \in Same : ~Named(e)
        BY <3>1, <3>7, <4>1, <4>2 DEF NameOf, Named, Live
      <4> QED
        BY <2>2, <2>4, <4>1, <4>2, <4>3 DEF NameOf, Named, StartedBy
    <3> QED
      BY <1>5, <3>3, <3>4, <3>5, <3>6, <3>7
  <2>9. \A e \in Clients : Key(e)' \notin overlap' => NameOf(e)'
    BY <2>2, <2>7, <2>8
  <2> QED
    BY <2>9 DEF NameInv, NameOf, Named
<1>6. ASSUME NEW p \in Clients, DaemonStep(p)
      PROVE  NameInv'
  <2>1. CASE Probe(p)
    BY <1>4, <1>5, <2>1
  <2>2. CASE Bind(p) \/ Rebind(p) \/ Unlink(p) \/ Remove(p)
    BY <1>5, <2>2
  <2>3. CASE Materialize(p) \/ Listen(p) \/ Accept(p) \/ Receive(p) \/ Run(p)
               \/ Expire(p) \/ Close(p)
    BY <1>4, <2>3
  <2> QED
    BY <1>6, <2>1, <2>2, <2>3 DEF DaemonStep
<1>7. ASSUME NEW p \in Clients, Crash(p)
      PROVE  NameInv'
  BY <1>4, <1>7
<1> QED
  BY <1>1, <1>3, <1>6, <1>7 DEF Next

\* Outside a start race a daemon that has bound the name keeps it, and one whose
\* probe was refused is alone.
THEOREM NameCorrect == Spec => []NameInv
<1>1. Init => NameInv
  BY DEF Init, NameInv
<1>2. TypeOK /\ NameInv /\ [Next]_vars => NameInv'
  BY NameStep
<1> QED
  BY <1>1, <1>2, TypeCorrect, PTL DEF Spec

\* resident_serve_loop never leaves a daemon serving under a name that does not
\* lead to it, unless two daemons of the session were starting at a time.
THEOREM OrphansOnlyInARace == Spec => []OrphansNeedARace
<1>1. NameInv => OrphansNeedARace
  BY DEF NameInv, OrphansNeedARace, Orphan
<1> QED
  BY <1>1, NameCorrect, PTL

-----------------------------------------------------------------------------
\* Outside a start race the name stays free between the removal of a stale
\* socket and the second bind.
RebindInv == \A d \in Clients :
    dpc[d] = "rebinding" /\ Key(d) \notin overlap => path[Key(d)] = NoFile

\* A step gives a name to a daemon only while no other daemon of the session
\* stands between its removal and its second bind.
LEMMA RebindStep ==
    ASSUME TypeOK, NameInv, RebindInv, [Next]_vars
    PROVE  RebindInv'
<1>0. /\ dpc \in [Clients -> DaemonStates]
      /\ path \in [Forms -> Clients \union {NoFile, Stale}]
      /\ \A e \in Clients : Key(e) \in Forms
  BY KeyInForms DEF TypeOK
<1>1. CASE UNCHANGED vars
  BY <1>1 DEF vars, RebindInv, Key
<1>2. ASSUME NEW p \in Clients, UNCHANGED <<ask, path, overlap>>,
             \/ UNCHANGED dpc
             \/ \E s \in DaemonStates \ {"rebinding"} : dpc' = [dpc EXCEPT ![p] = s]
      PROVE  RebindInv'
  <2>1. \A e \in Clients : dpc'[e] = "rebinding" => dpc[e] = "rebinding"
    BY <1>0, <1>2
  <2> QED
    BY <1>2, <2>1 DEF RebindInv, Key
<1>3. ASSUME NEW p \in Clients,
             \/ ClientStep(p) \/ Stall(p) \/ Resume(p) \/ Kill(p) \/ Tick(p)
      PROVE  RebindInv'
  <2>1. CASE Spawn(p)
    <3>1. /\ UNCHANGED <<ask, path, overlap>>
          /\ dpc' = [dpc EXCEPT ![p] = "materializing"]
          /\ "materializing" \in DaemonStates \ {"rebinding"}
      BY <2>1 DEF Spawn, DaemonStates
    <3> QED
      BY <1>2, <3>1
  <2>2. CASE ~Spawn(p)
    BY <1>2, <1>3, <2>2 DEF ClientStep, Connect, PollConnect, LastConnect, TryConnect,
                            TryWait, Write, Read, Stall, Resume, Kill, Tick
  <2> QED
    BY <2>1, <2>2
<1>4. ASSUME NEW d \in Clients,
             \/ Materialize(d) \/ Listen(d) \/ Probe(d)
             \/ Accept(d) \/ Receive(d) \/ Run(d) \/ Expire(d) \/ Close(d) \/ Crash(d)
      PROVE  RebindInv'
  <2>1. UNCHANGED <<ask, path, overlap>>
    BY <1>4 DEF Materialize, Listen, Probe, Accept, Receive, Run, Expire, Close, Crash, StartUnchanged
  <2>2. \/ UNCHANGED dpc
        \/ \E s \in DaemonStates \ {"rebinding"} : dpc' = [dpc EXCEPT ![d] = s]
    BY <1>4 DEF Materialize, Listen, Probe, Accept, Receive, Run, Expire, Close, Crash, End, Done,
                DaemonStates
  <2> QED
    BY <1>2, <2>1, <2>2
<1>5. ASSUME NEW d \in Clients, \/ Bind(d) \/ Rebind(d) \/ Unlink(d) \/ Remove(d),
             NEW e \in Clients, dpc'[e] = "rebinding", Key(e) \notin overlap'
      PROVE  path'[Key(e)] = NoFile
  <2>1. CASE Unlink(d) \/ Remove(d)
    <3>1. /\ path' = [path EXCEPT ![Key(d)] = NoFile] /\ UNCHANGED overlap
          /\ \E s \in {"rebinding", "closing"} : dpc' = [dpc EXCEPT ![d] = s]
      BY <2>1 DEF Unlink, Remove
    <3>2. e # d => dpc[e] = "rebinding"
      BY <1>0, <1>5, <3>1
    <3> QED
      BY <1>0, <1>5, <3>1, <3>2 DEF RebindInv
  <2>2. CASE Bind(d) \/ Rebind(d)
    <3>1. /\ e # d /\ dpc[e] = "rebinding"
          /\ \E s \in {"bound", "probing", "gone"} : dpc' = [dpc EXCEPT ![d] = s]
      BY <1>0, <1>5, <2>2 DEF Bind, Rebind
    <3>2. overlap \subseteq overlap'
      BY <2>2 DEF Bind, Rebind
    <3>3. path[Key(e)] = NoFile
      BY <1>5, <3>1, <3>2 DEF RebindInv
    <3>4. Key(e) # Key(d)
      <4>1. CASE Bind(d)
        BY <1>5, <3>1, <4>1 DEF Bind, StartedBy
      <4>2. CASE Rebind(d)
        BY <1>5, <3>1, <3>2, <4>2 DEF Rebind, NameInv, StartedBy
      <4> QED
        BY <2>2, <4>1, <4>2
    <3>5. path'[Key(e)] = path[Key(e)]
      BY <1>0, <2>2, <3>4 DEF Bind, Rebind
    <3> QED
      BY <3>3, <3>5
  <2> QED
    BY <1>5, <2>1, <2>2
<1>6. ASSUME NEW p \in Clients, DaemonStep(p)
      PROVE  RebindInv'
  <2>1. CASE Bind(p) \/ Rebind(p) \/ Unlink(p) \/ Remove(p)
    <3>1. UNCHANGED ask
      BY <2>1 DEF Bind, Rebind, Unlink, Remove, StartUnchanged
    <3> QED
      BY <1>5, <2>1, <3>1 DEF RebindInv, Key
  <2> QED
    BY <1>4, <1>6, <2>1 DEF DaemonStep
<1> QED
  BY <1>1, <1>3, <1>4, <1>6 DEF Next

\* The second bind is the only start that fails without a crash, and it finds
\* the name taken only after a race for it.
LEMMA FailedStep ==
    ASSUME TypeOK, RebindInv, FailedStartNeedsARace, [Next]_vars
    PROVE  FailedStartNeedsARace'
<1>0. /\ exit \in [Clients -> {"running", "deferred", "expired", "failed"}]
      /\ crashes \in Nat
  BY DEF TypeOK
<1>1. CASE UNCHANGED vars
  BY <1>1 DEF vars, FailedStartNeedsARace, Key
<1>2. ASSUME UNCHANGED ask, overlap \subseteq overlap', crashes' \in {crashes, crashes + 1},
             \/ crashes' = crashes + 1
             \/ \A e \in Clients : exit'[e] = "failed" =>
                  exit[e] = "failed" \/ Key(e) \in overlap
      PROVE  FailedStartNeedsARace'
  BY <1>0, <1>2 DEF FailedStartNeedsARace, Key
<1>3. ASSUME NEW p \in Clients,
             \/ ClientStep(p) \/ Stall(p) \/ Resume(p) \/ Kill(p) \/ Tick(p)
             \/ Listen(p) \/ Unlink(p) \/ Accept(p) \/ Receive(p) \/ Run(p)
             \/ Expire(p) \/ Remove(p)
      PROVE  FailedStartNeedsARace'
  <2>1. UNCHANGED <<ask, overlap, crashes, exit>>
    BY <1>3 DEF ClientStep, Connect, Spawn, PollConnect, LastConnect, TryConnect, TryWait,
                Write, Read, Stall, Resume, Kill, Tick, Listen, Unlink, Accept, Receive, Run,
                Expire, Remove, StartUnchanged
  <2> QED
    BY <1>2, <2>1
<1>4. ASSUME NEW d \in Clients, Crash(d) \/ Materialize(d)
      PROVE  FailedStartNeedsARace'
  <2>1. UNCHANGED <<ask, overlap>>
    BY <1>4 DEF Crash, Materialize, StartUnchanged
  <2>2. crashes' = crashes + 1 \/ UNCHANGED <<crashes, exit>>
    BY <1>4 DEF Crash, Materialize
  <2> QED
    BY <1>2, <2>1, <2>2
<1>5. ASSUME NEW d \in Clients, \/ Bind(d) \/ Probe(d) \/ Close(d)
      PROVE  FailedStartNeedsARace'
  <2>1. UNCHANGED <<ask, crashes>> /\ overlap \subseteq overlap'
    BY <1>5 DEF Bind, Probe, Close, StartUnchanged
  <2>2. exit' = exit \/ \E how \in {"deferred", "expired"} : exit' = [exit EXCEPT ![d] = how]
    BY <1>5 DEF Bind, Probe, Close, End
  <2>3. \A e \in Clients : exit'[e] = "failed" => exit[e] = "failed"
    BY <1>0, <2>2
  <2> QED
    BY <1>2, <2>1, <2>3
<1>6. ASSUME NEW d \in Clients, Rebind(d)
      PROVE  FailedStartNeedsARace'
  <2>1. UNCHANGED <<ask, crashes, overlap>>
    BY <1>6 DEF Rebind, StartUnchanged
  <2>2. exit' = exit \/ (exit' = [exit EXCEPT ![d] = "failed"] /\ Key(d) \in overlap)
    BY <1>6 DEF Rebind, RebindInv
  <2>3. \A e \in Clients : exit'[e] = "failed" => exit[e] = "failed" \/ Key(e) \in overlap
    BY <1>0, <2>2
  <2> QED
    BY <1>2, <2>1, <2>3
<1> QED
  BY <1>1, <1>3, <1>4, <1>5, <1>6 DEF Next, DaemonStep

\* spawn_resident's "exited before binding" without a crash: the start of a
\* daemon fails only after two of them raced for the name.
THEOREM FailedStartsOnlyInARace == Spec => []FailedStartNeedsARace
<1>1. Init => RebindInv /\ FailedStartNeedsARace
  BY DEF Init, RebindInv, FailedStartNeedsARace
<1>2. TypeOK /\ NameInv /\ RebindInv /\ FailedStartNeedsARace /\ [Next]_vars
        => RebindInv' /\ FailedStartNeedsARace'
  BY RebindStep, FailedStep
<1> QED
  BY <1>1, <1>2, TypeCorrect, NameCorrect, PTL DEF Spec

-----------------------------------------------------------------------------
\* Connection i of daemon d is that of client c: number 0 is the one it serves, the
\* others wait in its backlog.  A probe's connection is nobody's.
At(c, d, i) == \/ i = 0 /\ cur[d] = c
               \/ i \in DOMAIN backlog[d] /\ ~backlog[d][i].probe /\ backlog[d][i].by = c

\* The client has connected, at its first attempt or a later one, or given up.
Connected(c) == cpc[c] \in {"writing", "reading", "answered", "broken"}

\* A client has one connection, to a daemon of its session, which is open until it
\* was replied to; a name leads to a daemon of its session.
HeldInv ==
    /\ \A k \in Forms : path[k] \in Clients => Key(path[k]) = k
    /\ \A c \in Clients : reply[c] # NoReply => Connected(c)
    /\ \A c, d \in Clients : \A i \in Nat :
         At(c, d, i) => Key(c) = Key(d) /\ reply[c] = NoReply /\ Connected(c)
    /\ \A c, d, e \in Clients : \A i, j \in Nat : At(c, d, i) /\ At(c, e, j) => d = e /\ i = j

\* Replies are told apart by their kind.
LEMMA Kinds ==
    ASSUME TypeOK, NEW c \in Clients
    PROVE  /\ reply[c] # NoReply <=> reply[c].kind \in {"eof", "frame"}
           /\ reply[c] = Eof <=> reply[c].kind = "eof"
<1>1. reply[c] \in {NoReply, Eof} \union FrameType
  BY DEF TypeOK
<1>2. NoReply.kind = "none" /\ Eof.kind = "eof" /\ \A f \in FrameType : f.kind = "frame"
  BY DEF NoReply, Eof, FrameType
<1> QED
  BY <1>1, <1>2

\* Closing connections replies to those who had none, and to nobody else.
LEMMA Closed ==
    ASSUME TypeOK, NEW S, NEW c \in Clients
    PROVE  /\ CloseOn(S)[c] \in {reply[c], Eof}
           /\ reply[c] # NoReply \/ c \notin S => CloseOn(S)[c] = reply[c]
           /\ reply[c] = NoReply /\ c \in S => CloseOn(S)[c] = Eof
           /\ CloseOn(S)[c] = NoReply => c \notin S
BY DEF CloseOn, NoReply, Eof

\* A connection waits at a number of its own, from 1.
LEMMA WaitingAt ==
    ASSUME TypeOK, NEW c \in Clients, NEW d \in Clients, NEW i \in Nat
    PROVE  At(c, d, i) <=> \/ i = 0 /\ cur[d] = c
                           \/ /\ i \in 1..Len(backlog[d])
                              /\ ~backlog[d][i].probe /\ backlog[d][i].by = c
BY DEF At, TypeOK

\* A step that makes no connection, and replies only where one ends.
LEMMA HeldKept ==
    ASSUME TypeOK, HeldInv, UNCHANGED ask,
           \A k \in Forms : path'[k] \in Clients => path'[k] = path[k] \/ Key(path'[k]) = k,
           \A c \in Clients : Connected(c) => Connected(c)',
           \A c \in Clients : reply'[c] # NoReply => Connected(c),
           \A c, d \in Clients : \A i \in Nat : At(c, d, i)' => At(c, d, i) /\ reply'[c] = NoReply
    PROVE  HeldInv'
<1>1. \A c : Key(c)' = Key(c)
  BY DEF Key
<1>2. (\A k \in Forms : path[k] \in Clients => Key(path[k]) = k)'
  BY DEF HeldInv, Key
<1>3. \A c \in Clients : reply'[c] # NoReply => Connected(c)'
  OBVIOUS
<1>4. \A c, d \in Clients : \A i \in Nat :
        At(c, d, i)' => Key(c)' = Key(d)' /\ reply'[c] = NoReply /\ Connected(c)'
  BY <1>1 DEF HeldInv
<1>5. \A c, d, e \in Clients : \A i, j \in Nat : At(c, d, i)' /\ At(c, e, j)' => d = e /\ i = j
  BY DEF HeldInv
<1> QED
  BY <1>2, <1>3, <1>4, <1>5 DEF HeldInv, NoReply

\* The last number is the one appended.
LEMMA Appended ==
    ASSUME NEW q \in Seq(ConnectionType), NEW x \in ConnectionType
    PROVE  /\ Len(q) + 1 \in Nat
           /\ DOMAIN q = 1..(Len(q) + 1) - 1 /\ DOMAIN Append(q, x) = 1..Len(q) + 1
           /\ \A i \in 1..(Len(q) + 1) - 1 : Append(q, x)[i] = q[i]
           /\ Append(q, x)[Len(q) + 1] = x
<1>1. Len(q) \in Nat /\ DOMAIN q = 1..Len(q) /\ Len(q) + 1 - 1 = Len(q)
  OBVIOUS
<1>2. /\ Append(q, x) \in Seq(ConnectionType) /\ Len(Append(q, x)) = Len(q) + 1
      /\ \A i \in 1..Len(q) : Append(q, x)[i] = q[i]
      /\ Append(q, x)[Len(q) + 1] = x
  BY AppendProperties
<1>3. DOMAIN Append(q, x) = 1..Len(q) + 1
  BY <1>2
<1> QED
  BY <1>1, <1>2, <1>3

\* A client that connects had no connection before.
LEMMA HeldConnect ==
    ASSUME TypeOK, HeldInv, NEW p \in Clients, NEW at \in {"start", "polling", "lastTry"},
           NEW otherwise \in {"spawn", "waiting", "broken"}, TryConnect(p, at, otherwise)
    PROVE  HeldInv'
<1>0. /\ UNCHANGED <<ask, reply, path, cur>>
      /\ cpc[p] = at /\ cpc \in [Clients -> ClientStates] /\ backlog \in [Clients -> Seq(ConnectionType)]
  BY DEF TryConnect, TypeOK
<1>1. ~Connected(p) /\ reply[p] = NoReply
  BY <1>0 DEF Connected, HeldInv
<1>2. CASE UNCHANGED backlog
  <2>1. \E s \in ClientStates : cpc' = [cpc EXCEPT ![p] = s]
    BY DEF TryConnect, Join, ClientStates
  <2>2. \A c \in Clients : Connected(c) => Connected(c)'
    BY <1>0, <1>1, <2>1 DEF Connected
  <2>3. \A c, d \in Clients : \A i \in Nat : At(c, d, i)' => At(c, d, i) /\ reply'[c] = NoReply
    <3>1. \A c, d \in Clients : \A i \in Nat : At(c, d, i)' <=> At(c, d, i)
      BY <1>0, <1>2 DEF At
    <3> QED
      BY <1>0, <3>1 DEF HeldInv
  <2> QED
    BY <1>0, <2>2, <2>3, HeldKept DEF HeldInv
<1>3. CASE Live(Key(p)) /\ Join(p)
  <2> DEFINE d == path[Key(p)]
             n == Len(backlog[d]) + 1
  <2>1. d \in Clients /\ Key(d) = Key(p)
    BY <1>3, KeyInForms DEF Live, HeldInv
  <2>2. /\ cpc' = [cpc EXCEPT ![p] = "writing"]
        /\ backlog' = [backlog EXCEPT ![d] = Append(backlog[d], Connection(p, FALSE))]
    BY <1>0, <1>3 DEF Join
  <2>3. /\ Connected(p)' /\ \A c \in Clients \ {p} : cpc'[c] = cpc[c]
        /\ \A e \in Clients \ {d} : backlog'[e] = backlog[e]
        /\ backlog'[d] = Append(backlog[d], Connection(p, FALSE))
    BY <1>0, <2>1, <2>2 DEF Connected
  <2>4. /\ n \in Nat /\ DOMAIN backlog[d] = 1..n - 1 /\ DOMAIN backlog'[d] = 1..n
        /\ \A i \in 1..n - 1 : backlog'[d][i] = backlog[d][i]
        /\ backlog'[d][n] = Connection(p, FALSE)
    <3> HIDE DEF d
    <3>1. backlog[d] \in Seq(ConnectionType) /\ Connection(p, FALSE) \in ConnectionType
      BY <1>0, <2>1, ConnectionInType
    <3> HIDE DEF d
    <3>2. backlog'[d] = Append(backlog[d], Connection(p, FALSE))
      BY <2>3
    <3>3. /\ Len(backlog[d]) + 1 \in Nat
          /\ DOMAIN backlog[d] = 1..(Len(backlog[d]) + 1) - 1
          /\ DOMAIN Append(backlog[d], Connection(p, FALSE)) = 1..Len(backlog[d]) + 1
          /\ \A i \in 1..(Len(backlog[d]) + 1) - 1 :
               Append(backlog[d], Connection(p, FALSE))[i] = backlog[d][i]
          /\ Append(backlog[d], Connection(p, FALSE))[Len(backlog[d]) + 1] = Connection(p, FALSE)
      BY <3>1, Appended
    <3> QED
      BY <3>2, <3>3
  <2>5. \A c, e \in Clients : \A i \in Nat :
          At(c, e, i)' => At(c, e, i) \/ (c = p /\ e = d /\ i = n)
    <3> HIDE DEF d, n
    <3> SUFFICES ASSUME NEW c \in Clients, NEW e \in Clients, NEW i \in Nat, At(c, e, i)'
                 PROVE  At(c, e, i) \/ (c = p /\ e = d /\ i = n)
      OBVIOUS
    <3>1. CASE e # d
      BY <1>0, <2>3, <3>1 DEF At
    <3>2. CASE e = d /\ i # n
      <4>1. i \in DOMAIN backlog'[d] => i \in DOMAIN backlog[d] /\ backlog'[d][i] = backlog[d][i]
        BY <2>4, <3>2
      <4> QED
        BY <1>0, <3>2, <4>1 DEF At
    <3>3. CASE e = d /\ i = n
      <4>1. n \notin DOMAIN backlog[d] /\ n # 0
        BY <2>4 DEF n
      <4> QED
        BY <2>4, <3>3, <4>1 DEF At, Connection
    <3> QED
      BY <3>1, <3>2, <3>3
  <2>6. \A e \in Clients : \A i \in Nat : ~At(p, e, i)
    BY <1>1 DEF HeldInv
  <2>7. \A c \in Clients : Connected(c) => Connected(c)'
    BY <2>3 DEF Connected
  <2> HIDE DEF d, n
  <2>8. \A c, e \in Clients : \A i \in Nat :
          At(c, e, i)' => Key(c)' = Key(e)' /\ reply'[c] = NoReply /\ Connected(c)'
    <3>1. \A c \in Clients : Key(c)' = Key(c)
      BY <1>0 DEF Key
    <3> QED
      BY <1>0, <1>1, <2>1, <2>3, <2>5, <2>7, <3>1 DEF HeldInv
  <2>9. \A c, e, f \in Clients : \A i, j \in Nat : At(c, e, i)' /\ At(c, f, j)' => e = f /\ i = j
    BY <2>5, <2>6 DEF HeldInv
  <2>10. (\A k \in Forms : path[k] \in Clients => Key(path[k]) = k)'
    BY <1>0 DEF HeldInv, Key
  <2>11. \A c \in Clients : reply'[c] # NoReply => Connected(c)'
    BY <1>0, <2>7 DEF HeldInv
  <2> QED
    BY <2>8, <2>9, <2>10, <2>11 DEF HeldInv, NoReply
<1> QED
  BY <1>2, <1>3 DEF TryConnect

\* The connection that waits longest is the one accepted.
LEMMA HeldAccept ==
    ASSUME TypeOK, HeldInv, NEW d \in Clients, Accept(d)
    PROVE  HeldInv'
<1>0. UNCHANGED <<ask, reply, path, cpc>>
  BY DEF Accept, clientVars
<1>1. /\ backlog[d] \in Seq(ConnectionType) /\ backlog[d] # <<>>
      /\ backlog \in [Clients -> Seq(ConnectionType)] /\ cur \in [Clients -> Clients \union {Nobody}]
      /\ cur[d] \notin Clients
  BY DEF TypeOK, Accept
<1>2. /\ backlog'[d] = Tail(backlog[d])
      /\ \A e \in Clients \ {d} : backlog'[e] = backlog[e] /\ cur'[e] = cur[e]
      /\ IF Head(backlog[d]).probe THEN cur'[d] = cur[d] ELSE cur'[d] = Head(backlog[d]).by
  BY <1>1 DEF Accept
<1>3. /\ Len(backlog[d]) \in Nat /\ Len(backlog[d]) > 0
      /\ DOMAIN backlog[d] = 1..Len(backlog[d]) /\ DOMAIN backlog'[d] = 1..Len(backlog[d]) - 1
      /\ \A i \in 1..Len(backlog[d]) - 1 : backlog'[d][i] = backlog[d][i + 1]
      /\ Head(backlog[d]) = backlog[d][1]
  BY <1>1, <1>2
<1>4. \A c \in Clients : \A i \in Nat : At(c, d, i)' => At(c, d, i + 1)
  <2> SUFFICES ASSUME NEW c \in Clients, NEW i \in Nat, At(c, d, i)'
               PROVE  At(c, d, i + 1)
    OBVIOUS
  <2>1. CASE i = 0 /\ cur'[d] = c
    <3>1. ~backlog[d][1].probe /\ backlog[d][1].by = c /\ 1 \in DOMAIN backlog[d]
      BY <1>1, <1>2, <1>3, <2>1
    <3> QED
      BY <2>1, <3>1 DEF At
  <2>2. CASE i \in DOMAIN backlog'[d] /\ ~backlog'[d][i].probe /\ backlog'[d][i].by = c
    <3>1. i + 1 \in DOMAIN backlog[d] /\ backlog'[d][i] = backlog[d][i + 1]
      BY <1>3, <2>2
    <3> QED
      BY <2>2, <3>1 DEF At
  <2> QED
    BY <2>1, <2>2 DEF At
<1>5. \A c \in Clients, e \in Clients \ {d} : \A i \in Nat : At(c, e, i)' => At(c, e, i)
  BY <1>2 DEF At
<1>6. \A c, e \in Clients : \A i \in Nat :
        At(c, e, i)' => Key(c)' = Key(e)' /\ reply'[c] = NoReply /\ Connected(c)'
  <2>1. \A c \in Clients : Key(c)' = Key(c) /\ (Connected(c)' <=> Connected(c))
    BY <1>0 DEF Key, Connected
  <2> SUFFICES ASSUME NEW c \in Clients, NEW e \in Clients, NEW i \in Nat, At(c, e, i)'
               PROVE  Key(c) = Key(e) /\ reply[c] = NoReply /\ Connected(c)
    BY <1>0, <2>1
  <2>2. \E j \in Nat : At(c, e, j)
    BY <1>4, <1>5
  <2> QED
    BY <2>2 DEF HeldInv
<1>7. \A c, e, f \in Clients : \A i, j \in Nat : At(c, e, i)' /\ At(c, f, j)' => e = f /\ i = j
  <2> SUFFICES ASSUME NEW c \in Clients, NEW e \in Clients, NEW f \in Clients, NEW i \in Nat,
                      NEW j \in Nat, At(c, e, i)', At(c, f, j)'
               PROVE  e = f /\ i = j
    OBVIOUS
  <2>1. PICK k \in Nat : At(c, e, k) /\ k = IF e = d THEN i + 1 ELSE i
    BY <1>4, <1>5
  <2>2. PICK l \in Nat : At(c, f, l) /\ l = IF f = d THEN j + 1 ELSE j
    BY <1>4, <1>5
  <2>3. e = f /\ k = l
    BY <2>1, <2>2 DEF HeldInv
  <2> QED
    BY <2>1, <2>2, <2>3
<1>8. (\A k \in Forms : path[k] \in Clients => Key(path[k]) = k)'
  BY <1>0 DEF HeldInv, Key
<1>9. \A c \in Clients : reply'[c] # NoReply => Connected(c)'
  BY <1>0 DEF HeldInv, Connected
<1> QED
  BY <1>6, <1>7, <1>8, <1>9 DEF HeldInv, NoReply

\* Every other step of a daemon keeps the connections or ends some.
LEMMA HeldServe ==
    ASSUME TypeOK, HeldInv, NEW d \in Clients, Receive(d) \/ Run(d) \/ Close(d) \/ Crash(d)
    PROVE  HeldInv'
<1>0. UNCHANGED <<ask, cpc, path>>
  BY DEF Receive, Run, Close, Crash, clientVars
<1>1. /\ backlog \in [Clients -> Seq(ConnectionType)] /\ cur \in [Clients -> Clients \union {Nobody}]
      /\ reply \in [Clients -> {NoReply, Eof} \union FrameType]
  BY DEF TypeOK
<1>2. \A c \in Clients : Connected(c)' <=> Connected(c)
  BY <1>0 DEF Connected
<1>3. CASE UNCHANGED <<reply, cur, backlog>>
  <2>1. \A c, e \in Clients : \A i \in Nat : At(c, e, i)' => At(c, e, i) /\ reply'[c] = NoReply
    BY <1>3 DEF At, HeldInv
  <2> QED
    BY <1>0, <1>2, <1>3, <2>1, HeldKept DEF HeldInv
<1>4. ASSUME NEW c \in Clients, c = cur[d], cur' = [cur EXCEPT ![d] = Nobody], UNCHANGED backlog,
             \A b \in Clients \ {c} : reply'[b] = reply[b]
      PROVE  HeldInv'
  <2>1. At(c, d, 0)
    BY <1>4 DEF At
  <2>2. \A b, e \in Clients : \A i \in Nat : At(b, e, i)' => At(b, e, i) /\ ~(e = d /\ i = 0)
    <3> SUFFICES ASSUME NEW b \in Clients, NEW e \in Clients, NEW i \in Nat, At(b, e, i)'
                 PROVE  At(b, e, i) /\ ~(e = d /\ i = 0)
      OBVIOUS
    <3>1. CASE i = 0 /\ cur'[e] = b
      BY <1>1, <1>4, <3>1, NamesAssumption DEF At
    <3>2. CASE i \in DOMAIN backlog'[e] /\ ~backlog'[e][i].probe /\ backlog'[e][i].by = b
      <4>1. backlog[e] \in Seq(ConnectionType)
        BY <1>1
      <4>2. i # 0
        BY <1>4, <3>2, <4>1
      <4> QED
        BY <1>4, <3>2, <4>2 DEF At
    <3> QED
      BY <3>1, <3>2 DEF At
  <2>3. \A e \in Clients : \A i \in Nat : ~At(c, e, i)'
    BY <2>1, <2>2 DEF HeldInv
  <2>4. \A b, e \in Clients : \A i \in Nat : At(b, e, i)' => At(b, e, i) /\ reply'[b] = NoReply
    BY <1>4, <2>2, <2>3 DEF HeldInv
  <2>5. \A b \in Clients : reply'[b] # NoReply => Connected(b)
    BY <1>4, <2>1 DEF HeldInv
  <2> QED
    BY <1>0, <1>2, <2>4, <2>5, HeldKept DEF HeldInv
<1>5. ASSUME Receive(d) \/ Run(d)
      PROVE  HeldInv'
  <2>1. cur[d] \in Clients
    BY <1>5 DEF Receive, Run, TypeOK
  <2>2. UNCHANGED backlog
    BY <1>5 DEF Receive, Run
  <2>3. \/ UNCHANGED <<reply, cur>>
        \/ /\ cur' = [cur EXCEPT ![d] = Nobody]
           /\ reply' = CloseOn({cur[d]}) \/ \E f : reply' = [reply EXCEPT ![cur[d]] = f]
    BY <1>5 DEF Receive, Run, Done
  <2>4. UNCHANGED reply \/ \A b \in Clients \ {cur[d]} : reply'[b] = reply[b]
    BY <1>1, <2>1, <2>3, Closed
  <2> QED
    BY <1>3, <1>4, <2>1, <2>2, <2>3, <2>4
<1>6. ASSUME Close(d) \/ Crash(d)
      PROVE  HeldInv'
  <2>1. /\ reply' = CloseOn(Held(d)) /\ backlog' = [backlog EXCEPT ![d] = <<>>]
        /\ cur' = [cur EXCEPT ![d] = Nobody]
    BY <1>6 DEF Close, Crash, End
  <2>2. \A c \in Clients : c \in Held(d) <=> \E i \in Nat : At(c, d, i)
    <3> SUFFICES ASSUME NEW c \in Clients
                 PROVE  c \in Held(d) <=> \E i \in Nat : At(c, d, i)
      OBVIOUS
    <3>1. backlog[d] \in Seq(ConnectionType) /\ DOMAIN backlog[d] \subseteq Nat
      BY <1>1
    <3>2. c # Nobody
      BY NamesAssumption
    <3> QED
      BY <3>1, <3>2 DEF Held, At
  <2>3. \A b, e \in Clients : \A i \in Nat : At(b, e, i)' => At(b, e, i) /\ e # d
    <3> SUFFICES ASSUME NEW b \in Clients, NEW e \in Clients, NEW i \in Nat, At(b, e, i)'
                 PROVE  At(b, e, i) /\ e # d
      OBVIOUS
    <3>1. /\ backlog'[d] = <<>> /\ cur'[d] = Nobody /\ b # Nobody
          /\ \A f \in Clients \ {d} : backlog'[f] = backlog[f] /\ cur'[f] = cur[f]
      BY <1>1, <2>1, NamesAssumption
    <3>2. DOMAIN backlog'[d] = {}
      BY <3>1
    <3> QED
      BY <3>1, <3>2 DEF At
  <2>4. \A b, e \in Clients : \A i \in Nat : At(b, e, i)' => b \notin Held(d)
    BY <2>2, <2>3 DEF HeldInv
  <2>5. \A b, e \in Clients : \A i \in Nat : At(b, e, i)' => At(b, e, i) /\ reply'[b] = NoReply
    BY <2>1, <2>3, <2>4, Closed DEF HeldInv
  <2>6. \A b \in Clients : reply'[b] # NoReply => Connected(b)
    <3> SUFFICES ASSUME NEW b \in Clients, reply'[b] # NoReply
                 PROVE  Connected(b)
      OBVIOUS
    <3>1. b \in Held(d) \/ reply[b] # NoReply
      BY <2>1, Closed
    <3> QED
      BY <2>2, <3>1 DEF HeldInv
  <2> QED
    BY <1>0, <1>2, <2>5, <2>6, HeldKept DEF HeldInv
<1> QED
  BY <1>5, <1>6

\* Every step keeps what is held.
LEMMA HeldStep ==
    ASSUME TypeOK, HeldInv, [Next]_vars
    PROVE  HeldInv'
<1>1. CASE UNCHANGED <<ask, reply, path, cur, backlog>>
           /\ \A c \in Clients : Connected(c) => Connected(c)'
  <2>1. \A c, d \in Clients : \A i \in Nat : At(c, d, i)' <=> At(c, d, i)
    BY <1>1 DEF At
  <2>2. \A c, d \in Clients : \A i \in Nat : At(c, d, i)' => At(c, d, i) /\ reply'[c] = NoReply
    BY <1>1, <2>1 DEF HeldInv
  <2> QED
    BY <1>1, <2>2, HeldKept DEF HeldInv
<1>2. CASE UNCHANGED vars
  BY <1>1, <1>2 DEF vars, clientVars, Connected
<1>3. ASSUME NEW p \in Clients, \/ Spawn(p) \/ TryWait(p) \/ Write(p) \/ Read(p)
                                \/ Stall(p) \/ Resume(p) \/ Kill(p) \/ Tick(p)
      PROVE  HeldInv'
  <2>1. UNCHANGED <<ask, reply, path, cur, backlog>>
    BY <1>3 DEF Spawn, TryWait, Write, Read, Stall, Resume, Kill, Tick
  <2>2. \A c \in Clients : Connected(c) => Connected(c)'
    <3>1. CASE UNCHANGED cpc
      BY <3>1 DEF Connected
    <3>2. CASE /\ cpc[p] \in {"spawn", "waiting"}
               /\ \E s \in {"polling", "lastTry"} : cpc' = [cpc EXCEPT ![p] = s]
      BY <3>2 DEF Connected, TypeOK
    <3>3. CASE \E s \in {"reading", "answered", "broken"} : cpc' = [cpc EXCEPT ![p] = s]
      BY <3>3 DEF Connected, TypeOK
    <3>4. \/ UNCHANGED cpc
          \/ /\ cpc[p] \in {"spawn", "waiting"}
             /\ \E s \in {"polling", "lastTry"} : cpc' = [cpc EXCEPT ![p] = s]
          \/ \E s \in {"reading", "answered", "broken"} : cpc' = [cpc EXCEPT ![p] = s]
      BY <1>3 DEF Spawn, TryWait, Write, Read, Stall, Resume, Kill, Tick, clientVars
    <3> QED
      BY <3>1, <3>2, <3>3, <3>4
  <2> QED
    BY <1>1, <2>1, <2>2
<1>4. ASSUME NEW p \in Clients, Connect(p) \/ PollConnect(p) \/ LastConnect(p)
      PROVE  HeldInv'
  BY <1>4, HeldConnect DEF Connect, PollConnect, LastConnect
<1>5. ASSUME NEW d \in Clients, \/ Materialize(d) \/ Bind(d) \/ Listen(d) \/ Unlink(d) \/ Rebind(d)
                                \/ Expire(d) \/ Remove(d)
      PROVE  HeldInv'
  <2>1. UNCHANGED <<ask, cpc, reply, cur, backlog>>
    BY <1>5 DEF Materialize, Bind, Listen, Unlink, Rebind, Expire, Remove, StartUnchanged, clientVars
  <2>2. \E v \in {d, NoFile} : path' = path \/ path' = [path EXCEPT ![Key(d)] = v]
    BY <1>5 DEF Materialize, Bind, Listen, Unlink, Rebind, Expire, Remove
  <2>3. \A k \in Forms : path'[k] \in Clients => path'[k] = path[k] \/ Key(path'[k]) = k
    BY <2>2, NamesAssumption, KeyInForms DEF TypeOK
  <2>4. \A c, e \in Clients : \A i \in Nat : At(c, e, i)' <=> At(c, e, i)
    BY <2>1 DEF At
  <2>5. \A c, e \in Clients : \A i \in Nat : At(c, e, i)' => At(c, e, i) /\ reply'[c] = NoReply
    BY <2>1, <2>4 DEF HeldInv
  <2>6. \A c \in Clients : Connected(c) => Connected(c)'
    BY <2>1 DEF Connected
  <2>7. \A c \in Clients : reply'[c] # NoReply => Connected(c)
    BY <2>1 DEF HeldInv
  <2> QED
    BY <2>1, <2>3, <2>5, <2>6, <2>7, HeldKept
<1>6. ASSUME NEW d \in Clients, Probe(d)
      PROVE  HeldInv'
  <2>1. UNCHANGED <<ask, cpc, reply, cur, path>>
    BY <1>6 DEF Probe, StartUnchanged, clientVars
  <2>2. CASE UNCHANGED backlog
    BY <1>1, <2>1, <2>2 DEF Connected
  <2>3. CASE Live(Key(d)) /\ backlog' = [backlog EXCEPT ![path[Key(d)]] = Append(@, Connection(d, TRUE))]
    <3> DEFINE s == path[Key(d)]
    <3>1. s \in Clients /\ backlog \in [Clients -> Seq(ConnectionType)]
      BY <2>3 DEF Live, TypeOK
    <3>2. /\ backlog'[s] = Append(backlog[s], Connection(d, TRUE))
          /\ \A e \in Clients \ {s} : backlog'[e] = backlog[e]
      BY <2>3, <3>1
    <3> HIDE DEF s
    <3>3. backlog[s] \in Seq(ConnectionType) /\ Connection(d, TRUE) \in ConnectionType
      BY <3>1, ConnectionInType
    <3>4. /\ DOMAIN backlog[s] = 1..(Len(backlog[s]) + 1) - 1
          /\ DOMAIN Append(backlog[s], Connection(d, TRUE)) = 1..Len(backlog[s]) + 1
          /\ \A i \in 1..(Len(backlog[s]) + 1) - 1 :
               Append(backlog[s], Connection(d, TRUE))[i] = backlog[s][i]
          /\ Append(backlog[s], Connection(d, TRUE))[Len(backlog[s]) + 1] = Connection(d, TRUE)
          /\ Len(backlog[s]) + 1 \in Nat
      BY <3>3, Appended
    <3>5. \A i \in DOMAIN backlog'[s] :
            \/ i \in DOMAIN backlog[s] /\ backlog'[s][i] = backlog[s][i]
            \/ backlog'[s][i].probe
      <4>1. Connection(d, TRUE).probe
        BY DEF Connection
      <4>2. \A i \in 1..Len(backlog[s]) + 1 : i \in 1..(Len(backlog[s]) + 1) - 1 \/ i = Len(backlog[s]) + 1
        BY <3>4
      <4> QED
        BY <3>2, <3>4, <4>1, <4>2
    <3>6. \A c, e \in Clients : \A i \in Nat : At(c, e, i)' => At(c, e, i)
      BY <2>1, <3>2, <3>5 DEF At
    <3>7. \A c, e \in Clients : \A i \in Nat : At(c, e, i)' => At(c, e, i) /\ reply'[c] = NoReply
      BY <2>1, <3>6 DEF HeldInv
    <3>8. \A c \in Clients : Connected(c) => Connected(c)'
      BY <2>1 DEF Connected
    <3>9. \A c \in Clients : reply'[c] # NoReply => Connected(c)
      BY <2>1 DEF HeldInv
    <3> QED
      BY <2>1, <3>7, <3>8, <3>9, HeldKept
  <2> QED
    BY <1>6, <2>2, <2>3 DEF Probe
<1>7. ASSUME NEW p \in Clients, ClientStep(p)
      PROVE  HeldInv'
  BY <1>3, <1>4, <1>7 DEF ClientStep
<1>8. ASSUME NEW d \in Clients, DaemonStep(d) \/ Crash(d)
      PROVE  HeldInv'
  BY <1>5, <1>6, <1>8, HeldAccept, HeldServe DEF DaemonStep
<1> QED
  BY <1>2, <1>3, <1>7, <1>8 DEF Next

\* A client has one connection, to a daemon of its session, open until the reply.
LEMMA HeldInit == Init => HeldInv
<1> SUFFICES ASSUME Init PROVE HeldInv
  OBVIOUS
<1>1. \A c, d \in Clients : \A i \in Nat : ~At(c, d, i)
  BY NamesAssumption DEF Init, At
<1> QED
  BY <1>1, NamesAssumption DEF Init, HeldInv

-----------------------------------------------------------------------------
\* Between two runs a daemon has no notes of the tool's, and of the readings' only
\* those of runs that ended in an error; its settings are those of clients it replied to.
MemoryInv ==
    /\ \A d \in Clients :
         /\ notes[d].tool = {}
         /\ \A e \in notes[d].reading : ask[e].fate = "refuses" /\ ask[e].notes
         /\ \A e \in settings[d] : ask[e].sets /\ reply[e] # NoReply
         /\ dpc[d] = "running" => ask[cur[d]].fate # "rejected"
    /\ AnswersAreOwn

\* A step that raises no notes, and ends connections without a frame.
LEMMA MemoryKept ==
    ASSUME TypeOK, MemoryInv, UNCHANGED <<ask, notes, settings>>,
           \A d \in Clients : dpc'[d] = "running" => dpc[d] = "running" /\ cur'[d] = cur[d],
           \A c \in Clients : reply'[c] = reply[c] \/ reply'[c] = Eof
    PROVE  MemoryInv'
<1>1. \A c \in Clients : reply[c] # NoReply => reply'[c] # NoReply
  BY DEF NoReply, Eof
<1>2. \A d \in Clients : settings[d] \subseteq Clients
  BY DEF TypeOK
<1>3. AnswersAreOwn'
  <2>1. \A c \in Clients : reply'[c].kind = "frame" => reply'[c] = reply[c]
    BY DEF Eof
  <2> QED
    BY <2>1 DEF MemoryInv, AnswersAreOwn
<1>4. ASSUME NEW d \in Clients
      PROVE  /\ notes'[d].tool = {}
             /\ \A e \in notes'[d].reading : ask'[e].fate = "refuses" /\ ask'[e].notes
             /\ \A e \in settings'[d] : ask'[e].sets /\ reply'[e] # NoReply
             /\ dpc'[d] = "running" => ask'[cur'[d]].fate # "rejected"
  BY <1>1, <1>2 DEF MemoryInv
<1> QED
  BY <1>3, <1>4 DEF MemoryInv, NoReply

\* The reply that a daemon sends: in the form of its session, with what the run left.
LEMMA MemoryServe ==
    ASSUME TypeOK, HeldInv, MemoryInv, NEW d \in Clients, Receive(d) \/ Run(d)
    PROVE  MemoryInv'
<1> DEFINE c == cur[d]
<1>0. UNCHANGED ask
  BY DEF Receive, Run
<1>1. /\ c \in Clients /\ At(c, d, 0)
      /\ dpc \in [Clients -> DaemonStates] /\ cur \in [Clients -> Clients \union {Nobody}]
      /\ reply \in [Clients -> {NoReply, Eof} \union FrameType]
      /\ notes \in [Clients -> [tool : SUBSET Clients, reading : SUBSET Clients]]
      /\ settings \in [Clients -> SUBSET Clients]
      /\ ask[c] \in RequestType
  BY RequestsAssumption DEF Receive, Run, TypeOK, At
<1>2. Key(c) = Key(d) /\ reply[c] = NoReply /\ c \notin settings[d]
  BY <1>1 DEF HeldInv, MemoryInv
<1> HIDE DEF c
<1>3. CASE reply' = CloseOn({c}) /\ UNCHANGED <<notes, settings>> /\ Done(d)
  <2>1. \A e \in Clients : dpc'[e] = "running" => dpc[e] = "running" /\ cur'[e] = cur[e]
    BY <1>1, <1>3 DEF Done
  <2>2. \A b \in Clients : reply'[b] = reply[b] \/ reply'[b] = Eof
    BY <1>3, Closed
  <2> QED
    BY <1>0, <1>3, <2>1, <2>2, MemoryKept
<1>4. CASE /\ dpc' = [dpc EXCEPT ![d] = "running"] /\ ask[c].fate # "rejected"
           /\ UNCHANGED <<reply, cur, notes, settings>>
  <2>1. \A e \in Clients : dpc'[e] = "running" => dpc[e] = "running" \/ e = d
    BY <1>1, <1>4
  <2>2. \A e \in Clients : dpc'[e] = "running" => ask'[cur'[e]].fate # "rejected"
    BY <1>0, <1>4, <2>1 DEF MemoryInv, c
  <2> QED
    BY <1>0, <1>4, <2>2 DEF MemoryInv, AnswersAreOwn, NoReply
<1>5. \A e \in Clients : reply[e] # NoReply => e # c
  BY <1>2
<1>6. ASSUME NEW tool \in SUBSET {c}, NEW reading \in SUBSET Clients, NEW status \in {0, 1},
             \A e \in reading : e # c => ask[e].fate = "refuses" /\ ask[e].notes,
             reply' = [reply EXCEPT ![c] = Frame(d, status, tool, reading)]
      PROVE  AnswersAreOwn'
  <2>1. reply'[c] = Frame(d, status, tool, reading) /\ \A e \in Clients \ {c} : reply'[e] = reply[e]
    BY <1>1, <1>6
  <2>2. /\ reply'[c].form = ask[c].form /\ reply'[c].tool = tool
        /\ reply'[c].reading = reading /\ reply'[c].settings = settings[d]
    BY <1>2, <2>1 DEF Frame, Key
  <2>3. \A e \in settings[d] : e # c /\ ask[e].sets
    BY <1>2 DEF MemoryInv
  <2>4. /\ reply'[c].form = ask'[c].form /\ reply'[c].tool \subseteq {c}
        /\ \A e \in reply'[c].reading : e # c => ask'[e].fate = "refuses" /\ ask'[e].notes
        /\ \A e \in reply'[c].settings : e # c /\ ask'[e].sets
    BY <1>0, <1>6, <2>2, <2>3
  <2> QED
    BY <1>0, <2>1, <2>4 DEF MemoryInv, AnswersAreOwn
<1>7. CASE reply' = [reply EXCEPT ![c] = Frame(d, 1, {}, {})] /\ UNCHANGED <<notes, settings>> /\ Done(d)
  <2>1. AnswersAreOwn'
    <3>1. {} \in SUBSET {c} /\ {} \in SUBSET Clients /\ 1 \in {0, 1}
      OBVIOUS
    <3> QED
      BY <1>6, <1>7, <3>1
  <2>2. \A e \in Clients : dpc'[e] = "running" => dpc[e] = "running" /\ cur'[e] = cur[e]
    BY <1>1, <1>7 DEF Done
  <2>3. \A e \in Clients : reply[e] # NoReply => reply'[e] # NoReply
    BY <1>1, <1>5, <1>7
  <2> QED
    BY <1>0, <1>1, <1>7, <2>1, <2>2, <2>3 DEF MemoryInv, NoReply
<1>8. CASE Run(d)
  <2>1. /\ notes[d].tool = {} /\ notes[d].reading \subseteq Clients
        /\ \A e \in notes[d].reading : ask[e].fate = "refuses" /\ ask[e].notes
        /\ ask[c].fate # "rejected"
    BY <1>1, <1>8 DEF MemoryInv, Run, c
  <2>2. /\ Raised(d).tool = {c}
        /\ Raised(d).reading = notes[d].reading \union (IF ask[c].notes THEN {c} ELSE {})
        /\ Taken(d).tool = {c}
        /\ Taken(d).reading = IF ask[c].fate = "answers" THEN Raised(d).reading ELSE {}
    BY <2>1 DEF Raised, Taken, c
  <2>3. /\ notes'[d].tool = {} /\ \A e \in Clients \ {d} : notes'[e] = notes[e]
        /\ notes'[d].reading = Raised(d).reading \ Taken(d).reading
    <3>1. notes' = [notes EXCEPT ![d] = [tool |-> Raised(d).tool \ Taken(d).tool,
                                         reading |-> Raised(d).reading \ Taken(d).reading]]
      BY <1>8 DEF Run
    <3> QED
      BY <1>1, <2>2, <3>1
  <2>4. \A e \in notes'[d].reading : ask[e].fate = "refuses" /\ ask[e].notes
    <3>1. ask[c].fate \in {"answers", "refuses", "rejected"}
      BY <1>1 DEF RequestType
    <3> QED
      BY <2>1, <2>2, <2>3, <3>1
  <2>5. /\ \A e \in Clients \ {d} : settings'[e] = settings[e]
        /\ \A e \in settings'[d] : e \in settings[d] \/ (e = c /\ ask[c].sets)
    <3>1. settings' = [settings EXCEPT ![d] = IF ask[c].sets THEN @ \union {c} ELSE @]
      BY <1>8 DEF Run, c
    <3> QED
      BY <1>1, <3>1
  <2>6. \/ /\ reply' = CloseOn({c})
        \/ \E status \in {0, 1} : reply' = [reply EXCEPT ![c] = Frame(d, status, Taken(d).tool, Taken(d).reading)]
    BY <1>8 DEF Run, c
  <2>7. AnswersAreOwn'
    <3>1. CASE reply' = CloseOn({c})
      <4>1. \A b \in Clients : reply'[b].kind = "frame" => reply'[b] = reply[b]
        BY <3>1, Closed DEF Eof
      <4> QED
        BY <1>0, <4>1 DEF MemoryInv, AnswersAreOwn
    <3>2. CASE \E status \in {0, 1} : reply' = [reply EXCEPT ![c] = Frame(d, status, Taken(d).tool, Taken(d).reading)]
      <4>1. Taken(d).reading \subseteq Clients
        BY <1>1, <2>1, <2>2
      <4>2. \A e \in Taken(d).reading : e # c => ask[e].fate = "refuses" /\ ask[e].notes
        BY <2>1, <2>2
      <4>3. PICK status \in {0, 1} :
              reply' = [reply EXCEPT ![c] = Frame(d, status, {c}, Taken(d).reading)]
        BY <2>2, <3>2
      <4>4. {c} \in SUBSET {c} /\ Taken(d).reading \in SUBSET Clients
        BY <4>1
      <4> HIDE DEF Taken
      <4> QED
        BY <1>6, <4>2, <4>3, <4>4
    <3> QED
      BY <2>6, <3>1, <3>2
  <2>8. \A e \in Clients : reply[e] # NoReply \/ e = c => reply'[e] # NoReply
    <3>1. CASE reply' = CloseOn({c})
      BY <1>2, <3>1, Closed DEF NoReply, Eof
    <3>2. CASE \E status \in {0, 1} : reply' = [reply EXCEPT ![c] = Frame(d, status, Taken(d).tool, Taken(d).reading)]
      BY <1>1, <3>2 DEF Frame, NoReply
    <3> QED
      BY <2>6, <3>1, <3>2
  <2>9. \A e \in Clients : dpc'[e] = "running" => dpc[e] = "running" /\ cur'[e] = cur[e]
    BY <1>1, <1>8 DEF Run, Done
  <2>10. ASSUME NEW e \in Clients
         PROVE  /\ notes'[e].tool = {}
                /\ \A b \in notes'[e].reading : ask'[b].fate = "refuses" /\ ask'[b].notes
                /\ \A b \in settings'[e] : ask'[b].sets /\ reply'[b] # NoReply
                /\ dpc'[e] = "running" => ask'[cur'[e]].fate # "rejected"
    <3>1. notes'[e].tool = {} /\ \A b \in notes'[e].reading : ask'[b].fate = "refuses" /\ ask'[b].notes
      BY <1>0, <2>3, <2>4 DEF MemoryInv
    <3>2. \A b \in settings'[e] : ask'[b].sets /\ reply'[b] # NoReply
      BY <1>0, <1>1, <2>5, <2>8 DEF MemoryInv
    <3>3. dpc'[e] = "running" => ask'[cur'[e]].fate # "rejected"
      BY <1>0, <2>9 DEF MemoryInv
    <3> QED
      BY <3>1, <3>2, <3>3
  <2> QED
    BY <2>7, <2>10 DEF MemoryInv, NoReply
<1> QED
  BY <1>3, <1>4, <1>7, <1>8 DEF Receive, memVars, c

\* Every step keeps the memory of a session.
LEMMA MemoryStep ==
    ASSUME TypeOK, HeldInv, MemoryInv, [Next]_vars
    PROVE  MemoryInv'
<1>0. dpc \in [Clients -> DaemonStates] /\ cur \in [Clients -> Clients \union {Nobody}]
  BY DEF TypeOK
<1>1. CASE UNCHANGED vars
  BY <1>1, MemoryKept DEF vars, memVars, clientVars
<1>2. ASSUME NEW p \in Clients,
             \/ ClientStep(p) \/ Stall(p) \/ Resume(p) \/ Kill(p) \/ Tick(p)
      PROVE  MemoryInv'
  <2>1. UNCHANGED <<ask, notes, settings, reply, cur>>
    BY <1>2 DEF ClientStep, Connect, Spawn, PollConnect, LastConnect, TryConnect, TryWait,
                Write, Read, Stall, Resume, Kill, Tick, memVars
  <2>2. UNCHANGED dpc \/ dpc' = [dpc EXCEPT ![p] = "materializing"]
    BY <1>2 DEF ClientStep, Connect, Spawn, PollConnect, LastConnect, TryConnect, TryWait,
                Write, Read, Stall, Resume, Kill, Tick
  <2>3. \A d \in Clients : dpc'[d] = "running" => dpc[d] = "running" /\ cur'[d] = cur[d]
    BY <1>0, <2>1, <2>2
  <2> QED
    BY <2>1, <2>3, MemoryKept
<1>3. ASSUME NEW d \in Clients, \/ Materialize(d) \/ Bind(d) \/ Listen(d) \/ Probe(d) \/ Unlink(d)
                                \/ Rebind(d) \/ Expire(d) \/ Remove(d)
      PROVE  MemoryInv'
  <2>1. UNCHANGED <<ask, notes, settings, reply, cur>>
    BY <1>3 DEF Materialize, Bind, Listen, Probe, Unlink, Rebind, Expire, Remove, StartUnchanged, memVars
  <2>2. \E s \in Starting \union {"binding", "gone", "serving", "removing", "closing"} :
          dpc' = [dpc EXCEPT ![d] = s]
    BY <1>3 DEF Materialize, Bind, Listen, Probe, Unlink, Rebind, Expire, Remove
  <2>3. \A e \in Clients : dpc'[e] = "running" => dpc[e] = "running" /\ cur'[e] = cur[e]
    BY <1>0, <2>1, <2>2
  <2> QED
    BY <2>1, <2>3, MemoryKept
<1>4. ASSUME NEW d \in Clients, Close(d) \/ Crash(d)
      PROVE  MemoryInv'
  <2>1. UNCHANGED <<ask, notes, settings>>
    BY <1>4 DEF Close, Crash, memVars
  <2>2. /\ dpc' = [dpc EXCEPT ![d] = "gone"] /\ cur' = [cur EXCEPT ![d] = Nobody]
        /\ reply' = CloseOn(Held(d))
    BY <1>4 DEF Close, Crash, End
  <2>3. \A e \in Clients : dpc'[e] = "running" => dpc[e] = "running" /\ cur'[e] = cur[e]
    BY <1>0, <2>2
  <2>4. \A b \in Clients : reply'[b] = reply[b] \/ reply'[b] = Eof
    BY <2>2, Closed
  <2> QED
    BY <2>1, <2>3, <2>4, MemoryKept
<1>5. ASSUME NEW d \in Clients, Accept(d)
      PROVE  MemoryInv'
  <2>1. UNCHANGED <<ask, notes, settings, reply>>
    BY <1>5 DEF Accept, memVars
  <2>2. /\ dpc[d] = "serving" /\ (UNCHANGED dpc \/ dpc' = [dpc EXCEPT ![d] = "reading"])
        /\ \A e \in Clients \ {d} : cur'[e] = cur[e]
    BY <1>0, <1>5 DEF Accept
  <2>3. \A e \in Clients : dpc'[e] = "running" => dpc[e] = "running" /\ cur'[e] = cur[e]
    BY <1>0, <2>2
  <2> QED
    BY <2>1, <2>3, MemoryKept
<1> QED
  BY <1>1, <1>2, <1>3, <1>4, <1>5, MemoryServe DEF Next, DaemonStep

\* A resident client gets an answer in its own form, with its own run's notes of the
\* tool and no other's: run_wrapped and flush_notes leave none behind, whoever came
\* before and however that run ended.
THEOREM AnswersOwn == Spec => []AnswersAreOwn
<1>1. Init => MemoryInv
  BY DEF Init, MemoryInv, AnswersAreOwn, NoReply
<1>2. TypeOK /\ HeldInv /\ MemoryInv /\ [Next]_vars => HeldInv' /\ MemoryInv'
  BY HeldStep, MemoryStep
<1>3. MemoryInv => AnswersAreOwn
  BY DEF MemoryInv
<1> QED
  BY <1>1, <1>2, <1>3, HeldInit, TypeCorrect, PTL DEF Spec

-----------------------------------------------------------------------------
\* What turns clients of session k away: a crash, a race, a daemon that expires or failed.
Trouble(k) == \/ crashes > 0 \/ k \in overlap
              \/ \E d \in Clients : dpc[d] = "closing" \/ exit[d] \in {"expired", "failed"}
ForCause(c) == Trouble(Key(c)) \/ c \in gone \/ ask[c].fate = "rejected"

\* A daemon that defers leaves the name to one that listens, for as long as there is no
\* trouble; a connection that ends without a frame has a cause; a frame comes to a
\* client that has sent its request.
TurnInv ==
    /\ \A d \in Clients : exit[d] # "running" <=> dpc[d] = "gone"
    /\ \A d \in Clients : exit[d] = "deferred" => Live(Key(d)) \/ Trouble(Key(d))
    /\ \A d \in Clients : dpc[d] = "running" => cpc[cur[d]] = "reading"
    /\ \A c \in Clients : cpc[c] = "lastTry" => dpc[c] = "gone"
    /\ \A c \in Clients : reply[c].kind = "eof" => ForCause(c)
    /\ \A c \in Clients : reply[c].kind = "frame" => cpc[c] # "writing"
    /\ stalled \union killed \subseteq gone
    /\ TurnedAwayForCause

\* Trouble stays.
LEMMA TroubleStays ==
    ASSUME TypeOK, NEW k, Trouble(k), crashes' \in {crashes, crashes + 1}, overlap \subseteq overlap',
           \A d \in Clients : dpc[d] = "closing" \/ exit[d] \in {"expired", "failed"} =>
             dpc'[d] = "closing" \/ exit'[d] \in {"expired", "failed"}
    PROVE  Trouble(k)'
<1>1. crashes \in Nat
  BY DEF TypeOK
<1> QED
  BY <1>1 DEF Trouble

\* What a step does to the daemons: at most one moves, and it ends only once.
Ends(d, how) == /\ dpc' = [dpc EXCEPT ![d] = "gone"] /\ exit' = [exit EXCEPT ![d] = how]
                /\ how = "deferred" => dpc[d] # "closing" /\ Live(Key(d)) /\ UNCHANGED path
Moves(d, s) == dpc' = [dpc EXCEPT ![d] = s] /\ UNCHANGED exit /\ dpc[d] # "closing"

\* Of the daemons a step moves one, in one of its states.
LEMMA DaemonMoves ==
    ASSUME TypeOK, [Next]_vars
    PROVE  \/ UNCHANGED <<dpc, exit>>
           \/ \E d \in Clients :
                /\ dpc[d] # "gone"
                /\ \/ \E s \in DaemonStates \ {"gone"} : Moves(d, s)
                   \/ \E how \in {"deferred", "expired", "failed"} : Ends(d, how)
<1>1. CASE UNCHANGED vars
  BY <1>1 DEF vars
<1>2. ASSUME NEW p \in Clients, \/ Connect(p) \/ PollConnect(p) \/ LastConnect(p) \/ TryWait(p)
                                \/ Write(p) \/ Read(p) \/ Stall(p) \/ Resume(p) \/ Kill(p) \/ Tick(p)
      PROVE  UNCHANGED <<dpc, exit>>
  BY <1>2 DEF Connect, PollConnect, LastConnect, TryConnect, TryWait, Write, Read, Stall, Resume,
              Kill, Tick
<1>3. ASSUME NEW p \in Clients, Spawn(p)
      PROVE  dpc[p] # "gone" /\ "materializing" \in DaemonStates \ {"gone"} /\ Moves(p, "materializing")
  BY <1>3 DEF Spawn, TypeOK, DaemonStates, Moves
<1>4. ASSUME NEW d \in Clients, Crash(d)
      PROVE  dpc[d] # "gone" /\ Ends(d, "failed")
  BY <1>4 DEF Crash, End, Ends
<1>5. ASSUME NEW d \in Clients, DaemonStep(d)
      PROVE  \/ UNCHANGED <<dpc, exit>>
             \/ /\ dpc[d] # "gone"
                /\ \/ \E s \in DaemonStates \ {"gone"} : Moves(d, s)
                   \/ \E how \in {"deferred", "expired", "failed"} : Ends(d, how)
  <2>1. CASE Close(d)
    BY <2>1 DEF Close, End, Ends
  <2>2. CASE Probe(d)
    BY <2>2 DEF Probe, Ends, Moves, DaemonStates
  <2>3. CASE Materialize(d) \/ Rebind(d)
    BY <2>3 DEF Materialize, Rebind, Ends, Moves, DaemonStates
  <2>4. CASE Bind(d) \/ Listen(d) \/ Unlink(d) \/ Expire(d) \/ Remove(d)
    BY <2>4 DEF Bind, Listen, Unlink, Expire, Remove, Moves, DaemonStates
  <2>5. CASE Accept(d) \/ Receive(d) \/ Run(d)
    BY <2>5 DEF Accept, Receive, Run, Done, Moves, DaemonStates
  <2> QED
    BY <1>5, <2>1, <2>2, <2>3, <2>4, <2>5 DEF DaemonStep
<1> QED
  BY <1>1, <1>2, <1>3, <1>4, <1>5 DEF Next, ClientStep

\* Nothing that was a cause stops being one.
LEMMA CausesStay ==
    ASSUME TypeOK, TurnInv, [Next]_vars
    PROVE  /\ UNCHANGED ask /\ gone \subseteq gone'
           /\ \A k : Trouble(k) => Trouble(k)'
           /\ \A c \in Clients : ForCause(c) => ForCause(c)'
<1>1. UNCHANGED ask /\ gone \subseteq gone' /\ crashes' \in {crashes, crashes + 1} /\ overlap \subseteq overlap'
  <2>1. CASE UNCHANGED vars
    BY <2>1 DEF vars, clientVars
  <2>2. ASSUME NEW p \in Clients, ClientStep(p) \/ Stall(p) \/ Resume(p) \/ Kill(p) \/ Tick(p)
        PROVE  UNCHANGED <<ask, crashes, overlap>> /\ gone \subseteq gone'
    BY <2>2 DEF ClientStep, Connect, Spawn, PollConnect, LastConnect, TryConnect, TryWait,
                Write, Read, Stall, Resume, Kill, Tick, clientVars
  <2>3. ASSUME NEW d \in Clients, DaemonStep(d) \/ Crash(d)
        PROVE  UNCHANGED <<ask, gone>> /\ crashes' \in {crashes, crashes + 1} /\ overlap \subseteq overlap'
    BY <2>3 DEF DaemonStep, Materialize, Bind, Listen, Probe, Unlink, Rebind, Accept, Receive, Run,
                Expire, Remove, Close, Crash, StartUnchanged, clientVars
  <2> QED
    BY <2>1, <2>2, <2>3 DEF Next
<1>2. \A d \in Clients : dpc[d] = "closing" \/ exit[d] \in {"expired", "failed"} =>
        dpc'[d] = "closing" \/ exit'[d] \in {"expired", "failed"}
  <2>1. CASE UNCHANGED <<dpc, exit>>
    BY <2>1
  <2>2. ASSUME NEW e \in Clients, dpc[e] # "gone",
               \/ \E s \in DaemonStates \ {"gone"} : Moves(e, s)
               \/ \E how \in {"deferred", "expired", "failed"} : Ends(e, how),
               NEW d \in Clients, dpc[d] = "closing" \/ exit[d] \in {"expired", "failed"}
        PROVE  dpc'[d] = "closing" \/ exit'[d] \in {"expired", "failed"}
    <3>1. d = e => dpc[d] = "closing"
      BY <2>2 DEF TurnInv
    <3>2. CASE d # e
      BY <2>2, <3>2 DEF Moves, Ends, TypeOK
    <3>3. CASE d = e
      BY <2>2, <3>1, <3>3 DEF Moves, Ends, TypeOK
    <3> QED
      BY <3>2, <3>3
  <2> QED
    BY <2>1, <2>2, DaemonMoves
<1>3. \A k : Trouble(k) => Trouble(k)'
  BY <1>1, <1>2, TroubleStays
<1>4. \A c \in Clients : ForCause(c) => ForCause(c)'
  BY <1>1, <1>3 DEF ForCause, Key
<1> QED
  BY <1>1, <1>3, <1>4

\* A daemon that has ended says how, and did not defer to nobody.
LEMMA DeferStep ==
    ASSUME TypeOK, NameInv, HeldInv, TurnInv, [Next]_vars
    PROVE  /\ \A d \in Clients : exit'[d] # "running" <=> dpc'[d] = "gone"
           /\ \A d \in Clients : exit'[d] = "deferred" => Live(Key(d))' \/ Trouble(Key(d))'
<1>0. /\ dpc \in [Clients -> DaemonStates]
      /\ exit \in [Clients -> {"running", "deferred", "expired", "failed"}]
      /\ path \in [Forms -> Clients \union {NoFile, Stale}]
      /\ \A d \in Clients : Key(d) \in Forms /\ Key(d)' = Key(d)
  BY KeyInForms, CausesStay DEF TypeOK, Key
<1>1. \A d \in Clients : exit'[d] # "running" <=> dpc'[d] = "gone"
  <2>1. CASE UNCHANGED <<dpc, exit>>
    BY <2>1 DEF TurnInv
  <2>2. ASSUME NEW e \in Clients, dpc[e] # "gone",
               \/ \E s \in DaemonStates \ {"gone"} : Moves(e, s)
               \/ \E how \in {"deferred", "expired", "failed"} : Ends(e, how)
        PROVE  \A d \in Clients : exit'[d] # "running" <=> dpc'[d] = "gone"
    BY <1>0, <2>2 DEF Moves, Ends, TurnInv
  <2> QED
    BY <2>1, <2>2, DaemonMoves
\* A listening daemon that is not in trouble goes on listening.
<1>2. ASSUME NEW e \in Clients, dpc[e] \in Listening, NEW k, ~Trouble(k)'
      PROVE  dpc'[e] \in Listening /\ dpc'[e] # "closing"
  <2>1. dpc'[e] # "closing" /\ exit'[e] \notin {"expired", "failed"}
    BY <1>2 DEF Trouble
  <2>2. dpc'[e] \in Listening
    <3>1. CASE UNCHANGED <<dpc, exit>>
      BY <1>2, <3>1
    <3>2. ASSUME NEW p \in Clients, ClientStep(p) \/ Stall(p) \/ Resume(p) \/ Kill(p) \/ Tick(p)
          PROVE  dpc'[e] \in Listening
      <4>1. UNCHANGED dpc \/ (dpc[p] = "none" /\ dpc' = [dpc EXCEPT ![p] = "materializing"])
        BY <3>2 DEF ClientStep, Connect, Spawn, PollConnect, LastConnect, TryConnect, TryWait,
                    Write, Read, Stall, Resume, Kill, Tick, TypeOK
      <4> QED
        BY <1>0, <1>2, <4>1
    <3>3. ASSUME NEW d \in Clients, Crash(d) \/ Close(d)
          PROVE  dpc'[e] \in Listening
      <4>1. dpc' = [dpc EXCEPT ![d] = "gone"] /\ exit'[d] \in {"expired", "failed"}
        BY <1>0, <3>3 DEF Crash, Close, End
      <4> QED
        BY <1>0, <1>2, <2>1, <4>1
    <3>4. ASSUME NEW d \in Clients, \/ Materialize(d) \/ Bind(d) \/ Listen(d) \/ Probe(d)
                                    \/ Unlink(d) \/ Rebind(d)
          PROVE  dpc'[e] \in Listening
      <4>1. dpc[d] \notin Listening /\ \E s : dpc' = [dpc EXCEPT ![d] = s]
        BY <3>4 DEF Materialize, Bind, Listen, Probe, Unlink, Rebind
      <4> QED
        BY <1>0, <1>2, <4>1
    <3>5. ASSUME NEW d \in Clients, Accept(d) \/ Receive(d) \/ Run(d) \/ Expire(d) \/ Remove(d)
          PROVE  dpc'[e] \in Listening
      <4>1. UNCHANGED dpc \/ \E s \in Listening : dpc' = [dpc EXCEPT ![d] = s]
        BY <3>5 DEF Accept, Receive, Run, Expire, Remove, Done
      <4> QED
        BY <1>0, <1>2, <4>1
    <3>6. UNCHANGED vars => UNCHANGED <<dpc, exit>>
      BY DEF vars
    <3> QED
      BY <3>1, <3>2, <3>3, <3>4, <3>5, <3>6 DEF Next, DaemonStep
  <2> QED
    BY <2>1, <2>2
\* Its name goes on leading to it.
<1>3. ASSUME NEW k \in Forms, Live(k), ~Trouble(k)'
      PROVE  path'[k] = path[k]
  <2> DEFINE e == path[k]
  <2>1. e \in Clients /\ dpc[e] \in Listening /\ Key(e) = k
    BY <1>3 DEF Live, HeldInv
  <2>2. ~Trouble(k)
    BY <1>3, CausesStay
  <2>3. k \notin overlap /\ dpc[e] \in Accepting \union {"removing"}
    BY <2>1, <2>2 DEF Trouble
  <2>4. CASE UNCHANGED path
    BY <2>4
  <2>5. ASSUME NEW d \in Clients, Bind(d) \/ Rebind(d)
        PROVE  path'[k] = path[k]
    <3>1. UNCHANGED path \/ (path[Key(d)] = NoFile /\ path' = [path EXCEPT ![Key(d)] = d])
      BY <2>5 DEF Bind, Rebind
    <3> QED
      BY <1>0, <2>1, <3>1, NamesAssumption
  <2>6. ASSUME NEW d \in Clients, Unlink(d)
        PROVE  path'[k] = path[k]
    <3>1. Key(d) # k
      BY <2>1, <2>3, <2>6 DEF NameInv, Unlink
    <3> QED
      BY <1>0, <2>6, <3>1 DEF Unlink
  <2>7. ASSUME NEW d \in Clients, Remove(d)
        PROVE  path'[k] = path[k]
    <3>1. dpc'[d] = "closing"
      BY <1>0, <2>7 DEF Remove
    <3> QED
      BY <1>3, <3>1 DEF Trouble
  <2>8. \/ UNCHANGED path
        \/ \E d \in Clients : Bind(d) \/ Rebind(d) \/ Unlink(d) \/ Remove(d)
    BY DEF Next, vars, ClientStep, Connect, Spawn, PollConnect, LastConnect, TryConnect, TryWait,
           Write, Read, Stall, Resume, Kill, Tick, DaemonStep, Materialize, Listen, Probe, Accept,
           Receive, Run, Expire, Close, Crash
  <2> QED
    BY <2>4, <2>5, <2>6, <2>7, <2>8
<1>4. ASSUME NEW k \in Forms, Live(k)
      PROVE  Live(k)' \/ Trouble(k)'
  <2>1. path[k] \in Clients /\ dpc[path[k]] \in Listening
    BY <1>4 DEF Live
  <2> QED
    BY <1>2, <1>3, <1>4, <2>1 DEF Live
<1>5. ASSUME NEW d \in Clients, exit'[d] = "deferred"
      PROVE  Live(Key(d)) \/ Trouble(Key(d))
  <2>1. CASE exit[d] = "deferred"
    BY <2>1 DEF TurnInv
  <2>2. CASE exit[d] # "deferred"
    <3>1. PICK e \in Clients : \E how \in {"deferred", "expired", "failed"} : Ends(e, how)
      BY <1>5, <2>2, DaemonMoves DEF Moves
    <3>2. PICK how \in {"deferred", "expired", "failed"} : Ends(e, how)
      BY <3>1
    <3>3. e = d /\ how = "deferred"
      BY <1>0, <1>5, <2>2, <3>2 DEF Ends
    <3> QED
      BY <3>2, <3>3 DEF Ends
  <2> QED
    BY <2>1, <2>2
<1>6. \A d \in Clients : exit'[d] = "deferred" => Live(Key(d))' \/ Trouble(Key(d))'
  BY <1>0, <1>4, <1>5, CausesStay
<1> QED
  BY <1>1, <1>6

\* A daemon that runs a request has the client waiting for its reply.
LEMMA RunningStep ==
    ASSUME TypeOK, HeldInv, TurnInv, [Next]_vars, NEW d \in Clients, dpc'[d] = "running"
    PROVE  cpc'[cur'[d]] = "reading"
<1>0. /\ dpc \in [Clients -> DaemonStates] /\ cur \in [Clients -> Clients \union {Nobody}]
      /\ cpc \in [Clients -> ClientStates]
  BY DEF TypeOK
<1>1. dpc[d] = "running" => cpc[cur[d]] = "reading" /\ cur[d] \in Clients
  BY DEF TurnInv, TypeOK
<1>2. dpc[d] = "running" => reply[cur[d]] = NoReply
  <2>1. dpc[d] = "running" => At(cur[d], d, 0)
    BY DEF At
  <2> QED
    BY <1>1, <2>1 DEF HeldInv
<1>3. CASE UNCHANGED <<cpc, cur, dpc>>
  BY <1>1, <1>3
<1>4. ASSUME NEW p \in Clients, ClientStep(p)
      PROVE  cpc'[cur'[d]] = "reading"
  <2>1. UNCHANGED cur /\ (UNCHANGED dpc \/ dpc' = [dpc EXCEPT ![p] = "materializing"])
    BY <1>4 DEF ClientStep, Connect, Spawn, PollConnect, LastConnect, TryConnect, TryWait, Write, Read
  <2>2. dpc[d] = "running"
    BY <1>0, <2>1
  <2>3. cpc[p] # "reading" \/ reply[p] # NoReply
    BY <1>4 DEF ClientStep, Connect, Spawn, PollConnect, LastConnect, TryConnect, TryWait, Write, Read
  <2>4. p # cur[d]
    BY <1>1, <1>2, <2>2, <2>3
  <2>5. \A c \in Clients \ {p} : cpc'[c] = cpc[c]
    BY <1>0, <1>4 DEF ClientStep, Connect, Spawn, PollConnect, LastConnect, TryConnect, Join,
                      TryWait, Write, Read
  <2> QED
    BY <1>1, <2>1, <2>2, <2>4, <2>5
<1>5. ASSUME NEW p \in Clients, Stall(p) \/ Resume(p) \/ Kill(p) \/ Tick(p)
      PROVE  UNCHANGED <<cpc, cur, dpc>>
  BY <1>5 DEF Stall, Resume, Kill, Tick, clientVars
<1>6. ASSUME NEW e \in Clients, DaemonStep(e) \/ Crash(e)
      PROVE  cpc'[cur'[d]] = "reading"
  <2>1. UNCHANGED cpc
    BY <1>6 DEF DaemonStep, Materialize, Bind, Listen, Probe, Unlink, Rebind, Accept, Receive, Run,
                Expire, Remove, Close, Crash, StartUnchanged, clientVars
  <2>2. CASE d # e
    <3>1. cur'[d] = cur[d] /\ dpc'[d] = dpc[d]
      BY <1>0, <1>6, <2>2 DEF DaemonStep, Materialize, Bind, Listen, Probe, Unlink, Rebind, Accept,
              Receive, Run, Expire, Remove, Close, Crash, End, Done, StartUnchanged
    <3> QED
      BY <1>1, <2>1, <3>1
  <2>3. CASE d = e
    <3>1. CASE Receive(d)
      BY <1>0, <2>1, <3>1 DEF Receive, Done
    <3>2. CASE ~Receive(d)
      <4>1. \/ UNCHANGED <<dpc, cur>>
            \/ \E s \in {"binding", "gone", "serving", "removing", "closing", "reading"} \union Starting :
                 dpc' = [dpc EXCEPT ![d] = s]
        BY <1>6, <2>3, <3>2 DEF DaemonStep, Materialize, Bind, Listen, Probe, Unlink, Rebind, Accept,
                Run, Expire, Remove, Close, Crash, End, Done
      <4> QED
        BY <1>0, <1>1, <2>1, <4>1
    <3> QED
      BY <3>1, <3>2
  <2> QED
    BY <2>2, <2>3
<1>7. UNCHANGED vars => UNCHANGED <<cpc, cur, dpc>>
  BY DEF vars, clientVars
<1> QED
  BY <1>3, <1>4, <1>5, <1>6, <1>7 DEF Next

\* A client stops looking only when the daemon it spawned has ended; who stalled or was
\* killed is remembered.
LEMMA WaitStep ==
    ASSUME TypeOK, TurnInv, [Next]_vars
    PROVE  /\ \A c \in Clients : cpc'[c] = "lastTry" => dpc'[c] = "gone"
           /\ stalled' \union killed' \subseteq gone'
<1>0. dpc \in [Clients -> DaemonStates] /\ cpc \in [Clients -> ClientStates]
  BY DEF TypeOK
<1>1. \A c \in Clients : cpc'[c] = "lastTry" => dpc[c] = "gone"
  <2>1. CASE UNCHANGED cpc
    BY <2>1 DEF TurnInv
  <2>2. ASSUME NEW p \in Clients, TryWait(p)
        PROVE  \A c \in Clients : cpc'[c] = "lastTry" => dpc[c] = "gone"
    BY <1>0, <2>2 DEF TryWait, TurnInv
  <2>3. ASSUME NEW p \in Clients, \/ Connect(p) \/ PollConnect(p) \/ LastConnect(p) \/ Spawn(p)
                                  \/ Write(p) \/ Read(p)
        PROVE  \A c \in Clients : cpc'[c] = "lastTry" => dpc[c] = "gone"
    <3>1. \E s \in {"spawn", "waiting", "broken", "writing", "polling", "reading", "answered"} :
            cpc' = [cpc EXCEPT ![p] = s]
      BY <2>3 DEF Connect, PollConnect, LastConnect, TryConnect, Join, Spawn, Write, Read
    <3> QED
      BY <1>0, <3>1 DEF TurnInv
  <2>4. \/ UNCHANGED cpc
        \/ \E p \in Clients : ClientStep(p)
    BY DEF Next, vars, clientVars, Stall, Resume, Kill, Tick, Crash, DaemonStep, Materialize, Bind,
           Listen, Probe, Unlink, Rebind, Accept, Receive, Run, Expire, Remove, Close, StartUnchanged
  <2> QED
    BY <2>1, <2>2, <2>3, <2>4 DEF ClientStep
<1>2. \A c \in Clients : dpc[c] = "gone" => dpc'[c] = "gone"
  <2>1. CASE UNCHANGED <<dpc, exit>>
    BY <2>1
  <2>2. ASSUME NEW e \in Clients, dpc[e] # "gone", \E s : dpc' = [dpc EXCEPT ![e] = s]
        PROVE  \A c \in Clients : dpc[c] = "gone" => dpc'[c] = "gone"
    BY <1>0, <2>2
  <2> QED
    BY <2>1, <2>2, DaemonMoves DEF Moves, Ends
<1>3. stalled' \union killed' \subseteq gone'
  <2>1. CASE UNCHANGED <<stalled, killed, gone>>
    BY <2>1 DEF TurnInv
  <2>2. ASSUME NEW p \in Clients, Stall(p) \/ Resume(p) \/ Kill(p)
        PROVE  stalled' \union killed' \subseteq gone'
    BY <2>2 DEF Stall, Resume, Kill, TurnInv
  <2>3. ASSUME NEW p \in Clients, ClientStep(p) \/ Tick(p)
        PROVE  UNCHANGED <<stalled, killed, gone>>
    BY <2>3 DEF ClientStep, Connect, Spawn, PollConnect, LastConnect, TryConnect, TryWait, Write,
                Read, Tick, clientVars
  <2>4. ASSUME NEW d \in Clients, DaemonStep(d) \/ Crash(d)
        PROVE  UNCHANGED <<stalled, killed, gone>>
    BY <2>4 DEF Crash, DaemonStep, Materialize, Bind, Listen, Probe, Unlink, Rebind, Accept, Receive,
                Run, Expire, Remove, Close, StartUnchanged, clientVars
  <2>5. UNCHANGED vars => UNCHANGED <<stalled, killed, gone>>
    BY DEF vars, clientVars
  <2> QED
    BY <2>1, <2>2, <2>3, <2>4, <2>5 DEF Next
<1> QED
  BY <1>1, <1>2, <1>3

\* What a client finds on its connection: nothing, a frame once it has sent its
\* request, or its end, for a cause.
LEMMA ReplyStep ==
    ASSUME TypeOK, HeldInv, TurnInv, [Next]_vars, NEW c \in Clients
    PROVE  /\ reply'[c].kind = "eof" => ForCause(c)'
           /\ reply'[c].kind = "frame" => cpc'[c] # "writing"
<1>0. /\ reply \in [Clients -> {NoReply, Eof} \union FrameType] /\ cpc \in [Clients -> ClientStates]
      /\ exit \in [Clients -> {"running", "deferred", "expired", "failed"}]
  BY DEF TypeOK
<1>1. ForCause(c) => ForCause(c)'
  BY CausesStay
<1>2. reply[c].kind \in {"eof", "frame"} => reply[c] # NoReply
  BY Kinds
<1>3. UNCHANGED reply \/ UNCHANGED cpc
  <2>1. ASSUME NEW p \in Clients, ClientStep(p) \/ Stall(p) \/ Resume(p) \/ Kill(p) \/ Tick(p)
        PROVE  UNCHANGED reply
    BY <2>1 DEF ClientStep, Connect, Spawn, PollConnect, LastConnect, TryConnect, TryWait, Write,
                Read, Stall, Resume, Kill, Tick
  <2>2. ASSUME NEW d \in Clients, DaemonStep(d) \/ Crash(d)
        PROVE  UNCHANGED cpc
    BY <2>2 DEF Crash, DaemonStep, Materialize, Bind, Listen, Probe, Unlink, Rebind, Accept, Receive,
                Run, Expire, Remove, Close, StartUnchanged, clientVars
  <2> QED
    BY <2>1, <2>2 DEF Next, vars
<1>4. cpc'[c] = "writing" => cpc[c] = "writing" \/ reply[c] = NoReply
  <2>1. ASSUME NEW p \in Clients, Connect(p) \/ PollConnect(p) \/ LastConnect(p)
        PROVE  cpc'[c] = "writing" => cpc[c] = "writing" \/ reply[c] = NoReply
    <3>1. cpc[p] \in {"start", "polling", "lastTry"} /\ \E s : cpc' = [cpc EXCEPT ![p] = s]
      BY <2>1 DEF Connect, PollConnect, LastConnect, TryConnect, Join
    <3> QED
      BY <1>0, <3>1 DEF HeldInv, Connected
  <2>2. ASSUME NEW p \in Clients, Spawn(p) \/ TryWait(p) \/ Write(p) \/ Read(p)
        PROVE  cpc'[c] = "writing" => cpc[c] = "writing"
    <3>1. \E s \in {"polling", "lastTry", "reading", "broken", "answered"} : cpc' = [cpc EXCEPT ![p] = s]
      BY <2>2 DEF Spawn, TryWait, Write, Read
    <3> QED
      BY <1>0, <3>1
  <2>3. UNCHANGED cpc \/ \E p \in Clients : ClientStep(p)
    BY DEF Next, vars, clientVars, Stall, Resume, Kill, Tick, Crash, DaemonStep, Materialize, Bind,
           Listen, Probe, Unlink, Rebind, Accept, Receive, Run, Expire, Remove, Close, StartUnchanged
  <2> QED
    BY <2>1, <2>2, <2>3 DEF ClientStep
<1>5. CASE UNCHANGED reply
  BY <1>1, <1>2, <1>4, <1>5 DEF TurnInv
<1>6. ASSUME NEW d \in Clients, Receive(d) \/ Run(d), UNCHANGED cpc
      PROVE  /\ reply'[c].kind = "eof" => ForCause(c)'
             /\ reply'[c].kind = "frame" => cpc'[c] # "writing"
  <2>1. /\ cur[d] \in Clients
        /\ dpc[d] = "running" => cpc[cur[d]] = "reading"
    BY <1>6 DEF Receive, Run, TurnInv, TypeOK
  <2>2. CASE c # cur[d]
    <3>1. reply'[c] = reply[c]
      BY <1>0, <1>6, <2>1, <2>2, Closed DEF Receive, Run
    <3> QED
      BY <1>1, <1>6, <3>1 DEF TurnInv
  <2>3. CASE c = cur[d] /\ cpc[c] = "reading" /\ \E status, tool, reading :
               reply' = [reply EXCEPT ![c] = Frame(d, status, tool, reading)]
    <3>1. reply'[c].kind = "frame"
      BY <1>0, <2>3 DEF Frame
    <3> QED
      BY <1>6, <2>3, <3>1
  <2>4. CASE c = cur[d] /\ c \in stalled \union killed /\ reply' = CloseOn({c})
    <3>1. ForCause(c)
      BY <2>4 DEF TurnInv, ForCause
    <3>2. reply'[c] = reply[c] \/ reply'[c] = Eof
      BY <2>4, Closed
    <3> QED
      BY <1>1, <1>6, <3>1, <3>2 DEF TurnInv, Eof
  <2>5. CASE c = cur[d] /\ UNCHANGED reply
    BY <1>5, <2>5
  <2> QED
    BY <1>6, <2>1, <2>2, <2>3, <2>4, <2>5 DEF Receive, Run
<1>7. ASSUME NEW d \in Clients, Close(d) \/ Crash(d), UNCHANGED cpc
      PROVE  /\ reply'[c].kind = "eof" => ForCause(c)'
             /\ reply'[c].kind = "frame" => cpc'[c] # "writing"
  <2>1. exit'[d] \in {"expired", "failed"} /\ reply' = CloseOn(Held(d))
    BY <1>0, <1>7 DEF Close, Crash, End
  <2>2. ForCause(c)'
    BY <2>1 DEF ForCause, Trouble
  <2>3. reply'[c].kind = "frame" => reply'[c] = reply[c]
    BY <2>1, Closed DEF Eof
  <2> QED
    BY <1>7, <2>2, <2>3 DEF TurnInv
<1>8. \/ UNCHANGED reply
      \/ /\ UNCHANGED cpc
         /\ \E d \in Clients : Receive(d) \/ Run(d) \/ Close(d) \/ Crash(d)
  <2>1. ASSUME NEW p \in Clients, ClientStep(p) \/ Stall(p) \/ Resume(p) \/ Kill(p) \/ Tick(p)
        PROVE  UNCHANGED reply
    BY <2>1 DEF ClientStep, Connect, Spawn, PollConnect, LastConnect, TryConnect, TryWait, Write,
                Read, Stall, Resume, Kill, Tick
  <2>2. ASSUME NEW d \in Clients, \/ Materialize(d) \/ Bind(d) \/ Listen(d) \/ Probe(d) \/ Unlink(d)
                                  \/ Rebind(d) \/ Accept(d) \/ Expire(d) \/ Remove(d)
        PROVE  UNCHANGED reply
    BY <2>2 DEF Materialize, Bind, Listen, Probe, Unlink, Rebind, Accept, Expire, Remove
  <2> QED
    BY <1>3, <2>1, <2>2 DEF Next, vars, DaemonStep
<1> QED
  BY <1>5, <1>6, <1>7, <1>8

\* A client that gives up has a cause.
LEMMA TurnedStep ==
    ASSUME TypeOK, TurnInv, [Next]_vars, NEW c \in Clients, cpc'[c] = "broken"
    PROVE  ForCause(c)'
<1>0. cpc \in [Clients -> ClientStates] /\ exit \in [Clients -> {"running", "deferred", "expired", "failed"}]
  BY DEF TypeOK
<1>1. ForCause(c) => ForCause(c)'
  BY CausesStay
<1>2. CASE cpc[c] = "broken"
  <2>1. ForCause(c)
    BY <1>2 DEF TurnInv, TurnedAwayForCause, ForCause, Trouble
  <2> QED
    BY <1>1, <2>1
<1>3. ASSUME NEW p \in Clients, ClientStep(p), cpc[c] # "broken"
      PROVE  ForCause(c)
  <2>1. p = c
    <3>1. \A b \in Clients \ {p} : cpc'[b] = cpc[b]
      BY <1>0, <1>3 DEF ClientStep, Connect, Spawn, PollConnect, LastConnect, TryConnect, Join,
                        TryWait, Write, Read
    <3> QED
      BY <1>3, <3>1
  <2>2. CASE LastConnect(c)
    <3>1. cpc[c] = "lastTry" /\ ~Live(Key(c))
      BY <1>0, <2>2 DEF LastConnect, TryConnect, Join
    <3>2. exit[c] \in {"deferred", "expired", "failed"}
      BY <1>0, <3>1 DEF TurnInv
    <3> QED
      BY <3>1, <3>2 DEF TurnInv, ForCause, Trouble
  <2>3. CASE Write(c) \/ Read(c)
    <3>1. \/ cpc[c] = "writing" /\ reply[c] # NoReply
          \/ reply[c].kind = "eof" \/ ask[c].fate = "rejected"
      BY <1>0, <2>3 DEF Write, Read
    <3>2. cpc[c] = "writing" => reply[c].kind # "frame"
      BY DEF TurnInv
    <3>3. reply[c].kind = "eof" \/ ask[c].fate = "rejected"
      BY <3>1, <3>2, Kinds
    <3> QED
      BY <3>3 DEF TurnInv, ForCause
  <2>4. CASE Connect(c) \/ PollConnect(c) \/ Spawn(c) \/ TryWait(c)
    <3>1. \E s \in {"spawn", "waiting", "writing", "polling", "lastTry"} : cpc' = [cpc EXCEPT ![c] = s]
      BY <2>4 DEF Connect, PollConnect, TryConnect, Join, Spawn, TryWait
    <3> QED
      BY <1>0, <3>1
  <2> QED
    BY <1>3, <2>1, <2>2, <2>3, <2>4 DEF ClientStep
<1>4. UNCHANGED cpc \/ \E p \in Clients : ClientStep(p)
  BY DEF Next, vars, clientVars, Stall, Resume, Kill, Tick, Crash, DaemonStep, Materialize, Bind,
         Listen, Probe, Unlink, Rebind, Accept, Receive, Run, Expire, Remove, Close, StartUnchanged
<1> QED
  BY <1>1, <1>2, <1>3, <1>4

\* A resident client is turned away without a framed reply for a cause of those
\* listed alone, for any number of clients: losing the name to a daemon that serves
\* (resident_serve_loop defers), stale sockets and other clients' fates are none.
THEOREM TurnedAwayOnlyForCause == Spec => []TurnedAwayForCause
<1>1. Init => TurnInv
  BY DEF Init, TurnInv, TurnedAwayForCause, NoReply
<1>2. TypeOK /\ NameInv /\ HeldInv /\ TurnInv /\ [Next]_vars => HeldInv' /\ TurnInv'
  <2> SUFFICES ASSUME TypeOK, NameInv, HeldInv, TurnInv, [Next]_vars
               PROVE  HeldInv' /\ TurnInv'
    OBVIOUS
  <2>1. \A c \in Clients : cpc'[c] = "broken" => ForCause(c)'
    BY TurnedStep
  <2>2. TurnedAwayForCause'
    BY <2>1 DEF TurnedAwayForCause, ForCause, Trouble
  <2>3. \A d \in Clients : dpc'[d] = "running" => cpc'[cur'[d]] = "reading"
    BY RunningStep
  <2>4. \A c \in Clients : /\ reply'[c].kind = "eof" => ForCause(c)'
                           /\ reply'[c].kind = "frame" => cpc'[c] # "writing"
    BY ReplyStep
  <2> QED
    BY <2>2, <2>3, <2>4, HeldStep, DeferStep, WaitStep DEF TurnInv
<1>3. TurnInv => TurnedAwayForCause
  BY DEF TurnInv
<1> QED
  BY <1>1, <1>2, <1>3, HeldInit, NameCorrect, TypeCorrect, PTL DEF Spec
=============================================================================
