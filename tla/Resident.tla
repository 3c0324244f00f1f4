------------------------------ MODULE Resident ------------------------------
(***************************************************************************)
(* The resident sessions of `qua --resident` (qua/src/lib.rs).  A client   *)
(* connects to the Unix socket its flags name; when nobody answers there   *)
(* it spawns a daemon and polls.  A daemon materializes the inputs, binds  *)
(* the socket (removing a stale one), answers one client at a time, and    *)
(* removes the socket when it has been idle for its TTL.                   *)
(*                                                                         *)
(* A client spawns at most one daemon, so a daemon is named by the client  *)
(* that spawned it: dpc[c] is the state of the daemon c started.           *)
(* A socket inode is named by the daemon that bound it, so path[k] = d     *)
(* says that the name of session k leads to the socket of d.               *)
(***************************************************************************)
EXTENDS Naturals, Sequences, FiniteSets

CONSTANTS Clients,      \* the processes running `qua --resident`
          Requests,     \* what a client may ask: records of RequestType
          Forms,        \* what the session key tells apart (here, the form)
          MaxCrashes,   \* daemons killed, out of memory, or panicking
          MaxGone,      \* clients that stall or are killed
          NoFile, Stale, Nobody

\* A request: the flags of the client, and what its query does.
\*   "answers"  the run succeeds
\*   "refuses"  the run ends in an error, reported with status 1
\*   "rejected" refused before the run: over the frame limit, or an output
\*              directive that does not parse
\* notes: a reading declines a folder leaf on the way; sets: the query runs
\* `session(...)`, changing the settings of the session memory.
RequestType == [form : Forms, notes : BOOLEAN, sets : BOOLEAN,
                fate : {"answers", "refuses", "rejected"}]

ASSUME RequestsAssumption == Requests \subseteq RequestType
ASSUME NamesAssumption == /\ NoFile \notin Clients
                          /\ Stale \notin Clients
                          /\ Nobody \notin Clients
                          /\ NoFile # Stale
ASSUME LimitsAssumption == MaxCrashes \in Nat /\ MaxGone \in Nat

VARIABLES ask,      \* [Clients -> Requests]
          cpc,      \* where each client is
          reply,    \* what arrived on the client's connection
          stalled,  \* clients not running for longer than the I/O timeouts
          killed,   \* clients that are gone
          gone,     \* clients that ever stalled or were killed
          path,     \* [Forms -> NoFile, Stale or the daemon whose socket it is]
          dpc,      \* where each daemon is
          exit,     \* how a daemon ended
          backlog,  \* connections waiting for accept
          cur,      \* the client a daemon is serving
          idleOut,  \* the TTL has passed since the last accept
          notes,    \* per daemon: diagnostics raised and not yet taken
          settings, \* per daemon: whose `session(...)` is in force
          crashes,  \* number of crashes so far
          overlap   \* history: sessions two daemons were starting at a time

clientVars == <<cpc, stalled, killed, gone>>
memVars == <<notes, settings>>
vars == <<ask, cpc, reply, stalled, killed, gone, path, dpc, exit,
          backlog, cur, idleOut, notes, settings, crashes, overlap>>

-----------------------------------------------------------------------------
\* The session key: the target set and the flags that select the view.
Key(c) == ask[c].form

Starting == {"bound", "probing", "unlinking", "rebinding"}
Accepting == {"serving", "reading", "running"}
Listening == Accepting \union {"removing", "closing"}

\* connect(2) on the name of session k succeeds.
Live(k) == path[k] \in Clients /\ dpc[path[k]] \in Listening

NoReply == [kind |-> "none"]
Eof == [kind |-> "eof"]
Connection(c, isProbe) == [by |-> c, probe |-> isProbe]

Runs(c) == c \notin stalled /\ c \notin killed
Ended(c) == cpc[c] \in {"answered", "broken"} \/ c \in killed

\* The clients whose connection daemon d holds.
Held(d) == {backlog[d][i].by : i \in {j \in DOMAIN backlog[d] : ~backlog[d][j].probe}}
             \union ({cur[d]} \ {Nobody})

\* The connections of the clients in S are closed with nothing (more) sent.
CloseOn(S) == [c \in Clients |-> IF c \in S /\ reply[c] = NoReply THEN Eof ELSE reply[c]]

Init == /\ ask \in [Clients -> Requests]
        /\ cpc = [c \in Clients |-> "start"]
        /\ reply = [c \in Clients |-> NoReply]
        /\ stalled = {} /\ killed = {} /\ gone = {}
        /\ path \in [Forms -> {NoFile, Stale}]
        /\ dpc = [d \in Clients |-> "none"]
        /\ exit = [d \in Clients |-> "running"]
        /\ backlog = [d \in Clients |-> <<>>]
        /\ cur = [d \in Clients |-> Nobody]
        /\ idleOut = [d \in Clients |-> FALSE]
        /\ notes = [d \in Clients |-> [tool |-> {}, reading |-> {}]]
        /\ settings = [d \in Clients |-> {}]
        /\ crashes = 0
        /\ overlap = {}

-----------------------------------------------------------------------------
(***************************************************************************)
(* The client: resident_client and spawn_resident.                         *)
(***************************************************************************)

\* A successful connect: the connection waits in the backlog.
Join(c) == LET d == path[Key(c)] IN
    /\ backlog' = [backlog EXCEPT ![d] = Append(@, Connection(c, FALSE))]
    /\ cpc' = [cpc EXCEPT ![c] = "writing"]

\* One attempt to connect from state `at`; `otherwise` when refused.
TryConnect(c, at, otherwise) ==
    /\ Runs(c) /\ cpc[c] = at
    /\ \/ Live(Key(c)) /\ Join(c)
       \/ /\ ~Live(Key(c))
          /\ cpc' = [cpc EXCEPT ![c] = otherwise]
          /\ UNCHANGED backlog
    /\ UNCHANGED <<ask, reply, stalled, killed, gone, path, dpc, exit, cur,
                   idleOut, memVars, crashes, overlap>>

Connect(c) == TryConnect(c, "start", "spawn")

\* cmd.spawn(): the daemon is this binary with the client's own flags.
Spawn(c) ==
    /\ Runs(c) /\ cpc[c] = "spawn"
    /\ cpc' = [cpc EXCEPT ![c] = "polling"]
    /\ dpc' = [dpc EXCEPT ![c] = "materializing"]
    /\ UNCHANGED <<ask, reply, stalled, killed, gone, path, exit, backlog,
                   cur, idleOut, memVars, crashes, overlap>>

PollConnect(c) == TryConnect(c, "polling", "waiting")

\* Mutant of TryWait: the exit of the child is not looked at.
MutTryWait(c) ==
    /\ Runs(c) /\ cpc[c] = "waiting"
    /\ cpc' = [cpc EXCEPT ![c] = "polling"]
    /\ UNCHANGED <<ask, reply, stalled, killed, gone, path, dpc, exit,
                   backlog, cur, idleOut, memVars, crashes, overlap>>

\* child.try_wait(): back to polling while the child runs.
TryWait(c) ==
    /\ Runs(c) /\ cpc[c] = "waiting"
    /\ cpc' = [cpc EXCEPT ![c] = IF dpc[c] = "gone" THEN "lastTry" ELSE "polling"]
    /\ UNCHANGED <<ask, reply, stalled, killed, gone, path, dpc, exit,
                   backlog, cur, idleOut, memVars, crashes, overlap>>

\* The child is gone: one more attempt, then "exited before binding".
LastConnect(c) == TryConnect(c, "lastTry", "broken")

\* The request goes out whole unless the daemon has closed the connection.
Write(c) ==
    /\ Runs(c) /\ cpc[c] = "writing"
    /\ cpc' = [cpc EXCEPT ![c] = IF reply[c] = NoReply THEN "reading" ELSE "broken"]
    /\ UNCHANGED <<ask, reply, stalled, killed, gone, path, dpc, exit,
                   backlog, cur, idleOut, memVars, crashes, overlap>>

\* The framed reply, or end of file: "bad session response".  A daemon that
\* rejects a frame over the limit closes without draining it, so that client
\* may be stopped by the failed write before it reads the reply.
Read(c) ==
    /\ Runs(c) /\ cpc[c] = "reading" /\ reply[c] # NoReply
    /\ \/ reply[c].kind = "frame" /\ cpc' = [cpc EXCEPT ![c] = "answered"]
       \/ /\ reply[c].kind = "eof" \/ ask[c].fate = "rejected"
          /\ cpc' = [cpc EXCEPT ![c] = "broken"]
    /\ UNCHANGED <<ask, reply, stalled, killed, gone, path, dpc, exit,
                   backlog, cur, idleOut, memVars, crashes, overlap>>

\* A client stops running for longer than the daemon's I/O timeouts ...
Stall(c) ==
    /\ Runs(c) /\ cpc[c] \in {"writing", "reading"}
    /\ c \notin gone /\ Cardinality(gone) < MaxGone
    /\ stalled' = stalled \union {c} /\ gone' = gone \union {c}
    /\ UNCHANGED <<ask, cpc, reply, killed, path, dpc, exit, backlog, cur,
                   idleOut, memVars, crashes, overlap>>

\* ... and may run again, or not.
Resume(c) ==
    /\ c \in stalled
    /\ stalled' = stalled \ {c}
    /\ UNCHANGED <<ask, cpc, reply, killed, gone, path, dpc, exit, backlog,
                   cur, idleOut, memVars, crashes, overlap>>

\* Ctrl-C, or a closed pipe on the client's stdout.
Kill(c) ==
    /\ Runs(c) /\ ~Ended(c)
    /\ c \notin gone /\ Cardinality(gone) < MaxGone
    /\ killed' = killed \union {c} /\ gone' = gone \union {c}
    /\ UNCHANGED <<ask, cpc, reply, stalled, path, dpc, exit, backlog, cur,
                   idleOut, memVars, crashes, overlap>>

ClientStep(c) == \/ Connect(c) \/ Spawn(c) \/ PollConnect(c) \/ TryWait(c)
                 \/ LastConnect(c) \/ Write(c) \/ Read(c)

-----------------------------------------------------------------------------
(***************************************************************************)
(* The daemon: materialization, then resident_serve_loop.                  *)
(***************************************************************************)

\* Everything a daemon step outside the serving of a connection leaves alone.
StartUnchanged == UNCHANGED <<ask, clientVars, cur, idleOut, memVars>>

\* The process ends: its socket closes, and so does every connection it holds.
End(d, how) ==
    /\ dpc' = [dpc EXCEPT ![d] = "gone"]
    /\ exit' = [exit EXCEPT ![d] = how]
    /\ reply' = CloseOn(Held(d))
    /\ backlog' = [backlog EXCEPT ![d] = <<>>]
    /\ cur' = [cur EXCEPT ![d] = Nobody]

\* The inputs are read and parsed; this may take long, and may fail (counted
\* with the crashes).
Materialize(d) ==
    /\ dpc[d] = "materializing"
    /\ \/ /\ dpc' = [dpc EXCEPT ![d] = "binding"]
          /\ UNCHANGED <<exit, reply, backlog, crashes>>
       \/ /\ crashes < MaxCrashes /\ crashes' = crashes + 1
          /\ dpc' = [dpc EXCEPT ![d] = "gone"]
          /\ exit' = [exit EXCEPT ![d] = "failed"]
          /\ UNCHANGED <<reply, backlog>>
    /\ UNCHANGED <<path, overlap>> /\ StartUnchanged

\* Another daemon of session k is between its bind and its first accept.
StartedBy(k, d) == \E e \in Clients \ {d} : Key(e) = k /\ dpc[e] \in Starting

\* Mutant of Bind: a name that is taken counts as stale, unprobed.
MutBind(d) ==
    /\ dpc[d] = "binding"
    /\ \/ /\ path[Key(d)] = NoFile
          /\ path' = [path EXCEPT ![Key(d)] = d]
          /\ dpc' = [dpc EXCEPT ![d] = "bound"]
       \/ /\ path[Key(d)] # NoFile
          /\ dpc' = [dpc EXCEPT ![d] = "unlinking"]
          /\ UNCHANGED path
    /\ overlap' = IF StartedBy(Key(d), d) THEN overlap \union {Key(d)} ELSE overlap
    /\ UNCHANGED <<exit, reply, backlog, crashes>> /\ StartUnchanged

\* UnixListener::bind is bind(2) then listen(2).  bind(2) takes the name only
\* when nothing has it; until listen(2) a connect to it is refused.
Bind(d) ==
    /\ dpc[d] = "binding"
    /\ \/ /\ path[Key(d)] = NoFile
          /\ path' = [path EXCEPT ![Key(d)] = d]
          /\ dpc' = [dpc EXCEPT ![d] = "bound"]
       \/ /\ path[Key(d)] # NoFile
          /\ dpc' = [dpc EXCEPT ![d] = "probing"]
          /\ UNCHANGED path
    /\ overlap' = IF StartedBy(Key(d), d) THEN overlap \union {Key(d)} ELSE overlap
    /\ UNCHANGED <<exit, reply, backlog, crashes>> /\ StartUnchanged

Listen(d) ==
    /\ dpc[d] = "bound"
    /\ dpc' = [dpc EXCEPT ![d] = "serving"]
    /\ UNCHANGED <<path, exit, reply, backlog, crashes, overlap>> /\ StartUnchanged

\* Mutant of Probe: any file at the name counts as a live daemon.
MutProbe(d) ==
    /\ dpc[d] = "probing"
    /\ backlog' = IF Live(Key(d))
                   THEN [backlog EXCEPT ![path[Key(d)]] = Append(@, Connection(d, TRUE))]
                   ELSE backlog
    /\ dpc' = [dpc EXCEPT ![d] = "gone"]
    /\ exit' = [exit EXCEPT ![d] = "deferred"]
    /\ UNCHANGED <<path, reply, crashes, overlap>> /\ StartUnchanged

\* The name is taken: a live daemon answers the probe, and this one defers.
Probe(d) ==
    /\ dpc[d] = "probing"
    /\ \/ /\ Live(Key(d))
          /\ backlog' = [backlog EXCEPT ![path[Key(d)]] = Append(@, Connection(d, TRUE))]
          /\ dpc' = [dpc EXCEPT ![d] = "gone"]
          /\ exit' = [exit EXCEPT ![d] = "deferred"]
       \/ /\ ~Live(Key(d))
          /\ dpc' = [dpc EXCEPT ![d] = "unlinking"]
          /\ UNCHANGED <<backlog, exit>>
    /\ UNCHANGED <<path, reply, crashes, overlap>> /\ StartUnchanged

\* Mutant of Unlink: the stale file stays.
MutUnlink(d) ==
    /\ dpc[d] = "unlinking"
    /\ dpc' = [dpc EXCEPT ![d] = "rebinding"]
    /\ UNCHANGED <<path, exit, reply, backlog, crashes, overlap>> /\ StartUnchanged

\* remove_file(sock): whatever has the name by now.
Unlink(d) ==
    /\ dpc[d] = "unlinking"
    /\ path' = [path EXCEPT ![Key(d)] = NoFile]
    /\ dpc' = [dpc EXCEPT ![d] = "rebinding"]
    /\ UNCHANGED <<exit, reply, backlog, crashes, overlap>> /\ StartUnchanged

\* The second bind; "address in use" is an error this time.
Rebind(d) ==
    /\ dpc[d] = "rebinding"
    /\ \/ /\ path[Key(d)] = NoFile
          /\ path' = [path EXCEPT ![Key(d)] = d]
          /\ dpc' = [dpc EXCEPT ![d] = "bound"]
          /\ UNCHANGED exit
       \/ /\ path[Key(d)] # NoFile
          /\ dpc' = [dpc EXCEPT ![d] = "gone"]
          /\ exit' = [exit EXCEPT ![d] = "failed"]
          /\ UNCHANGED path
    /\ UNCHANGED <<reply, backlog, crashes, overlap>> /\ StartUnchanged

\* accept(): the idle clock restarts, also for another daemon's probe, whose
\* closed connection then yields no query.
Accept(d) ==
    /\ dpc[d] = "serving" /\ backlog[d] # <<>>
    /\ LET h == Head(backlog[d]) IN
         IF h.probe THEN UNCHANGED <<cur, dpc>>
                    ELSE /\ cur' = [cur EXCEPT ![d] = h.by]
                         /\ dpc' = [dpc EXCEPT ![d] = "reading"]
    /\ backlog' = [backlog EXCEPT ![d] = Tail(@)]
    /\ idleOut' = [idleOut EXCEPT ![d] = FALSE]
    /\ UNCHANGED <<ask, clientVars, reply, path, exit, memVars, crashes, overlap>>

\* What a session answers with: its own form and settings, and the diagnostics.
Frame(d, status, tool, reading) ==
    [kind |-> "frame", status |-> status, form |-> ask[d].form,
     tool |-> tool, reading |-> reading, settings |-> settings[d]]

\* Done with the connection; back to accept.
Done(d) == /\ dpc' = [dpc EXCEPT ![d] = "serving"]
           /\ cur' = [cur EXCEPT ![d] = Nobody]

\* Mutant of Receive: no read timeout.
MutReceive(d) == LET c == cur[d] IN
    /\ dpc[d] = "reading"
    /\ \/ /\ cpc[c] = "writing" /\ c \in killed
          /\ reply' = CloseOn({c}) /\ Done(d)
       \/ /\ cpc[c] = "reading" /\ ask[c].fate = "rejected"
          /\ reply' = [reply EXCEPT ![c] = Frame(d, 1, {}, {})] /\ Done(d)
       \/ /\ cpc[c] = "reading" /\ ask[c].fate # "rejected"
          /\ dpc' = [dpc EXCEPT ![d] = "running"]
          /\ UNCHANGED <<reply, cur>>
    /\ UNCHANGED <<ask, clientVars, path, exit, backlog, idleOut, memVars,
                   crashes, overlap>>

\* Reading the request: the peer is gone, or stays silent past the timeout
\* (both: no reply), or the frame is there, to run or to reject.
Receive(d) == LET c == cur[d] IN
    /\ dpc[d] = "reading"
    /\ \/ /\ cpc[c] = "writing" /\ (c \in killed \/ c \in stalled)
          /\ reply' = CloseOn({c}) /\ Done(d)
       \/ /\ cpc[c] = "reading" /\ ask[c].fate = "rejected"
          /\ reply' = [reply EXCEPT ![c] = Frame(d, 1, {}, {})] /\ Done(d)
       \/ /\ cpc[c] = "reading" /\ ask[c].fate # "rejected"
          /\ dpc' = [dpc EXCEPT ![d] = "running"]
          /\ UNCHANGED <<reply, cur>>
    /\ UNCHANGED <<ask, clientVars, path, exit, backlog, idleOut, memVars,
                   crashes, overlap>>

\* run_wrapped and flush_notes.  The tool's own notes are reported by the run
\* or by the flush after it.  What a reading declined is taken by explain_refs,
\* which a run ending in an error never reaches.
Raised(d) == LET c == cur[d] IN
    [tool |-> notes[d].tool \union {c},
     reading |-> notes[d].reading \union (IF ask[c].notes THEN {c} ELSE {})]

\* Mutant of Taken: no flush of the notes after a run that ends in an error.
MutTaken(d) == IF ask[cur[d]].fate = "answers" THEN Raised(d) ELSE [tool |-> {}, reading |-> {}]

Taken(d) == [tool |-> Raised(d).tool,
             reading |-> IF ask[cur[d]].fate = "answers" THEN Raised(d).reading ELSE {}]

\* Evaluate and reply.  A reply to a client that is gone is absorbed; one to a
\* stalled client may be cut off by the write timeout.
Run(d) == LET c == cur[d] IN
    /\ dpc[d] = "running"
    /\ notes' = [notes EXCEPT ![d] = [tool |-> Raised(d).tool \ Taken(d).tool,
                                      reading |-> Raised(d).reading \ Taken(d).reading]]
    /\ settings' = [settings EXCEPT ![d] = IF ask[c].sets THEN @ \union {c} ELSE @]
    /\ \/ reply' = [reply EXCEPT ![c] =
                      Frame(d, IF ask[c].fate = "answers" THEN 0 ELSE 1,
                            Taken(d).tool, Taken(d).reading)]
       \/ c \in stalled /\ reply' = CloseOn({c})
    /\ Done(d)
    /\ UNCHANGED <<ask, clientVars, path, exit, backlog, idleOut, crashes, overlap>>

\* Time passes: the TTL since the last accept.
Tick(d) ==
    /\ dpc[d] \in Accepting /\ ~idleOut[d]
    /\ idleOut' = [idleOut EXCEPT ![d] = TRUE]
    /\ UNCHANGED <<ask, clientVars, reply, path, dpc, exit, backlog, cur, memVars,
                   crashes, overlap>>

\* accept() would block and the TTL has passed: leave the loop.
Expire(d) ==
    /\ dpc[d] = "serving" /\ backlog[d] = <<>> /\ idleOut[d]
    /\ dpc' = [dpc EXCEPT ![d] = "removing"]
    /\ UNCHANGED <<path, exit, reply, backlog, crashes, overlap>> /\ StartUnchanged

\* The closing remove_file(sock): again whatever has the name by now.
Remove(d) ==
    /\ dpc[d] = "removing"
    /\ path' = [path EXCEPT ![Key(d)] = NoFile]
    /\ dpc' = [dpc EXCEPT ![d] = "closing"]
    /\ UNCHANGED <<exit, reply, backlog, crashes, overlap>> /\ StartUnchanged

\* The listener drops on return, and with it what was not accepted.
Close(d) ==
    /\ dpc[d] = "closing"
    /\ End(d, "expired")
    /\ UNCHANGED <<ask, clientVars, path, idleOut, memVars, crashes, overlap>>

\* Killed, out of memory, a panic in an evaluation, or an error returned from
\* the loop: the socket closes and its name stays.
Crash(d) ==
    /\ dpc[d] \notin {"none", "gone", "materializing"}
    /\ crashes < MaxCrashes /\ crashes' = crashes + 1
    /\ End(d, "failed")
    /\ UNCHANGED <<ask, clientVars, path, idleOut, memVars, overlap>>

DaemonStep(d) == \/ Materialize(d) \/ Bind(d) \/ Listen(d) \/ Probe(d) \/ Unlink(d)
                 \/ Rebind(d) \/ Accept(d) \/ Receive(d) \/ Run(d) \/ Expire(d)
                 \/ Remove(d) \/ Close(d)

-----------------------------------------------------------------------------
Next == \E p \in Clients : \/ ClientStep(p) \/ Stall(p) \/ Resume(p) \/ Kill(p)
                           \/ DaemonStep(p) \/ Tick(p) \/ Crash(p)

Spec == Init /\ [][Next]_vars

\* Processes that are not stalled or killed run, and the clock advances.
Fairness == \A p \in Clients : /\ WF_vars(ClientStep(p))
                               /\ WF_vars(DaemonStep(p))
                               /\ WF_vars(Tick(p))
LiveSpec == Spec /\ Fairness

-----------------------------------------------------------------------------
ClientStates == {"start", "spawn", "polling", "waiting", "lastTry",
                 "writing", "reading", "answered", "broken"}
DaemonStates == {"none", "materializing", "binding", "gone"} \union Starting \union Listening
ConnectionType == [by : Clients, probe : BOOLEAN]
FrameType == [kind : {"frame"}, status : {0, 1}, form : Forms,
              tool : SUBSET Clients, reading : SUBSET Clients,
              settings : SUBSET Clients]

\* Types of the state; a daemon holds a connection exactly while it reads or
\* runs its request, and does not exist before its client spawned it.
TypeOK ==
    /\ ask \in [Clients -> Requests]
    /\ cpc \in [Clients -> ClientStates]
    /\ reply \in [Clients -> {NoReply, Eof} \union FrameType]
    /\ stalled \subseteq Clients /\ killed \subseteq Clients /\ gone \subseteq Clients
    /\ path \in [Forms -> Clients \union {NoFile, Stale}]
    /\ dpc \in [Clients -> DaemonStates]
    /\ exit \in [Clients -> {"running", "deferred", "expired", "failed"}]
    /\ backlog \in [Clients -> Seq(ConnectionType)]
    /\ cur \in [Clients -> Clients \union {Nobody}]
    /\ idleOut \in [Clients -> BOOLEAN]
    /\ notes \in [Clients -> [tool : SUBSET Clients, reading : SUBSET Clients]]
    /\ settings \in [Clients -> SUBSET Clients]
    /\ crashes \in 0..MaxCrashes
    /\ overlap \subseteq Forms
    /\ \A d \in Clients : /\ cur[d] \in Clients <=> dpc[d] \in {"reading", "running"}
                          /\ cpc[d] \in {"start", "spawn"} => dpc[d] = "none"

\* A daemon that serves, or is about to, under a name that does not lead to it.
Orphan(d) == /\ dpc[d] \in Accepting \union {"bound", "removing"}
             /\ path[Key(d)] # d

\* The exclusive bind with its probe loses a socket only in a start race: as
\* long as no two daemons of a session were between bind and first accept at
\* the same time, every daemon that listens is the one its name leads to,
\* whatever crashes and expiries left behind.
OrphansNeedARace == \A d \in Clients : Orphan(d) => Key(d) \in overlap

\* What makes it so, inductively: outside a race a daemon that has bound the
\* name keeps it, at most one daemon is starting, and one that has seen its
\* probe refused is the only daemon there is.
NameInv ==
    \A d \in Clients : Key(d) \notin overlap =>
        /\ dpc[d] \in Accepting \union {"bound", "removing"} => path[Key(d)] = d
        /\ dpc[d] \in Starting => ~StartedBy(Key(d), d)
        /\ dpc[d] \in {"unlinking", "rebinding"} =>
             \A e \in Clients : Key(e) = Key(d) =>
                 dpc[e] \notin Accepting \union {"bound", "removing"}

\* A client is turned away without a framed reply only because a daemon
\* crashed, failed to start or expired, because two daemons of its session were
\* starting at a time, because the client itself stalled, or because its request
\* was over the frame limit: deferring daemons, stale sockets, other clients that
\* vanish and failing queries cost it nothing.
TurnedAwayForCause ==
    \A c \in Clients : cpc[c] = "broken" =>
        \/ crashes > 0 \/ Key(c) \in overlap
        \/ c \in gone \/ ask[c].fate = "rejected"
        \/ \E d \in Clients : dpc[d] = "closing" \/ exit[d] \in {"expired", "failed"}

\* A start fails without a crash only in a race for the name.
FailedStartNeedsARace ==
    \A d \in Clients : exit[d] = "failed" => crashes > 0 \/ Key(d) \in overlap

\* A reply carries the form its client asked for and the tool's diagnostics of
\* that client's own run, none of an earlier client's, succeeding or not.  What
\* it can carry of other clients are the notes of readings in runs that ended
\* in an error, and the settings of clients that ran `session(...)` before.
AnswersAreOwn ==
    \A c \in Clients : reply[c].kind = "frame" =>
        /\ reply[c].form = ask[c].form
        /\ reply[c].tool \subseteq {c}
        /\ \A e \in reply[c].reading : e # c => ask[e].fate = "refuses" /\ ask[e].notes
        /\ \A e \in reply[c].settings : e # c /\ ask[e].sets

\* Every client comes to an end: a reply, a failure, or its own stall.
EveryClientEnds == \A c \in Clients : <>(Ended(c) \/ c \in stalled)

\* "A stalled client must not hang the serial loop past the TTL's reach":
\* every daemon is gone in the end, the unreachable ones included.
EveryDaemonEnds == <>[](\A d \in Clients : dpc[d] \in {"none", "gone"})

(***************************************************************************)
(* What comments of the code say of it, and a run of the model refutes.    *)
(***************************************************************************)

\* "defer to it and exit, instead of unbinding it and idling as an unreachable
\* copy of the (possibly huge) materialization": no daemon serves unreachable.
NoUnreachableCopy == \A d \in Clients : ~Orphan(d)
=============================================================================
