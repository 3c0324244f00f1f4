# Verification of quarb-rs

TLA+ models of the parts of quarb-rs whose correctness depends on the order in
which things happen, the TLC runs that check them on small instances, and
TLAPS proofs of the facts that matter for every instance. Every definition is
translated from the source; `PROJECT.json` maps each to its lines.

quarb-rs is a query engine over *arbors* (trees with links between nodes) and
some hundred crates around it. A query is parsed (`quarb/src/syntax`), planned
and executed step by step over an *adapter* (`quarb/src/graph`), and its
results pass through a pipeline of value commands. Adapters read files,
databases, services, source code and mail; `qua`, `qm`, `quai`, two language
servers and bindings put the engine to use.

## Inventory

Per component: the state it keeps, its operations, what makes it hard, what
makes it correct.

| component | state | operations | hard | correct when | status |
|---|---|---|---|---|---|
| resident sessions (`qua/src/lib.rs`) | the Unix socket's name, the daemon's materialized arbor, its session memory, thread-local diagnostics | connect, spawn and poll, bind/probe/unlink, serve, expire | processes racing for one name; two system calls between bind and listen; expiry against a connecting client; state left by one query for the next | one reachable daemon per session; a client gets its own answer; everybody ends | modelled: `Resident` |
| Wikipedia ingest (`quarb-web/src/ingest.rs`) | bounded channels, workers, category numbering, rows | read, feed, lower, write, close | two channels that face each other; results in any order; faults in each thread; duplicate and renamed records | no line lost or doubled, no deadlock, one consistent row per identifier | modelled: `Ingest` |
| quantified groups (`quarb/src/graph/steps.rs`) | frontier of paths, spent or settled positions, matches, promise | a round, a hop, the end of a round, the settling of the lightest, the reach | four ways to expand one query; bounds that must refuse and never cut; a promise judged from the data; weights that end a walk or refuse it | every form that answers gives the answer of its definition | modelled: `Walk` (without recording walks and nested groups; budgets over single hops) |
| other steps of the executor, plan, navigation, operands | the thread stream | axes, tests, predicates, captures | memos of paths and predicates inside a run; fan-out and correlation | the memoised result is the result | planned |
| query language, values, pipeline, command library | none | pure functions | grammar and data | equality with a definition only the code has | not modelled |
| serve protocol (`quarb-serve`) | the child, the negotiated wire format, a cache of replies | hello, switch of format, request, reply | the switch is acknowledged in the old format; a response does not name its request; a cached reply outlives the child's state; the child can end at any moment | each request gets its own reply, in a format both sides speak | modelled: `ServePromise`, `Serve` (without the encoding of single values) |
| session (`quarb-session`, `quai`) | macro history and numbers, answers, a file shared by sessions, what is mounted | ask, replay, re-read, define, reset, seed, save, remount, follow a reference, a model cell | a save that is not atomic; two sessions on one file; steps that fail halfway; an answer that belongs to another line | `&N` means what it was told to mean; a restart resumes what was told; a refused step changes nothing | modelled: `Session`, `SessionStore`, `Quai` (without a notebook over a daemon) |
| mounts (`quarb-mount`) | table of mounts, node ids with the mount in the high byte | push, declare, open on first reach, forward, whole listings | a latent mount that fails to open, or opens after the engine told the others something; aliases of the root | ids lead back to their mount and node; the tree agrees with itself | modelled: `Mount` (without values and links) |
| composition (`quarb-compose`) | grafts, memo of probes, intern table | probe, read as a notation, intern, forward | a document's root is the leaf itself; a reading is remembered, one of nothing too | one id per node for good; a leaf reads as it was asked to, in any order | modelled: `Compose` (without archives inside leaves) |
| syntax-tree cache (`quarb-tree-sitter/src/ast_cache.rs`) | files on disk | load, store | writers racing with readers and with ends of processes; builds that share a directory; damage | what is loaded is what that grammar makes of that content | modelled: `AstCache` |
| language servers | open documents, published diagnostics | didOpen, didChange, requests | answers for a document that has changed | an answer is about the last text received | planned |
| model files (`quarb-model`) | declarations, derived links | derive, promise | rules that feed each other | the promise that `Walk` reads | external to `Walk` |
| relational adapters | catalog, row caches | read, key lookup, page | caches of rows and keys | cached rows are the table's | planned after the above |
| openers (`quarb-open`) | registries, notes of readings | open a target | notes kept per thread | notes go to the query that raised them | in `Resident` |
| log, service, document, graph, mail, file, format, text, code adapters, importers, time, libraries, bindings | snapshots in memory | decode, translate | formats and external services | equality with a format's definition | not modelled: pure decoding or input and output |

Components interact by calls: a tool opens targets (`quarb-open`), wraps the
adapters (`quarb-mount`, `quarb-compose`, `quarb-model`), and hands the result
to the executor, which calls back into the adapter at every step. Processes
interact in three places: a client and its daemon (`Resident`), a parent and
its served child (`quarb-serve`), an editor and a language server. Threads
interact in one: the ingest (`Ingest`). State outlives a query in the resident
daemon, in the session, in the syntax-tree cache and in the adapters' memos.
Disks are shared in two: the session's file (`SessionStore`) and the
syntax-tree cache (`AstCache`), neither of which has a lock.

`PROJECT.json` lists under `hazards` what of this is hard to test, at its line.

## Modules

### Resident (`Resident.tla`, `MCResident.tla`, `ResidentProofs.tla`)

Clients run `resident_client` and `spawn_resident`; a daemon is named by the
client that spawned it and runs `resident_serve_loop`. `path` is the directory
entry of the socket of each session: nothing, a stale socket, or a daemon's.
`Key` is what `resident_socket` hashes of a client's flags; `dpc` walks a
daemon through materializing, `bind`, `listen`, the probe of a taken name,
`unlink` and the second `bind`, serving, and the removal of the name and the
closing of the listener at its end. `backlog` is the kernel's queue of
connections. `notes` and `settings` are what a run leaves in the daemon's
thread; `Run` raises and takes them as `run_wrapped` and `report_diagnostics`
do. `Stall`, `Resume`, `Kill` and `Crash` are the environment's.
The query itself is one step with an outcome (`fate`).

| run | question | instance |
|---|---|---|
| `resident_sessions` | when can a daemon lose its name, when does a start fail, whose answer does a client get, when is it turned away | 2 clients, all pairs of 5 requests over 2 sessions, a stale socket or none, one crash, one stall or kill |
| `resident_liveness` | do clients and daemons end | 2 clients, one crash, one stall |
| `resident_unreachable` | what a comment of the code says and the model refutes (see Findings) | 2 clients |

Two daemons make every race for the name, and two clients every pair of a query
and the one behind it. A third client matters once: it can defer to a daemon whose
name another start is about to remove, and is turned away, which is why
`TurnedAwayForCause` names the race; the theorems hold for any number. Each client asks
once: a second query of a process is another client.
The runs set `CHECK_DEADLOCK FALSE`: when all clients have ended and all
daemons are gone nothing happens any more. Fairness (`LiveSpec`) is weak, per
process step and for the clock: the operating system runs a process that can
run, `accept` polls with a sleep, and the idle time passes. A stall is not
obliged to end, a crash not to happen.

### Ingest (`Ingest.tla`, `MCIngest.tla`, `IngestProofs.tla`)

`wikipedia` with the reader thread of `lines_of`, the workers of its thread
scope and the main thread's loop (`OpenFile`, `Take`, `Send`, `ReceiveDone`,
`Handle...`, `Drained`, `Join`, `WriteCategories`). A line is named by its
place in the dump and stands for a page, a category or a record without the
fields a row needs. `catIds`, `catRows` and `minted` are `cat_ids`, `cat_rows`
and `next_cat`; `rows` and `terms` are what reached the sink; `skipped` and
`replaced` account for the rest. Faults are a file that does not open, a line
that does not read, a sink that refuses and a panic in a worker.

| run | question | instance |
|---|---|---|
| `ingest_all` | is the finished store complete, consistent and accounted for, whatever the order of results; does a send ever block; do the threads end | 2 files, 7 records in all and a limit of 6, 3 workers, 1 slot for each and for the reader, up to 3 faults |
| `ingest_renamed` | one row per renamed category page (refuted) | 1 worker |

The code has 4 slots per worker and 1024 for the reader; one slot makes the
channels full sooner and leaves out nothing, and `NoSendBlocks` is proved for
any number. Three workers bring the results of three racing records in every
order. The run sets `CHECK_DEADLOCK FALSE`: after a panic in a worker the main
thread really waits for ever, which is why `Ends` excepts a panic; that nothing
else stops the run is what `Ends` says. Pages and categories are numbered
apart, as a wiki numbers its pages over all namespaces
(`NumberingAssumption`): a page with a category's number would be two rows
of one id. Fairness is weak for
every thread's step, as threads are scheduled; no fault is ever obliged to
happen.

### Walk (`Walk.tla`, `MCWalk.tla`, `WalkProofs.tla`, `WalkCompleteProofs.tla`)

One call of `expand_group`: `Entry` (the bounds and the anchor's own match),
`Round` (every path into every alternative), `Hop` (`expand_elems`, with the
refusal of a return under a promise and of an edge that weighs twice or less
than nothing), `EndRound` (the promise read from the edges, one path per key or
the merge by position, the one path per node of a set walk, the bounds, the
matches) and `Reach` (all, proximal, distal, and the heaviest under a budget).
The lightest walks have a loop of their own in the code and here: `Settle` takes
the least total of the pending paths, `Pend` adds what a hop from it reached,
`Settled` ends it. A path is its node, the set of nodes it blocks, its last edge
and its total, as in `GPath`; `KeyOf` is what `dedup_paths` compares, which leaves
the total out. Which of several paths at one node or of one key is kept depends
on the adapter's order and is a choice. Weights are integers where the code has
floating-point sums of a quantity, and a budgeted group is considered over
single hops alone (`InputsAssumption`).

The reference is stated apart from the walk: `Walks[k]` are the acyclic walks of
the graph that the group matches in `k` rounds and the budget affords, `Reached`
the rounds the reach asks for, `TotalOf` the weight of a route.
`CompleteOrRefused` and `LightestAnswered` compare the two.

| run | question | instance |
|---|---|---|
| `walk_forms` | is every form's answer the definition's, and every refusal's cause in the data; does merging under a promise change an answer; is a cycle ever answered silently; are the lightest walks the lightest; does the walk end | every graph of 4 nodes under 108 groups; 5 nodes, the subsets of 9 links of a promised label with one of 3 sets of links of another (crossed in the first round, later, or after a meeting) under 54 groups; 5 nodes, the subsets of 7 weighed links, alone, with a link back of negative weight, or with one that does not weigh, weighs twice or less than nothing, under 27 budgeted groups; quantifier bound 3, frontier bound 4 |
| `walk_two_hops`, `walk_lapsed` | what comments say and the model refutes (see Findings) | 4 nodes, 6 nodes |

Five nodes hold walks of four hops, above the quantifier bound of three, and more
than four routes, above the frontier bound, so that refusals happen, and two
routes that meet before a last edge. A link that leads to the anchor is left out
of the first family, where no promise is made: a walk never takes it. The families
share a run and not their groups (`Asked`). `Ends` assumes weak fairness of the
walk's own step: it is a loop of one thread.

`CompleteOrRefused` is stated for the walks for which the code's claim holds. Left
out are the walks by node over several hops or with a predicate on the edge
(`walk_two_hops`, and the first arrival that keeps its edge); the budgeted walks of
which two differ in their totals alone (`TotalsAgree`); and the merging walks whose
promise lapses after histories of different nodes were united (`walk_lapsed`):
`alive` is the code's own flag that it never lapsed, and `MergesTell` says of the
graph that the merges unite nothing. `LightestAnswered` excepts groups with a floor or
a predicate on the edge, graphs with walks longer than the quantifier bound, and walks
over an edge of negative weight (see Findings). `RefusedForCause` counts paths against
walks where a path has a walk of its own: merged histories of several hops are left out,
since a merge in the middle of an alternative can outlive the walks it is of.

### Serve (`ServePromise.tla`, `Serve.tla`, `MCServe.tla`, `ServeProofs.tla`)

`Serve` has both ends of the pipe. The asking side is `ServeAdapter`: `cpc`
follows `spawn` (`SayHello`, `SayFormat`) and then `call` (`Ask`, `Recall`,
`SayCall`, `Read`), with the errors of each as `Error`: a refusal in the
handshake, an empty answer afterwards, as `call_ok` has it. The tool is the loop
of `serve` (`Receive`, `AnswerHello`, `AnswerFormat`, `AnswerAsk`). `requests` and
`responses` are the two pipes; a message is the wire it was written on and its
fields, and reads as `Bad` on the other wire. The tool can end between two
steps (`Crash`) or in the middle of a message (`Tear`), where `Torn` is what
`read_msg` makes of the half: no message on the JSON wire, possibly a message
with fewer fields on the daiv wire. What a tool supports and what the asking
side understands are inputs, which covers the old and foreign peers the
protocol's documentation speaks of; `sigpipe` is the disposition the process of
the asking side has set (a one-shot `qua` restores the default, the resident
daemon ignores the signal).

`ServePromise` is what a served source promises the engine: it knows neither
pipes nor wires, handshake or cache, only questions, the versions of the
source's data, and the answer each question was given. `KeepsPromise` is the
refinement, with `phase`, `pending` and `lost` computed from the state (`Phase`,
the question in hand, `~alive`).

| run | question | instance |
|---|---|---|
| `serve_session` | do the sides stay on one wire; is the promise kept; does every call return | 2 questions, tools of 6 kinds, asking sides of 3, 2 edits of the data, an end of the tool at any moment |

Two questions are enough to give one the other's answer, two edits to tell the
version at the call from an earlier and a later one; questions are asked without
bound. Fairness is weak for the two processes as wholes (`Asking`, `Serving`):
each is one thread that goes on while it can. That a tool answers what it has
read is an assumption, since the code has no timeout; that it lives is not.

### Session, SessionStore, Quai (`MCQuai.tla`, `SessionProofs.tla`)

`Session` is the session object as a value: the table of definitions, the number
the next line takes and the answers given. A text is a model value, of which the
module keeps the one thing the code asks of it: what it uses and whether it can
be the body of a macro. `WellFormed` is what `parse_defs` refuses; `Committed`,
`Replayed`, `Extended`, `Seeded` and `Cleared` are the operations' results.

`SessionStore` is `quai --daemon`: processes that keep their table and number in
the one file their sources name. A save empties the file (`Persist`) and then
writes it (`Write`); a full disk or the end of the process in between leaves it
empty or cut (`WriteCut`, `Crash`), and a longer text that another session wrote
between the two steps keeps its tail (`Overlaid`). `Start` reads the file, `Seed`
puts a library in the place of the table.

`Quai` adds the session in the process, at the prompt or over a notebook, which
saves nothing and remounts its sources: `MountHere`, `ModelCell`, and `Fetch` for
the references a line met (`follow_refs`). `ctx` is what the next mount will be
built from, `built` what is mounted, `exec` whose references and diagnostics
the executor holds. `stray` names what a refused step is known to leave, so that
`ContextMounted` says that nothing else does.

| run | question | instance |
|---|---|---|
| `quai_session` | does a label keep its meaning, a restart the history, a number its line; is a refused step undone; does a line follow its own references and print its own diagnostics; do a notebook's numbers agree | 2 processes over one file, 3 starts, 1 cut save or kill; or one session in the process with 3 sources, 2 mounts, 2 pages, 2 rounds of `:follow`, 1 merged model cell, 1 refused definition; 2 numbered lines, 3 texts, 1 name |

Two lines are enough for one to use the other and for a number to be given
twice; three starts for a session to follow two others; one fault because each
property names a fault as a cause and says nothing behind it. Processes are
symmetric. The run sets `CHECK_DEADLOCK FALSE`: when the bounds on starts and
lines are spent nothing happens any more. Nothing is obliged to happen here, so
no liveness is stated.

### AstCache (`AstCache.tla`, `MCAstCache.tla`, `AstCacheProofs.tla`)

A process that parses goes through `load` (`Hit`, `Miss`), `parse_raw` (`Parse`)
and `store` (`Write` to a temporary file, `Rename`, or `GiveUp`). A file holds an
image: the header (`grammar`, `content`, `length`) and one record per node, the
differences that `encode` writes and `decode` sums up again (`Record`,
`Summed`). The path has eight digits of the grammar's digest, so that two builds
can share one (`Directory`). Processes end at any step and come back as another
build (`Restart`); the disk removes, cuts short and misplaces whole files
(`Fault`). Bytes, checksums and the numbering of names are not modelled: a file
cut short is `Torn`, which its checksum refuses.

| run | question | instance |
|---|---|---|
| `ast_cache` | is caching transparent; is only an own entry accepted; who can leave a torn file; is what was stored found | 2 builds with one directory, 2 texts, 10 trees, 2 processes, 1 fault |

The trees hold every shape the encoding tells apart: a parent further up, a node
that begins with its predecessor or before it, one without a name in the tables.
A parse is a sequence of steps that wait for nobody, so no liveness is stated.

### Compose, Mount (`MCMount.tla`, `MountProofs.tla`)

`Compose` is one source under its composing layer, as operators: of a layer, the
layer after a question and the ids that answer it. A layer is the documents read
(`grafts`), the leaves tried (`probed`) and the intern table (`table`); `Probe`
is `graft_probe`, `GraftAs` the reading a hop `<NOTATION>` asks for, `Show` the
answer with nodes of a document, the document's root being the leaf.
`Mount` is the table over such layers: `Push` and `Declare`, the questions that
reach a mount and open it (`ListRoot`, `HopByName`, `Children`), those that do
not (`Touch`, `Test`, `Follow`, `Fetch`), texts grafted on demand and
`WholeListings`. A query is the questions up to `EndQuery`; `refusals` are the
openers that failed in it. What a text is as a document, and which notations a
leaf parses as, are inputs (`Doc`, `parses`).

| run | question | instance |
|---|---|---|
| `mount_tables` | does an id stand for one node, and for good; do parents and children agree; does what a leaf shows depend on the order of the questions | tables of up to 2 of 5 sources (a leaf that is declared, one that says what it is, a database of two leaves grafted on demand alone with a narrowed listing, a source whose host reads its leaf and that serves references, one that does not open), each declared or opened before; 2 notations, 1 text, 2 tests of leaves, 2 ids interned |

Two mounts are enough for one to be latent when the other was asked or told; two
ids for the second to be dealt after the first was handed out, and for a
document below a leaf to have a node with a child; two tests to name two
notations of one leaf, before or after it was touched. The proofs are for any
number of each. A table can be asked again for ever, so the run checks deadlock;
nothing is obliged to happen, so no liveness is stated. Values, links between
documents, archives in leaves and the read-ahead calls are left out: they read
through the same ids and change no table.

## Proofs

All eight proof modules are checked by TLAPS with no step left out.

* `ResidentProofs`: `TypeCorrect`, and `OrphansOnlyInARace` (`Spec =>
  []OrphansNeedARace`) by the invariant `NameInv`. A socket that leads nowhere
  is the end of a chain: the name was unlinked after a refused probe, by a
  daemon that was starting while another was. So `NameInv` says, of a session
  in which no two daemons were starting at once: a daemon that has bound the
  name has it; one that is starting is the only one; one that has seen its
  probe refused is the only daemon there is. `OrphansNeedARace` alone is not
  inductive, since it says nothing of a daemon about to unlink.
  `FailedStartsOnlyInARace` (`Spec => []FailedStartNeedsARace`) adds `RebindInv`:
  without a crash, a daemon between its `unlink` and its second `bind` is alone
  or the name is free, unless two were starting at once.
  `AnswersOwn` (`Spec => []AnswersAreOwn`) goes by `HeldInv`, that a client has one
  connection, to a daemon of its session, open until the reply, so that the form
  is right and nobody is answered twice; and `MemoryInv`, what a daemon has in
  memory between two runs. `TurnedAwayOnlyForCause` (`Spec =>
  []TurnedAwayForCause`) adds `TurnInv`: a daemon that deferred left the name to
  one that listens, for as long as none crashes, expires or races for it; a
  connection that ends without a frame has a cause; a frame comes to a client
  that has sent its request.
  Assumed: the requests are requests, the names of "nothing" and "stale" are
  no clients'.
* `IngestProofs`: `FlightCorrect` and `NoSendBlocks` (`Spec =>
  []SendsNeverBlock`) by `FlightInv`: the lines in the line channel, in the
  workers' hands and in the result channel are counted in `in_flight`, which is
  within the slots. Each channel has that many slots, and a thread about to
  send holds one of the lines counted. `OneRowEach`, `SkipsHaveCause`, `LaterWins`
  and `TypeCorrect` go by `StoreInv`: a line goes to the workers only when it has
  no fields or the base URL is known (`Carrying`); an id of a category is a
  record's own or minted above the base, and as many titles have a minted one as
  were minted (`Numbering`, with the lemma `Naming` about `NameAll`); the record
  kept for an id is the latest of those met, and its parents have ids
  (`Keeping`); until the end the rows are the pages', one per id, and the terms
  lead from them to named categories (`Written`). `StoreConsistent` speaks of
  the end alone and is not inductive. Assumed: a finite, non-empty set of
  workers, finitely many titles, at least one slot, and pages numbered apart
  from categories.
  `NoLineLost` (`Spec => []EveryLineLands`) goes by `AccountInv`, which uses the two
  invariants before it. The property speaks of the end and says nothing on the way, so
  the invariant follows each line: it is at one place of those it passes through, and
  has passed there only when it was taken (`Apart`); the threads end with nothing under
  way unless something went wrong (`Closing`); and the lines written, skipped, replaced
  or kept for a category, with those in flight, are as many as were sent (`Counted`). At
  the end nothing is in flight, so what came to rest is what was sent.
* `WalkProofs`: `TypeCorrect`; `WalkEnds` (`Spec => []RoundsBounded`) by
  `MeasureInv`: outside a set walk every path of round `k` covers at least
  `k + 1` nodes, and in a set walk every round spends a position, so the bound is
  the number of nodes, whatever the quantifier bound; `LightestFirst` (`Spec =>
  []SettledInOrder`) by `OrderInv`: the loop takes a least total and a hop that is
  not refused adds no less than nothing; `MarkersAnswerOnce` (`Spec =>
  []EquidistantOnce`) by `OnceInv`: the lightest walks match a node only when it
  is settled, and a budgeted walk by rounds takes one hop in each, so that one
  path is not matched in two rounds. Its last part is what the walks of a graph are
  (`OnwardIs`, `LegOn`, `OneHop`): `Walks` is a recursive function over the rounds, and
  a hop of the code is one edge of a walk's last leg.
* `WalkCompleteProofs`: that every form of the walk answers what `Walks` defines. Each
  way of expanding a group has an invariant of its own.
  - `WaveInv`, for exact walks and those merged by position: at round `k` the paths are
    those of `Walks[k]`, each with the ground that the promise lets it carry (`Paths`),
    within a round those of the walks and so many hops of an alternative (`Flying`,
    `Landed`), and the matches those of the rounds so far. No return was met while the
    promise was in force (`NoReturn`), which is why a united ground blocks nothing a
    walk's own ground would not. It gives `EveryGroundAnswered` (`Spec =>
    []GroundsAnswered`) and the exact half of `NoCycleAnswered` (`Spec =>
    []CyclesRefused`).
  - `SpreadInv`, for walks by node: whatever is seen and no longer held has been
    followed (`Followed`), over every alternative, so that with an empty frontier what
    is seen is closed under the group's hops. It gives the other half.
  - `LevelInv`, for walks by node over single hops: what has been seen by round `k` is
    what some walk of at most `k` rounds reaches, and the least such rounds are the
    matches'. With `WaveInv` it gives `NothingMissed` (`Spec => []CompleteOrRefused`).
  - `StandInv`, whatever the form but that by node: a path held is backed, for each node it
    blocks, by a walk that stands where it does and has visited that node, by promised
    edges alone while the promise is alive; and over single hops each merged path has a walk
    of its own (`Owned`). A refusal then names a walk: `EveryRefusalHasCause` (`Spec =>
    []RefusedForCause`), where a count of paths is bounded by a count of walks.
  - `LightInv`, for the lightest walks: the nodes spent are opened (`Opened`), which is
    that for each hop of a walk from one of them to a node not spent a path no heavier is
    pending there; so the least pending path is no heavier than any walk to its node
    (`Crossing`, `Taking`), and the walk to it takes every hop another would (`Reopens`,
    `Opens`). It gives `LightestByLeastTotal` (`Spec => []LightestAnswered`).
  None of the properties is inductive: each speaks of the end of a walk alone. The
  inductions over rounds, hops and the edges of a walk are inductions over a set of
  numbers (the lemma `Naturally`), the recursions are functions on an interval, and
  what a fold over a route computes is read off its defining equation (`TotalOn`).
  Assumed of both modules: finitely many nodes, finite graphs, a list of integer weights
  for every label, single hops under a budget, and that "none" is no cause of a refusal.
* `ServeProofs`: `StepCorrect`, `WiresCorrect` and `TypeCorrect` (`Spec =>
  []InStep`, `[]WiresAgree`, `[]TypeOK`), and the refinement `PromiseKept` (`Spec
  => KeepsPromise`), all by `SessionInv`. None of them is inductive: that a
  response is read in the state it belongs to needs that what is under way is
  the question in hand or a reply of its own (`FlightInv`), that both sides agree
  on the rendering and, while the tool lives, on the wire (`SettledInv`), and
  that the answer kept is the one told (`KeptInv`). Initial states map to
  initial states, and each action to one of the promise's or to a stutter (the
  tool's steps and the writes). Assumed: the inputs are of their kinds, and the
  names of "none", "nothing" and "bad" are no messages.
* `SessionProofs`: `TypeCorrect`, `LabelsStayTold`, `TablesStayWhole`, `HistoryStays`
  and `NumbersStayFresh`, for any number of processes, texts and faults.
  `LabelsHold` is inductive with the types (`LabelsInv`): a table only grows, and
  is read as a whole before it does. The other three go by `SafeInv`, which
  says the same of the file and of the sessions together: while nothing was lost
  there is one session at most, the file is its image but for the moment of a
  save, and told lines and numbers are in the session while it runs and in the
  file when none does. Then `Quai`: `DaemonKeepsSessions` (`QuaiSpec => Spec`) maps each
  of its steps to one of the store's or a stutter, which carries the four theorems over
  (`DaemonSessionsHold`). What the session in the process adds goes by `QuaiInv`: the
  table can be read (`HereStaysReadable`); the line under way answers its own text, has a number to
  take, and has in the executor what it brought itself (`UnderWay`); what users were told
  of is below the next number, and resolves while the table was not replaced
  (`Claimed`); with `ContextMounted` and `CellsNumbered`, which
  are inductive together with it. `AnswersStayOwn`, `ContextStaysMounted` and
  `CellsStayNumbered` follow, and the action properties `PagesFetchedForCause` and
  `NotesStayOwn`. Assumed: what the module assumes of its texts and sources.
* `AstCacheProofs`: `CachingIsTransparent`, `AcceptedAreOwn`, `StoredAreFound`,
  `WritersTearNothing` and `TypeCorrect`, by `CacheInv`: a file is an image of what
  a grammar makes of a content, or damage, and a process that has nodes has its
  own. The round trip of `Record` and `Decoded` is proved for every tree without
  induction over data, by the least index at which two sums could differ.
  Assumed: a parser returns each node after its parent and inside its text.
* `MountProofs`: `OneIdEach`, `IdsAreKept`, `ReadAsItWasAsked` and `TypeCorrect`, by
  `Invariance`. Its invariant has two parts for each layer: the intern table has
  no entry twice, each of them a node of a document, and a document stands at the
  leaf that remembers it or at its own id (`LayerOK`); and what a leaf shows
  follows from itself and the hops recorded (`LayerReads`). Ids keep their
  meaning because every question's layer goes on from the one before (`Grows`).
  The properties compare meanings of ids and say nothing of the tables behind
  them, so none is inductive alone. `UpUndoesDown` (`Spec => []TreeAgrees`) adds
  `TreeInv`: a source grafted on demand alone holds no other document, and a mount that
  was declared lists whole tables once the engine asked for them (`TableSteady`); then,
  case by case of what stands above a node (the
  stand-in root, the root, a leaf's document, another node of it), its parent's listing
  has it and no other's. Assumed: the leaves of a source are numbered
  below the graft bit, documents are finite and their root is no child, a host's
  reading is a reading (`SourceAssumption`, `DocAssumption`, `GraftAssumption`,
  `ReadingsAssumption`), and a node of a document has one parent (`TreeAssumption`:
  readers build each node under the one that lists it).

Only model-checked: the liveness properties (`Ends`, `EveryClientEnds`,
`EveryDaemonEnds`, `CallsReturn`), which rest on fairness and are out of the
prover's reach; `WalkEnds` bounds the rounds that the first of them waits for. Every
other property of a passing run is a theorem. Type invariants and the inductive
invariants' parts that are proved (`InStep`, `RoundsBounded`, `TypeOK`) are not
repeated in the runs.

## Findings

Four disagreements between a comment of the code and what the code does are
recorded in `PROJECT.json`, each with the run in which TLC finds it:

* `resident_unreachable`: two daemons starting together, one unlinks the name
  the other has just bound; the other then serves unreachable.
* `ingest_renamed`: a renamed category page whose old name was mentioned first
  gets two ids and two rows.
* `walk_two_hops`: `(->e->e)+` by node answers a node no acyclic walk reaches.
* `walk_lapsed`: histories united under the promise stay united when it lapses, and a
  later hop to a node that only one of them had visited is dropped for both.

The passing runs state what holds in their stead (`OrphansNeedARace`,
`AnswersAreOwn`, `LaterModificationWins`, `CompleteOrRefused`). Met on the way,
and within what the passing properties allow:

* A client that connects while its daemon expires gets end of file and no
  second attempt (a cause in `TurnedAwayForCause`). So does the client of a third
  daemon that deferred to the winner of a start race whose name the loser then
  unlinks: its last attempt finds no socket.
* The session key leaves out `--graph-bound` (`qua/src/lib.rs:1329`).
* The notes of a query that ended in an error ride the next client's reply
  (`AnswersAreOwn` says exactly whose notes a reply can carry).
* A query's `session(...)` changes the settings of the session's later clients
  (allowed in `AnswersAreOwn`).
* A walk by node keeps the first arrival at a position with its edge, before a
  predicate on the edge is asked (excepted in `CompleteOrRefused`).
* Two acyclic walks over the same nodes in another order with one last edge are
  one thread (`GroundsAnswered` says so).
* A walk by node meets only the cycles through its anchor (`CyclesRefused`).
* With a wildcard hop, a cycle that an unpromised link closes is refused in the
  name of the promise of the links before it (allowed in `RefusedForCause` where the
  group names other than promised links).
* The loop of the lightest walks ends silently on the count of hops and on that of
  rounds (`steps.rs:966` and `988`), where the loop by rounds refuses; and it
  settles a node at its least total before the floor or a predicate is asked, so
  that a heavier walk that passes them is not found (premises of
  `LightestAnswered`).
* The same loop refuses a negative weight on a hop it takes, and it takes none back to
  a node that the settled path blocks. A walk to that path's end by another way could
  take it, and come to the blocked node with less than the total it was settled at:
  the answer is then above the least total, and no refusal says so, while
  `steps.rs:940-944` says that a negative weight refuses (a premise of
  `LightestAnswered`; the graphs with a link back of negative weight have such walks).
* Of two walks over the same nodes to the same last edge one is kept, though they
  may weigh differently (the key at `steps.rs:534` leaves the weight out): a floor
  between their totals is met or not by the adapter's order, where the comments at
  `steps.rs:771` and `829-831` speak of an exact walk (excepted in
  `CompleteOrRefused`).
* A leaf whose declared notation is tested first under another that it does not
  parse as is remembered as nothing (`quarb-compose/src/lib.rs:862-870`), and its
  declared document does not show until a hop names it (the exception in
  `ReadsAsAsked`).
* Over a source grafted on demand alone, a leaf passes the test of its notation and
  still lists no children.
* A mount pushed after the engine asked for whole listings is never told
  (`quarb-mount/src/lib.rs:912`; excepted in `TreeAgrees`).
* The stand-in root of a declared mount and the root its source has are two ids
  for one node (`ROOT_ALIAS`; `OneIdPerNode` speaks of the ids inside a mount).
* A reference is looked for in the open mounts alone (`quarb-mount/src/lib.rs:751`):
  what a latent one would serve is not found until something else opens it.
* A mount that does not open refuses the query that met it; from the next query on
  it stands empty and silent (`quarb-mount/src/lib.rs:291-294`).
* A seeded library takes the place of the restored history (`session.rs:94`) and
  is saved, where `store.rs:34-37` speaks of restoring the `&N` history (the cause
  "seed" in `HistoryResumes`).
* The history file is written in place and the error dropped (`store.rs:87`); two
  sessions over one source overwrite each other's (causes "cut" and "race").
* After a restart `&N#` has no answer to replay; the answers are not saved.
* A model cell that names an environment leaves the mounts before it in the list,
  one that cannot be built leaves its declarations, and a page that does not
  parse stays in the list of pages, so that every later remount fails (`stray`).
* `&N!` runs outside the executor (`local.rs:219`): the references followed and the
  diagnostics printed behind it are those of the run before.
* A definition that a notebook's cell gets refused takes no number, while every
  other failed cell does (`undone` in `CellsNumbered`).
* A served frame's numbers are read as signed 64-bit integers while node ids are
  unsigned (`quarb-serve/src/lib.rs:326`): an id of the upper half becomes null on
  this wire alone. The encoding of single values is not modelled.
* A served tool that ends while it writes a frame leaves the beginning of it,
  which `read_msg` decodes at the end of the stream as a message; `call` keeps it
  as the answer for the rest of the session (`Tear`; allowed in
  `ServePromise!Tell`).
* Writing to a served tool that has ended kills a one-shot `qua`, whose signal is
  the default (`qua/src/lib.rs:747`); in the resident daemon every question not
  kept gets an empty answer from then on.

## Plan

Done, in this order: `Resident`, `Ingest`, `Walk` and `Serve`, since processes,
threads, the one algorithm with several implementations and a protocol between
two programs are where tests reach least; then the two places where processes
share a disk, `Session` with its store and prompt and `AstCache`; then the budgets
of `Walk`; then `Compose` and `Mount`, the ids that every multi-source query
rests on. Left:

1. `LanguageServer`: documents, versions and published diagnostics. Both servers
   are loops of one thread over a map of texts, so that order alone matters.
2. `ScopeMemo`: the executor's memos, against evaluation without them.
3. Walks that record (pushes and marks) and groups inside groups; budgets over
   several hops.
4. The key and page caches of the relational adapters, against the table.

Theorems planned: with each of these, that the memoised, recorded or cached result is
the one without.

## Not modelled, and why

Grammar, values, text lowering, decoders and importers are pure functions of
large data: nothing in them depends on an order, and a model would repeat the
code. Adapters of external services are input and output around such decoders.
Numerical libraries compute in floating point, which TLC does not.
