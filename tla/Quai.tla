-------------------------------- MODULE Quai --------------------------------
(***************************************************************************)
(* quai (quai/src/main.rs): a session at the prompt or over a notebook     *)
(* (--run), in the process, or one of several over a daemon, which         *)
(* SessionStore models.  In the process nothing is saved; the sources are  *)
(* mounted by the program itself, which remounts them under the session:   *)
(* for :mount, for a model cell, and to follow the references that a line  *)
(* met and nothing mounted answers.                                        *)
(***************************************************************************)
EXTENDS SessionStore

CONSTANTS Sources,    \* what can be mounted, each under a name of its own
          Bare,       \* a source given as a path: alone, it is the root
          Schemed,    \* the sources that are not files
          PageNames,  \* those whose name is the one page1 would take
          Moved,      \* the text of a line once its path opens with a mount's name
          CellDefs,   \* the definitions that a model cell can hold
          MaxSpecs,   \* bound: sources mounted
          MaxPages,   \* bound: pages fetched
          MaxDepth,   \* bound: rounds of :follow
          MaxModel,   \* bound: model cells that are merged
          MaxUndone   \* bound: definitions of a notebook that are refused

ASSUME SourcesAssumption == /\ Bare \in Sources /\ Schemed \subseteq Sources \ {Bare}
                            /\ PageNames \subseteq Sources /\ Moved \in [Texts -> Texts]
                            /\ CellDefs \subseteq Seq(Definitions)

VARIABLES mode,    \* how quai was started
          ctx,     \* what the next mount will be built from
          depth,   \* the rounds of :follow
          built,   \* what the executor was built from
          exec,    \* whether its last run met references, and whether that was the line's
          here,    \* the session
          under,   \* the line under way
          claims,  \* history: the lines users were told they can refer to
          stray,   \* history: what a refused step left in ctx, or took from the table
          cells,   \* history: cells of the notebook run
          undone   \* history: those that took no number

local == <<ctx, depth, built, exec, here, under, claims, stray, cells, undone>>
allVars == <<vars, mode, local>>
mounts == <<ctx, depth, built>>
notebook == <<cells, undone>>

NewExecutor == [refs |-> FALSE, mine |-> FALSE]

QuaiInit ==
    /\ Init
    /\ mode \in {"daemon", "prompt", "file"}
    /\ ctx \in [specs : {<<>>, <<Bare>>}, web : {<<>>}, model : {0}] /\ depth \in 0..1
    /\ here \in {Fresh} \union {Seeded(Fresh, lib) : lib \in CellDefs \intersect Libraries}
    /\ mode = "daemon" => depth = 0 /\ ctx.specs = <<>> /\ here = Fresh
    /\ built = ctx /\ exec = NewExecutor /\ under = None
    /\ claims = {} /\ stray = {} /\ cells = 0 /\ undone = 0

Idle == mode # "daemon" /\ under = None
Notebook == mode = "file"

\* local_executor: every page parses and no two mounts share a name.  Even then a
\* source may not open, which the caller chooses.
Buildable(c) == /\ \A i \in DOMAIN c.web : c.web[i]
                /\ \A i, j \in DOMAIN c.specs : i # j => c.specs[i] # c.specs[j]
                /\ c.web # <<>> => \A i \in DOMAIN c.specs : c.specs[i] \notin PageNames

Remounted(c) == built' = c /\ exec' = NewExecutor

\* Mutant: a mount that cannot be built is not taken back.
MutRemount(c) == \E opens \in BOOLEAN : IF Buildable(c) /\ opens THEN ctx' = c /\ Remounted(c)
                                        ELSE ctx' = c /\ UNCHANGED <<built, exec>>
Remount(c) == \E opens \in BOOLEAN : IF Buildable(c) /\ opens THEN ctx' = c /\ Remounted(c)
                                     ELSE UNCHANGED <<ctx, built, exec>>

\* &n! re-opens the files; fetched pages and sources with a scheme stay as read.
Reopens == /\ built.specs # <<>> /\ built.web = <<>>
           /\ \A i \in DOMAIN built.specs : built.specs[i] \notin Schemed

\* A notebook's cells are counted; its number is shown before it runs.
Cell(numbered) == /\ cells' = IF Notebook THEN cells + 1 ELSE cells
                  /\ undone' = IF Notebook /\ ~numbered THEN undone + 1 ELSE undone

\* A run leaves the references it met, and its diagnostics, in the executor.
\* Mutant: a run without references leaves those of the run before it.
MutStanding(met) == IF met THEN [refs |-> TRUE, mine |-> TRUE] ELSE [exec EXCEPT !.mine = FALSE]
Standing(met) == [refs |-> met, mine |-> TRUE]

\* The line is answered by the mounted sources, or, live, by re-read ones: that
\* run leaves there those of the run before it.
AskHere(uses, text, live) ==
    /\ Idle /\ here.no <= MaxNo
    /\ Readable(here, uses) /\ (live => uses \in Labels)
    /\ \E met \in BOOLEAN :
          exec' = IF live /\ Reopens THEN [exec EXCEPT !.mine = FALSE]
                  ELSE Standing(met)
    /\ under' = [uses |-> uses, text |-> text, live |-> live, answer |-> text,
               rounds |-> 0, done |-> Notebook]
    /\ UNCHANGED <<mounts, here, claims, stray, notebook>>

\* commit: the answer, under the text that gave it.
Finish ==
    /\ under # None
    /\ under.done \/ ~exec.refs \/ under.rounds >= depth
    /\ here' = Committed(here, under.uses, under.text, under.answer)
    /\ claims' = IF Referenceable(here, under.uses, under.text)
                 THEN claims \union {<<here.no, under.text>>} ELSE claims
    /\ under' = None /\ Cell(TRUE)
    /\ UNCHANGED <<mounts, exec, stray>>

\* One round of follow_refs: the page is fetched and mounted beside the sources,
\* and the line runs again over them, its path moved under the lone source's name.
Follow == under # None /\ ~under.done /\ exec.refs /\ under.rounds < depth
Again(line) == IF built.web = <<>> /\ built.specs = <<Bare>> THEN Moved[line.text] ELSE line.text
\* Mutant: the answer of the moved line is kept under the line as typed.
MutRerun(line) == [line EXCEPT !.answer = Again(line), !.rounds = @ + 1]
Rerun(line) == [line EXCEPT !.text = Again(line), !.answer = Again(line), !.rounds = @ + 1]

FetchFails == /\ Follow
              /\ under' = [under EXCEPT !.done = TRUE, !.rounds = @ + 1]
              /\ UNCHANGED <<mounts, exec, here, claims, stray, notebook>>

Fetch ==
    /\ Follow /\ Len(ctx.web) < MaxPages
    /\ \E parses, opens \in BOOLEAN :
       LET c == [ctx EXCEPT !.web = Append(@, parses)] IN
       /\ ctx' = c
       /\ IF Buildable(c) /\ opens
          THEN /\ built' = c
               /\ \/ /\ \E met \in BOOLEAN : exec' = Standing(met)
                     /\ under' = Rerun(under)
                  \/ exec' = NewExecutor /\ under' = None
               /\ stray' = stray
          ELSE /\ under' = [under EXCEPT !.done = TRUE, !.rounds = @ + 1]
               /\ stray' = stray \union {"web"}
               /\ UNCHANGED <<built, exec>>
    /\ UNCHANGED <<depth, here, claims, notebook>>

\* A notebook's cell that fails keeps its number, with nothing behind it.
\* Mutant: a failed cell takes no number.
MutFailHere(uses, text) ==
    /\ Idle /\ Notebook /\ here.no <= MaxNo /\ cells < 2
    /\ Cell(TRUE)
    /\ UNCHANGED <<here, mounts, exec, under, claims, stray>>
FailHere(uses, text) ==
    /\ Idle /\ Notebook /\ here.no <= MaxNo
    /\ here' = Committed(here, uses, text, Blank) /\ Cell(TRUE)
    /\ UNCHANGED <<mounts, exec, under, claims, stray>>

ReplayHere(n) ==
    /\ Idle /\ here.no <= MaxNo /\ here.snaps[n] # None
    /\ here' = Replayed(here, n) /\ Cell(TRUE)
    /\ UNCHANGED <<mounts, exec, under, claims, stray>>

DefineHere(d) ==
    /\ Idle /\ here.no <= MaxNo /\ undone < MaxUndone
    /\ here' = IF Admits(here, d) THEN Extended(here, d) ELSE here
    /\ Cell(Admits(here, d))
    /\ UNCHANGED <<mounts, exec, under, claims, stray>>

MountHere(m) ==
    /\ Idle /\ ~Notebook /\ Len(ctx.specs) < MaxSpecs
    /\ Remount([ctx EXCEPT !.specs = Append(@, m)])
    /\ UNCHANGED <<depth, here, under, claims, stray, notebook>>

\* :follow
DepthHere(d) == /\ Idle /\ ~Notebook
                /\ depth' = d
                /\ UNCHANGED <<ctx, built, exec, here, under, claims, stray, notebook>>

ResetHere == /\ Idle /\ ~Notebook
             /\ here' = Cleared(here) /\ claims' = {}
             /\ UNCHANGED <<mounts, exec, under, stray, notebook>>

\* A model cell: its mounts, its declarations, its definitions, then the commit.
\* One that names an environment stops with the mounts before it pushed; one
\* whose mount cannot be built takes its mounts back, not its declarations.
ModelCell(ms, lib, text) ==
    /\ Idle /\ Notebook /\ here.no <= MaxNo
    /\ Len(ctx.specs) + Len(ms) <= MaxSpecs /\ ctx.model < MaxModel
    /\ LET pushed == [ctx EXCEPT !.specs = @ \o ms]
           c == [pushed EXCEPT !.model = @ + 1]
           seeded == lib # <<>> /\ WellFormed(lib)
       IN \/ /\ ctx' = pushed /\ stray' = (IF ms = <<>> THEN stray ELSE stray \union {"specs"})
             /\ here' = Committed(here, None, text, Blank)
             /\ UNCHANGED <<built, exec>>
          \/ /\ ctx' = [ctx EXCEPT !.model = @ + 1] /\ stray' = stray \union {"model"}
             /\ here' = Committed(here, None, text, Blank)
             /\ UNCHANGED <<built, exec>>
          \/ /\ Buildable(c) /\ ctx' = c /\ Remounted(c)
             /\ here' = Committed(IF seeded THEN Seeded(here, lib) ELSE here, None, text, Blank)
             /\ stray' = IF seeded /\ here.defs # <<>> THEN stray \union {"table"} ELSE stray
    /\ Cell(TRUE)
    /\ UNCHANGED <<depth, under, claims>>

Typed == \/ \E u \in Names \union {None}, t \in Texts, l \in BOOLEAN : AskHere(u, t, l)
         \/ \E u \in Names \union {None}, t \in Texts : FailHere(u, t)
         \/ \E n \in Labels : ReplayHere(n)
         \/ \E d \in Defs : DefineHere(d)
         \/ \E m \in Sources : MountHere(m)
         \/ \E d \in 0..MaxDepth : DepthHere(d)
         \/ \E ms \in {<<>>} \union {<<m>> : m \in Sources \ {Bare}}, lib \in CellDefs,
               t \in Texts \ Bodies : ModelCell(ms, lib, t)
         \/ ResetHere

QuaiNext == \/ mode = "daemon" /\ Next /\ UNCHANGED <<mode, local>>
            \/ (Typed \/ Fetch \/ FetchFails \/ Finish) /\ UNCHANGED <<vars, mode>>

QuaiSpec == QuaiInit /\ [][QuaiNext]_allVars
-----------------------------------------------------------------------------
\* What &n runs is what gave &n its answer, followed or not, and a line that users
\* can refer to stays so unless a model cell's definitions take the table's place
\* (main.rs follow_refs, run_and_commit, run_file; session.rs commit, seed_defs).
AnswersOwnLines ==
    \A l \in claims : /\ here.snaps[l[1]] = l[2]
                      /\ "table" \notin stray => Resolves(here.defs, l[1], l[2])

\* A remount keeps the session and a refused one the mount: what the next mount
\* will be built from is what is mounted, but for what a refused step left behind
\* (main.rs command, apply_model_cell, follow_refs).
ContextMounted == /\ ctx.specs # built.specs => "specs" \in stray
                  /\ ctx.web # built.web => "web" \in stray
                  /\ ctx.model # built.model => "model" \in stray

\* A page that is fetched was referred to by the line under way, after as many
\* remounts as there were, or by the line before it when this one reads re-opened
\* files (main.rs:468, "the arrow in a hand-typed line is the consent").
FetchedForCause == [][ctx'.web # ctx.web => exec.mine \/ (under.live /\ Reopens)]_allVars

\* The diagnostics printed with an answer are the line's own, the readings of
\* re-opened files aside (main.rs:1161, "a diagnostic belongs to the cell that raised it").
NotesOwn == [][Finish => exec.mine \/ (under.live /\ Reopens)]_allVars

\* The number a notebook's cell shows is its own: every cell takes one, a refused
\* definition aside (main.rs run_file).
CellsNumbered == Notebook => here.no = 1 + cells - undone
=============================================================================
