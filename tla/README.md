# Verification of the shade engine

TLA+ models of the shade engine, the TLC runs that check them and the TLAPS
proofs about them. The engine turns LiDAR into horizon rasters, a walking graph
and map tiles for a city, publishes them to a server, and answers from there
whether a point is in the shade and which way to walk. Two kinds of thing are
modelled. One is the machinery: hours of work in resumable steps, several
processes over one small state file, files replaced one by one, a server that
is changed command by command while it answers. The other is what is computed:
the skyline of a cell by tiles, the verdict and the overlay of an instant, the
intervals of a day, a shortest walk, the rungs of a year, the way from LiDAR
points to crowns. The models of the second kind keep the decisions and their
order, on heights, angles and shares that are small whole numbers.

* `tlc -workers 2 -config City.cfg MCCommands` checks a run (PROJECT.json pairs
  each run with its module and configuration);
* `tlapm CommandsProof.tla` checks a module of proofs.

## 1. The system

### 1.1 Parts

Paths are under `src/pipeline/src/shade_pipeline/` (P), `src/core/src/shade_core/`
(C) or `src/api/src/shade_api/` (A). "Hard" is what makes a part difficult to
get right; "correct" is what it owes the others.

| Part | State it keeps | Operations | Hard / *correct* | Where |
|---|---|---|---|---|
| Run state (P runstate.py) | `state.json`: a StepRecord per step; logs, `latest/` links, a history | open, begin, complete, fail, undo, derived status; migrate, prune, refresh | several processes, each with a copy of the whole; pids come round again; staleness is derived. *Done is true, running is owned, saves are atomic, history only grows* | StepLedger, Commands, StateFile, RunHistory |
| Chain runner (P runner.py) | nothing of its own | `run_chain`, `step_scope` | skip, refuse, gate, optional steps, an input missing before the bracket opens. *Rerunning converges* | Commands, Supervised |
| Command line (P cli.py) | a RunState for as long as it runs | run, build, graph, tiles, basemap, publish, unpublish, purge, preview, area, logs | which of them record, and with which fingerprint | Commands, CityFile |
| Console (P console/) | widgets; none that lasts | launch, purge, edit a setting, new city, price, rows, log pane, server verdict | state read before a dialog or a thread, used after it. *It says what happened* | Commands, CityForm, CostPanel, Watching |
| Preview (P preview.py) | two child processes, two ports | claim ports, wait, serve, stop the process groups | a long "running" that a person ends. *A serving preview can be found, is the one announced, and leaves nothing behind* | Preview; Commands (its record beside the other commands') |
| Purge (P purge.py) | - | delete the artifacts, then undo each step | several saves; killed between them | Commands, TileRender, RunHistory |
| Build (P build.py, cog.py, verify.py) | rasters, `metadata.json` | write each raster over the old one, read it back, the metadata last, verify | killed between two rasters; an earlier build's files; a disk that drops pages. *What ships is what was computed* | Build, Commands, TileRender |
| Tile rendering (P tiles.py) | archives, `render.json`, manifest, cadastre | resume or render, on a pool; declare | renames one by one, a pool that breaks, a resume over another build. *The manifest keeps its promises* | TileRender |
| Basemap (P basemap.py) | `basemap.pmtiles`, a line of the manifest | cut, declare | read-modify-write beside a render | TileRender |
| Publishing (P publish.py) | server: served version, rollbacks, config | plan, execute | stops at the first failure; server half changed. *The API answers from one whole build; success is true* | Publish, PublishRetry |
| Light theme (P recolor.py) | archives on the server | rewrite in place | inodes shared with rollbacks | Publish |
| Server and registry (A registry.py, app.py; compose.yml; shade.caddy) | per worker, the cities it opened | load at start-up; serve tiles from disk | two workers, started when they start; a year of browser cache | Publish, PublishViewer, WalkGraph, Api |
| Artifact reader (C artifacts.py) | LRU of raster blocks under a lock | scene_for, contains | two threads miss the same block; eviction at the limit. *An answer does not depend on who asked before* | SceneReader |
| Shade verdicts (C shade.py, horizon.py, raycast.py, engine.py) | - | is_shaded, classify, timeline | ties, sectors interpolated, a canopy overhead, boundaries of intervals. *Point, overlay and day agree* | Skyline, ShadeMap, Timeline |
| Walking graph, routing (P graph.py; C routegraph.py; A routing.py, shaded_routes.py) | graph arrays, three files | extract, cut, score, write, load; A* between points on edges; the ladder of instants | virtual nodes on one edge, doubled heuristic, wrap of the year, a kill between the files. *The route is the cheapest* | WalkGraph, Ladder, Routing, ShadedRoutes |
| Endpoints (A routes.py, parking.py, schemas.py, ratelimit.py) | moving windows per IP and path, per worker | answer, refuse, limit, say for how long | kept answers over a rebuild, midnight and an import. *Nothing is heard after it stopped being true for longer than it may* | Api |
| Sweep and memory budget (P horizon.py, shade_raster.py, budget.py, grid.py) | tiles in flight | tile, pad, stitch; how many workers fit | padding, the order of arrivals, a worker killed; a cgroup above a cgroup. *Tiling leaves no trace* | Sweep, Budget |
| LiDAR download (P cnig.py, sources.py) | cache of `.laz` | list, download to a partial, validate, rename | partial files, a centre that answers with a page, retries. *The cache is sound, what was validated stays* | Download |
| City files (P cityfile.py, area.py; C config.py) | the YAML and the polygon | edit, plan an area, register | written in place, edited while a step computes | CityFile, CityForm, Commands |
| Deployed comparison (P deployed.py) | - | compare local and remote metadata | a verdict for every pair; silence is not "no" | Watching |
| Raster processing (P rasterize.py, declutter.py, canopy.py, trees.py, ...) | - | points to labels, terrain, cuts, crowns, zones, audit | the order of corrections. *Nothing real is cut* | Surface, Build |
| Events (P events.py) | an append-only file | emit, follow | a partial last line read meanwhile | not modelled |
| Database (C db.py, migrations) | one table | connect, migrate | - | Api (up, down, absent) |
| Benchmarks, scripts | - | - | one-off | not modelled |

### 1.2 How the parts meet

* A command (a process) opens `state.json` once, keeps the whole of it in
  memory, and writes the whole of it at every change. The chain's steps run
  inside `step_scope`: begin, body, complete or fail.
* The console reads the same file again and again, starts commands as processes,
  and itself writes it in two places: the launch options and the purge. It also
  edits the city's YAML, which every command reads when it starts.
* Commands also meet in the artifact directory. Its completion markers, `metadata.json`,
  `render.json` and `index.json`, are what one step knows of another.
* A build reads the tiles the download validated, turns them into a surface,
  sweeps it tile by tile, writes the rasters one after the other and the metadata last.
  The graph scores its edges, and the tiles are drawn, from these rasters.
* `publish` reads that directory after `check_ready` and changes the server by a list of
  shell commands: set the version aside by hard links, prune, three rsyncs, an optional recolouring,
  restart, three checks.
* On the server the API's two workers open the files once, at start-up. The
  proxy serves the tiles from disk at any time, and browsers cache them. Each
  worker keeps blocks of rasters that its threads share, and a limiter of its own.

PROJECT.json lists, under "hazards", what can go wrong in all this and at which line.

## 2. The models

Sections 2.1 to 2.5 are the machinery of steps, renders and publishing, each
with runs of its own. The parts of 2.6 are what a city is served from, and run
together in `MCServe`; those of 2.7 are what is kept on the operator's machine, and run together
in `MCDisk`, but for the preview, which `MCRetry` puts beside PublishRetry, and the runs directory, which `MCCity` puts beside
Commands. In these four a behaviour is of one part (`part`), drawn at the start,
and the others stand still: their composition is a sum and not a product, except where a part
EXTENDS another (the reader reads what the sweep wrote, the overlay draws it, the
request drives the router).

### 2.1 StepLedger and Commands: the state file and those who use it

`StepLedger` is runstate.py without files: what a StepRecord holds (status,
finish time, fingerprint, pid and its start time, engine version), `IsAlive`,
`Stale` and `Status` as the reader derives them, and the four mutations. `OutdatedBy`
compares finish times, as the code does; nothing about staleness is stored.

`Commands` puts processes round it. Per process: `pc`, the steps it has left
(`todo`), what it loaded when it started (`job`: the command, `--force`, the
configuration, the engine), its copy of the state (`mem`) and what the running
step read (`input`). Around them: the file, the configuration on disk (`yaml`),
the installed engine, the clock, when the process with each pid began (`born`),
which completion markers exist (`there`), and one thing no program knows:
`made`, what each product was really computed from. The claims of the state
file are judged against it.

| Code | Action |
|---|---|
| a process starts, loads the YAML, opens the state | `Launch` (`Allowed`: what check_ready and preview refuse before opening it) |
| `run_chain` skips, refuses, reaches the gate, lacks an artifact, is over budget | `Skip` `Refuse` `Gate` `Unmet` `OverBudget` |
| `step_scope`: begin, the body, complete, fail | `Begin` `Produce` `Record` `Break` |
| preview finds its ports taken; a standalone command finds nothing to read | `TurnBack` |
| `execute_purge`: the directory, then one undo and one save per step | `RemoveTree` `UndoNext` |
| the console's remembered options | `Remember` |
| kill -9, an edit, a new version installed | `Die` `Edit` `Upgrade` |

`Save` is the whole of RunState.save: the process's copy becomes the file. The
steps of a chain that write over what is there make the product torn from
Begin to Produce; the basemap renames a finished file in.

A finished step is taken to have computed all of its product from what it
read. TileRender is where that is examined for tiles, and shows when a resumed render breaks it.

`Ledger` is the abstract specification: one entry per step, changed only by the
process that is inside that step, or put back when nobody is inside it; the other entries never move.
`KeepsLedger` says that the state file implements it (`Entries` and
`Places` of CommandsProof name the mapping).

### 2.2 Supervised

The same commands asked for by somebody who launches the whole chain again
until everything is done, which is what "resume instead of restart" is for.

### 2.3 StateFile: one save, call by call

state.json at the grain of system calls: open, read a piece, truncate and
write the scratch a piece at a time, rename. A name points at an inode and a
reader that opened one goes on reading it. Which keys have changed is abstracted to the number of
the change. A process may die at any call; the partial scratch it leaves is truncated by the next.
`Counter` is the abstract specification: whoever opens the file learns
the count as it was at one moment of its opening, and whoever changes it builds on the
latest. `SavesAtomically` says the file implements it.

### 2.4 TileRender: the artifact directory

The build in two steps (rasters, then metadata), the render on a pool of
workers (render.json first, archives of each unit renamed one after the other, vectors,
manifest last), the basemap cut beside it with its read-modify-write of the
manifest, the purge, and what stops a render: over budget, a failing unit with
others in flight, a kill. Each archive carries what it was rendered from. A build goes over whatever
tiles there are, and a later render over those, resumed or not; `past` remembers what no file says: what every
render since the directory was last empty began from, and whether the last one reused anything.

### 2.5 Publish, PublishViewer, PublishRetry: the server

`Publish` runs the plan of publish or of unpublish, command by command,
against the served version, its rollbacks, the config and the workers. A
file is the number of the build or render it came from; rsync renames
finished files in, so those never change in place. The light theme does: it is an inode, and
`ink` is what each inode holds. rsync sends files in the order of their names,
which is why index.json comes before shade-*.pmtiles. The rollbacks are pruned in the order of
`ls -1dt`. What may go wrong is listed by `Perils`: transfers cut, commands
failing, workers dying, workers slow to start, tiles rendered again from the
same build, the city's YAML edited (`Edit`) between the build that read it and the
command that sends it: `SendConfig` sends what is on disk then.

`Release` is the abstract specification of a service upgraded by restarting it:
all its servers answer from one whole release and leave it only by all going
down. `SwapsWhole` says that the API implements it.

`PublishViewer` adds a browser: a manifest read again at most every five minutes, archives
cached for ever under the URL the manifest gave. `PublishRetry` adds somebody
who publishes until what was built is what is served.

### 2.6 What a city is served from

**Skyline, Sweep, Budget** (horizon.py, raycast.py, shade.py, budget.py).
`Skyline` is a cell's horizon and what follows from it: `Profile` (the tangent towards each sector,
quantized, the class that won, and the same with the trees felled), `HorizonAt` (interpolation between two
sectors), `BlockerType`, `ShadeType` and `Verdict`. Four sectors, so a ray never cuts a corner, and angles in
steps of fifteen degrees instead of 90/255. `Sweep` computes these tile by
tile: `BeginSweep` (the tiles that have anything covered, the padding), `TakeTile` and `FinishTile` on a worker,
`FileTile` by the parent in the order of arrival, `KillWorker`, `FailSweep`, `EndSweep`. `Budget` is what a build may use
of the machine: cgroups from the leaf upwards, page cache, free memory, the fifth kept back, and the workers and
the advice that follow.

**SceneReader** (artifacts.py). Threads of a worker ask for points: `Query`
(outside, or a block), `Hit` (moved to the end), `Miss` (the lock taken, and held while the block is read),
`Keep` (stored, the least recent evicted), `Reply`. A block at the raster's edge is smaller. It reads the cubes `Sweep` filed.

**ShadeMap** (shade_raster.py). `Draw` composes the overlay of an instant from two bands of each cube;
`PointAnswer` is what the point engine says of every pixel.

**Timeline** (shade.py timeline, parking.py). One action per branch of the loop over a day's samples: `MeetNight`,
`MeetSame`, `MeetChange`, `EndDay`; and `ShadedUntil`, `ZoneUntil`, `MostlyShaded` as the endpoints derive them.

**Routing, ShadedRoutes** (routing.py, shaded_routes.py). `StartSearch` seeds the queue with the ends of the origin's edge
and the straight walk along a shared edge; `SkipSettled`, `Settle` (pop, relax the neighbours, enter the destination) and
`RunDry` are the loop; `Arrive` ends it. `ShadedRoutes` is a request: `Refuse` (malformed, no graph, snapped too
far), `Search` with the weights of the taste, `StandStill`, `NoRoute`, then `KeepShaded`, `KeepShortest`,
`KeepSwept` for the sweep of tastes, one step of alpha after another, and `Ranked` (a stable sort, by insertion), `ParetoFront`,
`Kept` and `Cuts` for what is offered.

**Ladder** (tiles.py's ladder, routegraph.py). `Assigned` (each day's nearest rung in declination), `Covers` (runs of days), `Hours`,
`ColumnOf`, `Mapped` (29 February), `RungFor`, `Interpolated`.

**WalkGraph** (graph.py, routegraph.py). `BuildGraph` (ways to undirected edges, cut to the coverage,
renumbered, scored), `WriteFile` for each of the three, `ReadBack`, `KillBuild` also in the middle of one, `StartServer` with `Coherent`.

**Api** (routes.py, parking.py, ratelimit.py). `Ask` (the limiter, then the handler), `TooMany`, `FromCache`
(what a browser kept under `max-age`), `Pass` of time, `Database` up and down, `Import` of a parking layer,
`Redeploy`. An answer is named by the instant, build and layer it was computed from.

### 2.7 What is kept on the operator's machine

With StateFile (2.3):

**Download** (sources.py, cnig.py). `Fetch` (expected tiles, those that do not begin as a LAZ does removed), `ReadPage`
of the catalogue, `Begin` (the `.part` opened), `Arrived` (validated and renamed, or a page instead of a file),
`BreakOff`, `KillFetch`, `Select` (the tiles laspy opens).

**Surface** (rasterize.py, declutter.py, canopy.py, trees.py). `BinFile`, one file at a time; `EndBinning`
(ground filled, labels); `Relabel` by drawn outlines; `CutLines` (cables), `CutSlabs` (awnings, by height over
what is round them); `Mask` (crowns, sieved last); `BurnZones` and `Audit` against the catalogued trees. `BurnZones` goes band by band, each
measured from the trees of its rows and its halo; where these hold none, the distance transform is of an array without a zero, and
measures from a cell just outside it (`Measured`).

**Build** (build.py, cog.py, verify.py). `BeginBuild`, `FetchInputs`, `CopyRaster`, `ReadBack`, `WriteMetadata` (written in place, so a `KillBuild` may leave it torn), `Verify`, `DeriveCanopy`
in an old folder, and `Rot`: a disk that loses angles later. `Passes` is `verify_artifacts`, audit by audit.

**CityFile** (cityfile.py, area.py, config.py). A text is its lines; `EditCity`, `PriceArea`, `ApplyArea`, `Register` read
and rewrite, `OpenToWrite` empties and `FillIn` writes: two steps, since nothing is renamed in. `KillCommand` anywhere. The box is written as the code
prints it: a whole number as it is, another by the six digits that `:g` keeps (`Number`, `BboxLiteral`); a pixel of half a metre makes such
numbers.

**CityForm, CostPanel** (console/newcity.py, cost.py). `TypeId`, `TypeClock`, `TypePoint`, `TypePath`, `Debounced`,
`LookForPolygon` (the timer), `Paste`, and `SaveElsewhere` for what other programs do to the files. Saving reads the drawing four times, and is
four steps: `Save` (the zone of a draft), `DraftSaved` (its box, checked against the area of use of that zone), `WriteTown` (the zone again, the one that
is written) and `WriteArea`; `SaveElsewhere` may come between any two. The panel's `Show`, `ClearPanel`,
`Figure` (a thread that cannot be interrupted, and looks once whether it was cancelled), `Settle` (on the loop).

**RunHistory** (runstate.py). Several commands (`Clerks`) at work in one directory, each with its own copy of the state. `ReadState` opens it;
`ListFlat` lists the old layout, `MoveLog` renames one log (`MissLog`: somebody else did), `SaveMoved` saves the copy whose records follow;
`LookForHistory` finds none, `OpenHistory` truncates it and `SeedHistory` writes the lines the copy remembers; `RefreshLinks` repoints
`latest/`, `NameLog` and `Prune` precede a run, `BeginRun` saves, `OpenLog`, `EndRun`, `PurgeUndoes` and `RememberRun` (the line) follow. Each is a
separate write, and `ClerkEnds` may come after any of them.

**Watching** (console/cities.py, city.py; deployed.py). `StepMoves` and `SaveByHalves` are the others;
`RefreshRows` announces, `FollowNewest` and `TailLog` follow, `AskServer` and `ServerAnswers` compare.

**Preview** (preview.py, cli.py's preview, the v key of console/city.py). A supervisor goes through `CheckPreview` (ports, then the record it
read when it started), `BeginPreview`, `Handle` (the one-shot SIGTERM handler), `Claim` (the ports once more), `Popen`, `NoteServer`, `IsAnswered` or
`NeverUp` (or `PopenFails`, an OSError) for each of its two servers, and on the way out `Tell` (SIGTERM to each group, in reverse), `WaitForAll` (ten seconds, then
SIGKILL) and `FinishPreview`. `Raise` says where a KeyboardInterrupt lands from wherever the supervisor is: `StopByKey` sends a SIGTERM (`Term`),
`Interrupt` is Ctrl-C, and `KillPreview` runs nothing at all. `Bind` and `ShutDown` are the servers'. A record
is who wrote it: what tells a recycled pid apart is in StepLedger, what other commands do to the record in Commands.

## 3. The runs

A run may check at once what several parts owe; a property that is the conjunction of several says
so in its definition, where each part has its own comment.

| Run | Question | Result |
|---|---|---|
| city | one command at a time, with edits between commands, upgrades, failures, kills, recycled pids: is what the state file says true, and does it implement the Ledger? Beside it, the runs directory: is the log a record names there, and does the history only grow? | holds, 3.1 M states |
| overlap | two commands at once, everything allowed: is a step ever shown running for good? | holds, 337 k |
| supervised | does running the chain again reach, and keep, "all done"? | holds, 24 k |
| edit_mid_run | the YAML edited while a step computes: is done still true? | **no** |
| lost_preview | a chain running beside a preview: can the preview be found? | **no** |
| publish | failing and interrupted publishes and unpublishes, and edits, beside a viewer: whole releases, nothing stale fetched at rest | holds, 4.6 M |
| retry | deaths of workers as well: is success true, and does publishing again suffice? Beside it, the preview: is it its own, can it be found, and is it got rid of? | holds, 592 k |
| rollback_rewritten | does a rollback keep what it set aside? | **no** |
| tiles_resumed | a render over another build's tiles, stopped and resumed: is a finished render what it says? | **no** |
| serve | the parts of 2.4 and 2.6: is what is answered what the rasters say, in whatever order it was computed? | holds, 577 k |
| raster_parity | does the overlay name the kind of shade the point engine names? | **no** |
| disk | the parts of 2.3 and 2.7 but the preview and the runs directory: is what is kept whole, and what is said of it so? | holds, 490 k |

*serve* asks, part by part:

| Part | Properties |
|---|---|
| tiles | `PromisesKept`: every archive the manifest names is there and of the source it says. `PublishableIsTrue`: of whole artifacts, what check_ready lets out was all rendered from them, if the last render to begin reused nothing, or if every render since the directory was last empty began from them; builds go over old tiles, and renders stop and resume |
| sweep | `SweepIsSound`: the cubes are those of one sweep of the whole, for any order and any tile, and the advice to who is refused is the most that fits. `CacheIsUnseen`: the cache keeps the most recent and no more, every block is what the raster holds, and each thread is told the skyline of its point |
| map | `OverlayIsThePoints`: the overlay agrees with the point on sun and shade everywhere, and on the class where there is one; the vegetation-free cube is the skyline of the city with its trees felled |
| day | `DayIsTold`: the intervals tell every sample, in order, without gaps; "until" is when the sun first returns; a zone of one point is the point |
| route | `SearchIsExact`: what is settled is at its true distance and a route is as cheap as any walk. `OffersAreFair`: a taste trades metres for shade; each offer is longer and clearly less sunny than the one before |
| ladder | `FractionsFollow`: every day has one rung, the nearest; between the hours the fraction moves with no jump |
| walk | `GraphHolds`: an edge that is scored was sampled inside the area from end to end; a graph that is served can be walked |
| api | `HeardInTime`: an answer heard from any cache would have been given within the time its kind allows. `WindowHolds`: no window of any position holds more than the limit |

*disk* asks:

| Part | Properties |
|---|---|
| state | `SavesAtomically`: state.json implements the Counter |
| fetch | `CacheIsSound`: the tiles expected cover the ground and none is idle; half a tile never has a name. `ValidatedSurvives`. `RerunsGetThere`: who keeps running the download gets the listed tiles |
| survey | `NothingRealIsCut`: labels are of all the points of a cell, whatever file they came in; nothing is cut below the ground; a crown below the eaves survives the drawn outlines; what sticks out of its surroundings is left whole, or cut whole, down to them or to the terrain. `CanopyIsSound`: what is called a crown is one; a cell's zone is that of the nearest tree of the whole grid, but for `Mistaken`, the corner of a first band without a tree; where nothing was surveyed nothing is disproved, with the same exception |
| build | `FolderIsTrue`: what a finished folder holds, and answers for, was computed, and what it lost is found; the metadata comes last, and a torn inventory stops a build |
| file | `FileStaysTrue`: comments survive, the file can be loaded, the box holds the area: exactly, or, where the pixel is no whole number of metres, but for half of the last of six digits |
| form | `FormIsBelieved`: zone, box and polygon of a city are each of a drawing the file held while it was saved, and the box lies in the zone it was measured in; where it held one throughout, all three are of that one; the price is of the polygon in hand |
| cost | `LastPriceArrives` |
| news, pane, server | `SaysWhatHappened`: nothing is announced that did not happen; the pane is a prefix of the log it follows; silence is not "not published" |

*city* asks of the runs directory `NamedLogIsThere` (the log a record names is where it says, unless a command ended between moving it and
saving, or saved a copy another had saved over; and, whatever happened, the newest logs of each step are on the disk) and `HistoryGrows` (no line of the
history is lost or changed but by a command that found no history while another was beginning one).

*retry* asks of the publish `SuccessIsTrue` and `Converges`, and of the preview:

* `PreviewIsOwn`: a supervisor that ended, unless killed, has told every server it started to stop; one that has started any is the one the
  record names, whoever else was started since; and what it announces is its own two servers.
* `StopFreesThePorts`: a supervisor told to stop ends, from wherever it was and however often it is told, and its ports are free again.

The five that say "no" are disagreements between the code and what its own comments say, listed
under "findings" with the quoted lines:

* *edit_mid_run*: the chain loads the configuration when it starts and takes its
  fingerprint when a step completes, so an edit in between is never noticed.
* *lost_preview*: the next save of a chain that started earlier writes back a state in which there is no
  preview.
* *rollback_rewritten*: recolouring opens the served file for writing, through the inode that the rollback's hard link shares.
* *tiles_resumed*: render.json is written before the archives it speaks of. A
  render over another build's tiles that stops early, and is resumed, as the chain resumes by
  default, takes the old archives for its own, and check_ready agrees.
* *raster_parity*: the point names the class of the higher of two sectors, the overlay asks whether the shade would hold with
  the trees felled; where a wall's sector meets a tree's they differ. They agree on whether there is shade at all.

### 3.1 Bounds

* **city**: one pid, so each command runs in a process with a number used
  before; two configurations, two engines; the clock at 13 fits a chain, a
  forced rebuild and a third command (a step takes two ticks, a start one); one
  upset (edit, upgrade, failure or kill) at any moment. With this, a step can be done,
  made stale in each of the three ways, and done again. *Runs directory*: two commands, since what can go wrong is between two; two steps, four
  runs of which some are old, one log kept.
* **overlap**: two pids; a chain, a purge, the console's save, a standalone render, a preview; no command
  starts after clock 3, enough for three processes, two of them at once; whatever they do then is not bounded.
* **supervised**: the clock at 60 is never what stops it: two upsets cost two more
  chains of eleven ticks each. A bound on the clock that did stop it would show as a violation.
* **publish**: two workers, since a check asks one of them; three renders and five builds or plans, so that a plan
  follows a failed one that followed a success; one upset, and an edit wherever the clock allows one. **retry**: three ticks of
  builds and unpublishes, two upsets, clock to 8 so that retrying is never what ends. *preview*: two supervisors,
  since what can go wrong takes a second one that comes while the first is at any step; one kind of mishap, any number of times.
* **serve**, by part:
  *tiles*: two instants on a pool of two; two builds over one directory; two upsets, so that a resumed render fails again;
  two archives per instant, so a kill falls between two renames. *tiles_resumed* has three instants, so one waits while two are in flight.
  *sweep*: one row of five cells with a margin of one, tiles of two cells, so the last tile is narrower, and a radius of four half cells, more than a
  tile, so an obstacle two tiles away counts; four scenes (a tower, a hill with a crown, a street corner, a
  courtyard), three areas (all, one that cuts a tile, none), four machines (no cgroup, a limit above an unlimited leaf, a tight one, one that is over its limit), two workers.
  The reader has two threads, blocks of two and a cache of two blocks, and three questions, so one
  is evicted and asked for again; seven points take in the last cell, both edges, beyond, and a failed projection.
  *map*: suns in all directions, between sectors as well, at nine elevations.
  *day*: every day of up to three samples of dark, or sun, building or vegetation at each of two spots.
  *route*: a block with two ways round and a second street along one of its sides, and a graph in two parts; every pair of points of edges; ten requests.
  *ladder*: a year of twelve days with two shapes of declination, three rungs, every day and half hour of it.
  *walk*: three networks (both ways, parallel streets, a loop, a stub), three coverages, two shades, at any state of the files.
  *api*: one client, two answers a window; the hour and the day are two and three ticks, so each time limit is a different one.
* **disk**, by part:
  *state*: two writers, one reader, four inodes (the two names' and what the reader and a dead writer still
  hold open), two pieces, so that half is possible; three changes.
  *fetch*: a box that needs four tiles and one that lies inside one, a context of one unit; pages of two, two files a session, so
  a download needs a second session; two hiccups.
  *survey*: a grid of five by six, a band of one row with a halo, so that a first band may have no tree in reach; surveys with a house, a cable, an awning, a lime over another tree, a terrace and a pergola, in one file or three, in
  either order, with the outlines right, absent or drawn elsewhere, one with nothing but gaps on one side, and a mound or a crag under the cable (a line that is
  part crag is cut to the terrain there, which may be no cut at all).
  *build*: four plots, two builds in one folder, five plans (whole, part, other grid, with and without trees, an area of nothing).
  *file*: two commands, three files (no area, an area, a key named twice), two outlines, pixels of half a metre and of one, any number of edits.
  *form*: four drawings (two zones, one across their border, one that encloses nothing), two exports.
  *cost*: two configurations asked for four times. *news*, *pane*: two outcomes, two runs of two pieces.

Deadlock checking is off throughout: the bounds end every behaviour, and people
may stop asking.

### 3.2 Fairness

Safety runs assume none. *overlap* and *supervised* assume weak fairness of each
started process: the machine schedules it and its step ends. They do not
assume it of failures, edits, upgrades or launches, except that the supervisor
of *supervised* launches again as long as something is not done. *retry* assumes the plan's commands end, a
worker that can load does, a build is rendered, and a failed publish is launched again. *disk* assumes that somebody
runs the download again and lets it go on (`Progress`: its own steps, nothing of the network's failures), and that the cost panel's
threads run and the event loop turns (`PanelFairness`). In *retry* the preview's supervisors go on and a viewer told to stop does
(`PreviewFairness`; an API that does not is killed), but nobody presses a key, and nothing binds, because it must. In none of them
is a fault fair: faults may stop, as the bound on their number makes sure.

### 3.3 Assumptions to know about

* `Prompt` in Publish: unless workers are "slow", they have loaded before
  anybody launches another plan. The checks wait thirty seconds and loading takes a few. Without it a
  worker that opens a version in the middle of the *next* transfer answers from two builds.
* `publish` leaves out the peril "death": a worker restarted during a transfer does answer from half of each build until
  the restart at the end of the plan. `retry` includes it, and claims only what is true when a plan has ended.
* `Mismatched` in Commands refuses to publish tiles of another build, as check_ready does.
* `PublishableIsTrue` speaks of builds that finished, and not of the case *tiles_resumed* shows: a render that stopped over the tiles of an earlier build, and
  one that resumed it. It holds on either side of it. A render that reuses nothing is safe over whatever tiles there are, and one that resumes is
  over those of its own build.
* In *city* a purge is not killed half-way and no standalone build runs: see below.
* `MapMatchesOneBlocker` compares classes where one class decides, that is
  where both sectors beside the sun were won by it; *raster_parity* is about the rest.
* `StaysReadable` and `BoxHoldsArea` speak of commands that run one after the other and are not killed
  (`slips` records when either happened); `CommentsSurvive` of all. Once an area has been applied to pixels of no whole metres ("coarse"), the box holds the
  polygon within half of what the sixth digit is worth, which for a northing of seven digits is five metres.
* `WrittenInItsZone` claims one zone for all that is written only where the file held one drawing while it was saved.
* `RecordsNameLogs` speaks of a runs directory where no command ended between a move and its save ("half moved") and none saved a copy another had saved over
  ("stale copy"); `NewestAreKept` of all. Runs have stamps of their own: two of one second would share a log.
* `CanopyIsSound` leaves out the corner of a first band with no tree in it or in its halo.
* A pid's start time is read from /proc. Where there is none the code falls back on the bare pid, which is not modelled.
* In Publish the configuration a worker loads is no older than the build beside it, not of it: somebody may have edited it in between.
* `HeardInTime` allows a verdict of a stated instant a day in a cache, as its header does, over a
  rebuild too.
* In Download what begins as a LAZ does is taken for one ("stub"); a transfer cut short is assumed to be noticed by the transport, so no half tile has a name.
* Preview counts the mishaps the code is not safe from (`mishaps`), and each part of `PreviewIsOwn` says which it does without. NothingLeftBehind: no
  supervisor was stopped between starting a server and noting it, nor in a teardown that was not the stop's own ("cut"). NamedCanBeStopped: no two were on their way before either recorded itself
  ("together"). ServesItsOwn, and the ports of StopFreesThePorts: none of these, none killed, and no second Ctrl-C while the servers are waited for ("hurried").
* Distances in Routing are along a line and whole, so the heuristic is exact; an edge is never shorter than the distance between its ends.

### 3.4 Seen, and not kept as runs

These came up while modelling. Where the models have the state to show them,
"hazards" says where they bite.

*Steps and their records*

* A purge killed between the deletion and the last undo leaves steps shown done without products (`PurgeMayDie`).
* `shade-engine build` records nothing: the state file goes on describing the build it replaced (request `direct`).
* Two chains launched together both pass the "already running" check, which reads each process's own copy. The console asks
  `is_busy` before its dialog and not after it; R pressed twice while a purge deletes launches two chains, and the second purge deletes under the first.
* Two writers share one scratch file: with `MayOverlap = TRUE`, StateFile shows a half-written state.json being read within ten states.
* A purge appends a "done" line to the history for a build that failed or was killed (runstate.py:216, purge.py:146), and
  a run killed between its save and its line has none.
* `latest/` may point back at an older log between two runs that start together; pruning comes before the
  new log exists, so one more than KEEP_RUNS is kept; two runs of a step in the same second share a log; `logs` during a first run seeds a "running" line.
* Moving the flat layout renames the logs one by one and saves the records after (runstate.py:436, 443). A command that ends in between leaves records that name
  moved logs, and no later one repairs them, since it finds nothing to move (439). The save may be of a reader's stale copy, over the record of a run that began meanwhile.
* Two commands that both find no history (runstate.py:503) both begin one, the second over the lines of the first (514).
* A purge deletes whatever is in its directories then, not what its plan showed.

*Builds, tiles, publishing*

* A rebuild killed before metadata.json leaves the old metadata over new rasters, and verify passes a mix of two builds of one grid.
  A kill while it is written leaves it torn, which reads as no build at all. `coverage.tif` and `tree_inventory.tif` of an earlier build are never removed (build.py:346, 370); a kill leaves the sweep's scratch and `.tmp.tif`; trees.py:124 writes its cache in place; a
  torn raster raises out of `verify_artifacts`, which says it never does.
* `write_vector_layers` removes the cadastre before the manifest that promises it is rewritten.
* check_ready passes a city whose render.json cannot be parsed.
* `declare_in_manifest` may write back a manifest older than the one a render wrote meanwhile.
* During a publish the map on disk is ahead of the API; and rsync sends index.json before the archives (publish.py:338), so
  whoever asks then keeps the old archive for a year under the new version, although shade/cadastre.py:45 calls a `.pmtiles` immutable because "the manifest carries ?v= cache busting".
* The rollback just taken can be the one pruned, since directory times come from the build machine and tie.
* A build killed between the three files of the graph is loaded as a mix when the shapes are equal; a missing fractions.npz also reads as "no graph".
* Cutting a graph to the coverage can leave islands, which graph.py:93 and 265 say trap whoever snaps to them.

*What is answered*

* `/shade` and `/routes/shaded` of a stated instant are kept a day, over rebuilds. A timeline asked for as tomorrow's and kept
  lacks `shaded_until` once it is today's; one without a date may be yesterday's for a minute after midnight.
* The limiter is per worker. The preset hours of 2026 are Córdoba's for every city (tiles.py:335).
* `_blocker_type` names the higher sector even when its weight is nil; builds without the vegetation-free cube disagree under a canopy.

*Crowns and zones*

* trees.py:209 hands the distance transform a band without a tree, whose distances are then to a cell just outside its north-west corner. In the first band, which has no halo
  above, cells round that corner read NEAR or DENSE; trees.py:82 says the bands give "the identical answer". A crown that stands there is audited though nobody has surveyed it.

*Memory and downloads*

* "max" in the leaf's cgroup hides an ancestor's limit. `suggested_workers` proposes one even when none fits.
* A `.laz` is valid by its first four bytes; one nobody expects that is not makes laspy raise; the cache is shared between series of surveys and named by
  the corner alone. The cost panel counts a cached file that the download would fetch again.

*City files and the console*

* The YAML and the area are written in place: a kill leaves an empty file, two commands at once lose an edit, a killed
  registration leaves a city whose area is missing. An edited value with " #" in it is cut there by YAML, and cityfile.py:42 says otherwise of its own pattern.
* `_number` keeps six significant digits (area.py:517), so with pixels of half a metre, which config.py:88 invites, a northing loses metres and the box may miss the polygon; the plan counts pixels of the polygon before it is rounded, and prices
  the box of the polygon and not the city's.
* Pasting twice raises no event, so the price stays the first drawing's while saving writes the second; typing the id last never refreshes it. Saving reads the polygon four times
  (newcity.py:459-492) and looks at the area of use in one of them, so zone, box and polygon may be of different drawings; when the last reading fails, the city stays without its polygon.
* A cancelled price can be painted after the panel was cleared (cost.py:136); an older survey of the server may land after a newer one's.
* `_tail_events` drops the first line even of a short file; reopening the screen forgets a stop in progress.

*Preview*

* Two previews that both find the ports free start four servers, and the second's health check is answered by the first's API.
* A stop between starting a server and noting it orphans it; a killed preview leaves both holding the ports; a node that ignores SIGTERM is never killed, since only its wrapper is waited for.
* The handler is still armed while a failed start is torn down, and a second Ctrl-C is never ignored: either abandons the teardown, so a server may not be told, or not be waited for and killed.
* An OSError of Popen (no pnpm, no uvicorn) is caught by nobody: the servers already up are torn down, and the record is left saying running; it reads as dead.
* A preview stopped before it installs its handler leaves its record saying running; it reads as dead.

## 4. The proofs

All hold for any values of the constants (any pids, digests, engines, requests, workers, supervisors, sizes,
bounds, tiles, grids, curves, sessions, graphs, tastes), from the modules' named assumptions on them, and of the very definitions the runs check.
Every safety invariant and action property of a passing run is a theorem, some under the hypothesis the table names.

| Theorem | Says | Under |
|---|---|---|
| CommandsProof!TypeCorrect | `[]TypeOK` | nothing more: overlapping commands included |
| CommandsProof!DoneIsAlwaysTrue | `[]DoneIsTrue` | Discipline |
| CommandsProof!RunningIsAlwaysOwned | `[]RunningIsOwned` | Discipline |
| CommandsProof!ChainsAreNeverRefused | `NeverRefused` | Discipline |
| CommandsProof!LedgerKept | the state file implements the Ledger | Discipline |
| PublishProof!PublishTyped | `[]TypeOK` of Publish | nothing more |
| PublishProof!SuccessAlwaysTrue | `[]SuccessIsTrue`: a plan that says it succeeded did | nothing more: deaths and slow workers included |
| PublishProof!PublishSwapsWhole | `SwapsWhole`: from one whole release to another | workers neither die nor are slow (section 3.3 says why) |
| PublishProof!ViewersAtRestNeverStale | `AtRestNeverStale` | nothing more |
| RasterProof!PromisesAlwaysKept | `[]PromisesKept` of the manifest | nothing more |
| RasterProof!FreshRendersAreTrue | `FinishedIsTrue` | no render resumes (`StartsAfresh`) |
| RasterProof!PublishableIsAlwaysTrue | `[]PublishableIsTrue`, builds over old tiles and resumed renders included | nothing more: the property says which renders came before |
| RasterProof!NothingRealIsEverCut | `[]NothingRealIsCut` | nothing more |
| RasterProof!CanopyIsAlwaysSound | `[]CanopyIsSound` | nothing more: the property leaves out `Mistaken` |
| SweepProof!SweepAlwaysSound | `[]SweepIsSound` | nothing more |
| SweepProof!CacheIsAlwaysUnseen | `[]CacheIsUnseen` | nothing more |
| SweepProof!OverlayIsAlwaysThePoints | `[]OverlayIsThePoints` | nothing more |
| AnswersProof!AlwaysHeardInTime | `[]HeardInTime` | nothing more |
| AnswersProof!WindowAlwaysHolds | `[]WindowHolds` | nothing more |
| AnswersProof!DayIsAlwaysTold | `[]DayIsTold` | nothing more |
| AnswersProof!FractionsAlwaysFollow | `[]FractionsFollow` | nothing more |
| AnswersProof!GraphAlwaysHolds | `[]GraphHolds` | nothing more |
| RouteProof!SearchesAreExact | `[]SearchIsExact`: every search of every request | nothing more |
| RouteProof!OffersAreAlwaysFair | `[]OffersAreFair` | nothing more |
| DiskProof!FileTyped, SavesAreAtomic | state.json's types; it implements the Counter | one writer at a time |
| DiskProof!CacheIsAlwaysSound, ValidatedAlwaysSurvive | `[]CacheIsSound`, `ValidatedSurvives` of the download | nothing more |
| DiskProof!FolderIsAlwaysTrue | `[]FolderIsTrue` | nothing more |
| DiskProof!FileAlwaysStaysTrue | `[]FileStaysTrue` | nothing more: each part says which commands it is of, and how much of a box six digits hold |
| DiskProof!FormIsAlwaysBelieved | `[]FormIsBelieved` | nothing more: the property says what of a file that changes while it is saved |
| DiskProof!NamedLogIsAlwaysThere | `[]NamedLogIsThere` | nothing more: where a record names is claimed short of the two mishaps, what is kept of all |
| DiskProof!HistoryAlwaysGrows | `HistoryGrows` | nothing more: the property leaves out who begins a history another has begun |
| DiskProof!AlwaysSaysWhatHappened | `[]SaysWhatHappened` | nothing more |
| PublishProof!PreviewIsAlwaysOwn | `[]PreviewIsOwn` | nothing more: each part names the mishaps it does without |

*Discipline* is: one command at a time, the YAML left alone while it runs, purges not killed half-way,
no unrecorded standalone command. Each of these is needed: a run or section 3.4 shows what happens without it.
Nothing in the code enforces them.

**CommandsProof.** DoneIsTrue is not inductive: it says nothing of a step in
progress, nor of a record that is stale today and would read done again if an
edit were undone. The invariant `IInv` says what the fingerprints and finish times stand for:

* `Alone` and `Synced`: the one process holds in memory what the file holds and the
  configuration on disk;
* `AtWork`: inside a step, its record is the process's, and what it read is still what is there;
* `Owned`: a record that says running names the process inside, or one begun
  earlier than any alive. Since clocks move, a process with a recycled pid began later, so `IsAlive` tells them apart;
* `Sound`: a step recorded done, whatever it *reads*, has a whole product made
  from the configuration and engine it recorded;
* `Linked`: where a dependency did not finish later than the step, the step was
  made from the dependency's present product.

The last two leave out the steps a purge has still to put back (`Unsettled`). A step of
the specification is proved to keep each conjunct action by action, with the
effect of each mutation on the records stated once (`BegunView`, `CompletedView`, `FailedView`, `UndoneView`).
LedgerKept uses the same invariant: since the process's copy is the
file, writing it whole changes one entry, and since at most one process is
alive, nobody else is inside a step when one is entered or reset.

**PublishProof.** SuccessIsTrue speaks of the end of a plan, so the invariant speaks of its course. What is left of a plan is a
list in the order the plan was made in (`InOrder`); the command at its head tells which have been done, and `PlanInv`
what each of them has left on the server by then (`HalfPublished`, `HalfUnpublished`): the rasters once they are copied,
the tiles after them, the config, and, once the restart is over, that every worker answers from them (`Settled`). The end of the plan
inherits all of it. `Shared` says that what a rollback holds of the light theme is the file that is served or nothing, since it is one
inode. SwapsWhole needs `Steady` as well: outside the window between restart and health check the workers all answer alike.
*Preview*: each servers' half that a supervisor has begun is the next in order (`Begun`) and is noted unless it is at the one place between
(`Noted`); two supervisors are on their way at once only when a mishap says so (`OneAtATime`); with none, what the record names is who has servers (`Own`).

**RasterProof.** *Tiles*: a promise is kept because nothing is taken out that a manifest names; the invariant follows the manifest that a cut
has read and is about to write again (`Promises`), and each unit's archives as far as its worker has come (`Holds`). PublishableIsTrue goes by the renders that began since the directory was last
empty: every archive was drawn by one of them, from the build that one read or one begun over it (`DrawnSince`), and builds are numbered as they begin (`Numbered`), so
when there was only one source, all there is is from it. A render that reuses nothing draws all it
has done itself (`Afresh`) under its own record (`OnRecord`), and leaves a manifest of nothing else (`Fresh`). *Surface*: a raster is, after each
file, that of the points binned so far (`Counted`), since the highest of two sets is the higher of their highest (`TopsTogether`);
from then on it lies between the terrain and what was read (`Raised`). A region is the least closed set its cell is in (`RegionIs`: the rounds of growing must stand still
before they are as many as the cells), so regions do not overlap, and when whole regions are taken out of a set those left are
what they were (`RegionsLeft`): that is why what sticks out is cut whole, why the mask has no flat region left, and why the crowns nobody has surveyed can be left out of the audit.
An opening is never above what is opened, since a window that has a cell is one the cell has. A plant lower than every roof of its outline is lower than their median,
which is half the sum of two of them. A cell's band of rows with its halo holds every tree the cell may be near (`HaloIsEnough`), and where it holds none, what the cell is
measured from instead is near it only in the first band: elsewhere a halo of the whole reach is between them.

**SweepProof.** A cell holds its skyline or its tile is underway (`Shares`). That a tile computes the skyline at all is `WindowIsEnough`: no ray leaves the
padding. The reader's invariant: the blocks kept are the last of the keys asked for, but for the one being read
(`Locked`, `Youngest`), and a point is in the block its key names (`BlockHasThePoint`). The overlay: an obstacle that is no tree
stands when the trees are felled, so no sector it closes opens (`FellingOthers`); the rest is the two ways of answering, case by case.

**AnswersProof.** *Api*: what a cache keeps is what was once said, and no older than its headers allow (`KeptIsOld`, `HeardIsKept`); of the answers given to a client,
each is later by the window than the one that many before it (`Spaced`), so no window holds more. *Timeline*: the list of intervals grows with the
day, and tells it as far as it was read (`Tells`). *Ladder*: the nearest rung exists and is one, as numbers that are bounded have a smallest; the fraction between
two hours is on the line between two columns. *WalkGraph*: numbering the members of a finite set by how many
are not after them is a bijection that keeps their order, so what an edge names is a node; each file of a graph is of some build (`IsABuild`), and what the loader joins is of one.

**RouteProof.** What a search is given of the graph, the points and the price is one record, `Network`, and the argument is about any such record.
What is settled is no further than anything in the queue, and what could get nearer is in it (`Explored`), so no walk of any number of hops
reaches a node for less than it is believed to (`WalksAreBounded`); the heuristic never drops by more over an edge than the edge costs. What is believed of a node
is a walk of as many hops as nodes are settled (`Trodden`), which following the predecessors gives back (`Traced`): the spans returned are joined end to end,
from one point to the other, and cost what the queue said. The model's `Infinity` is a number, where the code's is `math.inf`, so it is assumed that no edge
costs as much at the steepest taste asked for (the runs give it 9999). *Offers*: which walks there are does not depend on a price (`Passes`), so each search of a request returns the cheapest of the same walks at its own price
(`FoundIsCheapest`). A walk is charged by its length, its sun and its other shade (`WhatAWalkIs`); of two walks each no dearer than the other at its own
price, one is at most so much longer as the taste pays for (`TradeOff`, by exchange). `LegsHold` says of the legs put away so far that they are the cheapest of their tastes, and that the sweep's first is
the shortest. Ranking by insertion keeps the same offers in order (`RankedIsOrdered`), and the front keeps, for each offer it passes over, one that is as short and at most a twentieth sunnier (`TheFrontHolds`).

**DiskProof.** *state.json*: the scratch is never what anybody reads
(`Apart`), what has been read is a beginning of the inode that was opened (`Reading`),
what has been written is a beginning of the next change (`Written`), and who
may write has the latest in hand (`Latest`). The refinement maps a reader that
is opening to what its descriptor will turn out to hold.
*Download*: half of CacheIsSound is arithmetic: along one axis, each number of the padded
range lies in the tile its quotient names, that tile is one of those from the floor of the range's start to the
ceiling of its end (`RangeIsCovered`), and each of these has a number of the range in it (`NoneIsWasted`). The other half: a step
gives a name only to what arrived whole, and takes one away only from what does not begin as a LAZ.
*Build*: what is written so far was read back (`SoFar`), the metadata is of this build only when all of it was (`Described`), and what was
verified stays, but for the angles a disk loses, which verifying again finds. *CityFile*: every text there is, or that a command is about to write, has the same
comments (`Worded`), whatever runs beside it; of commands that work alone, where each errand ends is sound (`Orderly`).
*RunHistory*: a command's copy is the file unless somebody saved since it was read (`CopiesAgree`); short of a mishap, the log a record names is the newest there ever was of its
step (`NamesNewest`), which pruning keeps, and lies where the record says or with who is moving it (`FlatIsThere`, `ShelvedIsMoved`). The newest of a step's logs are kept whatever
happens (`LogsKept`), since what is newest of all is newest of any fewer. Who found no history and was not overtaken finds none still (`UpToDate`). *Watching*: a step owes an
announcement only when more came about than was told (`Owed`). *CityForm*: what each of the four readings of a save
brings is of a drawing in `held`, which SaveElsewhere adds to (`SavingInv`), and a city on disk has what the saving that wrote it had (`TownInv`).

**Numbers.** What the proofs keep needing of numbers: a set of natural numbers has a smallest member, a finite set of integers a lowest and a highest,
what division leaves, and that what comes of a finite set is finite. The provers have no induction over a predicate, so a proof by induction
is written as one by least counterexample: the numbers a claim fails for have a smallest, and that one is contradicted by the one before. In this way what is defined by recursion over
numbers or over the subsets of a finite set is reasoned about too (`SomethingGrows`, `SomethingSums`).

Some definitions changed because a proof could not be had. Labels and zones were CASE expressions whose arms overlap, whose value is any of the arms that
hold; they are now conditionals, as the code's are. "What is cut is lower than it was" is false where a cut line has a crag in it: there it is as high as the terrain.
And ranking was by an operator that says nothing of ties, where Python's sort is stable: of two walks alike in length and sun the code offers the first found.

**Only model-checked.** Everything under fairness (NeverStuckRunning, RerunConverges, Converges, RerunsGetThere,
LastPriceArrives, StopFreesThePorts), which is out of the provers' reach. The runs whose property the code does not have prove nothing either way: theirs are counterexamples.

## 5. Not modelled

* Of the run state: durations, the contents of remembered options, what a log says.
* The events file: both its readers skip a line that is not whole, and draw a progress bar from the rest.
* A loss of power, as distinct from a kill: no fsync is modelled.
* Of preview: what the viewer is configured with and reads, and previews on other ports than the usual two.
* A deployment restarting the API in the middle of a publish (deploy.sh).
* The sun's position (solar.py is astronomy), map projections, and floating point: angles, heights, shares and lengths are small
  whole numbers, rounded where the code rounds.
* How tiles are warped and coloured, the recolouring of one, outlines and relief shading, the arbiter's
  comparison with other data, predictions of time and size, the price of an area.
* Fetching the network of streets and the outlines: both are inputs.
* The shapes of requests and answers, the migration of the database, benchmarks and scripts.

## 6. Plan

What is left, in order:

1. **Build under the chain**: TileRender and Commands take a build as two steps; Build could refine them.
2. **Routes over builds**: a worker's graph and rasters are loaded together, but from a folder that may be between two builds.

Proofs left: of the safety properties, none. What may be proved beyond them is that a step of Build under a chain refines the two steps Commands takes it as, once
that composition is written.
