------------------------------ MODULE Publish -------------------------------
(***************************************************************************)
(* Getting a built city onto the server, and off it again.                 *)
(*                                                                         *)
(* One publish (or unpublish) at a time runs its plan, a list of commands, *)
(* and stops at the first that fails.  The server keeps the version that   *)
(* is served, the rollbacks set aside beside it and the city's config; its *)
(* API is several workers, each of which opens config and rasters once,    *)
(* when it starts, and answers from those handles until it is restarted.   *)
(*                                                                         *)
(* A raster or a tile archive is the number of the build, or of the        *)
(* render, it came from: rsync renames a finished file in, so a file once  *)
(* in place never changes.  The light theme is the exception, rewritten    *)
(* where it stands, so it is an inode whose content is kept apart.         *)
(***************************************************************************)
EXTENDS Integers, Sequences, FiniteSets, SequencesExt

CONSTANTS
    Workers,      \* the API's processes
    KeepRollbacks,\* KEEP_ROLLBACKS
    Perils,       \* what else may happen, of those below
    MaxClock,     \* bound: no build and no plan starts once the clock reads this
    MaxRender,    \* bound: renders of the tiles
    MaxUpsets     \* bound: failures and deaths together

AllPerils == {"cut",       \* an rsync or an rm is interrupted between two files
              "failure",   \* any other command fails
              "death",     \* a worker dies and is started again
              "slow",      \* a worker takes longer to start than the checks wait
              "rerender",  \* the tiles are rendered again from the same build
              "edit"}      \* the YAML is edited after the build that read it

ASSUME PublishAssumption ==
    /\ IsFiniteSet(Workers) /\ Workers # {}
    /\ KeepRollbacks \in Nat \ {0}
    /\ Perils \subseteq AllPerils
    /\ {MaxClock, MaxRender, MaxUpsets} \subseteq Nat

VARIABLES
    local,     \* the artifact directory: its build, its tiles, when it was built,
               \* and the YAML beside it
    clock,     \* ticks at every build, edit and plan
    upsets,    \* how many of MaxUpsets have happened
    v1,        \* the version the server serves: each part's content, 0: absent
    mtime,     \* the modification time of its directory
    ink,       \* what each inode of the light theme holds, 0: torn or unused
    rollbacks, \* the versions set aside
    conf,      \* the live config, 0: absent
    api,       \* what each worker answers from
    todo,      \* the commands the running plan has left
    aside,     \* the version this plan set aside, or Nothing
    last       \* how the last plan ended

server == <<v1, mtime, ink, rollbacks, conf>>
plan == <<todo, aside, last>>
vars == <<local, clock, upsets, server, api, plan>>

-----------------------------------------------------------------------------
Builds  == 0..MaxClock
Renders == 0..MaxRender
Inodes  == 1..(MaxRender + 1)

Rasters == <<"horizon", "metadata">>
Tiles   == <<"index", "shade">>
Synced  == Range(Rasters) \cup Range(Tiles)
Versions == [horizon : Builds, metadata : Builds, index : Renders,
             shade : Renders, light : {0} \cup Inodes]
Nothing == [horizon |-> 0, metadata |-> 0, index |-> 0, shade |-> 0, light |-> 0]
Exists  == v1 # Nothing

(* A renderer that stamps its tiles with the build's number.               *)
MineByBuild(part) == local.build

(* What the artifact directory holds of each part that travels.            *)
Mine(part) == IF part \in Range(Rasters) THEN local.build ELSE local.tiles

Leg(name) == IF name = "rasters" THEN Rasters ELSE Tiles

(* rsync --ignore-existing: any file of that name will do.                 *)
SentOnce(part) == v1[part] # 0

(* The server's file is the one of this build, or of this render.          *)
Sent(part) == v1[part] = Mine(part)

Up == {w \in Workers : api[w].up}
Loading == [up |-> FALSE, horizon |-> 0, metadata |-> 0, conf |-> 0]
Lists(w) == api[w].up /\ api[w].conf # 0

(* A plan that restarts before the config is there.                        *)
PublishPlanRestartFirst(recolor) ==
    <<"aside", "prune", "rasters", "restart", "tiles", "config">>
    \o (IF recolor THEN <<"image", "recolor">> ELSE <<>>)
    \o <<"healthy", "listed", "manifest">>

PublishPlan(recolor) ==
    <<"aside", "prune", "rasters", "tiles", "config">>
    \o (IF recolor THEN <<"image", "recolor">> ELSE <<>>)
    \o <<"restart", "healthy", "listed", "manifest">>
UnpublishPlan == <<"delete", "forget", "restart", "healthy", "gone">>
Commands == Range(PublishPlan(TRUE)) \cup Range(UnpublishPlan)

Idle == todo = <<>>
Doing(command) == todo # <<>> /\ Head(todo) = command

(* execute: on to the next command, or the end of the plan.                *)
Done(command) ==
    /\ todo' = Tail(todo)
    /\ last' = IF Len(todo) > 1 THEN last
               ELSE IF command = "gone" THEN "unpublished" ELSE "published"

(* execute: the first real failure ends the plan.                          *)
GiveUp == todo' = <<>> /\ last' = "failed"

(* A step that was allowed to fail.                                        *)
AllowFailure == {"aside", "prune"}

Upset(peril) ==
    /\ peril \in Perils
    /\ upsets < MaxUpsets
    /\ upsets' = upsets + 1

-----------------------------------------------------------------------------
(* Every variable holds what it may, and a worker lists a city only with   *)
(* its rasters and its metadata in hand.                                   *)
TypeOK ==
    /\ local \in [build : Builds, tiles : Renders,
                   from : [1..MaxRender -> Builds], at : Builds, yaml : Builds]
    /\ clock \in Builds /\ upsets \in 0..MaxUpsets
    /\ v1 \in Versions /\ mtime \in Builds
    /\ ink \in [Inodes -> Renders]
    /\ rollbacks \subseteq
         [stamp : Builds, mtime : Builds, files : Versions, light : Renders]
    /\ conf \in Builds
    /\ api \in [Workers -> [up : BOOLEAN, horizon : Builds, metadata : Builds,
                            conf : Builds]]
    /\ \A w \in Workers : Lists(w) => api[w].horizon # 0 /\ api[w].metadata # 0
    /\ todo \in Seq(Commands) /\ aside \in Versions
    /\ last \in {"none", "published", "unpublished", "failed"}

Init ==
    /\ local = [build |-> 0, tiles |-> 0, from |-> [r \in 1..MaxRender |-> 0],
                at |-> 0, yaml |-> 0]
    /\ clock = 0 /\ upsets = 0
    /\ v1 = Nothing /\ mtime = 0
    /\ ink = [i \in Inodes |-> 0]
    /\ rollbacks = {} /\ conf = 0
    /\ api = [w \in Workers |-> [Loading EXCEPT !.up = TRUE]]
    /\ todo = <<>> /\ aside = Nothing /\ last = "none"

-----------------------------------------------------------------------------
(* The artifact directory, while no plan is sending it.  A build writes    *)
(* the rasters for the city's YAML as it then reads, which has the number  *)
(* of the build until it is edited; a render, the tiles.                   *)
Build ==
    /\ Idle /\ clock < MaxClock
    /\ clock' = clock + 1
    /\ local' = [local EXCEPT !.build = clock + 1, !.at = clock + 1, !.yaml = clock + 1]
    /\ UNCHANGED <<upsets, server, api, plan>>

(* Somebody edits the YAML, at any time.                                   *)
Edit ==
    /\ "edit" \in Perils /\ local.build # 0 /\ clock < MaxClock
    /\ clock' = clock + 1
    /\ local' = [local EXCEPT !.yaml = clock + 1]
    /\ UNCHANGED <<upsets, server, api, plan>>

(* check_ready: artifacts, and tiles that were rendered from them.         *)
Ready ==
    /\ local.build # 0 /\ local.tiles # 0
    /\ local.from[local.tiles] = local.build

Render ==
    /\ Idle /\ local.build # 0 /\ local.tiles < MaxRender
    /\ ~Ready \/ "rerender" \in Perils
    /\ local' = [local EXCEPT !.tiles = @ + 1, !.from[local.tiles + 1] = local.build]
    /\ UNCHANGED <<clock, upsets, server, api, plan>>

(* CityRegistry.load: a city without config or metadata is skipped; one    *)
(* whose rasters cannot be opened, or whose georeferences disagree, aborts *)
(* the worker, which is started again.  Files of two builds agree on that  *)
(* unless the builds differ in extent, so such a load may go through.      *)
Skipped == conf = 0 \/ v1.metadata = 0
CanLoad == Skipped \/ v1.horizon # 0

(* Loading takes seconds and the checks wait thirty: unless a worker is    *)
(* slow, all have started before anybody launches another plan.            *)
Prompt == "slow" \in Perils \/ ~CanLoad \/ Up = Workers

Launch(commands) ==
    /\ Idle /\ clock < MaxClock /\ Prompt
    /\ clock' = clock + 1
    /\ todo' = commands /\ aside' = Nothing
    /\ UNCHANGED <<local, upsets, server, api, last>>

StartPublish(recolor) == Ready /\ Launch(PublishPlan(recolor))
StartUnpublish == Launch(UnpublishPlan)

-----------------------------------------------------------------------------
(* cp -al: the same inodes under another name, and the same directory      *)
(* times.  Without a version to set aside the command does nothing.        *)
SetAside ==
    /\ Doing("aside")
    /\ Done("aside")
    /\ rollbacks' = IF Exists
         THEN rollbacks \cup {[ stamp |-> clock, mtime |-> mtime, files |-> v1,
                light |-> IF v1.light = 0 THEN 0 ELSE ink[v1.light] ]}
         ELSE rollbacks
    /\ aside' = v1
    /\ UNCHANGED <<local, clock, upsets, v1, mtime, ink, conf, api>>

(* ls -1dt: the newest directory time first and, of equal ones, the        *)
(* smaller name.                                                           *)
ListedBefore(r, s) ==
    r.mtime > s.mtime \/ (r.mtime = s.mtime /\ r.stamp < s.stamp)

Kept(all) ==
    {r \in all : Cardinality({s \in all : ListedBefore(s, r)}) < KeepRollbacks}

Prune ==
    /\ Doing("prune")
    /\ Done("prune")
    /\ rollbacks' = Kept(rollbacks)
    /\ UNCHANGED <<local, clock, upsets, v1, mtime, ink, conf, api, aside>>

(* rsync puts one more file in place, the first by name that is not there. *)
(* A raster, or the first of the tiles, makes an entry in the version's    *)
(* directory.                                                              *)
Transfer(leg) ==
    /\ Doing(leg)
    /\ \E i \in DOMAIN Leg(leg) :
         /\ ~Sent(Leg(leg)[i]) /\ \A j \in 1..i - 1 : Sent(Leg(leg)[j])
         /\ v1' = [v1 EXCEPT ![Leg(leg)[i]] = Mine(Leg(leg)[i])]
    /\ mtime' = IF leg = "rasters" \/ v1.index + v1.shade = 0 THEN clock ELSE mtime
    /\ UNCHANGED <<local, clock, upsets, ink, rollbacks, conf, api, plan>>

(* The leg is over: only now does rsync -a copy the directory's own time.  *)
EndLeg(leg) ==
    /\ Doing(leg)
    /\ \A part \in Range(Leg(leg)) : Sent(part)
    /\ Done(leg)
    /\ mtime' = IF leg = "rasters" THEN local.at ELSE mtime
    /\ UNCHANGED <<local, clock, upsets, v1, ink, rollbacks, conf, api, aside>>

(* The YAML that is there now: nobody compares it with the build.          *)
SendConfig ==
    /\ Doing("config")
    /\ Done("config")
    /\ conf' = local.yaml
    /\ UNCHANGED <<local, clock, upsets, v1, mtime, ink, rollbacks, api, aside>>

BuildImage ==
    /\ Doing("image")
    /\ Done("image")
    /\ UNCHANGED <<local, clock, upsets, server, api, aside>>

(* recolor_archive opens its destination for writing where it stands.      *)
LightInode ==
    IF v1.light # 0 THEN v1.light
    ELSE CHOOSE i \in Inodes : \A r \in rollbacks : r.files.light # i

WriteLight(content) ==
    /\ v1' = [v1 EXCEPT !.light = LightInode]
    /\ ink' = [ink EXCEPT ![LightInode] = content]
    /\ mtime' = IF v1.light = 0 THEN clock ELSE mtime

Recolor ==
    /\ Doing("recolor")
    /\ Done("recolor")
    /\ WriteLight(v1.shade)
    /\ UNCHANGED <<local, clock, upsets, rollbacks, conf, api, aside>>

(* docker compose restart returns when the container has started, not      *)
(* when its workers serve.                                                 *)
Restart ==
    /\ Doing("restart")
    /\ Done("restart")
    /\ api' = [w \in Workers |-> Loading]
    /\ UNCHANGED <<local, clock, upsets, server, aside>>

Load(w) ==
    /\ ~api[w].up
    /\ CanLoad
    /\ api' = [api EXCEPT ![w] =
         IF Skipped THEN [Loading EXCEPT !.up = TRUE]
         ELSE [up |-> TRUE, horizon |-> v1.horizon, metadata |-> v1.metadata,
               conf |-> conf]]
    /\ UNCHANGED <<local, clock, upsets, server, plan>>

-----------------------------------------------------------------------------
(* The closing checks, with the retries curl makes.  One worker answers.   *)
Passes(check) ==
    CASE check = "healthy"  -> Up # {}
      [] check = "listed"   -> \E w \in Up : Lists(w)
      [] check = "manifest" -> v1.index # 0
      [] check = "gone"     -> \E w \in Up : ~Lists(w)

(* They lose patience when no worker will ever give the answer they want,  *)
(* or with workers that are slow to start; "gone" asks only once.          *)
LosesPatience(check) ==
    CASE check = "healthy"  -> Up = {} /\ (~CanLoad \/ "slow" \in Perils)
      [] check = "listed"   ->
           /\ \A w \in Up : ~Lists(w)
           /\ Up = Workers \/ ~CanLoad \/ Skipped \/ "slow" \in Perils
      [] check = "manifest" -> v1.index = 0
      [] check = "gone"     -> Up = {} \/ \E w \in Up : Lists(w)

Checks == {"healthy", "listed", "manifest", "gone"}

Check(check) ==
    /\ Doing(check)
    /\ Passes(check)
    /\ Done(check)
    /\ UNCHANGED <<local, clock, upsets, server, api, aside>>

CheckFails(check) ==
    /\ Doing(check)
    /\ LosesPatience(check)
    /\ GiveUp
    /\ UNCHANGED <<local, clock, upsets, server, api, aside>>

-----------------------------------------------------------------------------
(* Unpublishing: the city's directory with its rollbacks, then its config. *)
Delete ==
    /\ Doing("delete")
    /\ Done("delete")
    /\ v1' = Nothing /\ mtime' = 0 /\ rollbacks' = {}
    /\ ink' = [i \in Inodes |-> 0]
    /\ UNCHANGED <<local, clock, upsets, conf, api, aside>>

Forget ==
    /\ Doing("forget")
    /\ Done("forget")
    /\ conf' = 0
    /\ UNCHANGED <<local, clock, upsets, v1, mtime, ink, rollbacks, api, aside>>

-----------------------------------------------------------------------------
(* What may go wrong.                                                      *)
Cut(leg) ==
    /\ Upset("cut")
    /\ Doing(leg)
    /\ GiveUp
    /\ UNCHANGED <<local, clock, server, api, aside>>

(* The commands that failing leave nothing half done.                      *)
Fail(command) ==
    /\ Upset("failure")
    /\ Doing(command)
    /\ IF command \in AllowFailure THEN Done(command) ELSE GiveUp
    /\ UNCHANGED <<local, clock, server, api, aside>>

RecolorFails ==
    /\ Upset("failure")
    /\ Doing("recolor")
    /\ GiveUp
    /\ WriteLight(0)
    /\ UNCHANGED <<local, clock, rollbacks, conf, api, aside>>

(* rm -rf stopped half-way has removed some of the files.                  *)
DeleteFails(gone) ==
    /\ Upset("cut")
    /\ Doing("delete")
    /\ GiveUp
    /\ v1' = [part \in DOMAIN v1 |-> IF part \in gone THEN 0 ELSE v1[part]]
    /\ mtime' = clock
    /\ UNCHANGED <<local, clock, ink, rollbacks, conf, api, aside>>

Die(w) ==
    /\ Upset("death")
    /\ api[w].up
    /\ api' = [api EXCEPT ![w] = Loading]
    /\ UNCHANGED <<local, clock, server, plan>>

-----------------------------------------------------------------------------
Command ==
    \/ SetAside \/ Prune \/ SendConfig \/ BuildImage \/ Recolor \/ Restart
    \/ Delete \/ Forget
    \/ \E leg \in {"rasters", "tiles"} : Transfer(leg) \/ EndLeg(leg)
    \/ \E check \in Checks : Check(check) \/ CheckFails(check)

Trouble ==
    \/ \E leg \in {"rasters", "tiles"} : Cut(leg)
    \/ \E command \in AllowFailure \cup {"config", "image", "forget", "restart"} :
         Fail(command)
    \/ RecolorFails
    \/ \E gone \in SUBSET Synced : DeleteFails(gone)
    \/ \E w \in Workers : Die(w)

Next ==
    \/ Build \/ Edit \/ Render
    \/ \E recolor \in BOOLEAN : StartPublish(recolor)
    \/ StartUnpublish
    \/ Command
    \/ \E w \in Workers : Load(w)
    \/ Trouble

Spec == Init /\ [][Next]_vars

-----------------------------------------------------------------------------
(* What the API promises to those who ask it, whatever happens on disk.    *)
NoCity == <<0, 0, 0>>
Answers(w) ==
    IF ~api[w].up THEN <<>>
    ELSE IF ~Lists(w) THEN NoCity
    ELSE <<api[w].horizon, api[w].metadata, api[w].conf>>

(* Rasters and metadata of one build, and a configuration no older.        *)
WholeBuilds == UNION {{<<b, b, yaml>> : yaml \in b..MaxClock} : b \in Builds \ {0}}

Release == INSTANCE Release WITH
    Servers <- Workers, on <- [w \in Workers |-> Answers(w)],
    Whole <- WholeBuilds, Absent <- NoCity, Down <- <<>>

(* The workers answer from one whole build, the same for all, and leave it *)
(* only together: publish.py's "whole and consistent, never half of each   *)
(* build".                                                                 *)
SwapsWhole == Release!Spec

(* The build the map on disk was rendered from.                            *)
MapOf == IF v1.index = 0 THEN 0 ELSE local.from[v1.index]

(* A plan that ends without an error has done what it is for: the version  *)
(* on disk is whole, every worker answers from it, the map describes it    *)
(* and its configuration is that of the build, or edited since; or there   *)
(* is nothing left and nobody lists the city.  Whatever the plans before   *)
(* it left behind, and whatever a worker does afterwards.                  *)
SuccessIsTrue ==
    Idle =>
      /\ last = "published" =>
           /\ v1.horizon = v1.metadata /\ v1.index = v1.shade
           /\ MapOf = v1.metadata
           /\ \A w \in Up : Answers(w) = <<v1.horizon, v1.metadata, conf>>
           /\ conf \in v1.metadata..local.yaml
      /\ last = "unpublished" =>
           v1 = Nothing /\ \A w \in Up : Answers(w) = NoCity

(* A rollback holds what the version held when it was set aside:           *)
(* KEEP_ROLLBACKS' "the rollback keeps the old inodes and from then on     *)
(* holds a full copy of the previous build".                               *)
RollbackFaithful ==
    \A r \in rollbacks : r.files.light # 0 => ink[r.files.light] = r.light
=============================================================================
