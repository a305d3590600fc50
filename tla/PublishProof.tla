---------------------------- MODULE PublishProof ----------------------------
(***************************************************************************)
(* What publishing promises, for any number of workers, rollbacks, builds, *)
(* renders and failures.                                                   *)
(*                                                                         *)
(* The argument follows the plan.  What is left of it is a list in the     *)
(* order the plan was made in (InOrder), so the command at its head tells  *)
(* which have been done, and PlanInv says what each of them has left on    *)
(* the server by then.  The end of the plan inherits all of it.            *)
(*                                                                         *)
(* And what a preview promises, for any number of supervisors, whatever    *)
(* happens to them: what ends has told its servers to stop, who has        *)
(* servers is who the record names, and what is announced is its own.      *)
(***************************************************************************)
EXTENDS PublishViewer, Preview, SequenceTheorems, TLAPS

(* The light theme has one inode until the city is unpublished, and no     *)
(* part is of a render there has not been; the YAML is of the build or     *)
(* later, and not of a time to come.                                       *)
Shared ==
    /\ local.build <= local.yaml /\ local.yaml <= clock
    /\ \A r \in rollbacks : r.files.light \in {0, v1.light}
    /\ v1.index <= local.tiles /\ v1.shade <= local.tiles

-----------------------------------------------------------------------------
(* The legs of a publish, and what travels with each.                      *)
LEMMA TheLegs ==
  /\ Range(Rasters) = {"horizon", "metadata"} /\ Range(Tiles) = {"index", "shade"}
  /\ DOMAIN Rasters = {1, 2} /\ DOMAIN Tiles = {1, 2}
  /\ \A i \in {1, 2} : Rasters[i] \in Range(Rasters) /\ Tiles[i] \in Range(Tiles)
  /\ \A part \in Range(Rasters) : Mine(part) = local.build
  /\ \A part \in Range(Tiles) : Mine(part) = local.tiles
<1>1. Range(Rasters) = {"horizon", "metadata"} /\ DOMAIN Rasters = {1, 2}
  BY DEF Rasters, Range
<1>2. Range(Tiles) = {"index", "shade"} /\ DOMAIN Tiles = {1, 2}
  BY DEF Tiles, Range
<1>3. \A i \in {1, 2} : Rasters[i] \in Range(Rasters) /\ Tiles[i] \in Range(Tiles)
  BY <1>1, <1>2 DEF Range
<1> QED
  BY <1>1, <1>2, <1>3 DEF Mine

(* A raster of the build, or a file of the render, takes its place.        *)
LEMMA TransferPutsOne ==
  ASSUME NEW leg \in {"rasters", "tiles"}, Transfer(leg)
  PROVE  \/ leg = "rasters" /\ \E part \in {"horizon", "metadata"} :
                                  v1' = [v1 EXCEPT ![part] = local.build]
         \/ leg = "tiles" /\ \E part \in {"index", "shade"} :
                                v1' = [v1 EXCEPT ![part] = local.tiles]
<1>1. PICK i \in DOMAIN Leg(leg) : v1' = [v1 EXCEPT ![Leg(leg)[i]] = Mine(Leg(leg)[i])]
  BY DEF Transfer
<1>2. CASE leg = "rasters"
  <2>1. Leg(leg) = Rasters /\ Rasters[i] \in {"horizon", "metadata"}
    BY <1>2, TheLegs DEF Leg
  <2>2. Mine(Rasters[i]) = local.build
    BY <2>1, TheLegs
  <2>3. v1' = [v1 EXCEPT ![Rasters[i]] = local.build]
    BY <1>1, <2>1, <2>2
  <2> QED
    BY <1>2, <2>1, <2>3
<1>3. CASE leg = "tiles"
  <2>1. Leg(leg) = Tiles /\ Tiles[i] \in {"index", "shade"}
    BY <1>3, TheLegs DEF Leg
  <2>2. Mine(Tiles[i]) = local.tiles
    BY <2>1, TheLegs
  <2>3. v1' = [v1 EXCEPT ![Tiles[i]] = local.tiles]
    BY <1>1, <2>1, <2>2
  <2> QED
    BY <1>3, <2>1, <2>3
<1> QED
  BY <1>2, <1>3

-----------------------------------------------------------------------------
(* A list of commands that runs in an order and to an end.                 *)
InOrder(s, order, end) ==
    /\ s \in Seq(Commands) /\ s # <<>>
    /\ \A i \in 1..Len(s) - 1 : <<s[i], s[i + 1]>> \in order
    /\ s[Len(s)] = end

PublishOrder ==
    {<<"aside", "prune">>, <<"prune", "rasters">>, <<"rasters", "tiles">>,
     <<"tiles", "config">>, <<"config", "image">>, <<"config", "restart">>,
     <<"image", "recolor">>, <<"recolor", "restart">>, <<"restart", "healthy">>,
     <<"healthy", "listed">>, <<"listed", "manifest">>}
UnpublishOrder ==
    {<<"delete", "forget">>, <<"forget", "restart">>, <<"restart", "healthy">>,
     <<"healthy", "gone">>}

(* The empty list, by its length.                                          *)
LEMMA EmptyIsNoLength ==
  ASSUME NEW S, NEW t \in Seq(S)
  PROVE  Len(t) \in Nat /\ (t = <<>> <=> Len(t) = 0)
<1>1. Len(t) \in Nat
  BY LenProperties
<1>2. CASE t = <<>>
  BY <1>1, <1>2, EmptySeq
<1>3. CASE t # <<>>
  <2>1. Len(t) \in Nat \ {0}
    BY <1>3, EmptySeq
  <2> QED
    BY <1>3, <2>1
<1> QED
  BY <1>1, <1>2, <1>3

(* What is left of a plan is in its order.                                 *)
LEMMA RestInOrder ==
  ASSUME NEW s, NEW order, NEW end, InOrder(s, order, end)
  PROVE  /\ Len(s) \in Nat \ {0} /\ Tail(s) \in Seq(Commands)
         /\ Len(s) = 1 => Head(s) = end /\ Tail(s) = <<>>
         /\ Len(s) > 1 => /\ InOrder(Tail(s), order, end)
                          /\ <<Head(s), Head(Tail(s))>> \in order
<1> DEFINE rest == Tail(s)
<1>1. s \in Seq(Commands) /\ s # <<>> /\ Len(s) \in Nat \ {0}
  BY EmptyIsNoLength DEF InOrder
<1>2. /\ rest \in Seq(Commands) /\ Len(rest) = Len(s) - 1
      /\ \A i \in 1..Len(rest) : rest[i] = s[i + 1]
  BY <1>1, HeadTailProperties
<1>3. Head(s) = s[1]
  BY <1>1
<1> HIDE DEF rest
<1>4. ASSUME Len(s) = 1
      PROVE  Head(s) = end /\ rest = <<>>
  <2>1. Len(rest) = 0
    BY <1>2, <1>4
  <2> QED
    BY <1>2, <1>3, <1>4, <2>1, EmptyIsNoLength DEF InOrder
<1>5. ASSUME Len(s) > 1
      PROVE  InOrder(rest, order, end) /\ <<Head(s), Head(rest)>> \in order
  <2>1. Len(rest) \in Nat \ {0}
    BY <1>1, <1>2, <1>5
  <2>2. rest # <<>>
    BY <1>2, <2>1, EmptyIsNoLength
  <2>3. Head(rest) = s[2]
    BY <1>2, <2>1
  <2>4. <<s[1], s[1 + 1]>> \in order
    BY <1>1, <1>5 DEF InOrder
  <2>5. rest[Len(rest)] = end
    BY <1>1, <1>2, <2>1 DEF InOrder
  <2>6. ASSUME NEW i \in 1..Len(rest) - 1
        PROVE  <<rest[i], rest[i + 1]>> \in order
    <3>1. rest[i] = s[i + 1] /\ rest[i + 1] = s[i + 1 + 1]
      BY <1>1, <1>2
    <3>2. i + 1 \in 1..Len(s) - 1
      BY <1>1, <1>2
    <3> QED
      BY <3>1, <3>2 DEF InOrder
  <2> QED
    BY <1>2, <1>3, <2>2, <2>3, <2>4, <2>5, <2>6 DEF InOrder
<1> QED
  BY <1>1, <1>2, <1>4, <1>5 DEF rest

(* A plan's next command is one of its order, or the last.                 *)
LEMMA HeadInOrder ==
  ASSUME NEW s, NEW order, NEW end, InOrder(s, order, end)
  PROVE  /\ Len(s) = 1 \/ Len(s) > 1
         /\ Head(s) = end \/ \E next : <<Head(s), next>> \in order
<1>1. Len(s) \in Nat \ {0}
  BY RestInOrder
<1>2. CASE Len(s) = 1
  BY <1>2, RestInOrder
<1>3. CASE Len(s) > 1
  BY <1>3, RestInOrder
<1>4. Len(s) = 1 \/ Len(s) > 1
  BY <1>1
<1> QED
  BY <1>2, <1>3, <1>4

Names == {"aside", "prune", "rasters", "tiles", "config", "image", "recolor", "restart",
          "healthy", "listed", "manifest", "delete", "forget", "gone"}

(* The plans are in their orders.                                          *)
LEMMA PlansInOrder ==
  /\ \A recolor \in BOOLEAN :
       /\ InOrder(PublishPlan(recolor), PublishOrder, "manifest")
       /\ Head(PublishPlan(recolor)) = "aside"
  /\ InOrder(UnpublishPlan, UnpublishOrder, "gone") /\ Head(UnpublishPlan) = "delete"
<1> DEFINE send  == <<"aside", "prune", "rasters", "tiles", "config">>
           paint == <<"image", "recolor">>
           check == <<"restart", "healthy", "listed", "manifest">>
<1>1. /\ send \in Seq(Names) /\ Len(send) = 5
      /\ send[1] = "aside" /\ send[2] = "prune" /\ send[3] = "rasters"
      /\ send[4] = "tiles" /\ send[5] = "config"
  BY DEF Names
<1>2. paint \in Seq(Names) /\ Len(paint) = 2 /\ paint[1] = "image" /\ paint[2] = "recolor"
  BY DEF Names
<1>3. /\ check \in Seq(Names) /\ Len(check) = 4
      /\ check[1] = "restart" /\ check[2] = "healthy"
      /\ check[3] = "listed" /\ check[4] = "manifest"
  BY DEF Names
<1> HIDE DEF send, paint, check
<1> DEFINE both == send \o paint
<1>4. /\ both \in Seq(Names) /\ Len(both) = Len(send) + Len(paint)
      /\ \A i \in 1..Len(send) + Len(paint) :
            both[i] = IF i <= Len(send) THEN send[i] ELSE paint[i - Len(send)]
  BY <1>1, <1>2, ConcatProperties
<1>5. both[1] = "aside" /\ both[2] = "prune" /\ both[3] = "rasters" /\ both[4] = "tiles"
  BY <1>1, <1>2, <1>4
<1>6. both[5] = "config" /\ both[6] = "image" /\ both[7] = "recolor"
  BY <1>1, <1>2, <1>4
<1> DEFINE long == PublishPlan(TRUE)  short == PublishPlan(FALSE)
<1>7. long = both \o check /\ short = send \o check
  <2>1. send \o <<>> = send
    BY <1>1, ConcatEmptySeq
  <2> QED
    BY <2>1 DEF PublishPlan, send, paint, check
<1> HIDE DEF both, long, short
<1>8. /\ long \in Seq(Names) /\ Len(long) = Len(both) + Len(check)
      /\ \A i \in 1..Len(both) + Len(check) :
            long[i] = IF i <= Len(both) THEN both[i] ELSE check[i - Len(both)]
      /\ short \in Seq(Names) /\ Len(short) = Len(send) + Len(check)
      /\ \A i \in 1..Len(send) + Len(check) :
            short[i] = IF i <= Len(send) THEN send[i] ELSE check[i - Len(send)]
  <2>1. /\ both \o check \in Seq(Names) /\ Len(both \o check) = Len(both) + Len(check)
        /\ \A i \in 1..Len(both) + Len(check) :
              (both \o check)[i] = IF i <= Len(both) THEN both[i] ELSE check[i - Len(both)]
    <3>1. both \in Seq(Names) /\ check \in Seq(Names)
      BY <1>3, <1>4
    <3> QED
      BY <3>1, ConcatProperties
  <2>2. /\ send \o check \in Seq(Names) /\ Len(send \o check) = Len(send) + Len(check)
        /\ \A i \in 1..Len(send) + Len(check) :
              (send \o check)[i] = IF i <= Len(send) THEN send[i] ELSE check[i - Len(send)]
    BY <1>1, <1>3, ConcatProperties
  <2> QED
    BY <1>7, <2>1, <2>2
<1>9. /\ long[1] = "aside" /\ long[2] = "prune" /\ long[3] = "rasters" /\ long[4] = "tiles"
      /\ long[5] = "config" /\ long[6] = "image" /\ long[7] = "recolor"
      /\ long[8] = "restart" /\ long[9] = "healthy" /\ long[10] = "listed"
      /\ long[11] = "manifest" /\ Len(long) = 11
  BY <1>1, <1>2, <1>3, <1>4, <1>5, <1>6, <1>8
<1>10. /\ short[1] = "aside" /\ short[2] = "prune" /\ short[3] = "rasters"
       /\ short[4] = "tiles" /\ short[5] = "config" /\ short[6] = "restart"
       /\ short[7] = "healthy" /\ short[8] = "listed" /\ short[9] = "manifest"
       /\ Len(short) = 9
  BY <1>1, <1>3, <1>8
<1>11. /\ UnpublishPlan \in Seq(Names) /\ Len(UnpublishPlan) = 5
       /\ UnpublishPlan[1] = "delete" /\ UnpublishPlan[2] = "forget"
       /\ UnpublishPlan[3] = "restart" /\ UnpublishPlan[4] = "healthy"
       /\ UnpublishPlan[5] = "gone"
  BY DEF UnpublishPlan, Names
<1>12. /\ DOMAIN long = 1..11 /\ DOMAIN UnpublishPlan = 1..5
       /\ Names \subseteq Commands
  <2>1. DOMAIN long = 1..11 /\ DOMAIN UnpublishPlan = 1..5
    BY <1>8, <1>9, <1>11, LenProperties
  <2>2. Commands = {long[i] : i \in 1..11} \cup {UnpublishPlan[i] : i \in 1..5}
    BY <2>1 DEF Commands, Range, long
  <2> QED
    BY <1>9, <1>11, <2>1, <2>2 DEF Names
<1>13. long \in Seq(Commands) /\ short \in Seq(Commands) /\ UnpublishPlan \in Seq(Commands)
  BY <1>8, <1>11, <1>12, SeqMonotonic
<1>14. InOrder(long, PublishOrder, "manifest") /\ Head(long) = "aside"
  <2>1. ASSUME NEW i \in 1..10
        PROVE  <<long[i], long[i + 1]>> \in PublishOrder
    BY <1>9 DEF PublishOrder
  <2> QED
    BY <1>9, <1>13, <2>1 DEF InOrder
<1>15. InOrder(short, PublishOrder, "manifest") /\ Head(short) = "aside"
  <2>1. ASSUME NEW i \in 1..8
        PROVE  <<short[i], short[i + 1]>> \in PublishOrder
    BY <1>10 DEF PublishOrder
  <2> QED
    BY <1>10, <1>13, <2>1 DEF InOrder
<1>16. InOrder(UnpublishPlan, UnpublishOrder, "gone") /\ Head(UnpublishPlan) = "delete"
  <2>1. ASSUME NEW i \in 1..4
        PROVE  <<UnpublishPlan[i], UnpublishPlan[i + 1]>> \in UnpublishOrder
    BY <1>11 DEF UnpublishOrder
  <2> QED
    BY <1>11, <1>13, <2>1 DEF InOrder
<1> QED
  BY <1>14, <1>15, <1>16 DEF long, short

(* A command that is done leaves the next one, or the end of the plan.     *)
LEMMA OnToTheNext ==
  ASSUME NEW order, NEW end, InOrder(todo, order, end), NEW c, Doing(c), Done(c)
  PROVE  \/ /\ c = end /\ Idle'
            /\ last' = IF c = "gone" THEN "unpublished" ELSE "published"
         \/ InOrder(todo', order, end) /\ <<c, Head(todo')>> \in order
<1>1. c = Head(todo) /\ todo' = Tail(todo)
  BY DEF Doing, Done
<1>2. CASE Len(todo) = 1
  BY <1>1, <1>2, RestInOrder DEF Done, Idle
<1>3. CASE Len(todo) > 1
  BY <1>1, <1>3, RestInOrder
<1>4. Len(todo) = 1 \/ Len(todo) > 1
  BY HeadInOrder
<1> QED
  BY <1>2, <1>3, <1>4

-----------------------------------------------------------------------------
Rollbacks == [stamp : Builds, mtime : Builds, files : Versions, light : Renders]
Serving == [up : BOOLEAN, horizon : Builds, metadata : Builds, conf : Builds]
Endings == {"none", "published", "unpublished", "failed"}

(* A city that is not there, and a worker that does not serve, have types. *)
LEMMA EmptyTyped ==
  /\ 0 \in Builds /\ 0 \in Renders /\ Nothing \in Versions
  /\ Loading \in Serving /\ ~Loading.up
  BY PublishAssumption DEF Builds, Renders, Nothing, Versions, Loading, Serving

(* A command that is done, or that gives up, leaves a list of commands.    *)
LEMMA PlanTyped ==
  ASSUME TypeOK, (\E c : Doing(c) /\ Done(c)) \/ GiveUp
  PROVE  todo' \in Seq(Commands) /\ last' \in Endings
<1>1. CASE GiveUp
  BY <1>1, EmptySeq DEF GiveUp, Endings
<1>2. ASSUME NEW c, Doing(c), Done(c)
      PROVE  todo' \in Seq(Commands) /\ last' \in Endings
  <2>1. todo \in Seq(Commands) /\ todo # <<>>
    BY <1>2 DEF TypeOK, Doing
  <2>2. Tail(todo) \in Seq(Commands)
    BY <2>1, HeadTailProperties
  <2> QED
    BY <1>2, <2>2 DEF Done, TypeOK, Endings
<1> QED
  BY <1>1, <1>2

(* The light theme is written over the inode it has, or over one that no   *)
(* rollback holds.                                                         *)
LEMMA LightTyped ==
  ASSUME TypeOK, Shared, NEW content \in Renders, WriteLight(content)
  PROVE  /\ v1' \in Versions /\ ink' \in [Inodes -> Renders] /\ mtime' \in Builds
         /\ \A r \in rollbacks : r.files.light \in {0, v1'.light}
         /\ v1' = [v1 EXCEPT !.light = v1'.light]
<1>1. LightInode \in Inodes /\ (v1.light # 0 => LightInode = v1.light)
  <2>1. CASE v1.light # 0
    BY <2>1 DEF LightInode, TypeOK, Versions
  <2>2. CASE v1.light = 0
    <3>1. 1 \in Inodes /\ \A r \in rollbacks : r.files.light # 1
      BY <2>2, PublishAssumption DEF Shared, Inodes
    <3> QED
      BY <2>2, <3>1 DEF LightInode
  <2> QED
    BY <2>1, <2>2
<1>2. v1 \in Versions /\ ink \in [Inodes -> Renders] /\ mtime \in Builds /\ clock \in Builds
  BY DEF TypeOK
<1>3. v1' \in Versions /\ v1'.light = LightInode /\ v1' = [v1 EXCEPT !.light = v1'.light]
  BY <1>1, <1>2 DEF WriteLight, Versions
<1>4. ink' \in [Inodes -> Renders] /\ mtime' \in Builds
  BY <1>1, <1>2 DEF WriteLight
<1> QED
  BY <1>1, <1>3, <1>4 DEF Shared

(* Every variable holds what it may, and the light theme keeps its inode.  *)
LEMMA StepTyped ==
  ASSUME TypeOK, Shared, [Next]_vars
  PROVE  TypeOK' /\ Shared'
<1> USE PublishAssumption DEF server, plan
<1>1. CASE Build \/ Edit
  <2>1. clock + 1 \in Builds
    BY <1>1 DEF Build, Edit, TypeOK, Builds
  <2> DEFINE mine == [build : Builds, tiles : Renders, from : [1..MaxRender -> Builds],
                      at : Builds, yaml : Builds]
  <2>2. local \in mine /\ clock \in Nat /\ local.build <= clock
    BY DEF TypeOK, Shared, Builds
  <2>3. local' \in mine /\ local'.tiles = local.tiles
    BY <1>1, <2>1, <2>2 DEF Build, Edit
  <2>4. local'.build <= local'.yaml /\ local'.yaml = clock + 1
    <3>1. CASE Build
      <4>1. local' = [local EXCEPT !.build = clock + 1, !.at = clock + 1, !.yaml = clock + 1]
        BY <3>1 DEF Build
      <4>2. /\ {"build", "at", "yaml"} \subseteq DOMAIN local
            /\ local'.build = clock + 1 /\ local'.yaml = clock + 1
        BY <2>2, <4>1
      <4> QED
        BY <2>2, <4>2
    <3>2. CASE Edit
      <4>1. local' = [local EXCEPT !.yaml = clock + 1]
        BY <3>2 DEF Edit
      <4>2. local'.build = local.build /\ local'.yaml = clock + 1
        BY <2>2, <4>1
      <4>3. local.build \in Nat
        BY <2>2 DEF Builds
      <4>4. local.build <= clock + 1
        BY <2>2, <4>3
      <4> QED
        BY <4>2, <4>4
    <3> QED
      BY <1>1, <3>1, <3>2
  <2>5. clock' = clock + 1 /\ UNCHANGED <<upsets, server, api, plan>>
    BY <1>1 DEF Build, Edit
  <2>6. TypeOK'
    BY <2>1, <2>3, <2>5 DEF TypeOK, Lists
  <2>7. Shared'
    BY <2>2, <2>3, <2>4, <2>5 DEF Shared
  <2> QED
    BY <2>6, <2>7
<1>2. CASE Render
  <2>1. local.tiles + 1 \in Renders /\ local.tiles + 1 \in 1..MaxRender
    BY <1>2 DEF Render, TypeOK, Renders
  <2>2. /\ local' \in [build : Builds, tiles : Renders, from : [1..MaxRender -> Builds], at : Builds, yaml : Builds]
        /\ local'.tiles = local.tiles + 1
        /\ local'.build = local.build /\ local'.yaml = local.yaml
    BY <1>2, <2>1 DEF Render, TypeOK
  <2>3. v1.index <= local'.tiles /\ v1.shade <= local'.tiles
    BY <2>2 DEF TypeOK, Shared, Versions, Renders
  <2> QED
    BY <1>2, <2>2, <2>3 DEF Render, TypeOK, Shared, Lists
<1>3. ASSUME NEW recolor \in BOOLEAN, StartPublish(recolor) \/ StartUnpublish
      PROVE  TypeOK' /\ Shared'
  <2>1. PICK commands \in Seq(Commands) : Launch(commands)
    BY <1>3, PlansInOrder DEF StartPublish, StartUnpublish, InOrder
  <2>2. Nothing \in Versions
    BY DEF Nothing, Versions, Builds, Renders
  <2> QED
    BY <2>1, <2>2 DEF Launch, TypeOK, Shared, Builds, Lists
<1>4. CASE SetAside
  <2>1. todo' \in Seq(Commands) /\ last' \in Endings
    BY <1>4, PlanTyped DEF SetAside
  <2>2. /\ rollbacks' \subseteq Rollbacks
        /\ \A r \in rollbacks' : r.files.light \in {0, v1.light}
    <3> DEFINE new == [ stamp |-> clock, mtime |-> mtime, files |-> v1,
                        light |-> IF v1.light = 0 THEN 0 ELSE ink[v1.light] ]
    <3>1. new \in Rollbacks
      BY DEF TypeOK, Rollbacks, Versions, Renders
    <3>2. rollbacks' \subseteq rollbacks \cup {new}
      BY <1>4 DEF SetAside
    <3> QED
      BY <3>1, <3>2 DEF TypeOK, Shared, Rollbacks
  <2> QED
    BY <1>4, <2>1, <2>2 DEF SetAside, TypeOK, Shared, Lists, Rollbacks, Endings
<1>5. CASE Prune
  BY <1>5, PlanTyped DEF Prune, Kept, TypeOK, Shared, Lists, Endings
<1>6. CASE SendConfig \/ BuildImage
  BY <1>6, PlanTyped DEF SendConfig, BuildImage, TypeOK, Shared, Lists, Endings
<1>7. ASSUME WriteLight(v1.shade) \/ WriteLight(0), todo' \in Seq(Commands), last' \in Endings,
             upsets' \in 0..MaxUpsets, UNCHANGED <<local, clock, rollbacks, conf, api, aside>>
      PROVE  TypeOK' /\ Shared'
  <2>1. v1.shade \in Renders /\ 0 \in Renders
    BY DEF TypeOK, Versions, Renders
  <2>2. PICK content \in Renders : WriteLight(content)
    BY <1>7, <2>1
  <2>3. /\ v1' \in Versions /\ ink' \in [Inodes -> Renders] /\ mtime' \in Builds
        /\ \A r \in rollbacks : r.files.light \in {0, v1'.light}
        /\ v1' = [v1 EXCEPT !.light = v1'.light]
    BY <2>2, LightTyped
  <2>4. v1'.index = v1.index /\ v1'.shade = v1.shade
    BY <2>3 DEF TypeOK, Versions
  <2> QED
    BY <1>7, <2>3, <2>4 DEF TypeOK, Shared, Lists, Endings
<1>8. CASE Recolor \/ RecolorFails
  BY <1>7, <1>8, PlanTyped DEF Recolor, RecolorFails, Upset, TypeOK
<1>9. CASE Restart
  <2>1. api' \in [Workers -> Serving] /\ \A w \in Workers : ~api'[w].up
    BY <1>9, EmptyTyped DEF Restart
  <2> QED
    BY <1>9, <2>1, PlanTyped DEF Restart, Serving, Lists, TypeOK, Shared, Endings
<1>10. CASE Delete \/ Forget
  <2>1. todo' \in Seq(Commands) /\ last' \in Endings
    BY <1>10, PlanTyped DEF Delete, Forget
  <2>2. Nothing.index = 0 /\ Nothing.shade = 0
    BY DEF Nothing
  <2>3. local.tiles >= 0
    BY DEF TypeOK, Renders
  <2> QED
    BY <1>10, <2>1, <2>2, <2>3, EmptyTyped DEF Delete, Forget, Lists, TypeOK, Shared, Endings
<1>11. ASSUME NEW leg \in {"rasters", "tiles"}, Transfer(leg)
       PROVE  TypeOK' /\ Shared'
  <2>1. /\ v1' \in Versions /\ v1'.light = v1.light
        /\ v1'.index \in {v1.index, local.tiles} /\ v1'.shade \in {v1.shade, local.tiles}
    BY <1>11, TransferPutsOne DEF TypeOK, Versions
  <2> QED
    BY <1>11, <2>1 DEF Transfer, TypeOK, Shared, Lists, Renders
<1>12. ASSUME NEW leg \in {"rasters", "tiles"}, EndLeg(leg)
       PROVE  TypeOK' /\ Shared'
  BY <1>12, PlanTyped DEF EndLeg, TypeOK, Shared, Lists, Endings
<1>13. ASSUME NEW check \in Checks, Check(check) \/ CheckFails(check)
       PROVE  TypeOK' /\ Shared'
  BY <1>13, PlanTyped DEF Check, CheckFails, TypeOK, Shared, Lists, Endings
<1>14. ASSUME NEW w \in Workers, Load(w)
       PROVE  TypeOK' /\ Shared'
  <2>1. CASE Skipped
    <3> DEFINE new == [Loading EXCEPT !.up = TRUE]
    <3>1. new \in Serving /\ new.conf = 0
      BY EmptyTyped DEF Loading, Serving
    <3>2. api' = [api EXCEPT ![w] = new]
      BY <1>14, <2>1 DEF Load
    <3> HIDE DEF new
    <3> QED
      BY <1>14, <3>1, <3>2 DEF Load, TypeOK, Shared, Lists, Serving
  <2>2. CASE ~Skipped
    <3>1. v1.horizon # 0 /\ v1.metadata # 0
      BY <1>14, <2>2 DEF Load, CanLoad, Skipped
    <3> DEFINE new == [up |-> TRUE, horizon |-> v1.horizon, metadata |-> v1.metadata,
                       conf |-> conf]
    <3>2. new \in Serving /\ new.horizon # 0 /\ new.metadata # 0
      BY <3>1 DEF TypeOK, Versions, Serving
    <3>3. api' = [api EXCEPT ![w] = new]
      BY <1>14, <2>2 DEF Load
    <3> HIDE DEF new
    <3> QED
      BY <1>14, <3>2, <3>3 DEF Load, TypeOK, Shared, Lists, Serving
  <2> QED
    BY <2>1, <2>2
<1>15. ASSUME NEW leg \in {"rasters", "tiles"}, Cut(leg)
       PROVE  TypeOK' /\ Shared'
  BY <1>15, PlanTyped DEF Cut, Upset, TypeOK, Shared, Lists, Endings
<1>16. ASSUME NEW command, Fail(command)
       PROVE  TypeOK' /\ Shared'
  BY <1>16, PlanTyped DEF Fail, Upset, TypeOK, Shared, Lists, Endings
<1>17. ASSUME NEW gone \in SUBSET Synced, DeleteFails(gone)
       PROVE  TypeOK' /\ Shared'
  <2>1. "light" \notin gone
    BY TheLegs DEF Synced
  <2>2. DOMAIN v1 = {"horizon", "metadata", "index", "shade", "light"}
    BY DEF TypeOK, Versions
  <2>3. /\ v1' \in Versions /\ v1'.light = v1.light
        /\ v1'.index \in {0, v1.index} /\ v1'.shade \in {0, v1.shade}
    <3>1. v1' = [part \in {"horizon", "metadata", "index", "shade", "light"} |->
                   IF part \in gone THEN 0 ELSE v1[part]]
      BY <1>17, <2>2 DEF DeleteFails
    <3>2. v1' = [horizon |-> v1'.horizon, metadata |-> v1'.metadata, index |-> v1'.index,
                 shade |-> v1'.shade, light |-> v1.light]
      BY <2>1, <3>1
    <3>3. /\ v1'.horizon \in {0, v1.horizon} /\ v1'.metadata \in {0, v1.metadata}
          /\ v1'.index \in {0, v1.index} /\ v1'.shade \in {0, v1.shade}
      BY <3>1
    <3> QED
      BY <3>2, <3>3, EmptyTyped DEF TypeOK, Versions
  <2>4. v1'.index <= local.tiles /\ v1'.shade <= local.tiles
    BY <2>3 DEF TypeOK, Shared, Versions, Renders
  <2>5. todo' \in Seq(Commands) /\ last' \in Endings
    BY <1>17, PlanTyped DEF DeleteFails
  <2>6. /\ UNCHANGED <<local, clock, ink, rollbacks, conf, api, aside>>
        /\ mtime' = clock /\ upsets' \in 0..MaxUpsets
    BY <1>17, PublishAssumption DEF DeleteFails, Upset, TypeOK
  <2>7. Shared'
    BY <2>3, <2>4, <2>6 DEF Shared
  <2>8. \A w \in Workers : Lists(w)' => api'[w].horizon # 0 /\ api'[w].metadata # 0
    BY <2>6 DEF Lists, TypeOK
  <2> QED
    BY <2>3, <2>5, <2>6, <2>7, <2>8 DEF TypeOK, Endings
<1>18. ASSUME NEW w \in Workers, Die(w)
       PROVE  TypeOK' /\ Shared'
  BY <1>18 DEF Die, Upset, Loading, TypeOK, Shared, Lists, Builds
<1>19. CASE UNCHANGED vars
  BY <1>19 DEF vars, TypeOK, Shared, Lists
<1> QED
  BY <1>1, <1>2, <1>3, <1>4, <1>5, <1>6, <1>8, <1>9, <1>10, <1>11, <1>12, <1>13, <1>14, <1>15,
     <1>16, <1>17, <1>18, <1>19 DEF Next, Command, Trouble

-----------------------------------------------------------------------------
(* What the server has when a plan is about to run one of its commands.    *)
Publishing   == InOrder(todo, PublishOrder, "manifest")
Unpublishing == InOrder(todo, UnpublishOrder, "gone")

(* What a worker that starts now would answer, and that all of them do.    *)
OnDisk == IF Skipped THEN NoCity ELSE <<v1.horizon, v1.metadata, conf>>
Settled == \A w \in Up : Answers(w) = OnDisk

(* The commands that leave the server's files and config alone.            *)
Closing == {"healthy", "listed", "manifest", "gone"}

HalfPublished(command) ==
    /\ Ready
    /\ command \notin {"aside", "prune", "rasters"} =>
         v1.horizon = local.build /\ v1.metadata = local.build
    /\ command \notin {"aside", "prune", "rasters", "tiles"} =>
         v1.index = local.tiles /\ v1.shade = local.tiles
    /\ command \notin {"aside", "prune", "rasters", "tiles", "config"} =>
         conf \in local.build..local.yaml
    /\ command \in Closing => Settled

HalfUnpublished(command) ==
    /\ command # "delete" => v1 = Nothing
    /\ command \notin {"delete", "forget"} => conf = 0
    /\ command \in Closing => Settled

(* What a plan that ended well has left behind.                            *)
Published ==
    /\ v1.metadata \in Builds \ {0} /\ v1.horizon = v1.metadata
    /\ conf \in v1.metadata..local.yaml
    /\ v1.index \in 1..local.tiles /\ v1.shade = v1.index
    /\ local.from[v1.index] = v1.metadata
    /\ Settled
Unpublished == v1 = Nothing /\ conf = 0 /\ Settled

Ended ==
    /\ last = "published" => Published
    /\ last = "unpublished" => Unpublished

PlanInv ==
    /\ Idle \/ Publishing \/ Unpublishing
    /\ Publishing => HalfPublished(Head(todo))
    /\ Unpublishing => HalfUnpublished(Head(todo))
    /\ Idle => Ended

(* The next command of a plan is one of its own.                           *)
LEMMA Heads ==
  /\ Publishing =>
       Head(todo) \in {"aside", "prune", "rasters", "tiles", "config", "image", "recolor",
                      "restart", "healthy", "listed", "manifest"}
  /\ Unpublishing => Head(todo) \in {"delete", "forget", "restart", "healthy", "gone"}
<1>1. ASSUME NEW head, NEW next, <<head, next>> \in PublishOrder
      PROVE  head \in {"aside", "prune", "rasters", "tiles", "config", "image", "recolor",
                      "restart", "healthy", "listed", "manifest"}
  BY <1>1 DEF PublishOrder
<1>2. ASSUME NEW head, NEW next, <<head, next>> \in UnpublishOrder
      PROVE  head \in {"delete", "forget", "restart", "healthy", "gone"}
  BY <1>2 DEF UnpublishOrder
<1> QED
  BY <1>1, <1>2, HeadInOrder DEF Publishing, Unpublishing

(* No plan is of both kinds: they end differently.                         *)
LEMMA OneEnd ==
  ASSUME NEW s, InOrder(s, PublishOrder, "manifest"), InOrder(s, UnpublishOrder, "gone")
  PROVE  FALSE
  BY DEF InOrder

(* A command that is done keeps the promises of its plan if it does what   *)
(* the next one counts on, or what the end of the plan stands for.         *)
LEMMA DoneKeeps ==
  ASSUME PlanInv, NEW c, Doing(c), Done(c),
         Publishing =>
           /\ \A next : <<c, next>> \in PublishOrder => HalfPublished(next)'
           /\ c = "manifest" => Published',
         Unpublishing =>
           /\ \A next : <<c, next>> \in UnpublishOrder => HalfUnpublished(next)'
           /\ c = "gone" => Unpublished'
  PROVE  PlanInv'
<1>1. Publishing \/ Unpublishing
  BY DEF PlanInv, Doing, Idle
<1>2. CASE Publishing
  <2>1. CASE c = "manifest" /\ Idle' /\ last' = "published"
    BY <1>2, <2>1 DEF PlanInv, Ended, Publishing, Unpublishing, Idle, InOrder
  <2>2. CASE Publishing' /\ <<c, Head(todo')>> \in PublishOrder
    <3>1. HalfPublished(Head(todo))'
      BY <1>2, <2>2 DEF HalfPublished
    <3> QED
      BY <2>2, <3>1, OneEnd DEF PlanInv, Publishing, Unpublishing, Idle, InOrder
  <2> QED
    BY <1>2, <2>1, <2>2, OnToTheNext DEF Publishing
<1>3. CASE Unpublishing
  <2>1. CASE c = "gone" /\ Idle' /\ last' = "unpublished"
    BY <1>3, <2>1 DEF PlanInv, Ended, Publishing, Unpublishing, Idle, InOrder
  <2>2. CASE Unpublishing' /\ <<c, Head(todo')>> \in UnpublishOrder
    <3>1. HalfUnpublished(Head(todo))'
      BY <1>3, <2>2 DEF HalfUnpublished
    <3> QED
      BY <2>2, <3>1, OneEnd DEF PlanInv, Publishing, Unpublishing, Idle, InOrder
  <2> QED
    BY <1>3, <2>1, <2>2, OnToTheNext DEF Unpublishing
<1> QED
  BY <1>1, <1>2, <1>3

(* So does a command that gives up: it promises nothing.                   *)
LEMMA GiveUpKeeps ==
  ASSUME GiveUp PROVE PlanInv'
  BY DEF GiveUp, PlanInv, Publishing, Unpublishing, Idle, Ended, InOrder

(* A worker that starts answers what is on disk, one that dies nothing.    *)
LEMMA SettledStays ==
  ASSUME TypeOK, Settled, UNCHANGED <<v1, conf>>,
         UNCHANGED api \/ \E w \in Workers : Load(w) \/ Die(w)
  PROVE  Settled'
<1>1. CASE UNCHANGED api
  BY <1>1 DEF Settled, Up, Answers, Lists, OnDisk, Skipped
<1>2. ASSUME NEW w \in Workers, Die(w)
      PROVE  Settled'
  BY <1>2 DEF Die, Settled, Up, Answers, Lists, OnDisk, Skipped, Loading, TypeOK
<1>3. ASSUME NEW w \in Workers, Load(w)
      PROVE  Settled'
  <2>1. Answers(w)' = OnDisk
    BY <1>3 DEF Load, Answers, Lists, OnDisk, Skipped, Loading, TypeOK
  <2>2. \A s \in Workers \ {w} : api'[s] = api[s]
    BY <1>3 DEF Load, TypeOK
  <2> QED
    BY <2>1, <2>2 DEF Settled, Up, Answers, Lists, OnDisk, Skipped
<1> QED
  BY <1>1, <1>2, <1>3

(* A plan that stands still keeps its promises with the server's workers   *)
(* coming and going.                                                       *)
LEMMA StandingKeeps ==
  ASSUME TypeOK, PlanInv, UNCHANGED <<local, v1, conf, plan>>,
         UNCHANGED api \/ \E w \in Workers : Load(w) \/ Die(w)
  PROVE  PlanInv'
<1>1. Settled => Settled'
  BY SettledStays
<1>2. Publishing' = Publishing /\ Unpublishing' = Unpublishing /\ Idle' = Idle
  BY DEF plan, Publishing, Unpublishing, Idle, InOrder
<1>3. HalfPublished(Head(todo)) => HalfPublished(Head(todo))'
  BY <1>1 DEF plan, HalfPublished, Ready
<1>4. HalfUnpublished(Head(todo)) => HalfUnpublished(Head(todo))'
  BY <1>1 DEF plan, HalfUnpublished
<1>5. Ended => Ended'
  BY <1>1 DEF plan, Ended, Published, Unpublished
<1> QED
  BY <1>2, <1>3, <1>4, <1>5 DEF PlanInv

(* The commands that change nothing the promises are about.                *)
LEMMA IdleCommandKeeps ==
  ASSUME TypeOK, PlanInv, NEW c, Doing(c), Done(c), UNCHANGED <<local, v1, conf, api>>,
         c \in {"aside", "prune", "image"} \cup Checks
  PROVE  PlanInv'
<1>1. Settled' = Settled /\ Ready' = Ready
  BY DEF Settled, Up, Answers, Lists, OnDisk, Skipped, Ready
<1>2. ASSUME Publishing
      PROVE  /\ \A next : <<c, next>> \in PublishOrder => HalfPublished(next)'
             /\ c = "manifest" => Published'
  <2>1. HalfPublished(c)
    BY <1>2 DEF PlanInv, Doing
  <2>2. ASSUME NEW next, <<c, next>> \in PublishOrder
        PROVE  HalfPublished(next)'
    BY <1>1, <2>1, <2>2 DEF HalfPublished, PublishOrder, Checks, Closing
  <2>3. ASSUME c = "manifest"
        PROVE  Published'
    <3>1. v1.metadata # 0 /\ v1.index # 0
      BY <2>1, <2>3 DEF HalfPublished, Ready
    <3> QED
      BY <1>1, <2>1, <2>3, <3>1
      DEF HalfPublished, Ready, Published, Closing, TypeOK, Builds, Renders, Versions
  <2> QED
    BY <2>2, <2>3
<1>3. ASSUME Unpublishing
      PROVE  /\ \A next : <<c, next>> \in UnpublishOrder => HalfUnpublished(next)'
             /\ c = "gone" => Unpublished'
  BY <1>1, <1>3 DEF PlanInv, Doing, HalfUnpublished, Unpublished, UnpublishOrder, Checks, Closing
<1> QED
  BY <1>2, <1>3, DoneKeeps

(* Every step keeps what the plan has promised so far.                     *)
LEMMA StepPlan ==
  ASSUME TypeOK, Shared, PlanInv, [Next]_vars
  PROVE  PlanInv'
<1> USE DEF server, plan
<1>1. CASE Build \/ Render
  <2>1. Ended'
    <3>1. Settled => Settled'
      BY <1>1 DEF Build, Render, Settled, Up, Answers, Lists, OnDisk, Skipped
    <3>2. ASSUME Published
          PROVE  /\ v1.index \in 1..local'.tiles
                 /\ local'.from[v1.index] = local.from[v1.index]
      <4>1. CASE Build
        BY <3>2, <4>1 DEF Build, Published, TypeOK
      <4>2. CASE Render
        <5>1. /\ local'.tiles = local.tiles + 1
              /\ local'.from = [local.from EXCEPT ![local.tiles + 1] = local.build]
          BY <4>2 DEF Render, TypeOK
        <5>2. local.tiles \in Nat /\ v1.index \in 1..local.tiles
          BY <3>2 DEF Published, TypeOK, Renders
        <5>3. local.from \in [1..MaxRender -> Builds]
          BY DEF TypeOK
        <5>4. v1.index # local.tiles + 1
          BY <5>2
        <5> QED
          BY <5>1, <5>2, <5>3, <5>4
      <4> QED
        BY <1>1, <4>1, <4>2
    <3>3. ASSUME Published
          PROVE  conf \in v1.metadata..local'.yaml
      <4>1. local.yaml \in Nat /\ local.yaml <= clock /\ clock \in Nat
        BY DEF TypeOK, Shared, Builds
      <4>2. conf \in v1.metadata..local.yaml /\ v1.metadata \in Nat
        BY <3>3 DEF Published, Builds
      <4>3. local'.yaml \in {local.yaml, clock + 1}
        <5>1. CASE Build
          <6>1. local' = [local EXCEPT !.build = clock + 1, !.at = clock + 1, !.yaml = clock + 1]
            BY <5>1 DEF Build
          <6> QED
            BY <6>1 DEF TypeOK
        <5>2. CASE Render
          BY <5>2 DEF Render, TypeOK
        <5> QED
          BY <1>1, <5>1, <5>2
      <4> QED
        BY <4>1, <4>2, <4>3
    <3> QED
      BY <1>1, <3>1, <3>2, <3>3 DEF Build, Render, PlanInv, Ended, Published, Unpublished
  <2> QED
    BY <1>1, <2>1 DEF Build, Render, PlanInv, Idle, Publishing, Unpublishing, InOrder
<1>2. ASSUME NEW recolor \in BOOLEAN, StartPublish(recolor)
      PROVE  PlanInv'
  <2>1. Publishing' /\ Head(todo') = "aside"
    BY <1>2, PlansInOrder DEF StartPublish, Launch, Publishing
  <2>2. HalfPublished("aside")'
    BY <1>2 DEF StartPublish, Launch, HalfPublished, Ready, Closing
  <2> QED
    BY <2>1, <2>2, OneEnd DEF PlanInv, Publishing, Unpublishing, Idle, InOrder
<1>3. CASE StartUnpublish
  <2>1. Unpublishing' /\ Head(todo') = "delete"
    BY <1>3, PlansInOrder DEF StartUnpublish, Launch, Unpublishing
  <2>2. HalfUnpublished("delete")'
    BY DEF HalfUnpublished, Closing
  <2> QED
    BY <2>1, <2>2, OneEnd DEF PlanInv, Publishing, Unpublishing, Idle, InOrder
<1>4. CASE SetAside \/ Prune \/ BuildImage
  BY <1>4, IdleCommandKeeps DEF SetAside, Prune, BuildImage
<1>5. ASSUME NEW check \in Checks, Check(check)
      PROVE  PlanInv'
  BY <1>5, IdleCommandKeeps DEF Check
<1>6. CASE SendConfig
  <2>1. ASSUME Publishing, NEW next, <<"config", next>> \in PublishOrder
        PROVE  HalfPublished(next)'
    <3>1. HalfPublished("config")
      BY <1>6, <2>1 DEF SendConfig, PlanInv, Doing
    <3> QED
      BY <1>6, <2>1, <3>1
      DEF SendConfig, HalfPublished, Ready, PublishOrder, Closing, TypeOK, Shared, Builds
  <2>2. ~Unpublishing
    BY <1>6, Heads DEF SendConfig, Doing
  <2> QED
    BY <1>6, <2>1, <2>2, DoneKeeps DEF SendConfig
<1>7. ASSUME NEW content, Doing("recolor"), Done("recolor"), WriteLight(content),
             UNCHANGED <<local, conf, api>>
      PROVE  PlanInv'
  <2>1. ASSUME Publishing, NEW next, <<"recolor", next>> \in PublishOrder
        PROVE  HalfPublished(next)'
    <3>1. HalfPublished("recolor")
      BY <1>7, <2>1 DEF PlanInv, Doing
    <3>2. /\ v1'.horizon = v1.horizon /\ v1'.metadata = v1.metadata
          /\ v1'.index = v1.index /\ v1'.shade = v1.shade
      BY <1>7 DEF WriteLight, TypeOK, Versions
    <3> QED
      BY <1>7, <2>1, <3>1, <3>2 DEF HalfPublished, Ready, PublishOrder, Closing
  <2>2. ~Unpublishing
    BY <1>7, Heads DEF Doing
  <2> QED
    BY <1>7, <2>1, <2>2, DoneKeeps
<1>8. CASE Restart
  <2>1. Settled'
    BY <1>8 DEF Restart, Settled, Up, Loading
  <2>2. ASSUME Publishing, NEW next, <<"restart", next>> \in PublishOrder
        PROVE  HalfPublished(next)'
    <3>1. HalfPublished("restart")
      BY <1>8, <2>2 DEF Restart, PlanInv, Doing
    <3> QED
      BY <1>8, <2>1, <2>2, <3>1 DEF Restart, HalfPublished, Ready, PublishOrder, Closing
  <2>3. ASSUME Unpublishing, NEW next, <<"restart", next>> \in UnpublishOrder
        PROVE  HalfUnpublished(next)'
    <3>1. HalfUnpublished("restart")
      BY <1>8, <2>3 DEF Restart, PlanInv, Doing
    <3> QED
      BY <1>8, <2>1, <2>3, <3>1 DEF Restart, HalfUnpublished, UnpublishOrder, Closing
  <2> QED
    BY <1>8, <2>2, <2>3, DoneKeeps DEF Restart
<1>9. CASE Delete \/ Forget
  <2>1. PICK c \in {"delete", "forget"} :
          /\ Doing(c) /\ Done(c)
          /\ c = "delete" => v1' = Nothing
          /\ c = "forget" => v1' = v1 /\ conf' = 0
    BY <1>9 DEF Delete, Forget
  <2>2. ~Publishing
    BY <2>1, Heads DEF Doing
  <2>3. ASSUME Unpublishing, NEW next, <<c, next>> \in UnpublishOrder
        PROVE  HalfUnpublished(next)'
    <3>1. HalfUnpublished(c)
      BY <2>1, <2>3 DEF PlanInv, Doing
    <3> QED
      BY <2>1, <2>3, <3>1 DEF HalfUnpublished, UnpublishOrder, Closing
  <2> QED
    BY <2>1, <2>2, <2>3, DoneKeeps
<1>10. ASSUME NEW leg \in {"rasters", "tiles"}, Transfer(leg)
       PROVE  PlanInv'
  <2>1. ~Unpublishing /\ ~Idle /\ Head(todo) = leg
    BY <1>10, Heads DEF Transfer, Doing, Idle
  <2>2. Publishing /\ HalfPublished(leg)
    BY <2>1 DEF PlanInv
  <2>3. leg = "tiles" => v1'.horizon = v1.horizon /\ v1'.metadata = v1.metadata
    BY <1>10, TransferPutsOne DEF TypeOK, Versions
  <2>4. HalfPublished(Head(todo))'
    BY <1>10, <2>1, <2>2, <2>3 DEF Transfer, HalfPublished, Ready, Closing
  <2> QED
    BY <1>10, <2>1, <2>2, <2>4 DEF Transfer, PlanInv, Publishing, Unpublishing, Idle
<1>11. ASSUME NEW leg \in {"rasters", "tiles"}, EndLeg(leg)
       PROVE  PlanInv'
  <2>1. ~Unpublishing /\ Doing(leg) /\ Done(leg)
    BY <1>11, Heads DEF EndLeg, Doing
  <2>2. /\ leg = "rasters" => v1.horizon = local.build /\ v1.metadata = local.build
        /\ leg = "tiles" => v1.index = local.tiles /\ v1.shade = local.tiles
    BY <1>11, TheLegs DEF EndLeg, Leg, Sent
  <2>3. ASSUME Publishing, NEW next, <<leg, next>> \in PublishOrder
        PROVE  HalfPublished(next)'
    <3>1. HalfPublished(leg)
      BY <2>1, <2>3 DEF PlanInv, Doing
    <3> QED
      BY <1>11, <2>2, <2>3, <3>1 DEF EndLeg, HalfPublished, Ready, PublishOrder, Closing
  <2> QED
    BY <2>1, <2>3, DoneKeeps
<1>12. ASSUME NEW w \in Workers, Load(w) \/ Die(w)
       PROVE  PlanInv'
  BY <1>12, StandingKeeps DEF Load, Die
<1>13. ASSUME NEW command \in AllowFailure \cup {"config", "image", "forget", "restart"},
              Fail(command)
       PROVE  PlanInv'
  BY <1>13, GiveUpKeeps, IdleCommandKeeps DEF Fail, AllowFailure
<1>14. CASE GiveUp
  BY <1>14, GiveUpKeeps
<1>15. CASE UNCHANGED vars
  BY <1>15, StandingKeeps DEF vars
<1>16. CASE Edit
  <2>1. /\ UNCHANGED <<v1, conf, api, todo, last>>
        /\ local' = [local EXCEPT !.yaml = local'.yaml]
        /\ local.yaml \in Nat /\ local'.yaml \in Nat /\ local.yaml <= local'.yaml
        /\ local.build \in Nat /\ conf \in Nat /\ v1.metadata \in Nat
    BY <1>16 DEF Edit, TypeOK, Shared, Builds, Versions
  <2>2. Settled' = Settled /\ Ready' = Ready
    BY <2>1 DEF Settled, Up, Answers, Lists, OnDisk, Skipped, Ready, TypeOK
  <2>3. HalfPublished(Head(todo)) => HalfPublished(Head(todo))'
    BY <2>1, <2>2 DEF HalfPublished, TypeOK
  <2>4. HalfUnpublished(Head(todo)) => HalfUnpublished(Head(todo))'
    BY <2>1, <2>2 DEF HalfUnpublished
  <2>5. Ended => Ended'
    BY <2>1, <2>2 DEF Ended, Published, Unpublished, TypeOK
  <2> QED
    BY <2>1, <2>3, <2>4, <2>5 DEF PlanInv, Idle, Publishing, Unpublishing, InOrder
<1> QED
  BY <1>16, <1>1, <1>2, <1>3, <1>4, <1>5, <1>6, <1>7, <1>8, <1>9, <1>10, <1>11, <1>12, <1>13, <1>14,
     <1>15
  DEF Next, Command, Trouble, Recolor, RecolorFails, CheckFails, Cut, DeleteFails

-----------------------------------------------------------------------------
(* Before anything has happened.                                           *)
LEMMA InitHolds ==
  Init => TypeOK /\ Shared /\ PlanInv
<1> SUFFICES ASSUME Init PROVE TypeOK /\ Shared /\ PlanInv
  OBVIOUS
<1> USE PublishAssumption
<1>1. TypeOK
  <2>1. /\ local \in [build : Builds, tiles : Renders, from : [1..MaxRender -> Builds], at : Builds, yaml : Builds]
        /\ clock \in Builds /\ upsets \in 0..MaxUpsets
        /\ mtime \in Builds /\ ink \in [Inodes -> Renders] /\ conf \in Builds
    BY DEF Init, Builds, Renders
  <2>2. api \in [Workers -> Serving] /\ \A w \in Workers : ~Lists(w)
    <3> DEFINE new == [Loading EXCEPT !.up = TRUE]
    <3>1. new \in Serving /\ new.conf = 0
      BY EmptyTyped DEF Loading, Serving
    <3>2. api = [w \in Workers |-> new]
      BY DEF Init
    <3> HIDE DEF new
    <3> QED
      BY <3>1, <3>2 DEF Lists
  <2>3. todo \in Seq(Commands) /\ last \in Endings
    BY EmptySeq DEF Init, Endings
  <2> QED
    BY <2>1, <2>2, <2>3, EmptyTyped DEF Init, TypeOK, Serving, Endings
<1>2. Shared
  BY DEF Init, Shared, Nothing
<1>3. PlanInv
  BY DEF Init, PlanInv, Idle, Publishing, Unpublishing, InOrder, Ended
<1> QED
  BY <1>1, <1>2, <1>3

(* Every variable holds what it may, and a worker lists a city only with   *)
(* both of the files it answers from in hand, whatever goes wrong.         *)
THEOREM PublishTyped == Spec => []TypeOK
<1>1. TypeOK /\ Shared /\ [Next]_vars => TypeOK' /\ Shared'
  BY StepTyped
<1> QED
  BY <1>1, InitHolds, PTL DEF Spec

(* The plan's promises hold throughout.                                    *)
LEMMA PlanHolds == Spec => [](TypeOK /\ Shared /\ PlanInv)
<1>1. TypeOK /\ Shared /\ PlanInv /\ [Next]_vars => (TypeOK /\ Shared /\ PlanInv)'
  BY StepTyped, StepPlan
<1> QED
  BY <1>1, InitHolds, PTL DEF Spec

(* What a finished plan says of itself is so, with any number of workers,  *)
(* builds and failures, and however slow the workers are: a publish that   *)
(* ends without an error leaves one build on disk, its map beside it, and  *)
(* no worker that answers from another; an unpublish leaves nothing, and   *)
(* no worker that lists the city.                                          *)
THEOREM SuccessAlwaysTrue == Spec => []SuccessIsTrue
<1>1. TypeOK /\ PlanInv => SuccessIsTrue
  <2> SUFFICES ASSUME TypeOK, PlanInv, Idle PROVE
               /\ last = "published" =>
                    /\ v1.horizon = v1.metadata /\ v1.index = v1.shade
                    /\ MapOf = v1.metadata
                    /\ \A w \in Up : Answers(w) = <<v1.horizon, v1.metadata, conf>>
                    /\ conf \in v1.metadata..local.yaml
               /\ last = "unpublished" => v1 = Nothing /\ \A w \in Up : Answers(w) = NoCity
    BY DEF SuccessIsTrue
  <2>1. ASSUME last = "published"
        PROVE  /\ v1.horizon = v1.metadata /\ v1.index = v1.shade
               /\ MapOf = v1.metadata
               /\ \A w \in Up : Answers(w) = <<v1.horizon, v1.metadata, conf>>
               /\ conf \in v1.metadata..local.yaml
    <3>1. Published
      BY <2>1 DEF PlanInv, Ended
    <3>2. ~Skipped /\ v1.index # 0
      BY <3>1 DEF Published, Skipped, TypeOK, Renders, Builds
    <3> QED
      BY <3>1, <3>2 DEF Published, Settled, OnDisk, MapOf
  <2>2. ASSUME last = "unpublished"
        PROVE  v1 = Nothing /\ \A w \in Up : Answers(w) = NoCity
    BY <2>2 DEF PlanInv, Ended, Unpublished, Settled, OnDisk, Skipped
  <2> QED
    BY <2>1, <2>2
<1> QED
  BY <1>1, PlanHolds, PTL

-----------------------------------------------------------------------------
(* While some worker has still to start, no plan touches what it will read *)
(* and those that have started answer what it will answer.                 *)
WholeOnDisk ==
    \/ Skipped
    \/ /\ v1.metadata \in Builds \ {0} /\ v1.horizon = v1.metadata
       /\ conf \in v1.metadata..MaxClock

Steady ==
    Up # Workers => WholeOnDisk /\ Settled /\ (Idle \/ Head(todo) \in Closing)

(* A worker starts on its own only when a restart of all of them made it.  *)
NobodyDies == Perils \cap {"death", "slow"} = {}

(* The commands that change the server's files find every worker up.       *)
LEMMA WorkingIsUp ==
  ASSUME Steady, NEW c, Doing(c), c \notin Closing, UNCHANGED api
  PROVE  Steady'
  BY DEF Steady, Doing, Idle, Up

(* Workers may start while the files stay as they are.                     *)
LEMMA RestingIsSteady ==
  ASSUME TypeOK, Steady, UNCHANGED <<v1, conf>>, Idle' \/ Head(todo') \in Closing,
         UNCHANGED api \/ \E w \in Workers : Load(w)
  PROVE  Steady'
<1>1. CASE Up # Workers
  BY <1>1, SettledStays DEF Steady, WholeOnDisk, Skipped
<1>2. CASE Up = Workers
  BY <1>2 DEF Steady, Up, Load
<1> QED
  BY <1>1, <1>2

(* No plan starts, and none goes on to its files, before all are up.       *)
LEMMA StepSteady ==
  ASSUME NobodyDies, TypeOK, PlanInv, Steady, [Next]_vars
  PROVE  Steady'
<1> USE DEF server, plan
<1>1. CASE Build \/ Edit \/ Render \/ UNCHANGED vars
  <2>1. UNCHANGED <<v1, conf, api, todo>>
    BY <1>1 DEF Build, Edit, Render, vars
  <2> QED
    BY <2>1 DEF Steady, WholeOnDisk, Settled, OnDisk, Skipped, Up, Answers, Lists, Idle
<1>2. ASSUME NEW commands, Launch(commands)
      PROVE  Steady'
  <2>1. Up = Workers
    BY <1>2 DEF Launch, Prompt, CanLoad, Steady, WholeOnDisk, NobodyDies
  <2> QED
    BY <1>2, <2>1 DEF Launch, Steady, Up
<1>3. ASSUME NEW check \in Checks, Check(check) \/ CheckFails(check)
      PROVE  Steady'
  <2>1. Idle' \/ Head(todo') \in Closing
    <3>1. CASE CheckFails(check)
      BY <3>1 DEF CheckFails, GiveUp, Idle
    <3>2. CASE Check(check) /\ Publishing
      <4>1. Idle' \/ <<check, Head(todo')>> \in PublishOrder
        BY <3>2, OnToTheNext DEF Check, Publishing
      <4> QED
        BY <4>1 DEF PublishOrder, Checks, Closing
    <3>3. CASE Check(check) /\ Unpublishing
      <4>1. Idle' \/ <<check, Head(todo')>> \in UnpublishOrder
        BY <3>3, OnToTheNext DEF Check, Unpublishing
      <4> QED
        BY <4>1 DEF UnpublishOrder, Checks, Closing
    <3> QED
      BY <1>3, <3>1, <3>2, <3>3 DEF PlanInv, Check, Doing, Idle
  <2> QED
    BY <1>3, <2>1, RestingIsSteady DEF Check, CheckFails
<1>4. CASE Restart
  <2>1. Settled'
    BY <1>4 DEF Restart, Settled, Up, Loading
  <2>2. CASE Publishing
    <3>1. Head(todo') = "healthy"
      <4>1. <<"restart", Head(todo')>> \in PublishOrder
        BY <1>4, <2>2, OnToTheNext DEF Restart, Publishing
      <4> QED
        BY <4>1 DEF PublishOrder
    <3>2. WholeOnDisk
      <4>1. HalfPublished("restart") /\ local.build \in Builds \ {0}
        BY <1>4, <2>2 DEF Restart, PlanInv, Doing, HalfPublished, Ready, TypeOK
      <4>2. local.yaml \in Builds /\ conf \in Builds
        BY DEF TypeOK
      <4>3. conf \in v1.metadata..MaxClock
        BY <4>1, <4>2 DEF HalfPublished, Closing, Builds
      <4> QED
        BY <4>1, <4>3 DEF HalfPublished, Closing, WholeOnDisk
    <3>3. WholeOnDisk'
      BY <1>4, <3>2 DEF Restart, WholeOnDisk, Skipped
    <3> QED
      BY <2>1, <3>1, <3>3 DEF Steady, Closing
  <2>3. CASE Unpublishing
    <3>1. Head(todo') = "healthy"
      <4>1. <<"restart", Head(todo')>> \in UnpublishOrder
        BY <1>4, <2>3, OnToTheNext DEF Restart, Unpublishing
      <4> QED
        BY <4>1 DEF UnpublishOrder
    <3>2. WholeOnDisk'
      <4>1. conf = 0
        BY <1>4, <2>3 DEF Restart, PlanInv, Doing, HalfUnpublished
      <4> QED
        BY <1>4, <4>1 DEF Restart, WholeOnDisk, Skipped
    <3> QED
      BY <2>1, <3>1, <3>2 DEF Steady, Closing
  <2> QED
    BY <1>4, <2>2, <2>3 DEF PlanInv, Restart, Doing, Idle
<1>5. ASSUME NEW w \in Workers, Load(w)
      PROVE  Steady'
  <2>1. Idle' \/ Head(todo') \in Closing
    BY <1>5 DEF Load, Steady, Up, Idle
  <2> QED
    BY <1>5, <2>1, RestingIsSteady DEF Load
<1>6. ASSUME NEW command \in AllowFailure \cup {"config", "image", "forget", "restart"},
             Fail(command)
      PROVE  Steady'
  BY <1>6, WorkingIsUp DEF Fail, AllowFailure, Closing
<1>7. ASSUME NEW w \in Workers, Die(w)
      PROVE  FALSE
  BY <1>7 DEF Die, Upset, NobodyDies
<1>8. CASE SetAside \/ Prune \/ SendConfig \/ BuildImage \/ Recolor \/ Delete \/ Forget
           \/ RecolorFails
  BY <1>8, WorkingIsUp
  DEF SetAside, Prune, SendConfig, BuildImage, Recolor, Delete, Forget, RecolorFails, Closing
<1>9. ASSUME NEW leg \in {"rasters", "tiles"}, Transfer(leg) \/ EndLeg(leg) \/ Cut(leg)
       PROVE  Steady'
  BY <1>9, WorkingIsUp DEF Transfer, EndLeg, Cut, Closing
<1>10. ASSUME NEW gone, DeleteFails(gone)
       PROVE  Steady'
  BY <1>10, WorkingIsUp DEF DeleteFails, Closing
<1> QED
  BY <1>1, <1>2, <1>3, <1>4, <1>5, <1>6, <1>7, <1>8, <1>9, <1>10
  DEF Next, Command, Trouble, StartPublish, StartUnpublish

(* Only a restart takes answers away, and only a start brings one.         *)
LEMMA StepSwaps ==
  ASSUME NobodyDies, TypeOK, Steady, [Next]_vars
  PROVE  [Release!Next]_[w \in Workers |-> Answers(w)]
<1>1. CASE UNCHANGED api
  BY <1>1 DEF Answers, Lists
<1>2. CASE Restart
  <2>1. \A w \in Workers : Answers(w)' = <<>>
    BY <1>2 DEF Restart, Answers, Loading
  <2> QED
    BY <2>1 DEF Release!Next, Release!TakeDown
<1>3. ASSUME NEW w \in Workers, Load(w)
      PROVE  Release!BringUp(w)
  <2>1. WholeOnDisk /\ Settled /\ ~api[w].up
    BY <1>3 DEF Load, Steady, Up
  <2>2. /\ Answers(w) = <<>> /\ Answers(w)' = OnDisk
        /\ \A s \in Workers \ {w} : Answers(s)' = Answers(s)
    BY <1>3 DEF Load, Answers, Lists, OnDisk, Skipped, Loading, TypeOK
  <2>3. \A s \in Workers : Answers(s) \in {<<>>, OnDisk}
    BY <2>1 DEF Settled, Up, Answers
  <2>4. OnDisk \in WholeBuilds \cup {NoCity}
    <3>1. CASE Skipped
      BY <3>1 DEF OnDisk
    <3>2. CASE ~Skipped
      <4>1. OnDisk = <<v1.metadata, v1.metadata, conf>>
        BY <2>1, <3>2 DEF WholeOnDisk, OnDisk
      <4>2. OnDisk \in {<<v1.metadata, v1.metadata, yaml>> : yaml \in v1.metadata..MaxClock}
        BY <2>1, <3>2, <4>1 DEF WholeOnDisk
      <4> QED
        BY <2>1, <3>2, <4>2 DEF WholeOnDisk, WholeBuilds
    <3> QED
      BY <3>1, <3>2
  <2> DEFINE on == [s \in Workers |-> Answers(s)]
  <2>5. on[w] = <<>> /\ \A s \in Workers : on[s] \in {<<>>, OnDisk}
    BY <2>2, <2>3
  <2>6. [s \in Workers |-> Answers(s)'] = [on EXCEPT ![w] = OnDisk]
    BY <2>2
  <2> QED
    BY <2>4, <2>5, <2>6 DEF Release!BringUp
<1>4. ASSUME NEW w \in Workers, Die(w)
      PROVE  FALSE
  BY <1>4 DEF Die, Upset, NobodyDies
<1>5. UNCHANGED api \/ Restart \/ (\E w \in Workers : Load(w) \/ Die(w))
  BY DEF Next, vars, Build, Edit, Render, StartPublish, StartUnpublish, Launch, Command,
     Trouble, SetAside, Prune, SendConfig, BuildImage, Recolor, Delete, Forget, Transfer,
     EndLeg, Check, CheckFails, Cut, Fail, RecolorFails, DeleteFails
<1> QED
  BY <1>1, <1>2, <1>3, <1>4, <1>5 DEF Release!Next

(* The API swaps whole releases: where no worker dies and each is up again *)
(* before anybody launches another plan, every step is one of a service    *)
(* that goes down as a whole and comes back with one release for all.  A   *)
(* worker that dies in mid-transfer comes back with what is on disk then,  *)
(* which is why the hypothesis is there.                                   *)
THEOREM PublishSwapsWhole ==
  ASSUME NobodyDies
  PROVE  Spec => SwapsWhole
<1> DEFINE Inv == TypeOK /\ Shared /\ PlanInv /\ Steady
<1>1. Init => Steady /\ Release!Init
  <2> SUFFICES ASSUME Init PROVE Steady /\ Release!Init
    OBVIOUS
  <2>1. Up = Workers /\ \A w \in Workers : Answers(w) = NoCity
    BY DEF Init, Up, Loading, Answers, Lists
  <2> QED
    BY <2>1 DEF Steady, Release!Init
<1>2. Inv /\ [Next]_vars => Inv'
  BY StepTyped, StepPlan, StepSteady
<1>3. Inv /\ [Next]_vars => [Release!Next]_[w \in Workers |-> Answers(w)]
  BY StepSwaps
<1> QED
  BY <1>1, <1>2, <1>3, InitHolds, PTL DEF Spec, SwapsWhole, Release!Spec

-----------------------------------------------------------------------------
(* A viewer's manifest is of a render there has been, and a publish leaves *)
(* no older archive beside it.                                             *)
ViewerInv ==
    /\ manifest \in 0..local.tiles /\ cache \in [1..MaxRender -> Renders]
    /\ Idle /\ last = "published" => v1.shade >= manifest

(* A manifest is of the latest render at most, and a publish that ends     *)
(* well has put the latest archive in place.                               *)
LEMMA StepViewer ==
  ASSUME TypeOK, Shared, PlanInv, ViewerInv, [ViewerNext]_<<vars, viewerVars>>
  PROVE  ViewerInv'
<1> USE DEF server, plan, viewerVars
<1>1. CASE OpenMap
  <2>1. Idle /\ last = "published" => v1.shade = v1.index
    BY DEF PlanInv, Ended, Published
  <2> QED
    BY <1>1, <2>1 DEF OpenMap, ViewerInv, Shared, TypeOK, Versions, Renders, vars, Idle
<1>2. CASE UNCHANGED viewerVars /\ [Next]_vars
  <2>1. local.tiles \in Nat /\ local'.tiles \in {local.tiles, local.tiles + 1}
    <3>1. local' = local \/ Build \/ Edit \/ Render
      BY <1>2 DEF Next, vars, StartPublish, StartUnpublish, Launch, Command, Trouble, SetAside,
         Prune, SendConfig, BuildImage, Recolor, Restart, Delete, Forget, Transfer, EndLeg,
         Check, CheckFails, Load, Cut, Fail, RecolorFails, DeleteFails, Die
    <3>2. Build \/ Edit => local'.tiles = local.tiles
      BY DEF Build, Edit, TypeOK
    <3>3. Render => local'.tiles = local.tiles + 1
      BY DEF Render, TypeOK
    <3> QED
      BY <3>1, <3>2, <3>3 DEF TypeOK, Renders
  <2>2. manifest \in 0..local'.tiles
    BY <1>2, <2>1 DEF ViewerInv
  <2>3. ASSUME Idle', last' = "published"
        PROVE  v1'.shade >= manifest
    <3>1. CASE Idle /\ last = "published" /\ v1' = v1
      BY <3>1 DEF ViewerInv
    <3>2. CASE Doing("manifest") /\ Publishing /\ v1' = v1
      <4>1. v1.shade = local.tiles
        BY <3>2 DEF PlanInv, HalfPublished, Doing
      <4> QED
        BY <2>1, <3>2, <4>1 DEF ViewerInv
    <3>3. \/ Idle /\ last = "published" /\ v1' = v1
          \/ Doing("manifest") /\ Publishing /\ v1' = v1
      <4>1. ASSUME NEW c, Doing(c), Done(c)
            PROVE  c = "manifest" /\ Publishing
        <5>1. CASE Publishing
          BY <2>3, <4>1, <5>1, OnToTheNext DEF Publishing, Idle, InOrder
        <5>2. CASE Unpublishing
          BY <2>3, <4>1, <5>2, OnToTheNext DEF Unpublishing, Idle, InOrder
        <5> QED
          BY <4>1, <5>1, <5>2 DEF PlanInv, Doing, Idle
      <4>2. ~GiveUp
        BY <2>3 DEF GiveUp
      <4>3. ASSUME NEW commands, Launch(commands), commands # <<>>
            PROVE  FALSE
        BY <2>3, <4>3 DEF Launch, Idle
      <4>4. \A recolor \in BOOLEAN : PublishPlan(recolor) # <<>> /\ UnpublishPlan # <<>>
        BY PlansInOrder DEF InOrder
      <4>5. ~StartUnpublish /\ \A recolor \in BOOLEAN : ~StartPublish(recolor)
        BY <4>3, <4>4 DEF StartPublish, StartUnpublish
      <4>6. \A leg : ~Transfer(leg)
        BY <2>3 DEF Transfer, Doing, Idle
      <4>7. CASE v1' = v1 /\ todo' = todo /\ last' = last
        BY <2>3, <4>7 DEF Idle
      <4>8. ASSUME NEW c, Doing(c), Done(c), c = "manifest" => v1' = v1
            PROVE  Doing("manifest") /\ Publishing /\ v1' = v1
        BY <4>1, <4>8
      <4> QED
        BY <1>2, <4>2, <4>5, <4>6, <4>7, <4>8
        DEF Next, vars, Build, Edit, Render, Command, Trouble, SetAside, Prune, SendConfig, BuildImage,
            Recolor, Restart, Delete, Forget, EndLeg, Check, CheckFails, Load, Cut, Fail,
            AllowFailure, RecolorFails, DeleteFails, Die
    <3> QED
      BY <3>1, <3>2, <3>3
  <2> QED
    BY <1>2, <2>2, <2>3 DEF ViewerInv
<1>3. CASE FetchTiles
  <2>1. cache' \in [1..MaxRender -> Renders]
    BY <1>3 DEF FetchTiles, ViewerInv, TypeOK, Versions
  <2> QED
    BY <1>3, <2>1 DEF FetchTiles, ViewerInv, vars, Idle
<1> QED
  BY <1>1, <1>2, <1>3 DEF ViewerNext

(* Whoever fetches from a city at rest after a successful publish keeps,   *)
(* for the year it may, what the manifest it holds describes or newer,     *)
(* however many publishes, failed ones among them, came before.            *)
THEOREM ViewersAtRestNeverStale == ViewerSpec => AtRestNeverStale
<1> DEFINE Inv == TypeOK /\ Shared /\ PlanInv /\ ViewerInv
<1>1. ViewerInit => Inv
  <2>1. 0 \in Renders
    BY EmptyTyped
  <2> QED
    BY <2>1, InitHolds DEF ViewerInit, ViewerInv, Init, Nothing
<1>2. Inv /\ [ViewerNext]_<<vars, viewerVars>> => Inv'
  <2>1. [ViewerNext]_<<vars, viewerVars>> => [Next]_vars
    BY DEF ViewerNext, OpenMap, FetchTiles
  <2> QED
    BY <2>1, StepTyped, StepPlan, StepViewer
<1>3. Inv /\ [ViewerNext]_<<vars, viewerVars>> =>
        [Idle /\ last = "published" /\ cache' # cache =>
           cache'[manifest] >= manifest]_<<vars, viewerVars>>
  <2> SUFFICES ASSUME Inv, ViewerNext, Idle, last = "published", cache' # cache
               PROVE  cache'[manifest] >= manifest
    OBVIOUS
  <2> QED
    BY DEF ViewerNext, OpenMap, FetchTiles, ViewerInv, TypeOK, Renders, viewerVars
<1> QED
  BY <1>1, <1>2, <1>3, PTL DEF ViewerSpec, AtRestNeverStale

-----------------------------------------------------------------------------
Places == {"none", "opened", "free", "recorded", "handling", "starting", "started",
           "waiting", "serving", "telling", "waiting for all", "finishing", "ended",
           "killed"}
Servers == {<<>>, <<"api">>, <<"api", "viewer">>}
States == {"none", "starting", "listening", "closing", "gone"}
Records == [status : {"pending", "running", "failed", "done"},
            by     : Supervisors \cup {NoPreview}]

Typed ==
    /\ viewer \in BOOLEAN
    /\ at \in [Supervisors -> Places]
    /\ record \in Records /\ mem \in [Supervisors -> Records]
    /\ handler \in [Supervisors -> {"default", "stop", "ignore"}]
    /\ processes \in [Supervisors -> Servers] /\ left \in [Supervisors -> Servers]
    /\ why \in [Supervisors -> {"stop", "interrupt", "error", "unforeseen"}]
    /\ child \in [Supervisors -> [Halves -> States]]

(* How many servers it has noted goes with where it is, and so does what a *)
(* stop does to it: the handler is there before the first server, and a    *)
(* teardown that began with a stop has already disarmed it.                *)
Early == {"none", "opened", "free", "recorded", "handling"}
BegunAt(p) ==
    /\ at[p] \in Early => processes[p] = <<>> /\ \A k \in Halves : child[p][k] = "none"
    /\ at[p] \in {"starting", "started"} => processes[p] \in {<<>>, <<"api">>}
    /\ at[p] = "waiting" => processes[p] # <<>>
    /\ handler[p] = "default" =>
           at[p] \in {"none", "opened", "free", "recorded", "ended", "killed"}
    /\ at[p] \in {"telling", "waiting for all"} /\ handler[p] = "stop" => why[p] # "stop"
    /\ at[p] = "killed" => "killed" \in mishaps
Begun == \A p \in Supervisors : BegunAt(p)

(* A server that is up is on the list of those its supervisor will tell.   *)
UpNow(p) == {k \in Halves : child[p][k] \in {"starting", "listening"}}
NotedAt(p) ==
    "cut" \notin mishaps =>
        /\ at[p] \in {"starting", "waiting", "serving"} => UpNow(p) \subseteq ToSet(processes[p])
        /\ at[p] = "started" => UpNow(p) \subseteq ToSet(processes[p]) \cup {Coming(p)}
        /\ at[p] = "telling" => UpNow(p) \subseteq ToSet(left[p])
        /\ at[p] \in {"waiting for all", "finishing", "ended"} => UpNow(p) = {}
Noted == \A p \in Supervisors : NotedAt(p)

(* One supervisor at a time is between its record and its end, and the     *)
(* next one that looks for it finds it.                                    *)
Busy == {"recorded", "handling", "starting", "started", "waiting", "serving", "telling",
         "waiting for all", "finishing"}
OneAtATime ==
    "together" \notin mishaps =>
        /\ \A p, q \in Supervisors : {at[p], at[q]} \subseteq {"opened", "free"} => p = q
        /\ \A p \in Supervisors : at[p] \in Busy => record = [status |-> "running", by |-> p]
        /\ \A p, q \in Supervisors : at[p] \in Busy /\ at[q] = "opened" => mem[q] = record
        /\ \A p, q \in Supervisors : at[p] \in Busy => at[q] # "free"

(* What has answered is its own.                                           *)
OwnAt(p) ==
    /\ at[p] \in {"starting", "started"} /\ processes[p] = <<"api">>
         => child[p]["api"] = "listening"
    /\ at[p] = "waiting" /\ processes[p] = <<"api", "viewer">>
         => child[p]["api"] = "listening"
    /\ at[p] = "serving" => /\ child[p]["api"] = "listening"
                            /\ viewer => child[p]["viewer"] = "listening"
Own == mishaps = {} => \A p \in Supervisors : OwnAt(p)

PreviewInv == Typed /\ Begun /\ Noted /\ OneAtATime /\ Own

-----------------------------------------------------------------------------
(* The list of servers is empty, has the API, or has both.                 *)
LEMMA ListsOfServers ==
    /\ Append(<<>>, "api") = <<"api">> /\ Append(<<"api">>, "viewer") = <<"api", "viewer">>
    /\ Front(<<"api">>) = <<>> /\ Front(<<"api", "viewer">>) = <<"api">>
    /\ Last(<<"api">>) = "api" /\ Last(<<"api", "viewer">>) = "viewer"
    /\ ToSet(<<>>) = {} /\ ToSet(<<"api">>) = {"api"}
    /\ ToSet(<<"api", "viewer">>) = {"api", "viewer"}
<1> DEFINE none == <<>>  one == <<"api">>  two == <<"api", "viewer">>
<1>1. none \in Seq(Halves) /\ Len(none) = 0
  BY DEF Halves
<1>2. one \in Seq(Halves) /\ Len(one) = 1 /\ one[1] = "api"
  BY DEF Halves
<1>3. two \in Seq(Halves) /\ Len(two) = 2 /\ two[1] = "api" /\ two[2] = "viewer"
  BY DEF Halves
<1>4. "api" \in Halves /\ "viewer" \in Halves
  BY DEF Halves
<1> HIDE DEF none, one, two
<1>5. Append(none, "api") = one
  <2>1. /\ Append(none, "api") \in Seq(Halves) /\ Len(Append(none, "api")) = 1
        /\ Append(none, "api")[1] = "api"
    BY <1>1, <1>4, AppendProperties
  <2> QED
    BY <2>1, <1>2, SeqEqual
<1>6. Append(one, "viewer") = two
  <2>1. /\ Append(one, "viewer") \in Seq(Halves) /\ Len(Append(one, "viewer")) = 2
        /\ Append(one, "viewer")[1] = "api" /\ Append(one, "viewer")[2] = "viewer"
    BY <1>2, <1>4, AppendProperties
  <2> QED
    BY <2>1, <1>3, SeqEqual
<1>7. Front(one) = none
  BY <1>2, SubSeqEmpty DEF Front, none
<1>8. Front(two) = one
  <2>1. \A i \in 1..1 : two[i] \in Halves
    BY <1>3, <1>4
  <2>2. /\ SubSeq(two, 1, 1) \in Seq(Halves) /\ Len(SubSeq(two, 1, 1)) = 1
        /\ \A i \in 1..1-1+1 : SubSeq(two, 1, 1)[i] = two[1+i-1]
    BY <2>1, SubSeqProperties
  <2>3. SubSeq(two, 1, 1)[1] = two[1]
    BY <2>2
  <2>4. Front(two) = SubSeq(two, 1, 1)
    BY <1>3 DEF Front
  <2> QED
    BY <2>2, <2>3, <2>4, <1>2, <1>3, SeqEqual
<1>9. Last(one) = "api" /\ Last(two) = "viewer"
  BY <1>2, <1>3 DEF Last
<1>10. ToSet(none) = {} /\ ToSet(one) = {"api"}
  BY DEF ToSet, none, one
<1>11. ToSet(two) = {"api", "viewer"}
  BY DEF ToSet, two
<1> QED
  BY <1>5, <1>6, <1>7, <1>8, <1>9, <1>10, <1>11 DEF none, one, two

(* What SIGTERM does to a supervisor leaves it somewhere.                  *)
LEMMA TermTyped ==
  ASSUME Typed, NEW p \in Supervisors, Term(p)
  PROVE  /\ at' \in [Supervisors -> Places]
         /\ handler' \in [Supervisors -> {"default", "stop", "ignore"}]
         /\ why' \in [Supervisors -> {"stop", "interrupt", "error", "unforeseen"}]
         /\ left' \in [Supervisors -> Servers]
<1>1. CASE handler[p] = "ignore"
  BY <1>1 DEF Term, Typed
<1>2. CASE handler[p] = "default"
  BY <1>2 DEF Term, Typed, Places
<1>3. CASE handler[p] = "stop"
  BY <1>3 DEF Term, Raise, Typed, Places
<1> QED
  BY <1>1, <1>2, <1>3 DEF Typed

(* Every variable holds what it may.                                       *)
LEMMA StepPreviewTyped ==
  ASSUME Typed, Begun, [PreviewNext]_previewVars
  PROVE  Typed'
<1> USE PreviewAssumption DEF Typed, Places, States, Records, Unrecorded, Halves
<1>1. ASSUME NEW p \in Supervisors, LaunchPreview(p)
      PROVE  Typed'
  BY <1>1 DEF LaunchPreview
<1>2. ASSUME StopByKey
      PROVE  Typed'
  <2>1. record.by \in Supervisors
    BY <1>2 DEF StopByKey, IsAlive
  <2>2. Term(record.by)
    BY <1>2 DEF StopByKey
  <2> QED
    BY <1>2, <2>1, <2>2, TermTyped DEF StopByKey
<1>3. ASSUME Reopen
      PROVE  Typed'
  BY <1>3 DEF Reopen
<1>4. ASSUME NEW p \in Supervisors, Interrupt(p)
      PROVE  Typed'
  BY <1>4 DEF Interrupt, Raise
<1>5. ASSUME NEW p \in Supervisors, KillPreview(p)
      PROVE  Typed'
  BY <1>5 DEF KillPreview, Forgets, Servers
<1>6. ASSUME NEW p \in Supervisors, NEW k \in Halves, Bind(p, k) \/ ShutDown(p, k)
      PROVE  Typed'
  <2>1. \E s \in States : child' = [child EXCEPT ![p][k] = s]
    BY <1>6 DEF Bind, ShutDown
  <2>2. child \in [Supervisors -> [Halves -> States]]
    OBVIOUS
  <2>3. child' \in [Supervisors -> [Halves -> States]]
    <3> HIDE DEF Typed, States, Halves
    <3> QED
      BY <2>1, <2>2
  <2> QED
    BY <1>6, <2>3 DEF Bind, ShutDown
<1>7. ASSUME NEW p \in Supervisors, Supervise(p)
      PROVE  Typed'
  <2>1. CASE CheckPreview(p)
    BY <2>1 DEF CheckPreview
  <2>2. CASE BeginPreview(p)
    BY <2>2 DEF BeginPreview
  <2>3. CASE Handle(p)
    BY <2>3 DEF Handle
  <2>4. CASE Claim(p)
    BY <2>4 DEF Claim
  <2>5. CASE Popen(p)
    BY <2>5 DEF Popen, Coming
  <2>6. CASE NoteServer(p)
    <3>1. processes[p] \in {<<>>, <<"api">>}
      BY <2>6 DEF NoteServer, Begun, BegunAt
    <3>2. Append(processes[p], Coming(p)) \in Servers
      BY <3>1, ListsOfServers DEF Coming, Servers
    <3> QED
      BY <2>6, <3>2 DEF NoteServer
  <2>7. CASE IsAnswered(p)
    BY <2>7 DEF IsAnswered
  <2>8. CASE NeverUp(p) \/ PopenFails(p)
    <3>1. left' \in [Supervisors -> Servers]
      BY <2>8 DEF NeverUp, PopenFails
    <3>2. CASE NeverUp(p)
      BY <3>1, <3>2 DEF NeverUp
    <3>3. CASE PopenFails(p)
      BY <3>1, <3>3 DEF PopenFails
    <3> QED
      BY <2>8, <3>2, <3>3
  <2>9. CASE Tell(p)
    <3>1. CASE left[p] = <<>>
      BY <2>9, <3>1 DEF Tell
    <3>2. CASE left[p] # <<>>
      <4>1. Front(left[p]) \in Servers /\ Last(left[p]) \in Halves
        BY <3>2, ListsOfServers DEF Servers
      <4>2. Told(child[p][Last(left[p])]) \in States
        BY <4>1 DEF Told
      <4>3. child' = [child EXCEPT ![p][Last(left[p])] = Told(child[p][Last(left[p])])]
        BY <2>9, <3>2 DEF Tell
      <4>4. child' \in [Supervisors -> [Halves -> States]]
        BY <4>1, <4>2, <4>3
      <4>5. left' \in [Supervisors -> Servers]
        BY <2>9, <3>2, <4>1 DEF Tell
      <4> QED
        BY <2>9, <3>2, <4>1, <4>4, <4>5 DEF Tell
    <3> QED
      BY <3>1, <3>2
  <2>10. CASE WaitForAll(p)
    <3>1. PICK late \in SUBSET (ToSet(processes[p]) \cap {"viewer"}) :
            child' = [child EXCEPT ![p] =
               [k \in Halves |-> IF k \in ToSet(processes[p]) \ late THEN "gone" ELSE @[k]]]
      BY <2>10 DEF WaitForAll
    <3>2. child' \in [Supervisors -> [Halves -> States]]
      BY <3>1
    <3> QED
      BY <2>10, <3>2 DEF WaitForAll
  <2>11. CASE FinishPreview(p)
    BY <2>11 DEF FinishPreview, Forgets, Servers
  <2> QED
    BY <1>7, <2>1, <2>2, <2>3, <2>4, <2>5, <2>6, <2>7, <2>8, <2>9, <2>10, <2>11 DEF Supervise
<1>8. ASSUME UNCHANGED previewVars
      PROVE  Typed'
  BY <1>8 DEF previewVars
<1> QED
  BY <1>1, <1>2, <1>3, <1>4, <1>5, <1>6, <1>7, <1>8
     DEF PreviewNext, StartByKey, StartByHand

(* A step is somebody's, and mishaps are not forgotten.                    *)
Moves(p) ==
    \/ LaunchPreview(p) \/ Supervise(p) \/ Interrupt(p) \/ KillPreview(p)
    \/ StopByKey /\ record.by = p
    \/ \E k \in Halves : Bind(p, k) \/ ShutDown(p, k)

Same(q) ==
    /\ at'[q] = at[q] /\ mem'[q] = mem[q] /\ handler'[q] = handler[q]
    /\ processes'[q] = processes[q] /\ left'[q] = left[q] /\ why'[q] = why[q]
    /\ child'[q] = child[q]

LEMMA StepsAreSomebodys ==
  ASSUME Typed, [PreviewNext]_previewVars
  PROVE  \/ UNCHANGED <<viewer, at, mem, handler, processes, left, why, child, record, mishaps>>
         \/ \E p \in Supervisors : Moves(p)
<1>1. CASE StopByKey
  BY <1>1 DEF StopByKey, IsAlive, Moves, Typed, Records
<1>2. CASE Reopen
  BY <1>2 DEF Reopen
<1>3. CASE UNCHANGED previewVars
  BY <1>3 DEF previewVars
<1> QED
  BY <1>1, <1>2, <1>3 DEF PreviewNext, StartByKey, StartByHand, Moves

LEMMA OthersStay ==
  ASSUME Typed, NEW p \in Supervisors, Moves(p)
  PROVE  /\ viewer' = viewer /\ mishaps \subseteq mishaps'
         /\ \A q \in Supervisors \ {p} : Same(q)
<1> USE DEF Typed, Same, Mishap
<1>1. CASE LaunchPreview(p)
  BY <1>1 DEF LaunchPreview
<1>2. CASE StopByKey /\ record.by = p
  BY <1>2 DEF StopByKey, Term, Raise
<1>3. CASE Interrupt(p)
  BY <1>3 DEF Interrupt, Raise
<1>4. CASE KillPreview(p)
  BY <1>4 DEF KillPreview, Forgets
<1>5. CASE \E k \in Halves : Bind(p, k) \/ ShutDown(p, k)
  BY <1>5 DEF Bind, ShutDown
<1>6. CASE CheckPreview(p) \/ BeginPreview(p) \/ Handle(p) \/ Claim(p)
  BY <1>6 DEF CheckPreview, BeginPreview, Handle, Claim
<1>7. CASE Popen(p) \/ NoteServer(p) \/ IsAnswered(p) \/ NeverUp(p) \/ PopenFails(p)
  BY <1>7 DEF Popen, NoteServer, IsAnswered, NeverUp, PopenFails
<1>8. CASE Tell(p) \/ WaitForAll(p) \/ FinishPreview(p)
  BY <1>8 DEF Tell, WaitForAll, FinishPreview, Forgets
<1> QED
  BY <1>1, <1>2, <1>3, <1>4, <1>5, <1>6, <1>7, <1>8 DEF Moves, Supervise

(* Where a supervisor is goes with what it has noted and how it is stopped.*)
LEMMA StepBegun ==
  ASSUME Typed, Begun, [PreviewNext]_previewVars
  PROVE  Begun'
<1>1. CASE UNCHANGED <<viewer, at, mem, handler, processes, left, why, child, record, mishaps>>
  BY <1>1 DEF Begun, BegunAt
<1>2. ASSUME NEW p \in Supervisors, Moves(p)
      PROVE  Begun'
  <2>1. mishaps \subseteq mishaps' /\ \A q \in Supervisors \ {p} : Same(q) /\ BegunAt(q)
    BY <1>2, OthersStay DEF Begun
  <2>2. BegunAt(p)
    BY DEF Begun
  <2>12. ASSUME NEW q \in Supervisors \ {p}
        PROVE  BegunAt(q)'
    <3>1. Same(q) /\ BegunAt(q) /\ mishaps \subseteq mishaps'
      BY <2>1
    <3> QED
      BY <3>1 DEF Same, BegunAt
  <2> SUFFICES BegunAt(p)'
    BY <2>12 DEF Begun
  <2> USE DEF BegunAt, Typed, Early
  <2>3. CASE LaunchPreview(p) \/ KillPreview(p) \/ FinishPreview(p)
    BY <2>2, <2>3 DEF LaunchPreview, KillPreview, FinishPreview, Forgets, Mishap
  <2>4. CASE StopByKey /\ record.by = p
    <3>1. mishaps \subseteq mishaps' /\ at[p] \in Places /\ Term(p)
          /\ processes' = processes /\ child' = child
      BY <2>1, <2>4 DEF StopByKey
    <3>2. CASE handler[p] = "ignore"
      BY <2>2, <3>1, <3>2 DEF Term
    <3>3. CASE handler[p] = "default"
      BY <2>2, <3>1, <3>3 DEF Term
    <3>4. CASE handler[p] = "stop"
      <4>1. handler'[p] = "ignore" /\ Raise(p, "stop")
        BY <3>1, <3>4 DEF Term
      <4>2. at'[p] \in {"ended", "telling", "finishing"}
        BY <4>1 DEF Raise
      <4> QED
        BY <2>2, <4>1, <4>2
    <3> QED
      BY <3>2, <3>3, <3>4
  <2>5. CASE Interrupt(p)
    <3>1. at'[p] \in {"ended", "telling", "finishing"}
      BY <2>5 DEF Interrupt, Raise
    <3>2. why'[p] = "interrupt" /\ handler' = handler
      BY <2>5 DEF Interrupt, Raise
    <3>3. handler[p] = "default" => at'[p] = "ended"
      BY <2>2, <2>5 DEF Interrupt, Raise, Alive
    <3> QED
      BY <2>2, <3>1, <3>2, <3>3
  <2>6. CASE \E k \in Halves : Bind(p, k) \/ ShutDown(p, k)
    BY <2>2, <2>6 DEF Bind, ShutDown
  <2>7. CASE CheckPreview(p) \/ BeginPreview(p) \/ Handle(p) \/ Claim(p)
    BY <2>2, <2>7 DEF CheckPreview, BeginPreview, Handle, Claim
  <2>8. CASE Popen(p) \/ PopenFails(p) \/ NeverUp(p) \/ Tell(p) \/ WaitForAll(p)
    BY <2>2, <2>8 DEF Popen, PopenFails, NeverUp, Tell, WaitForAll
  <2>9. CASE NoteServer(p)
    <3>1. Append(processes[p], Coming(p)) # <<>>
      BY <2>2, <2>9, ListsOfServers DEF NoteServer, Coming
    <3> QED
      BY <2>2, <2>9, <3>1 DEF NoteServer
  <2>10. CASE IsAnswered(p)
    <3>1. Last(processes[p]) = "api" => processes[p] = <<"api">>
      BY <2>2, <2>10, ListsOfServers DEF IsAnswered, Servers
    <3> QED
      BY <2>2, <2>10, <3>1 DEF IsAnswered
  <2> QED
    BY <1>2, <2>3, <2>4, <2>5, <2>6, <2>7, <2>8, <2>9, <2>10 DEF Moves, Supervise
<1> QED
  BY <1>1, <1>2, StepsAreSomebodys

(* Stopped wherever it is, a supervisor goes to tell those it has noted;   *)
(* where some are not noted, or not told yet, the mishap says so.          *)
LEMMA StoppedNoted ==
  ASSUME Typed, NEW p \in Supervisors, BegunAt(p), NotedAt(p), Alive(p),
         NEW how, Raise(p, how), NEW another \in BOOLEAN,
         at[p] = "telling" => another,
         mishaps' = mishaps \cup Interrupted(p, another),
         child' = child, processes' = processes
  PROVE  NotedAt(p)'
<1>1. UpNow(p)' = UpNow(p)
  BY DEF UpNow
<1>2. at[p] \in Early => UpNow(p) = {}
  BY DEF BegunAt, UpNow
<1>3. CASE at[p] \in {"opened", "free", "recorded", "handling"}
  BY <1>1, <1>2, <1>3 DEF Raise, NotedAt, Early, Typed
<1>4. CASE at[p] \in {"starting", "waiting", "serving"}
  <2>1. at'[p] = "telling" /\ left'[p] = processes[p] /\ mishaps \subseteq mishaps'
    BY <1>4 DEF Raise, Typed
  <2> QED
    BY <1>1, <1>4, <2>1 DEF NotedAt
<1>5. CASE at[p] \in {"started", "telling"}
  <2>1. "cut" \in mishaps'
    BY <1>5 DEF Interrupted
  <2> QED
    BY <2>1 DEF NotedAt
<1>6. CASE at[p] \in {"waiting for all", "finishing"}
  <2>1. at'[p] \in {"finishing", "ended"} /\ mishaps \subseteq mishaps'
    BY <1>6 DEF Raise, Typed
  <2> QED
    BY <1>1, <1>6, <2>1 DEF NotedAt
<1> QED
  BY <1>3, <1>4, <1>5, <1>6 DEF Alive, Typed, Places

(* A server that is up is one its supervisor will tell.                    *)
LEMMA StepNoted ==
  ASSUME Typed, Begun, Noted, [PreviewNext]_previewVars
  PROVE  Noted'
<1>1. CASE UNCHANGED <<viewer, at, mem, handler, processes, left, why, child, record, mishaps>>
  BY <1>1 DEF Noted, NotedAt, UpNow, Coming
<1>2. ASSUME NEW p \in Supervisors, Moves(p)
      PROVE  Noted'
  <2>1. mishaps \subseteq mishaps' /\ \A q \in Supervisors \ {p} : Same(q) /\ NotedAt(q)
    BY <1>2, OthersStay DEF Noted
  <2>2. BegunAt(p) /\ NotedAt(p)
    BY DEF Begun, Noted
  <2>3. ASSUME NEW q \in Supervisors \ {p}
        PROVE  NotedAt(q)'
    <3>1. Same(q) /\ NotedAt(q) /\ mishaps \subseteq mishaps'
      BY <2>1
    <3> QED
      BY <3>1 DEF Same, NotedAt, UpNow, Coming
  <2> SUFFICES NotedAt(p)'
    BY <2>3 DEF Noted
  <2>4. at[p] \in Early => UpNow(p) = {}
    BY <2>2 DEF BegunAt, UpNow
  <2>5. CASE LaunchPreview(p) \/ KillPreview(p)
    BY <2>5 DEF LaunchPreview, KillPreview, Typed, NotedAt
  <2>6. CASE StopByKey /\ record.by = p
    <3>1. Term(p) /\ Alive(p) /\ processes' = processes /\ child' = child
      BY <2>6 DEF StopByKey, IsAlive
    <3>2. CASE handler[p] = "ignore"
      BY <2>2, <3>1, <3>2 DEF Term, NotedAt, UpNow, Coming
    <3>3. CASE handler[p] = "default"
      <4>1. at[p] \in Early
        BY <2>2, <3>1, <3>3 DEF BegunAt, Alive, Early
      <4>2. at'[p] = "ended" /\ UpNow(p)' = UpNow(p)
        BY <3>1, <3>3 DEF Term, Typed, UpNow
      <4> QED
        BY <2>4, <4>1, <4>2 DEF NotedAt
    <3>4. CASE handler[p] = "stop"
      <4>1. Raise(p, "stop") /\ mishaps' = mishaps \cup Interrupted(p, why[p] # "stop")
        BY <3>1, <3>4 DEF Term, Mishap
      <4>2. at[p] = "telling" => why[p] # "stop"
        BY <2>2, <3>4 DEF BegunAt
      <4> QED
        BY <2>2, <3>1, <4>1, <4>2, StoppedNoted
    <3> QED
      BY <3>2, <3>3, <3>4 DEF Typed
  <2>7. CASE Interrupt(p)
    BY <2>2, <2>7, StoppedNoted DEF Interrupt, Mishap
  <2>8. CASE \E k \in Halves : Bind(p, k) \/ ShutDown(p, k)
    <3>1. UpNow(p)' \subseteq UpNow(p)
      BY <2>8 DEF Bind, ShutDown, UpNow, Typed
    <3>2. at' = at /\ processes' = processes /\ left' = left
      BY <2>8 DEF Bind, ShutDown
    <3> QED
      BY <2>1, <2>2, <3>1, <3>2 DEF NotedAt, Coming
  <2>9. CASE CheckPreview(p) \/ BeginPreview(p) \/ Handle(p) \/ Claim(p)
    <3>1. UpNow(p)' = UpNow(p) /\ at[p] \in Early
      BY <2>9 DEF CheckPreview, BeginPreview, Handle, Claim, UpNow, Early
    <3>2. at'[p] \in {"free", "ended", "recorded", "handling", "starting", "finishing"}
      BY <2>9 DEF CheckPreview, BeginPreview, Handle, Claim, Typed
    <3> QED
      BY <2>4, <3>1, <3>2 DEF NotedAt
  <2>10. CASE Popen(p)
    <3>1. UpNow(p)' \subseteq UpNow(p) \cup {Coming(p)}
      BY <2>10 DEF Popen, UpNow, Typed
    <3> QED
      BY <2>1, <2>2, <2>10, <3>1 DEF Popen, NotedAt, Coming, Typed
  <2>11. CASE NoteServer(p)
    <3>1. processes[p] \in {<<>>, <<"api">>} /\ at[p] = "started"
      BY <2>2, <2>11 DEF NoteServer, BegunAt
    <3>2. ToSet(Append(processes[p], Coming(p))) = ToSet(processes[p]) \cup {Coming(p)}
      BY <3>1, ListsOfServers DEF Coming
    <3>3. /\ at'[p] = "waiting" /\ UpNow(p)' = UpNow(p) /\ mishaps' = mishaps
          /\ processes'[p] = Append(processes[p], Coming(p))
      BY <2>11 DEF NoteServer, UpNow, Typed
    <3> QED
      BY <2>2, <3>1, <3>2, <3>3 DEF NotedAt
  <2>12. CASE IsAnswered(p) \/ NeverUp(p) \/ PopenFails(p)
    <3>1. /\ UpNow(p)' = UpNow(p) /\ processes' = processes /\ mishaps' = mishaps
          /\ at[p] \in {"starting", "waiting"} /\ at'[p] \in {"starting", "serving", "telling"}
          /\ at'[p] = "telling" => left'[p] = processes[p]
      BY <2>12 DEF IsAnswered, NeverUp, PopenFails, UpNow, Typed
    <3> QED
      BY <2>2, <3>1 DEF NotedAt
  <2>13. CASE Tell(p)
    <3>1. CASE left[p] = <<>>
      <4>1. at[p] = "telling" /\ at'[p] = "waiting for all" /\ UpNow(p)' = UpNow(p) /\ mishaps' = mishaps
        BY <2>13, <3>1 DEF Tell, UpNow, Typed
      <4> QED
        BY <2>2, <3>1, <4>1, ListsOfServers DEF NotedAt
    <3>2. CASE left[p] # <<>>
      <4>1. ToSet(left[p]) = ToSet(Front(left[p])) \cup {Last(left[p])} /\ Last(left[p]) \in Halves
        BY <3>2, ListsOfServers DEF Typed, Servers, Halves
      <4>2. Told(child[p][Last(left[p])]) \notin {"starting", "listening"}
        BY DEF Told
      <4>3. child' = [child EXCEPT ![p][Last(left[p])] = Told(child[p][Last(left[p])])]
        BY <2>13, <3>2 DEF Tell
      <4>4. UpNow(p)' \subseteq UpNow(p) \ {Last(left[p])}
        BY <4>1, <4>2, <4>3 DEF UpNow, Typed
      <4>5. at[p] = "telling" /\ at' = at /\ left'[p] = Front(left[p]) /\ mishaps' = mishaps
        BY <2>13, <3>2 DEF Tell, Typed
      <4> QED
        BY <2>2, <4>1, <4>4, <4>5 DEF NotedAt
    <3> QED
      BY <3>1, <3>2
  <2>14. CASE WaitForAll(p)
    <3>1. PICK late \in SUBSET (ToSet(processes[p]) \cap {"viewer"}) :
            child' = [child EXCEPT ![p] =
               [k \in Halves |-> IF k \in ToSet(processes[p]) \ late THEN "gone" ELSE @[k]]]
      BY <2>14 DEF WaitForAll
    <3>2. \A k \in Halves : child'[p][k] \in {"gone", child[p][k]}
      BY <3>1 DEF Typed
    <3>3. UpNow(p)' \subseteq UpNow(p)
      BY <3>2 DEF UpNow
    <3> QED
      BY <2>2, <2>14, <3>3 DEF WaitForAll, NotedAt, Typed
  <2>15. CASE FinishPreview(p)
    <3>1. UpNow(p)' = UpNow(p) /\ at[p] = "finishing" /\ at'[p] = "ended" /\ mishaps' = mishaps
      BY <2>15 DEF FinishPreview, UpNow, Typed
    <3> QED
      BY <2>2, <3>1 DEF NotedAt
  <2> QED
    BY <1>2, <2>5, <2>6, <2>7, <2>8, <2>9, <2>10, <2>11, <2>12, <2>13, <2>14, <2>15
       DEF Moves, Supervise
<1> QED
  BY <1>1, <1>2, StepsAreSomebodys

(* How a supervisor comes to be opened, free or recorded.                  *)
LEMMA WaysIn ==
  ASSUME Typed, NEW p \in Supervisors, Moves(p)
  PROVE  /\ at'[p] = "opened" => (at[p] = "opened" /\ mem'[p] = mem[p]) \/ LaunchPreview(p)
         /\ at'[p] = "free" => at[p] = "free" \/ CheckPreview(p)
         /\ at'[p] \in Busy => at[p] \in Busy \/ BeginPreview(p)
         /\ record' = record \/ BeginPreview(p) \/ FinishPreview(p)
<1> USE DEF Typed, Busy
<1>1. CASE LaunchPreview(p)
  BY <1>1 DEF LaunchPreview
<1>2. CASE StopByKey /\ record.by = p
  <2>1. Term(p) /\ mem' = mem /\ record' = record
    BY <1>2 DEF StopByKey
  <2>2. at' = at \/ at'[p] = "ended" \/ Raise(p, "stop")
    BY <2>1 DEF Term
  <2> QED
    BY <2>1, <2>2 DEF Raise
<1>3. CASE Interrupt(p)
  BY <1>3 DEF Interrupt, Raise
<1>4. CASE KillPreview(p)
  BY <1>4 DEF KillPreview
<1>5. CASE \E k \in Halves : Bind(p, k) \/ ShutDown(p, k)
  BY <1>5 DEF Bind, ShutDown
<1>6. CASE CheckPreview(p) \/ BeginPreview(p) \/ Handle(p) \/ Claim(p)
  BY <1>6 DEF CheckPreview, Handle, Claim, BeginPreview
<1>7. CASE Popen(p) \/ NoteServer(p) \/ IsAnswered(p) \/ NeverUp(p) \/ PopenFails(p)
  BY <1>7 DEF Popen, NoteServer, IsAnswered, NeverUp, PopenFails
<1>8. CASE Tell(p) \/ WaitForAll(p) \/ FinishPreview(p)
  BY <1>8 DEF Tell, WaitForAll, FinishPreview
<1> QED
  BY <1>1, <1>2, <1>3, <1>4, <1>5, <1>6, <1>7, <1>8 DEF Moves, Supervise

(* The supervisor that is between its record and its end is the only one.  *)
LEMMA StepOneAtATime ==
  ASSUME Typed, OneAtATime, [PreviewNext]_previewVars
  PROVE  OneAtATime'
<1>1. CASE UNCHANGED <<viewer, at, mem, handler, processes, left, why, child, record, mishaps>>
  BY <1>1 DEF OneAtATime
<1>2. ASSUME NEW p \in Supervisors, Moves(p), "together" \notin mishaps'
      PROVE  OneAtATime'
  <2>1. "together" \notin mishaps /\ \A q \in Supervisors \ {p} : Same(q)
    BY <1>2, OthersStay
  <2>2. /\ \A q, r \in Supervisors : {at[q], at[r]} \subseteq {"opened", "free"} => q = r
        /\ \A q \in Supervisors : at[q] \in Busy => record = [status |-> "running", by |-> q]
        /\ \A q, r \in Supervisors : at[q] \in Busy /\ at[r] = "opened" => mem[r] = record
        /\ \A q, r \in Supervisors : at[q] \in Busy => at[r] # "free"
    BY <2>1 DEF OneAtATime
  <2>3. CASE LaunchPreview(p)
    <3>1. \A q \in Supervisors : at[q] \notin {"opened", "free"}
      BY <1>2, <2>3 DEF LaunchPreview, Mishap
    <3>2. record' = record /\ mem'[p] = record /\ at'[p] = "opened"
      BY <2>3 DEF LaunchPreview, Typed
    <3> QED
      BY <2>1, <2>2, <3>1, <3>2 DEF OneAtATime, Same, Busy
  <2>4. CASE CheckPreview(p)
    <3>1. /\ record' = record /\ mem' = mem /\ at[p] = "opened"
          /\ at'[p] = "ended" \/ (at'[p] = "free" /\ ~IsAlive(mem[p]))
      BY <2>4 DEF CheckPreview, Typed
    <3>2. at'[p] = "free" => \A q \in Supervisors : at[q] \notin Busy
      <4> SUFFICES ASSUME at'[p] = "free", NEW q \in Supervisors, at[q] \in Busy
                   PROVE  FALSE
        OBVIOUS
      <4>1. mem[p] = [status |-> "running", by |-> q]
        BY <2>2, <3>1
      <4>2. IsAlive(mem[p])
        <5>1. mem[p].status = "running" /\ mem[p].by = q
          BY <4>1
        <5>2. q # NoPreview
          BY PreviewAssumption DEF Supervisors
        <5>3. Alive(q)
          BY DEF Alive, Busy
        <5> QED
          BY <5>1, <5>2, <5>3 DEF IsAlive
      <4> QED
        BY <3>1, <4>2
    <3>3. \A q \in Supervisors :
            /\ at'[q] = "opened" => at[q] = "opened" /\ mem'[q] = mem[q]
            /\ at'[q] = "free" => at[q] \in {"opened", "free"}
            /\ at'[q] \in Busy => at[q] \in Busy
      BY <2>1, <3>1 DEF Same, Busy
    <3>4. \A q, r \in Supervisors : at'[q] \in Busy => at'[r] # "free"
      BY <2>1, <2>2, <3>1, <3>2, <3>3 DEF Same
    <3>5. Busy' = Busy
      BY DEF Busy
    <3> QED
      BY <2>2, <3>1, <3>3, <3>4, <3>5 DEF OneAtATime
  <2>5. CASE BeginPreview(p)
    <3>1. at[p] = "free" /\ at'[p] = "recorded" /\ record' = [status |-> "running", by |-> p]
      BY <2>5 DEF BeginPreview, Typed
    <3>2. \A q \in Supervisors : at[q] \notin Busy /\ (q # p => at[q] \notin {"opened", "free"})
      BY <2>2, <3>1
    <3> QED
      BY <2>1, <3>1, <3>2 DEF OneAtATime, Same, Busy
  <2>6. CASE FinishPreview(p)
    <3>1. at[p] = "finishing" /\ at'[p] = "ended" /\ mem' = [mem EXCEPT ![p] = Unrecorded]
      BY <2>6 DEF FinishPreview, Forgets, Typed
    <3>2. \A q \in Supervisors : q # p => at[q] \notin Busy
      <4> SUFFICES ASSUME NEW q \in Supervisors, at[q] \in Busy
                   PROVE  q = p
        OBVIOUS
      <4>1. record = [status |-> "running", by |-> q]
        BY <2>2
      <4>2. record = [status |-> "running", by |-> p]
        BY <2>2, <3>1 DEF Busy
      <4> QED
        BY <4>1, <4>2
    <3>3. \A q \in Supervisors : at'[q] \notin Busy
      BY <2>1, <3>1, <3>2 DEF Same, Busy
    <3>4. \A q \in Supervisors : at'[q] \in {"opened", "free"} => at'[q] = at[q]
      BY <2>1, <3>1 DEF Same
    <3>5. Busy' = Busy
      BY DEF Busy
    <3> QED
      BY <2>2, <3>3, <3>4, <3>5 DEF OneAtATime
  <2>7. CASE ~(LaunchPreview(p) \/ CheckPreview(p) \/ BeginPreview(p) \/ FinishPreview(p))
    <3>1. /\ at'[p] = "opened" => at[p] = "opened" /\ mem'[p] = mem[p]
          /\ at'[p] = "free" => at[p] = "free"
          /\ at'[p] \in Busy => at[p] \in Busy
          /\ record' = record
      BY <1>2, <2>7, WaysIn
    <3>2. \A q \in Supervisors :
            /\ at'[q] = "opened" => at[q] = "opened" /\ mem'[q] = mem[q]
            /\ at'[q] = "free" => at[q] = "free"
            /\ at'[q] \in Busy => at[q] \in Busy
      BY <2>1, <3>1 DEF Same
    <3>3. Busy' = Busy
      BY DEF Busy
    <3> QED
      BY <2>2, <3>1, <3>2, <3>3 DEF OneAtATime
  <2> QED
    BY <2>3, <2>4, <2>5, <2>6, <2>7
<1> QED
  BY <1>1, <1>2, StepsAreSomebodys DEF OneAtATime

(* With no mishap nobody else's server is up: who answers is its own.      *)
LEMMA AnsweredByItsOwn ==
  ASSUME Typed, Begun, Noted, OneAtATime, mishaps = {},
         NEW p \in Supervisors, at[p] \in Busy, NEW k \in Halves, SomebodyAnswers(k)
  PROVE  child[p][k] = "listening"
<1>1. PICK q \in Supervisors : child[q][k] = "listening"
  BY DEF SomebodyAnswers
<1>2. SUFFICES ASSUME q # p
               PROVE  FALSE
  BY <1>1
<1>3. at[q] \notin Busy
  BY <1>2 DEF OneAtATime
<1>4. BegunAt(q) /\ NotedAt(q)
  BY DEF Begun, Noted
<1>5. k \in UpNow(q)
  BY <1>1 DEF UpNow
<1>6. at[q] # "killed"
  BY <1>4 DEF BegunAt
<1>7. at[q] # "ended"
  BY <1>4, <1>5 DEF NotedAt
<1>8. at[q] \notin {"none", "opened", "free"}
  BY <1>1, <1>4 DEF BegunAt, Early
<1> QED
  BY <1>3, <1>6, <1>7, <1>8 DEF Typed, Places, Busy

(* What has answered is its own.                                           *)
LEMMA StepOwn ==
  ASSUME Typed, Begun, Noted, OneAtATime, Own, [PreviewNext]_previewVars
  PROVE  Own'
<1>1. CASE UNCHANGED <<viewer, at, mem, handler, processes, left, why, child, record, mishaps>>
  BY <1>1 DEF Own, OwnAt
<1>2. ASSUME NEW p \in Supervisors, Moves(p), mishaps' = {}
      PROVE  Own'
  <2>1. mishaps = {} /\ viewer' = viewer /\ \A q \in Supervisors \ {p} : Same(q) /\ OwnAt(q)
    BY <1>2, OthersStay DEF Own
  <2>2. BegunAt(p) /\ OwnAt(p)
    BY <2>1 DEF Begun, Own
  <2>3. ASSUME NEW q \in Supervisors \ {p}
        PROVE  OwnAt(q)'
    <3>1. Same(q) /\ OwnAt(q) /\ viewer' = viewer
      BY <2>1
    <3> QED
      BY <3>1 DEF Same, OwnAt
  <2> SUFFICES OwnAt(p)'
    BY <2>3 DEF Own
  <2>4. CASE LaunchPreview(p) \/ KillPreview(p) \/ FinishPreview(p)
    BY <2>4 DEF LaunchPreview, KillPreview, FinishPreview, OwnAt, Typed
  <2>5. CASE StopByKey /\ record.by = p
    <3>1. Term(p) /\ processes' = processes /\ child' = child
      BY <2>5 DEF StopByKey
    <3>2. at' = at \/ at'[p] = "ended" \/ Raise(p, "stop")
      BY <3>1 DEF Term, Typed
    <3>3. at' = at \/ at'[p] \in {"ended", "telling", "finishing"}
      BY <3>2 DEF Raise, Typed
    <3> QED
      BY <2>1, <2>2, <3>1, <3>3 DEF OwnAt
  <2>6. CASE Interrupt(p)
    BY <2>6 DEF Interrupt, Raise, OwnAt, Typed
  <2>7. CASE \E k \in Halves : Bind(p, k) \/ ShutDown(p, k)
    <3>1. \A k \in Halves : child[p][k] = "listening" => child'[p][k] = "listening"
      BY <2>7 DEF Bind, ShutDown, Typed
    <3>2. at' = at /\ processes' = processes
      BY <2>7 DEF Bind, ShutDown
    <3> QED
      BY <2>1, <2>2, <3>1, <3>2 DEF OwnAt, Halves
  <2>8. CASE CheckPreview(p) \/ BeginPreview(p) \/ Handle(p)
    BY <2>8 DEF CheckPreview, BeginPreview, Handle, OwnAt, Typed
  <2>9. CASE Claim(p)
    <3>1. processes'[p] = <<>> /\ at'[p] \in {"starting", "finishing"}
      BY <2>2, <2>9 DEF Claim, BegunAt, Early, Typed
    <3> QED
      BY <3>1 DEF OwnAt
  <2>10. CASE Popen(p)
    <3>1. processes[p] = <<"api">> => Coming(p) = "viewer"
      BY DEF Coming
    <3> QED
      BY <2>2, <2>10, <3>1 DEF Popen, OwnAt, Typed, Halves
  <2>11. CASE NoteServer(p)
    <3>1. processes[p] \in {<<>>, <<"api">>} /\ at[p] = "started" /\ at'[p] = "waiting"
      BY <2>2, <2>11 DEF NoteServer, BegunAt, Typed
    <3>2. processes[p] = <<>> => processes'[p] = <<"api">>
      BY <2>11, ListsOfServers DEF NoteServer, Coming, Typed
    <3> QED
      BY <2>2, <2>11, <3>1, <3>2 DEF NoteServer, OwnAt
  <2>12. CASE IsAnswered(p)
    <3>1. processes[p] \in {<<"api">>, <<"api", "viewer">>} /\ at[p] = "waiting"
      BY <2>2, <2>12 DEF IsAnswered, BegunAt, Typed, Servers
    <3>2. Last(processes[p]) \in Halves
      BY <3>1, ListsOfServers DEF Halves
    <3>3. child[p][Last(processes[p])] = "listening"
      BY <2>1, <2>12, <3>1, <3>2, AnsweredByItsOwn DEF IsAnswered, Busy
    <3>4. /\ child' = child /\ processes' = processes
          /\ at'[p] = IF Last(processes[p]) = "api" /\ viewer THEN "starting" ELSE "serving"
      BY <2>12 DEF IsAnswered, Typed
    <3>5. CASE processes[p] = <<"api">>
      BY <2>1, <3>3, <3>4, <3>5, ListsOfServers DEF OwnAt
    <3>6. CASE processes[p] = <<"api", "viewer">>
      BY <2>1, <2>2, <3>1, <3>3, <3>4, <3>6, ListsOfServers DEF OwnAt
    <3> QED
      BY <3>1, <3>5, <3>6
  <2>13. CASE PopenFails(p) \/ NeverUp(p) \/ Tell(p) \/ WaitForAll(p)
    BY <2>13 DEF PopenFails, NeverUp, Tell, WaitForAll, OwnAt, Typed
  <2> QED
    BY <1>2, <2>4, <2>5, <2>6, <2>7, <2>8, <2>9, <2>10, <2>11, <2>12, <2>13
       DEF Moves, Supervise
<1> QED
  BY <1>1, <1>2, StepsAreSomebodys DEF Own

-----------------------------------------------------------------------------
(* One preview at a time, that can be found, trusted and got rid of, for   *)
(* any number of supervisors and of mishaps: preview.py's teardown, the    *)
(* record it writes before its servers and the ports it looks at first.    *)
THEOREM PreviewIsAlwaysOwn == PreviewSpec => []PreviewIsOwn
<1>1. PreviewInit => PreviewInv
  <2> SUFFICES ASSUME PreviewInit
               PROVE  PreviewInv
    OBVIOUS
  <2>1. Typed
    BY DEF PreviewInit, Typed, Places, Servers, States, Records, Unrecorded
  <2>2. Begun /\ Noted /\ Own
    BY DEF PreviewInit, Begun, BegunAt, Noted, NotedAt, Own, OwnAt
  <2>3. OneAtATime
    BY DEF PreviewInit, OneAtATime, Busy
  <2> QED
    BY <2>1, <2>2, <2>3 DEF PreviewInv
<1>2. PreviewInv /\ [PreviewNext]_previewVars => PreviewInv'
  BY StepPreviewTyped, StepBegun, StepNoted, StepOneAtATime, StepOwn DEF PreviewInv
<1>3. PreviewInv => PreviewIsOwn
  <2> SUFFICES ASSUME PreviewInv
               PROVE  PreviewIsOwn
    OBVIOUS
  <2>1. NothingLeftBehind
    <3> SUFFICES ASSUME "cut" \notin mishaps, NEW p \in Supervisors, NEW k \in Halves,
                        at[p] = "ended"
                 PROVE  child[p][k] \notin {"starting", "listening"}
      BY DEF NothingLeftBehind
    <3>1. UpNow(p) = {}
      BY DEF PreviewInv, Noted, NotedAt
    <3> QED
      BY <3>1 DEF UpNow
  <2>2. NamedCanBeStopped
    BY DEF PreviewInv, OneAtATime, NamedCanBeStopped, Busy
  <2>3. ServesItsOwn
    BY DEF PreviewInv, Own, OwnAt, ServesItsOwn
  <2> QED
    BY <2>1, <2>2, <2>3 DEF PreviewIsOwn
<1> QED
  BY <1>1, <1>2, <1>3, PTL DEF PreviewSpec

=============================================================================
