---------------------------- MODULE StartUpProofs ----------------------------
(***************************************************************************)
(* Proofs about StartUp, for every number of retries, any volumes and any  *)
(* number of requests.  Four inductive invariants:                         *)
(*                                                                         *)
(*   WifiInv   counts what the station has left to try;                    *)
(*   LifeInv   says, while the encoder's life cycle has run in one task at *)
(*             a time, what each of its steps knows of the pointers;       *)
(*   ToldInv   relates what control points know to the pipeline, between   *)
(*             and within requests;                                        *)
(*   RaceInv   says what is left of LifeInv when the life cycle has run in *)
(*             both tasks at once: app_main runs it once, so that little   *)
(*             can be lost.                                                *)
(***************************************************************************)
EXTENDS StartUp, FiniteSetTheorems, LeastNumber

Transport == {"STOPPED", "PLAYING", "PAUSED_PLAYBACK"}

-----------------------------------------------------------------------------
(* The station.                                                            *)

WifiInv ==
  /\ retryNum \in 0 .. MaxRetry
  /\ failures \in Nat
  /\ IF station = "down" THEN failures = MaxRetry + 1 ELSE failures = retryNum

\* The retries that are left, and the disconnections since the last address, add up.
THEOREM WifiInvariant == StartSpec => []WifiInv
<1>1. StartInit => WifiInv
  BY WifiAssumption DEF StartInit, WifiInit, WifiInv
<1>2. WifiInv /\ [StartNext]_startVars => WifiInv'
  <2> SUFFICES ASSUME WifiInv, [StartNext]_startVars PROVE WifiInv'
    OBVIOUS
  <2> USE WifiAssumption DEF WifiInv
  <2>1. CASE StartWifi
    BY <2>1 DEF StartWifi, WifiStart
  <2>2. CASE WifiNext
    BY <2>2 DEF WifiNext, Associate, GotIp, Disconnected, Retry, GiveUp
  <2>3. CASE UNCHANGED wifiVars
    BY <2>3 DEF wifiVars
  <2> QED
    BY <2>1, <2>2, <2>3 DEF StartNext, AppMain, Rendering, Wifi, startVars, WifiDone,
       RegisterServices, AssignHandle, InitAfterDeinit, StartSnapserver
<1> QED
  BY <1>1, <1>2, PTL DEF StartSpec

\* The station gives up exactly after its retries, however many there are.
THEOREM GivesUpExactly == StartSpec => []GivesUpAfterRetries
<1>1. WifiInv => GivesUpAfterRetries
  BY WifiAssumption DEF WifiInv, GivesUpAfterRetries
<1> QED
  BY <1>1, WifiInvariant, PTL

-----------------------------------------------------------------------------
(* The encoder's life cycle.                                               *)

Steps == LifeSteps \cup { "none", "wifi", "wait", "startDlna", "assign", "initDone", "listen",
                         "idle", "state", "deleted" }

\* What a pointer points to when it is not dangling.
Of(p) == IF p = 0 THEN {} ELSE {p}

At(steps) == \E t \in Threads : pc[t] \in steps

Deleted == { "testEncoder", "finish", "deleteEncoder", "forgetEncoder", "deinitDone", "init",
             "configure", "fifo", "makeFifo", "create" }

Pointers ==
  /\ tasks = IF At({"forgetTask"}) THEN {} ELSE Of(handle)
  /\ flacs = IF At({"forgetEncoder"}) THEN {} ELSE Of(encoder)
  /\ At({"deleteTask", "forgetTask"}) => handle # 0
  /\ At(Deleted) => handle = 0
  /\ At({"finish", "deleteEncoder", "forgetEncoder"}) => encoder # 0
  /\ At({"configure", "fifo", "makeFifo", "create"}) => encoder # 0
  /\ At({"deinitDone", "init"}) => encoder = 0
  /\ handle # 0 => encoder # 0

OneAtATime ==
  /\ ~(pc[App] \in LifeSteps /\ pc[Http] \in LifeSteps)
  /\ \A t \in Threads : pc[t] # "deleted"
  /\ ~panic
  /\ removers = IF fifoReady THEN 1 ELSE 0
  /\ At({"makeFifo"}) => ~fifoReady

LifeInv ==
  /\ pc \in [Threads -> Steps]
  /\ pc[App] \in {"wifi", "wait", "startDlna"} => pc[Http] = "none"
  /\ overlapped \in BOOLEAN /\ fifoReady \in BOOLEAN
  /\ ~overlapped => OneAtATime /\ Pointers

\* The first task or fifo is number 1.
LEMMA FreshOfNone == Fresh({}) = 1
<1>1. Cardinality({}) = 0
  BY FS_EmptySet
<1>2. 1 .. Cardinality({}) + 1 = {1}
  BY <1>1
<1>3. \A m \in 1 .. 1 - 1 : m \in {}
  OBVIOUS
<1> QED
  BY <1>2, <1>3 DEF Fresh

\* No life cycle runs at the start.
LEMMA LifeInit == StartInit => LifeInv
BY DEF StartInit, RendererInit, LifeInv, OneAtATime, Pointers, At, Of, Deleted, Steps, LifeSteps,
   Threads, App, Http

\* Every step of deinit and init, in either task.
LEMMA LifeCycleKeeps ==
  ASSUME LifeInv, NEW t \in Threads, LifeCycle(t)
  PROVE  LifeInv'
<1> USE DEF LifeInv, OneAtATime, Pointers, At, Of, Deleted, Steps, LifeSteps, Threads, App, Http,
            Goes, callVars, lifeVars
<1>1. UNCHANGED overlapped
  BY DEF LifeCycle
<1>2. CASE TestTask(t)
  BY <1>1, <1>2 DEF TestTask
<1>3. CASE DeleteTask(t)
  BY <1>1, <1>3 DEF DeleteTask
<1>4. CASE ForgetTask(t)
  BY <1>1, <1>4 DEF ForgetTask
<1>5. CASE TestEncoder(t) \/ Finish(t)
  BY <1>1, <1>5 DEF TestEncoder, Finish
<1>6. CASE DeleteEncoder(t)
  BY <1>1, <1>6 DEF DeleteEncoder
<1>7. CASE ForgetEncoder(t)
  BY <1>1, <1>7 DEF ForgetEncoder
<1>8. CASE NewEncoder(t) \/ Configure(t)
  BY <1>1, <1>8, FreshOfNone DEF NewEncoder, Configure
<1>9. CASE InitFifo(t)
  BY <1>1, <1>9 DEF InitFifo
<1>10. CASE MakeFifo(t)
  BY <1>1, <1>10 DEF MakeFifo
<1>11. CASE CreateTask(t)
  BY <1>1, <1>11, FreshOfNone DEF CreateTask
<1> QED
  BY <1>2, <1>3, <1>4, <1>5, <1>6, <1>7, <1>8, <1>9, <1>10, <1>11 DEF LifeCycle

\* Every step of the start-up keeps what the life cycle knows.
LEMMA LifeNext == LifeInv /\ [StartNext]_startVars => LifeInv'
<1> SUFFICES ASSUME LifeInv, [StartNext]_startVars PROVE LifeInv'
  OBVIOUS
<1>1. \/ \E t \in Threads : LifeCycle(t)
      \/ AssignHandle \/ Request \/ Restart \/ Run \/ Playing \/ Stopped \/ EncoderTaskFails
      \/ StartWifi \/ WifiDone \/ RegisterServices \/ InitAfterDeinit \/ StartSnapserver
      \/ UNCHANGED << pc, lifeVars, callVars >>
  BY DEF StartNext, AppMain, Rendering, Wifi, startVars, rendererVars, Asked, Served, Threads,
         Pause, SetRendering, SetTrackUri, TrackEnds
<1>2. CASE \E t \in Threads : LifeCycle(t)
  BY <1>2, LifeCycleKeeps
<1> USE DEF LifeInv, OneAtATime, Pointers, At, Of, Deleted, Steps, LifeSteps, Threads, App, Http,
            Goes, callVars, lifeVars
<1>3. CASE AssignHandle
  BY <1>3 DEF AssignHandle, Overlap
<1>4. CASE StartWifi \/ WifiDone \/ RegisterServices \/ InitAfterDeinit \/ StartSnapserver
  BY <1>4 DEF StartWifi, WifiDone, RegisterServices, InitAfterDeinit, StartSnapserver
<1>5. CASE Request
  BY <1>5 DEF Request, Overlap
<1>6. CASE Restart \/ Run \/ Playing \/ Stopped
  BY <1>6 DEF Restart, Run, Playing, Stopped
<1>7. CASE EncoderTaskFails
  BY <1>7 DEF EncoderTaskFails
<1>8. CASE UNCHANGED << pc, lifeVars, callVars >>
  BY <1>8
<1> QED
  BY <1>1, <1>2, <1>3, <1>4, <1>5, <1>6, <1>7, <1>8

\* What the life cycle knows holds throughout.
THEOREM LifeInvariant == StartSpec => []LifeInv
BY LifeInit, LifeNext, PTL DEF StartSpec

\* As long as app_main and a request do not run it at once, the encoder's life cycle uses
\* nothing that was deleted and loses nothing.
THEOREM EncoderIsSound == StartSpec => []EncoderSound
<1>1. LifeInv => EncoderSound
  BY DEF LifeInv, EncoderSound, OneAtATime, Pointers, At, Of, Deleted
<1> QED
  BY <1>1, LifeInvariant, PTL

-----------------------------------------------------------------------------
(* What control points are told.                                           *)

Attributes == [vol : Levels, mute : {0, 1}, trans : Transport]

\* The state that is told is that of the pipeline ...
Driven ==
  /\ pc[Http] = "none" => attrs.trans = "STOPPED" /\ pipeline = "idle"
  /\ pc[Http] = "idle" =>
       /\ attrs.trans = "PLAYING" => pipeline \in {"running", "finished"}
       /\ attrs.trans = "STOPPED" => pipeline = "idle"
       /\ attrs.trans = "PAUSED_PLAYBACK" => pipeline # "running"
  /\ pc[Http] = "state" => pipeline \in {"running", "finished"}
  /\ pc[Http] \in LifeSteps /\ request = "STOP" => pipeline = "idle"

\* ... which has an encoder behind it.
Encoded ==
  /\ ~overlapped
  /\ pc[App] \notin LifeSteps
  /\ pc[Http] \in {"initDone", "state"} \/ (pc[Http] = "idle" /\ attrs.trans = "PLAYING")
  => initFailed \/ handle # 0

ToldInv ==
  /\ attrs \in Attributes /\ told \in Attributes
  /\ told.vol = attrs.vol /\ told.mute = attrs.mute
  /\ missed \/ told.trans = attrs.trans
  /\ Driven /\ Encoded

\* A notification tells the attributes of its service as they then are.
LEMMA NotifyTells ==
  ASSUME told \in Attributes, attrs' \in Attributes, NEW service, Notify(service)
  PROVE  /\ told' \in Attributes
         /\ \A a \in {"vol", "mute", "trans"} :
              told'[a] = IF a \in service THEN attrs'[a] ELSE told[a]
BY DEF Notify, Attributes

\* A change of the transport state is stored and told.
LEMMA SetTransTells ==
  ASSUME told \in Attributes, attrs \in Attributes, NEW state \in Transport, SetTrans(state)
  PROVE  /\ attrs' \in Attributes /\ told' \in Attributes
         /\ attrs'.trans = state /\ attrs'.vol = attrs.vol /\ attrs'.mute = attrs.mute
         /\ told'.vol = told.vol /\ told'.mute = told.mute
         /\ missed' \/ told'.trans = attrs'.trans
<1>1. /\ attrs' \in Attributes
      /\ attrs'.trans = state /\ attrs'.vol = attrs.vol /\ attrs'.mute = attrs.mute
  BY DEF SetTrans, Attributes
<1>2. CASE assigned
  BY <1>1, <1>2, NotifyTells DEF SetTrans, AVTransport
<1>3. CASE ~assigned
  BY <1>1, <1>3 DEF SetTrans
<1> QED
  BY <1>1, <1>2, <1>3

\* Nothing was told at the start that is not so.
LEMMA ToldInit == StartInit => ToldInv
BY RendererAssumption DEF StartInit, RendererInit, ToldInv, Attributes, Transport, Driven, Encoded,
   LifeSteps, Threads, App, Http

\* The life cycle's steps leave the attributes alone, and end with a task or a failure.
LEMMA LifeCycleTold ==
  ASSUME ToldInv, LifeInv, LifeInv', NEW t \in Threads, LifeCycle(t)
  PROVE  ToldInv'
<1>1. UNCHANGED << attrs, told, missed, pipeline, request, overlapped >>
  BY DEF LifeCycle, attrVars, callVars
<1>2. /\ pc[t] \in LifeSteps
      /\ pc'[t] \in LifeSteps \cup {"initDone", "deleted"}
      /\ \A u \in Threads \ {t} : pc'[u] = pc[u]
  BY DEF LifeCycle, TestTask, DeleteTask, ForgetTask, TestEncoder, Finish, DeleteEncoder,
     ForgetEncoder, NewEncoder, Configure, InitFifo, MakeFifo, CreateTask, Goes, LifeInv, LifeSteps
<1>3. Driven'
  BY <1>1, <1>2 DEF ToldInv, Driven, LifeSteps, Threads, App, Http
<1>4. ~overlapped /\ pc'[t] = "initDone" => initFailed' \/ handle' # 0
  <2>1. CASE NewEncoder(t) \/ Configure(t)
    BY <2>1 DEF NewEncoder, Configure, Goes, LifeInv
  <2>2. CASE CreateTask(t)
    <3>1. ~overlapped => tasks = {}
      BY <2>2 DEF CreateTask, LifeInv, OneAtATime, Pointers, At, Of, Deleted
    <3> QED
      BY <2>2, <3>1, FreshOfNone DEF CreateTask
  <2> QED
    BY <2>1, <2>2 DEF LifeCycle, TestTask, DeleteTask, ForgetTask, TestEncoder, Finish,
       DeleteEncoder, ForgetEncoder, InitFifo, MakeFifo, Goes, LifeInv
<1>5. ~overlapped => pc'[t] # "deleted"
  BY <1>1 DEF LifeInv, OneAtATime
<1>6. ~overlapped /\ t = Http => pc[App] \notin LifeSteps
  BY <1>2 DEF LifeInv, OneAtATime
<1>7. Encoded'
  BY <1>1, <1>2, <1>4, <1>5, <1>6 DEF Encoded, LifeSteps, Threads, App, Http
<1> QED
  BY <1>1, <1>3, <1>7 DEF ToldInv

\* Every step keeps what was told true, but for the attribute a request is at.
LEMMA ToldNext == ToldInv /\ LifeInv /\ LifeInv' /\ [StartNext]_startVars => ToldInv'
<1> SUFFICES ASSUME ToldInv, LifeInv, LifeInv', [StartNext]_startVars PROVE ToldInv'
  OBVIOUS
<1>1. \/ \E t \in Threads : LifeCycle(t)
      \/ AssignHandle \/ Request \/ Restart \/ Run \/ Playing \/ Stopped
      \/ Pause \/ SetRendering \/ SetTrackUri \/ TrackEnds
      \/ StartWifi \/ WifiDone \/ RegisterServices \/ InitAfterDeinit \/ StartSnapserver
      \/ UNCHANGED << pc, pipeline, initFailed, handle, attrVars, callVars >>
  BY DEF StartNext, AppMain, Rendering, Wifi, startVars, rendererVars, Asked, Served, Threads,
         EncoderTaskFails, lifeVars
<1>2. CASE \E t \in Threads : LifeCycle(t)
  BY <1>2, LifeCycleTold
<1>3. pc \in [Threads -> Steps]
  BY DEF LifeInv
<1> USE <1>3 DEF Threads, App, Http, Goes, callVars, lifeVars, attrVars
<1>4. CASE AssignHandle \/ StartWifi \/ WifiDone \/ RegisterServices \/ InitAfterDeinit
           \/ StartSnapserver
  <2>1. UNCHANGED << attrs, told, missed, pipeline, request, initFailed, handle >>
    BY <1>4 DEF AssignHandle, StartWifi, WifiDone, RegisterServices, InitAfterDeinit,
       StartSnapserver
  <2>2. Driven'
    BY <1>4, <2>1 DEF AssignHandle, StartWifi, WifiDone, RegisterServices, InitAfterDeinit,
       StartSnapserver, ToldInv, Driven, LifeInv, LifeSteps
  <2>3. Encoded'
    BY <1>4, <2>1 DEF AssignHandle, StartWifi, WifiDone, RegisterServices, InitAfterDeinit,
       StartSnapserver, ToldInv, Driven, Encoded, LifeInv, LifeSteps, Overlap
  <2> QED
    BY <2>1, <2>2, <2>3 DEF ToldInv
<1>5. CASE Request \/ Restart
  BY <1>5 DEF Request, Restart, Overlap, ToldInv, Driven, Encoded, LifeSteps
<1>6. CASE TrackEnds
  BY <1>6 DEF TrackEnds, ToldInv, Driven, Encoded, LifeSteps, Attributes, Transport
<1>7. CASE Run
  <2>1. attrs' \in Attributes /\ told \in Attributes
    BY <1>7 DEF Run, ToldInv
  <2>2. told' \in Attributes /\ told'.vol = attrs'.vol /\ told'.mute = attrs'.mute
        /\ told'.trans = attrs'.trans
    BY <1>7, <2>1, NotifyTells DEF Run, ToldInv, AVTransport
  <2> QED
    BY <1>7, <2>1, <2>2 DEF Run, ToldInv, Driven, Encoded, LifeSteps
<1>8. CASE Playing
  <2>1. /\ attrs' \in Attributes /\ told' \in Attributes
        /\ attrs'.trans = "PLAYING" /\ told'.vol = attrs'.vol /\ told'.mute = attrs'.mute
        /\ missed' \/ told'.trans = attrs'.trans
    BY <1>8, SetTransTells DEF Playing, ToldInv, Transport
  <2> QED
    BY <1>8, <2>1 DEF Playing, ToldInv, Driven, Encoded, LifeSteps
<1>9. CASE Stopped
  <2>1. /\ attrs' \in Attributes /\ told' \in Attributes
        /\ attrs'.trans = "STOPPED" /\ told'.vol = attrs'.vol /\ told'.mute = attrs'.mute
        /\ missed' \/ told'.trans = attrs'.trans
    BY <1>9, SetTransTells DEF Stopped, ToldInv, Transport
  <2> QED
    BY <1>9, <2>1 DEF Stopped, ToldInv, Driven, Encoded, LifeSteps
<1>10. CASE Pause
  <2>1. /\ attrs' \in Attributes /\ told' \in Attributes
        /\ attrs'.trans = "PAUSED_PLAYBACK" /\ told'.vol = attrs'.vol /\ told'.mute = attrs'.mute
        /\ missed' \/ told'.trans = attrs'.trans
    BY <1>10, SetTransTells DEF Pause, ToldInv, Transport
  <2> QED
    BY <1>10, <2>1 DEF Pause, ToldInv, Driven, Encoded, LifeSteps
<1>11. CASE SetRendering
  <2>1. attrs' \in Attributes /\ attrs'.trans = attrs.trans
    BY <1>11 DEF SetRendering, ToldInv, Attributes
  <2>2. told' \in Attributes /\ told'.vol = attrs'.vol /\ told'.mute = attrs'.mute
        /\ told'.trans = told.trans
    BY <1>11, <2>1, NotifyTells DEF SetRendering, ToldInv, RenderingControl
  <2> QED
    BY <1>11, <2>1, <2>2 DEF SetRendering, ToldInv, Driven, Encoded
<1>12. CASE SetTrackUri
  <2>1. attrs' \in Attributes /\ told \in Attributes
    BY <1>12 DEF SetTrackUri, ToldInv
  <2>2. told' \in Attributes /\ told'.vol = attrs'.vol /\ told'.mute = attrs'.mute
        /\ told'.trans = attrs'.trans
    BY <1>12, <2>1, NotifyTells DEF SetTrackUri, ToldInv, AVTransport
  <2> QED
    BY <1>12, <2>1, <2>2 DEF SetTrackUri, ToldInv, Driven, Encoded
<1>13. CASE UNCHANGED << pc, pipeline, initFailed, handle, attrVars, callVars >>
  BY <1>13 DEF ToldInv, Driven, Encoded
<1> QED
  BY <1>1, <1>2, <1>4, <1>5, <1>6, <1>7, <1>8, <1>9, <1>10, <1>11, <1>12, <1>13

\* What was told holds throughout.
THEOREM ToldInvariant == StartSpec => []ToldInv
BY ToldInit, ToldNext, LifeInvariant, PTL DEF StartSpec

\* Between requests, what control points were told is so, after any sequence of requests
\* and however they fell into start-up.
THEOREM ToldIsTrue == StartSpec => []ToldIsSo
<1>1. LifeInv /\ ToldInv => ToldIsSo
  BY DEF LifeInv, Pointers, At, Of, ToldInv, Driven, Encoded, ToldIsSo, LifeSteps,
     Threads, App, Http
<1> QED
  BY <1>1, LifeInvariant, ToldInvariant, PTL

-----------------------------------------------------------------------------
(* The life cycle in both tasks at once.                                   *)

One(b) == IF b THEN 1 ELSE 0

\* Numbers for encoder tasks and encoders: each request makes one, and app_main.
Numbers == 1 .. MaxRequests + 1

\* app_main runs the life cycle once.
AppOver == pc[App] \in {"initDone", "listen", "deleted"}
EncoderMade == {"configure", "fifo", "makeFifo", "create"}

RaceTypes ==
  /\ pc \in [Threads -> Steps]
  /\ pc[App] \in LifeSteps \cup {"wifi", "wait", "startDlna", "assign", "initDone", "listen",
                                "deleted"}
  /\ pc[Http] \in LifeSteps \cup {"none", "idle", "initDone", "state", "deleted"}
  /\ requests \in 0 .. MaxRequests
  /\ tasks \subseteq Numbers /\ handle \in 0 .. MaxRequests + 1
  /\ flacs \subseteq Numbers /\ encoder \in 0 .. MaxRequests + 1
  /\ removers \in Nat /\ fifoReady \in BOOLEAN

\* What lives was made in some round of the life cycle, and each round makes one.
TasksMade ==
  Cardinality(tasks) + One(~AppOver) + One(pc[Http] \in LifeSteps) <= requests + 1

FlacsMade ==
  Cardinality(flacs) + One(~AppOver /\ pc[App] \notin EncoderMade)
    + One(pc[Http] \in LifeSteps \ EncoderMade) <= requests + 1

\* Until app_main has made its encoder task, no task is lost: two deletions at once are
\* not survived, and a request finds no task of app_main's to forget.
NoneLostBefore ==
  ~AppOver =>
    /\ tasks \subseteq Of(handle)
    /\ pc[App] = "forgetTask" /\ ~panic =>
         tasks = {} /\ handle # 0 /\ pc[Http] \notin Deleted \cup {"forgetTask"}
    /\ pc[Http] = "forgetTask" /\ ~panic => tasks = {}
    /\ pc[Http] \in Deleted /\ ~panic => handle = 0

\* After that one may be, with the handle about to be overwritten or forgotten.
Unreachable ==
  IF pc[Http] \in Deleted \cup {"forgetTask"} THEN tasks ELSE tasks \ Of(handle)

OneLostAfter == AppOver => \E n : Unreachable \subseteq {n}

TwoRemovers ==
  /\ removers + One(pc[App] = "makeFifo") + One(pc[Http] = "makeFifo") <= 2
  /\ ~fifoReady => removers = 0

RaceInv == RaceTypes /\ TasksMade /\ FlacsMade /\ NoneLostBefore /\ OneLostAfter /\ TwoRemovers

\* The heap and the scheduler find a number that is not in use.
LEMMA FreshIsFree ==
  ASSUME NEW live \in SUBSET Numbers
  PROVE  /\ IsFiniteSet(live) /\ Cardinality(live) \in Nat
         /\ Fresh(live) \in 1 .. Cardinality(live) + 1 /\ Fresh(live) \notin live
<1> DEFINE C == Cardinality(live)
<1>1. IsFiniteSet(live) /\ C \in Nat
  <2>1. IsFiniteSet(Numbers)
    BY RendererAssumption, FS_Interval DEF Numbers
  <2>2. IsFiniteSet(live)
    BY <2>1, FS_Subset
  <2> QED
    BY <2>2, FS_CardinalityType
<1>2. IsFiniteSet(1 .. C + 1) /\ Cardinality(1 .. C + 1) = C + 1
  BY <1>1, FS_Interval
<1>3. (1 .. C + 1) \ live # {}
  <2> SUFFICES ASSUME 1 .. C + 1 \in SUBSET live PROVE FALSE
    OBVIOUS
  <2>1. Cardinality(1 .. C + 1) <= C
    BY <1>1, FS_Subset
  <2> QED
    BY <1>1, <1>2, <2>1
<1>4. PICK i \in (1 .. C + 1) \ live : \A j \in (1 .. C + 1) \ live : i <= j
  <2>1. (1 .. C + 1) \ live \in SUBSET Nat
    BY <1>1
  <2> QED
    BY <1>3, <2>1, LeastExists
<1>5. \A m \in 1 .. i - 1 : m \in live
  BY <1>1, <1>4
<1> QED
  BY <1>1, <1>4, <1>5 DEF Fresh

\* A round adds at most one to the tasks, and to the encoders.
LEMMA AddedIsOne ==
  ASSUME NEW live \in SUBSET Numbers, Cardinality(live) + 1 <= requests + 1,
         requests \in 0 .. MaxRequests
  PROVE  /\ Fresh(live) \in Numbers /\ live \cup {Fresh(live)} \in SUBSET Numbers
         /\ Cardinality(live \cup {Fresh(live)}) = Cardinality(live) + 1
<1>1. Fresh(live) \in Numbers
  BY RendererAssumption, FreshIsFree DEF Numbers
<1> QED
  BY <1>1, FreshIsFree, FS_AddElement

\* A task less is not more.
LEMMA RemovedIsLess ==
  ASSUME NEW live \in SUBSET Numbers, NEW n
  PROVE  Cardinality(live \ {n}) \in Nat /\ Cardinality(live \ {n}) <= Cardinality(live)
<1>1. live \ {n} \in SUBSET live /\ live \ {n} \in SUBSET Numbers
  OBVIOUS
<1> QED
  BY <1>1, FreshIsFree, FS_Subset

\* There is no task at the start.
LEMMA RaceInit == StartInit => RaceInv
<1> SUFFICES ASSUME StartInit PROVE RaceInv
  OBVIOUS
<1> USE RendererAssumption DEF StartInit, RendererInit, Threads, App, Http
<1>1. RaceTypes
  <2>1. pc \in [Threads -> Steps]
    BY DEF Steps
  <2>2. pc[App] = "wifi" /\ pc[Http] = "none"
    OBVIOUS
  <2>3. 0 \in 0 .. MaxRequests /\ 0 \in 0 .. MaxRequests + 1
    OBVIOUS
  <2> QED
    BY <2>1, <2>2, <2>3 DEF RaceTypes
<1>2. TasksMade /\ FlacsMade
  BY FS_EmptySet DEF TasksMade, FlacsMade, One, LifeSteps, AppOver, EncoderMade
<1>3. NoneLostBefore /\ OneLostAfter /\ TwoRemovers
  BY DEF NoneLostBefore, OneLostAfter, TwoRemovers, One, AppOver, Of, Deleted
<1> QED
  BY <1>1, <1>2, <1>3 DEF RaceInv

\* Deleting and forgetting the encoder task.
LEMMA TaskDeletedRaces ==
  ASSUME RaceInv, ~panic, NEW t \in Threads,
         TestTask(t) \/ DeleteTask(t) \/ ForgetTask(t), UNCHANGED requests
  PROVE  RaceInv'
<1> USE DEF RaceInv, RaceTypes, Threads, App, Http, Goes, lifeVars, Steps, LifeSteps, AppOver
<1>1. CASE TestTask(t)
  <2> USE <1>1 DEF TestTask
  <2>1. TasksMade' /\ FlacsMade'
    BY FreshIsFree DEF TasksMade, FlacsMade, One, EncoderMade
  <2>2. NoneLostBefore' /\ OneLostAfter'
    BY DEF NoneLostBefore, OneLostAfter, Unreachable, Of, Deleted
  <2>3. RaceTypes' /\ TwoRemovers'
    BY DEF TwoRemovers, One
  <2> QED
    BY <2>1, <2>2, <2>3
<1>2. CASE DeleteTask(t)
  <2> USE <1>2 DEF DeleteTask
  <2>1. Cardinality(tasks') \in Nat /\ Cardinality(tasks') <= Cardinality(tasks)
    BY RemovedIsLess
  <2>2. Cardinality(tasks) \in Nat /\ Cardinality(flacs) \in Nat
    BY FreshIsFree
  <2>3. PICK k \in Nat : k = Cardinality(tasks')
    BY <2>1
  <2>4. TasksMade' /\ FlacsMade'
    BY <2>1, <2>2, <2>3 DEF TasksMade, FlacsMade, One, EncoderMade
  <2>5. NoneLostBefore'
    BY DEF NoneLostBefore, Of, Deleted
  <2>6. OneLostAfter'
    BY DEF NoneLostBefore, OneLostAfter, Unreachable, Of, Deleted
  <2>7. RaceTypes' /\ TwoRemovers'
    BY DEF TwoRemovers, One
  <2> QED
    BY <2>4, <2>5, <2>6, <2>7
<1>3. CASE ForgetTask(t)
  <2> USE <1>3 DEF ForgetTask
  <2>1. TasksMade' /\ FlacsMade'
    BY FreshIsFree DEF TasksMade, FlacsMade, One, EncoderMade
  <2>2. NoneLostBefore' /\ OneLostAfter'
    BY DEF NoneLostBefore, OneLostAfter, Unreachable, Of, Deleted
  <2>3. RaceTypes' /\ TwoRemovers'
    BY RendererAssumption DEF TwoRemovers, One
  <2> QED
    BY <2>1, <2>2, <2>3
<1> QED
  BY <1>1, <1>2, <1>3

\* Deleting and forgetting the encoder, which leaves the tasks alone.
LEMMA EncoderDeletedRaces ==
  ASSUME RaceInv, ~panic, NEW t \in Threads,
         TestEncoder(t) \/ Finish(t) \/ DeleteEncoder(t) \/ ForgetEncoder(t),
         UNCHANGED requests
  PROVE  RaceInv'
<1> USE DEF RaceInv, RaceTypes, Threads, App, Http, Goes, Steps, LifeSteps, AppOver
<1>1. /\ UNCHANGED << tasks, handle, removers, fifoReady >>
      /\ flacs' \in {flacs, flacs \ {encoder}} /\ encoder' \in {encoder, 0}
      /\ pc[t] \in {"testEncoder", "finish", "deleteEncoder", "forgetEncoder"}
      /\ pc' = [pc EXCEPT ![t] = pc'[t]]
      /\ pc'[t] \in {"finish", "deleteEncoder", "forgetEncoder", "deinitDone"}
  BY DEF TestEncoder, lifeVars, Finish, DeleteEncoder, ForgetEncoder
<1>2. /\ Cardinality(flacs') \in Nat /\ Cardinality(flacs') <= Cardinality(flacs)
      /\ Cardinality(flacs) \in Nat /\ Cardinality(tasks) \in Nat
  BY <1>1, FreshIsFree, RemovedIsLess
<1>3. PICK k \in Nat : k = Cardinality(flacs')
  BY <1>2
<1>4. TasksMade' /\ FlacsMade'
  BY <1>1, <1>2, <1>3 DEF TasksMade, FlacsMade, One, EncoderMade
<1>5. NoneLostBefore' /\ OneLostAfter'
  BY <1>1 DEF NoneLostBefore, OneLostAfter, Unreachable, Of, Deleted
<1>6. RaceTypes' /\ TwoRemovers'
  BY <1>1, RendererAssumption DEF TwoRemovers, One
<1> QED
  BY <1>4, <1>5, <1>6

\* A new encoder takes the round's number, and its settings leave it that.
LEMMA NewEncoderRaces ==
  ASSUME RaceInv, ~panic, NEW t \in Threads, NewEncoder(t) \/ Configure(t),
         UNCHANGED requests
  PROVE  RaceInv'
<1> USE DEF RaceInv, RaceTypes, Threads, App, Http, Goes, Steps, LifeSteps, AppOver
<1>1. /\ UNCHANGED << tasks, handle, removers, fifoReady >> /\ pc[t] \in {"init", "configure"}
      /\ pc' = [pc EXCEPT ![t] = pc'[t]] /\ pc'[t] \in {"configure", "fifo", "initDone"}
      /\ pc'[t] = "configure" => pc[t] = "init"
      /\ \/ encoder' \in {encoder, 0} /\ flacs' = flacs
         \/ /\ pc[t] = "init"
            /\ encoder' = Fresh(flacs) /\ flacs' = flacs \cup {encoder'}
  BY DEF NewEncoder, Configure
<1>2. Cardinality(flacs) \in Nat /\ Cardinality(tasks) \in Nat
  BY FreshIsFree
<1>3. pc[t] = "init" => Cardinality(flacs) + 1 <= requests + 1
  BY <1>1, <1>2 DEF FlacsMade, One, EncoderMade
<1>4. /\ flacs' \in SUBSET Numbers /\ encoder' \in 0 .. MaxRequests + 1
      /\ Cardinality(flacs') \in Nat /\ Cardinality(flacs') <= Cardinality(flacs) + 1
      /\ pc[t] = "configure" => flacs' = flacs
  <2>1. CASE encoder' \in {encoder, 0} /\ flacs' = flacs
    BY <1>2, <2>1, RendererAssumption
  <2>2. CASE pc[t] = "init" /\ encoder' = Fresh(flacs) /\ flacs' = flacs \cup {encoder'}
    BY <1>2, <1>3, <2>2, AddedIsOne DEF Numbers
  <2> QED
    BY <1>1, <2>1, <2>2
<1>5. PICK k \in Nat : k = Cardinality(flacs')
  BY <1>4
<1>6. TasksMade' /\ FlacsMade'
  BY <1>1, <1>2, <1>4, <1>5 DEF TasksMade, FlacsMade, One, EncoderMade
<1>7. NoneLostBefore' /\ OneLostAfter'
  BY <1>1 DEF NoneLostBefore, OneLostAfter, Unreachable, Of, Deleted
<1>8. RaceTypes' /\ TwoRemovers'
  BY <1>1, <1>4 DEF TwoRemovers, One
<1> QED
  BY <1>6, <1>7, <1>8

\* wire_chunk_fifo_init in both tasks makes two remove-oldest tasks at most.
LEMMA FifoRaces ==
  ASSUME RaceInv, ~panic, NEW t \in Threads, InitFifo(t) \/ MakeFifo(t), UNCHANGED requests
  PROVE  RaceInv'
<1> USE DEF RaceInv, RaceTypes, Threads, App, Http, Goes, Steps, LifeSteps, AppOver
<1>1. /\ UNCHANGED << tasks, handle, flacs, encoder >> /\ pc[t] \in {"fifo", "makeFifo"}
      /\ pc' = [pc EXCEPT ![t] = pc'[t]] /\ pc'[t] \in {"makeFifo", "create"}
  BY DEF InitFifo, MakeFifo, lifeVars
<1>2. TasksMade' /\ FlacsMade'
  BY <1>1, FreshIsFree DEF TasksMade, FlacsMade, One, EncoderMade
<1>3. NoneLostBefore' /\ OneLostAfter'
  BY <1>1 DEF NoneLostBefore, OneLostAfter, Unreachable, Of, Deleted
<1>4. RaceTypes' /\ TwoRemovers'
  <2>1. CASE InitFifo(t)
    BY <1>1, <2>1 DEF InitFifo, lifeVars, TwoRemovers, One
  <2>2. CASE MakeFifo(t)
    <3>1. removers' = removers + 1 /\ fifoReady' = TRUE /\ pc[t] = "makeFifo" /\ pc'[t] = "create"
      BY <2>2 DEF MakeFifo
    <3>2. CASE t = App
      BY <1>1, <3>1, <3>2 DEF TwoRemovers, One
    <3>3. CASE t = Http
      BY <1>1, <3>1, <3>3 DEF TwoRemovers, One
    <3> QED
      BY <3>2, <3>3
  <2> QED
    BY <2>1, <2>2
<1> QED
  BY <1>2, <1>3, <1>4

\* A new encoder task takes the handle, and at worst leaves one behind.
LEMMA CreateTaskRaces ==
  ASSUME RaceInv, ~panic, NEW t \in Threads, CreateTask(t), UNCHANGED requests
  PROVE  RaceInv'
<1> USE DEF RaceInv, RaceTypes, Threads, App, Http, Goes, Steps, LifeSteps, AppOver
<1>1. /\ UNCHANGED << flacs, encoder, removers, fifoReady >> /\ pc[t] = "create"
      /\ pc' = [pc EXCEPT ![t] = "initDone"]
      /\ \/ UNCHANGED << handle, tasks >>
         \/ handle' = Fresh(tasks) /\ tasks' = tasks \cup {handle'}
  BY DEF CreateTask
<1>2. Cardinality(flacs) \in Nat /\ Cardinality(tasks) \in Nat
  BY FreshIsFree
<1>3. Cardinality(tasks) + 1 <= requests + 1
  BY <1>1, <1>2 DEF TasksMade, One
<1>4. /\ tasks' \in SUBSET Numbers /\ handle' \in 0 .. MaxRequests + 1
      /\ Cardinality(tasks') \in Nat /\ Cardinality(tasks') <= Cardinality(tasks) + 1
  <2>1. CASE UNCHANGED << handle, tasks >>
    BY <1>2, <2>1
  <2>2. CASE handle' = Fresh(tasks) /\ tasks' = tasks \cup {handle'}
    BY <1>2, <1>3, <2>2, AddedIsOne DEF Numbers
  <2> QED
    BY <1>1, <2>1, <2>2
<1>5. PICK k \in Nat : k = Cardinality(tasks')
  BY <1>4
<1>6. TasksMade' /\ FlacsMade'
  BY <1>1, <1>2, <1>4, <1>5 DEF TasksMade, FlacsMade, One, EncoderMade
<1>7. \/ UNCHANGED << handle, tasks >>
      \/ handle' # 0 /\ tasks' = tasks \cup {handle'}
  BY <1>1, <1>2, FreshIsFree
<1>8. ASSUME t = App PROVE NoneLostBefore' /\ OneLostAfter'
  <2>1. NoneLostBefore'
    BY <1>1, <1>8 DEF NoneLostBefore
  <2>2. pc'[App] = "initDone" /\ pc'[Http] = pc[Http]
    BY <1>1, <1>8
  <2>3. CASE pc[Http] \in Deleted \cup {"forgetTask"}
    <3>1. tasks = {}
      BY <1>1, <1>8, <2>3 DEF NoneLostBefore, Of
    <3>2. tasks' \subseteq {handle'}
      BY <1>7, <3>1
    <3>3. Unreachable' = tasks'
      BY <2>2, <2>3 DEF Unreachable
    <3>4. OneLostAfter'
      BY <3>2, <3>3, Zenon DEF OneLostAfter
    <3> QED
      BY <2>1, <3>4
  <2>4. CASE pc[Http] \notin Deleted \cup {"forgetTask"}
    <3>1. tasks \subseteq {handle}
      BY <1>1, <1>8 DEF NoneLostBefore, Of
    <3>2. Unreachable' \subseteq {handle}
      BY <1>7, <2>2, <2>4, <3>1 DEF Unreachable, Of
    <3>3. OneLostAfter'
      BY <3>2, Zenon DEF OneLostAfter
    <3> QED
      BY <2>1, <3>3
  <2> QED
    BY <2>3, <2>4
<1>9. ASSUME t = Http PROVE NoneLostBefore' /\ OneLostAfter'
  <2>1. pc'[App] = pc[App] /\ pc'[Http] = "initDone" /\ pc[Http] \in Deleted
    BY <1>1, <1>9 DEF Deleted
  <2>2. CASE AppOver
    <3>1. PICK n : tasks \subseteq {n}
      BY <2>1, <2>2 DEF OneLostAfter, Unreachable
    <3>2. Unreachable' \subseteq {n}
      BY <1>7, <2>1, <3>1 DEF Unreachable, Of, Deleted
    <3>3. OneLostAfter'
      BY <3>2, Zenon DEF OneLostAfter
    <3>4. NoneLostBefore'
      BY <2>1, <2>2 DEF NoneLostBefore
    <3> QED
      BY <3>3, <3>4
  <2>3. CASE ~AppOver
    <3>1. tasks = {} /\ handle = 0 /\ pc[App] # "forgetTask"
      BY <2>1, <2>3 DEF NoneLostBefore, Of
    <3>2. OneLostAfter'
      BY <2>1, <2>3 DEF OneLostAfter
    <3>3. tasks' \subseteq Of(handle')
      BY <1>7, <3>1 DEF Of
    <3>4. NoneLostBefore'
      BY <2>1, <2>3, <3>1, <3>3 DEF NoneLostBefore, Deleted
    <3> QED
      BY <3>2, <3>4
  <2> QED
    BY <2>2, <2>3
<1>10. RaceTypes' /\ TwoRemovers'
  BY <1>1, <1>4 DEF TwoRemovers, One
<1> QED
  BY <1>6, <1>8, <1>9, <1>10

\* Requests begin and end, and app_main goes on.
LEMMA OthersRace ==
  ASSUME RaceInv, ~panic, UNCHANGED lifeVars,
         \/ AssignHandle \/ Request \/ Restart \/ Run \/ Playing \/ Stopped
         \/ StartWifi \/ WifiDone \/ RegisterServices \/ InitAfterDeinit \/ StartSnapserver
  PROVE  RaceInv'
<1> USE DEF RaceInv, RaceTypes, Threads, App, Http, Goes, Steps, LifeSteps, AppOver, lifeVars,
            callVars
<1>1. Cardinality(flacs) \in Nat /\ Cardinality(tasks) \in Nat
  BY FreshIsFree
<1>2. CASE Request \/ Restart \/ Run \/ Playing \/ Stopped
  <2> USE DEF Request, Restart, Run, Playing, Stopped
  <2>1. TasksMade' /\ FlacsMade'
    BY <1>1, <1>2 DEF TasksMade, FlacsMade, One, EncoderMade
  <2>2. NoneLostBefore' /\ OneLostAfter'
    BY <1>2 DEF NoneLostBefore, OneLostAfter, Unreachable, Of, Deleted
  <2>3. RaceTypes' /\ TwoRemovers'
    BY <1>2, RendererAssumption DEF TwoRemovers, One
  <2> QED
    BY <2>1, <2>2, <2>3
<1>3. CASE \/ AssignHandle \/ StartWifi \/ WifiDone \/ RegisterServices \/ InitAfterDeinit
           \/ StartSnapserver
  <2> USE DEF AssignHandle, StartWifi, WifiDone, RegisterServices, InitAfterDeinit,
              StartSnapserver
  <2>1. TasksMade' /\ FlacsMade'
    BY <1>1, <1>3 DEF TasksMade, FlacsMade, One, EncoderMade
  <2>2. NoneLostBefore' /\ OneLostAfter'
    BY <1>3 DEF NoneLostBefore, OneLostAfter, Unreachable, Of, Deleted
  <2>3. RaceTypes' /\ TwoRemovers'
    BY <1>3 DEF TwoRemovers, One
  <2> QED
    BY <2>1, <2>2, <2>3
<1> QED
  BY <1>2, <1>3

\* Every step keeps it.
LEMMA RaceNext == RaceInv /\ [StartNext]_startVars => RaceInv'
<1> SUFFICES ASSUME RaceInv, [StartNext]_startVars PROVE RaceInv'
  OBVIOUS
<1>1. CASE UNCHANGED << pc, lifeVars, requests >>
  BY <1>1 DEF RaceInv, RaceTypes, TasksMade, FlacsMade, NoneLostBefore, OneLostAfter,
     Unreachable, TwoRemovers, AppOver, lifeVars
<1>2. CASE EncoderTaskFails
  BY <1>2 DEF EncoderTaskFails, RaceInv, RaceTypes, TasksMade, FlacsMade, NoneLostBefore,
     OneLostAfter, Unreachable, TwoRemovers, AppOver, callVars
<1>3. CASE ~panic /\ \E t \in Threads : LifeCycle(t)
  BY <1>3, TaskDeletedRaces, EncoderDeletedRaces, NewEncoderRaces, FifoRaces, CreateTaskRaces
     DEF LifeCycle, callVars
<1>4. CASE ~panic /\ ~\E t \in Threads : LifeCycle(t)
  <2> DEFINE Other == \/ AssignHandle \/ Request \/ Restart \/ Run \/ Playing \/ Stopped
                      \/ StartWifi \/ WifiDone \/ RegisterServices \/ InitAfterDeinit
                      \/ StartSnapserver
  <2>1. \/ Other /\ UNCHANGED lifeVars
        \/ EncoderTaskFails
        \/ UNCHANGED << pc, lifeVars, requests >>
    BY <1>4 DEF StartNext, AppMain, Rendering, Wifi, startVars, rendererVars, Asked, Served,
       Threads, Pause, SetRendering, SetTrackUri, TrackEnds, callVars, AssignHandle, Request,
       Restart, Run, Playing, Stopped, StartWifi, WifiDone, RegisterServices, InitAfterDeinit,
       StartSnapserver
  <2>2. CASE Other /\ UNCHANGED lifeVars
    BY <1>4, <2>2, OthersRace, Zenon
  <2>3. CASE EncoderTaskFails
    BY <1>2, <2>3
  <2>4. CASE UNCHANGED << pc, lifeVars, requests >>
    BY <1>1, <2>4
  <2> QED
    BY <2>1, <2>2, <2>3, <2>4
<1> QED
  BY <1>1, <1>3, <1>4 DEF StartNext, startVars, rendererVars, callVars

\* Running the life cycle in app_main and in a request at once loses one task at most, and
\* more requests do not add to that.
THEOREM RaceInvariant == StartSpec => []RaceInv
BY RaceInit, RaceNext, PTL DEF StartSpec

\* However many requests there are: one encoder task too many, one remove-oldest task too
\* many.
THEOREM OverlapIsBounded == StartSpec => []OverlapBounded
<1>1. RaceInv => OverlapBounded
  <2> SUFFICES ASSUME RaceInv PROVE OverlapBounded
    OBVIOUS
  <2>1. \E n : tasks \subseteq {n, handle}
    BY DEF RaceInv, NoneLostBefore, OneLostAfter, Unreachable, Of
  <2>2. PICK n : tasks \subseteq {n, handle}
    BY <2>1
  <2>3. IsFiniteSet({n} \cup {handle}) /\ Cardinality({n} \cup {handle}) <= 2
    <3>1. IsFiniteSet({n}) /\ Cardinality({n}) = 1
      BY FS_Singleton
    <3> QED
      BY <3>1, FS_AddElement
  <2>4. tasks \in SUBSET ({n} \cup {handle})
    BY <2>2
  <2>5. Cardinality(tasks) <= Cardinality({n} \cup {handle})
    BY <2>3, <2>4, FS_Subset
  <2>6. Cardinality(tasks) \in Nat /\ Cardinality({n} \cup {handle}) \in Nat
    BY <2>3, FreshIsFree, FS_CardinalityType DEF RaceInv, RaceTypes
  <2>7. removers <= 2
    BY DEF RaceInv, RaceTypes, TwoRemovers, One
  <2> QED
    BY <2>3, <2>5, <2>6, <2>7 DEF OverlapBounded
<1> QED
  BY <1>1, RaceInvariant, PTL

-----------------------------------------------------------------------------
(* Types.                                                                  *)

\* What the invariants above leave out.
PlainTypes ==
  /\ station \in {"off", "connecting", "associated", "online", "down"}
  /\ bits \subseteq {"CONNECTED", "FAIL"}
  /\ pipeline \in {"idle", "running", "paused", "finished"}

\* Every variable keeps its type: rounds of the life cycle make no more tasks and encoders
\* than there are numbers for, requests and app_main counted.
THEOREM StartUpTypeCorrect == StartSpec => []StartUpTypeOk
<1>1. StartInit => PlainTypes
  BY DEF StartInit, WifiInit, RendererInit, PlainTypes
<1>2. PlainTypes /\ [StartNext]_startVars => PlainTypes'
  <2> SUFFICES ASSUME PlainTypes, [StartNext]_startVars PROVE PlainTypes'
    OBVIOUS
  <2> USE DEF PlainTypes
  <2>1. CASE StartWifi
    BY <2>1 DEF StartWifi, WifiStart
  <2>2. CASE WifiNext /\ UNCHANGED rendererVars
    BY <2>2 DEF WifiNext, Associate, GotIp, Disconnected, Retry, GiveUp, rendererVars
  <2>3. CASE /\ Request \/ Restart \/ Run \/ Pause \/ SetTrackUri \/ TrackEnds
             /\ UNCHANGED wifiVars
    BY <2>3 DEF Request, Restart, Run, Pause, SetTrackUri, TrackEnds, wifiVars
  <2> QED
    BY <2>1, <2>2, <2>3 DEF StartNext, AppMain, Rendering, Wifi, startVars, wifiVars,
       rendererVars, WifiDone, RegisterServices, AssignHandle, InitAfterDeinit,
       StartSnapserver, LifeCycle, Asked, Served, SetRendering, Playing, Stopped,
       EncoderTaskFails
<1>3. StartSpec => []PlainTypes
  BY <1>1, <1>2, PTL DEF StartSpec
<1>4. PlainTypes /\ WifiInv /\ ToldInv /\ RaceInv => StartUpTypeOk
  BY DEF PlainTypes, WifiInv, ToldInv, Attributes, Transport, RaceInv, RaceTypes, Numbers,
     StartUpTypeOk
<1> QED
  BY <1>3, <1>4, WifiInvariant, ToldInvariant, RaceInvariant, PTL
==============================================================================
