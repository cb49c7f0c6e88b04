------------------------------- MODULE Renderer -------------------------------
(***************************************************************************)
(* renderer_request (main.c) and what it drives: the audio pipeline, the   *)
(* encoder's life cycle, and what control points are told.  Requests are   *)
(* served one at a time by the HTTP server's task; the encoder's life      *)
(* cycle also runs in app_main during start-up, so that it is split at its *)
(* tests and uses of what the two tasks share: the task handle, encoder    *)
(* and init.                                                               *)
(*                                                                         *)
(* The life cycle's shared state is pointers: the task handle and encoder  *)
(* that the next call will delete.  What the encoder task does with the    *)
(* fifo meanwhile is StreamControl's.                                      *)
(***************************************************************************)
EXTENDS Integers, FiniteSets

CONSTANTS
  Levels,        \* volumes
  MaxRequests    \* bound: requests that run the encoder's life cycle

ASSUME RendererAssumption ==
  Levels \subseteq Nat /\ 0 \in Levels /\ MaxRequests \in Nat

VARIABLES
  pc,            \* of each task, the step of its work
  request,       \* the request being served
  requests,      \* PLAYs and STOPs received
  attrs,         \* vol, mute and trans_state
  told,          \* what the UPnP library was last told of them
  missed,        \* history: the last TransportState notification went to no handle
  assigned,      \* dlna_handle # NULL
  pipeline,      \* "idle", "running", "paused", or "finished" when the track has ended
  handle,        \* flac_encoder_task_handle; 0 is NULL
  tasks,         \* encoder tasks that live, numbered
  encoder,       \* the encoder pointer; 0 is NULL
  flacs,         \* FLAC encoders that are allocated, numbered
  removers,      \* remove-oldest tasks
  fifoReady,     \* init, of wire_chunk_fifo.c
  initFailed,    \* history: the last flac_encoder_init made no task
  overlapped,    \* history: the life cycle ran in both tasks at once
  panic          \* a deleted or missing task or encoder was used; the chip restarts

App == "app"     \* the main task
Http == "http"   \* the HTTP server's task
Threads == {App, Http}

lifeVars == << handle, tasks, encoder, flacs, removers, fifoReady, initFailed, panic >>
attrVars == << attrs, told, missed >>
callVars == << request, requests, assigned, overlapped >>
rendererVars == << pc, pipeline, lifeVars, attrVars, callVars >>

RendererInit ==
  /\ request = "none" /\ requests = 0 /\ assigned = FALSE
  /\ attrs = [vol |-> 0, mute |-> 0, trans |-> "STOPPED"] /\ told = attrs /\ missed = FALSE
  /\ pipeline = "idle"
  /\ handle = 0 /\ tasks = {} /\ encoder = 0 /\ flacs = {}
  /\ removers = 0 /\ fifoReady = FALSE /\ initFailed = FALSE
  /\ overlapped = FALSE /\ panic = FALSE

Goes(t, step) == pc' = [pc EXCEPT ![t] = step]

-----------------------------------------------------------------------------
(* What control points are told.                                           *)

\* The attributes that each service's notification tells.
RenderingControl == {"vol", "mute"}
AVTransport == {"trans"}

\* esp_dlna_notify
Notify(service) == told' = [a \in DOMAIN told |-> IF a \in service THEN attrs'[a] ELSE told[a]]

\* Variant: tells what the state was.
SetTransBeforehand(state) ==
  /\ attrs' = [attrs EXCEPT !.trans = state]
  /\ told' = IF assigned THEN [told EXCEPT !.trans = attrs.trans] ELSE told
  /\ missed' = ~assigned

\* The state, and esp_dlna_notify_avt_by_action, which needs dlna_handle.
SetTrans(state) ==
  /\ attrs' = [attrs EXCEPT !.trans = state]
  /\ IF assigned THEN Notify(AVTransport) ELSE UNCHANGED told
  /\ missed' = ~assigned

-----------------------------------------------------------------------------
(* flac_encoder_deinit and flac_encoder_init, in task t.                   *)

LifeSteps == { "deinit", "deleteTask", "forgetTask", "testEncoder", "finish", "deleteEncoder",
               "forgetEncoder", "deinitDone", "init", "configure", "fifo", "makeFifo", "create" }
Overlap(t) == overlapped' = (overlapped \/ \E u \in Threads \ {t} : pc[u] \in LifeSteps)

\* The least number not in use; the heap, too, gives again what was freed.
Fresh(live) ==
  CHOOSE n \in 1 .. Cardinality(live) + 1 : n \notin live /\ \A m \in 1 .. n - 1 : m \in live

TestTask(t) ==
  /\ pc[t] = "deinit"
  /\ Goes(t, IF handle # 0 THEN "deleteTask" ELSE "testEncoder")
  /\ UNCHANGED lifeVars

\* Variant: only the handle goes.
DeleteTaskNot(t) ==
  /\ pc[t] = "deleteTask"
  /\ Goes(t, "forgetTask")
  /\ UNCHANGED lifeVars

\* If the other task has forgotten the handle, vTaskDelete gets one that is stale or, if
\* the compiler reads it again, NULL, which means the calling task.  If the other task has
\* made a new encoder task meanwhile, it gets that one: a copy of the old handle would end
\* in a panic, as it does above.
DeleteTask(t) ==
  /\ pc[t] = "deleteTask"
  /\ tasks' = tasks \ {handle}
  /\ \/ handle # 0 /\ panic' = (handle \notin tasks) /\ Goes(t, "forgetTask")
     \/ handle = 0 /\ panic' = TRUE /\ UNCHANGED pc
     \/ handle = 0 /\ Goes(t, "deleted") /\ UNCHANGED panic
  /\ UNCHANGED << handle, encoder, flacs, removers, fifoReady, initFailed >>

\* Variant: the handle stays.
ForgetTaskNot(t) ==
  /\ pc[t] = "forgetTask"
  /\ Goes(t, "testEncoder")
  /\ UNCHANGED lifeVars

ForgetTask(t) ==
  /\ pc[t] = "forgetTask"
  /\ Goes(t, "testEncoder")
  /\ handle' = 0
  /\ UNCHANGED << tasks, encoder, flacs, removers, fifoReady, initFailed, panic >>

TestEncoder(t) ==
  /\ pc[t] = "testEncoder"
  /\ Goes(t, IF encoder # 0 THEN "finish" ELSE "deinitDone")
  /\ UNCHANGED lifeVars

\* FLAC__stream_encoder_finish flushes; metadata[] goes with it.
Finish(t) ==
  /\ pc[t] = "finish"
  /\ Goes(t, "deleteEncoder")
  /\ panic' = (encoder \notin flacs)
  /\ UNCHANGED << handle, tasks, encoder, flacs, removers, fifoReady, initFailed >>

\* FLAC__stream_encoder_delete; NULL is ignored.
DeleteEncoder(t) ==
  /\ pc[t] = "deleteEncoder"
  /\ Goes(t, "forgetEncoder")
  /\ flacs' = flacs \ {encoder}
  /\ panic' = (encoder \notin flacs \cup {0})
  /\ UNCHANGED << handle, tasks, encoder, removers, fifoReady, initFailed >>

ForgetEncoder(t) ==
  /\ pc[t] = "forgetEncoder"
  /\ Goes(t, "deinitDone")
  /\ encoder' = 0
  /\ UNCHANGED << handle, tasks, flacs, removers, fifoReady, initFailed, panic >>

\* FLAC__stream_encoder_new; without memory the pointer becomes NULL.
NewEncoder(t) ==
  /\ pc[t] = "init"
  /\ \/ /\ encoder' = Fresh(flacs)
        /\ flacs' = flacs \cup {encoder'}
        /\ Goes(t, "configure")
        /\ UNCHANGED initFailed
     \/ /\ encoder' = 0 /\ initFailed' = TRUE
        /\ Goes(t, "initDone")
        /\ UNCHANGED flacs
  /\ UNCHANGED << handle, tasks, removers, fifoReady, panic >>

\* Every setting, the metadata and FLAC__stream_encoder_init_stream go to what encoder
\* points to by then; where they fail the new encoder is left without a task.
Configure(t) ==
  /\ pc[t] = "configure"
  /\ \E ok \in BOOLEAN : Goes(t, IF ok THEN "fifo" ELSE "initDone") /\ initFailed' = ~ok
  /\ panic' = (encoder \notin flacs)
  /\ UNCHANGED << handle, tasks, encoder, flacs, removers, fifoReady >>

\* wire_chunk_fifo_init does its work once ...
InitFifo(t) ==
  /\ pc[t] = "fifo"
  /\ Goes(t, IF fifoReady THEN "create" ELSE "makeFifo")
  /\ UNCHANGED lifeVars

\* ... and its init is set when all is made.
MakeFifo(t) ==
  /\ pc[t] = "makeFifo"
  /\ Goes(t, "create")
  /\ removers' = removers + 1
  /\ fifoReady' = TRUE
  /\ UNCHANGED << handle, tasks, encoder, flacs, initFailed, panic >>

\* xTaskCreatePinnedToCore, whose result is not looked at.
CreateTask(t) ==
  /\ pc[t] = "create"
  /\ Goes(t, "initDone")
  /\ \/ /\ handle' = Fresh(tasks)
        /\ tasks' = tasks \cup {handle'}
        /\ UNCHANGED initFailed
     \/ initFailed' = TRUE /\ UNCHANGED << handle, tasks >>
  /\ UNCHANGED << encoder, flacs, removers, fifoReady, panic >>

LifeCycle(t) ==
  /\ \/ TestTask(t) \/ DeleteTask(t) \/ ForgetTask(t)
     \/ TestEncoder(t) \/ Finish(t) \/ DeleteEncoder(t) \/ ForgetEncoder(t)
     \/ NewEncoder(t) \/ Configure(t) \/ InitFifo(t) \/ MakeFifo(t) \/ CreateTask(t)
  /\ UNCHANGED << pipeline, attrVars, callVars >>

\* flac_encoder_task uses what encoder points to.
EncoderTaskFails ==
  /\ tasks # {} /\ encoder \notin flacs
  /\ panic' = TRUE
  /\ UNCHANGED << handle, tasks, encoder, flacs, removers, fifoReady, initFailed >>
  /\ UNCHANGED << pc, pipeline, attrVars, callVars >>

-----------------------------------------------------------------------------
(* renderer_request.                                                       *)

\* PLAY deletes the encoder task first, STOP stops the pipeline first.
Request ==
  /\ pc[Http] = "idle" /\ requests < MaxRequests
  /\ requests' = requests + 1
  /\ \E r \in {"PLAY", "STOP"} : /\ request' = r
                                 /\ pipeline' = IF r = "STOP" THEN "idle" ELSE pipeline
  /\ Goes(Http, "deinit")
  /\ Overlap(Http)
  /\ UNCHANGED << assigned, lifeVars, attrVars >>

\* PLAY: the pipeline is stopped, and gets track_uri before it is run again.
Restart ==
  /\ pc[Http] = "deinitDone" /\ request = "PLAY"
  /\ pipeline' = "idle"
  /\ Goes(Http, "init")
  /\ UNCHANGED << lifeVars, attrVars, callVars >>

\* PLAY goes on, encoder or not, and tells the state that it is about to change.
Run ==
  /\ pc[Http] = "initDone"
  /\ pipeline' = "running"
  /\ attrs' = attrs /\ Notify(AVTransport) /\ missed' = FALSE
  /\ Goes(Http, "state")
  /\ UNCHANGED << lifeVars, callVars >>

Playing ==
  /\ pc[Http] = "state"
  /\ SetTrans("PLAYING")
  /\ Goes(Http, "idle")
  /\ UNCHANGED << pipeline, lifeVars, callVars >>

Stopped ==
  /\ pc[Http] = "deinitDone" /\ request = "STOP"
  /\ SetTrans("STOPPED")
  /\ Goes(Http, "idle")
  /\ UNCHANGED << pipeline, lifeVars, callVars >>

Pause ==
  /\ pc[Http] = "idle"
  /\ pipeline' = IF pipeline = "running" THEN "paused" ELSE pipeline
  /\ SetTrans("PAUSED_PLAYBACK")
  /\ UNCHANGED << pc, lifeVars, callVars >>

SetRendering ==
  /\ pc[Http] = "idle"
  /\ \/ \E v \in Levels : attrs' = [attrs EXCEPT !.vol = v]
     \/ \E m \in {0, 1} : attrs' = [attrs EXCEPT !.mute = m]
  /\ Notify(RenderingControl)
  /\ UNCHANGED << pc, missed, pipeline, lifeVars, callVars >>

\* Notifies; the text that track_uri points to is left out.
SetTrackUri ==
  /\ pc[Http] = "idle"
  /\ attrs' = attrs /\ Notify(AVTransport) /\ missed' = FALSE
  /\ UNCHANGED << pc, pipeline, lifeVars, callVars >>

\* The pipeline, which is external, comes to the end of what it was given.  What it tells
\* _http_stream_event_handle has it look for another track; there may be none, and nobody
\* changes trans_state.
TrackEnds ==
  /\ pipeline = "running"
  /\ pipeline' = "finished"
  /\ UNCHANGED << pc, lifeVars, attrVars, callVars >>

\* What a control point asks for, and what follows.
Asked == Request \/ Pause \/ SetRendering \/ SetTrackUri
Served == Restart \/ Run \/ Playing \/ Stopped \/ LifeCycle(Http)

-----------------------------------------------------------------------------
(* Properties.                                                             *)

\* Nothing that was deleted is used, and nothing is forgotten before it is deleted, as long
\* as the life cycle never ran in both tasks at once.
EncoderSound ==
  ~overlapped =>
    /\ ~panic /\ removers <= 1
    /\ \A t \in Threads : pc[t] # "deleted"
    /\ tasks \subseteq {handle} /\ flacs \subseteq {encoder}
    /\ tasks # {} => encoder \in flacs

\* If it did, requests do not make it worse: one encoder task too many, one remove-oldest
\* task too many.
OverlapBounded ==
  Cardinality(tasks) <= 2 /\ removers <= 2

\* Between requests, what control points were told is so: the state unless it was set
\* before dlna_handle, the volume always; and while it is PLAYING the pipeline was started
\* and encoded, unless flac_encoder_init failed or the life cycle ran twice.
ToldIsSo ==
  pc[App] = "listen" /\ pc[Http] = "idle" =>
    /\ missed \/ told.trans = attrs.trans
    /\ told.vol = attrs.vol /\ told.mute = attrs.mute
    /\ attrs.trans = "PLAYING" =>
         /\ pipeline \in {"running", "finished"}
         /\ initFailed \/ overlapped \/ handle \in tasks
    /\ attrs.trans = "STOPPED" => pipeline = "idle"
    /\ attrs.trans = "PAUSED_PLAYBACK" => pipeline # "running"
===============================================================================
