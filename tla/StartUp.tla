------------------------------- MODULE StartUp -------------------------------
(***************************************************************************)
(* app_main: it waits for the WiFi station, registers the UPnP services,   *)
(* makes the encoder, and starts the snapserver.  From the registration on *)
(* control points that reach the station may send requests, which are      *)
(* served while app_main goes on.                                          *)
(***************************************************************************)
EXTENDS WifiStation, Renderer

startVars == << wifiVars, rendererVars >>

StartInit ==
  /\ WifiInit /\ RendererInit
  /\ pc = [t \in Threads |-> IF t = App THEN "wifi" ELSE "none"]

\* wifi_init_sta, until it waits.
StartWifi ==
  /\ pc[App] = "wifi"
  /\ WifiStart
  /\ Goes(App, "wait")
  /\ UNCHANGED << pipeline, lifeVars, attrVars, callVars >>

\* It goes on whether the station is connected or failed.
WifiDone ==
  /\ pc[App] = "wait" /\ WifiWaitOver
  /\ Goes(App, "startDlna")
  /\ UNCHANGED << wifiVars, pipeline, lifeVars, attrVars, callVars >>

\* audio_player_init, and start_dlna until the services answer requests.
RegisterServices ==
  /\ pc[App] = "startDlna"
  /\ pc' = [pc EXCEPT ![App] = "assign", ![Http] = "idle"]
  /\ UNCHANGED << wifiVars, pipeline, lifeVars, attrVars, callVars >>

\* start_dlna returns.
AssignHandle ==
  /\ pc[App] = "assign"
  /\ assigned' = TRUE
  /\ Goes(App, "deinit")
  /\ Overlap(App)
  /\ UNCHANGED << wifiVars, pipeline, lifeVars, attrVars, request, requests >>

InitAfterDeinit ==
  /\ pc[App] = "deinitDone"
  /\ Goes(App, "init")
  /\ UNCHANGED << wifiVars, pipeline, lifeVars, attrVars, callVars >>

\* snapserver_init, and the loop that only logs.
StartSnapserver ==
  /\ pc[App] = "initDone"
  /\ Goes(App, "listen")
  /\ UNCHANGED << wifiVars, pipeline, lifeVars, attrVars, callVars >>

AppMain ==
  \/ StartWifi \/ WifiDone \/ RegisterServices \/ AssignHandle
  \/ (LifeCycle(App) /\ UNCHANGED wifiVars) \/ InitAfterDeinit \/ StartSnapserver

\* A control point reaches the renderer while the station is online.
Rendering ==
  /\ (station = "online" /\ Asked) \/ Served \/ TrackEnds \/ EncoderTaskFails
  /\ UNCHANGED wifiVars

Wifi == WifiNext /\ UNCHANGED rendererVars

StartNext == ~panic /\ (AppMain \/ Rendering \/ Wifi)

StartSpec == StartInit /\ [][StartNext]_startVars

\* An attempt to connect ends; an access point without addresses may last for ever.
StartFairSpec ==
  /\ StartSpec
  /\ WF_startVars(~panic /\ AppMain)
  /\ WF_startVars(~panic /\ station = "connecting" /\ Wifi)

-----------------------------------------------------------------------------
(* Properties.                                                             *)

StartUpTypeOk ==
  /\ station \in {"off", "connecting", "associated", "online", "down"}
  /\ retryNum \in 0 .. MaxRetry /\ bits \subseteq {"CONNECTED", "FAIL"}
  /\ pc[App] \in LifeSteps \cup {"wifi", "wait", "startDlna", "assign", "initDone",
                                "listen", "deleted"}
  /\ pc[Http] \in LifeSteps \cup {"none", "idle", "initDone", "state", "deleted"}
  /\ requests \in 0 .. MaxRequests
  /\ attrs \in [vol : Levels, mute : {0, 1},
                trans : {"STOPPED", "PLAYING", "PAUSED_PLAYBACK"}]
  /\ DOMAIN told = DOMAIN attrs
  /\ pipeline \in {"idle", "running", "paused", "finished"}
  /\ handle \in 0 .. MaxRequests + 1 /\ tasks \subseteq 1 .. MaxRequests + 1
  /\ encoder \in 0 .. MaxRequests + 1 /\ flacs \subseteq 1 .. MaxRequests + 1

\* Start-up gets past the WiFi station, connected or not, unless the access point keeps
\* it without an address.
WaitEnds == <>(pc[App] \notin {"wifi", "wait"}) \/ <>[](station = "associated")
==============================================================================
