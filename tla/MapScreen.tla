------------------------------ MODULE MapScreen ------------------------------
(***************************************************************************)
(* The map of geotagged photos: MapFragment.kt and MapDataController.kt on *)
(* Android, MapViewController.swift and MapDataController.swift on iOS.    *)
(* Two things arrive in either order: the photos, from one request made in *)
(* the background, and on Android the map itself, which the map library    *)
(* hands over on the main thread when it is loaded.  The photos are shown  *)
(* twice, as a list and as markers on the map, and a tap on the list moves *)
(* the camera to the photo and then selects its marker.                    *)
(***************************************************************************)
EXTENDS RequestControllers

ASSUME MapAssumption ==
  /\ Controller = {"map"} /\ Silent = {"map"} /\ Strict = {"map"}

VARIABLES
  platform, \* the application that runs: "Android" or "iOS"
  open,     \* the screen is there and subscribed
  asked,    \* the one request of the screen was called
  ready,    \* the map is loaded: mapboxMap has a value
  bound,    \* the screen listens to the stream of its data controller
  model,    \* the items of the view model, which both subscribers are given
  list,     \* the items in the list
  markers,  \* the markers on the map
  moving    \* the camera is moving to a photo tapped in the list

mapVars ==
  <<requestVars, platform, open, asked, ready, bound, model, list, markers,
    moving>>

screenVars == <<open, asked, ready, bound, model, list, markers, moving>>

Content == {"nothing", "hollow", "full"}

MapTypeOK ==
  /\ RequestTypeOK
  /\ platform \in {"Android", "iOS"}
  /\ {open, asked, ready, bound, moving} \subseteq BOOLEAN
  /\ {model, list, markers} \subseteq Content

\* The map view of iOS is there from the start; its annotations may be set.
Opened ==
  /\ open = TRUE
  /\ asked = FALSE
  /\ ready = (platform = "iOS")
  /\ bound = FALSE
  /\ model = "nothing" /\ list = "nothing" /\ markers = "nothing"
  /\ moving = FALSE

MapInit == RequestInit /\ platform \in {"Android", "iOS"} /\ Opened

Visible == alive /\ open

-----------------------------------------------------------------------------
\* The worker subscribes to the view models, which makes the request first.
Ask ==
  /\ open /\ ~asked
  /\ Request("map")
  /\ asked' = TRUE
  /\ UNCHANGED <<open, ready, bound, model, list, markers, moving>>

Run == Continue("map") /\ UNCHANGED screenVars

\* The request is over, also one that failed without a word: the screen is
\* bound to the values of the data controller.
Bind ==
  /\ Visible /\ asked /\ ~bound
  /\ pc["map"] = "idle"
  /\ bound' = TRUE
  /\ UNCHANGED <<requestVars, open, asked, ready, model, list, markers, moving>>

\* A value reaches the view model.  Its first subscriber, on the thread that
\* brought the value, gives the map its markers if it is there
\* (mapboxMap.value?); nothing comes back to those it did not get.
AddMarkers ==
  /\ Visible /\ bound
  /\ view["map"] # NoView /\ model # view["map"].content
  /\ model' = view["map"].content
  /\ markers' = IF ready THEN model' ELSE markers
  /\ UNCHANGED <<requestVars, open, asked, ready, bound, list, moving>>

\* Variant of Load: a list without photos is not shown.
LoadFull ==
  /\ Visible /\ model = "full" /\ list # "full"
  /\ list' = "full"
  /\ UNCHANGED <<requestVars, open, asked, ready, bound, model, markers, moving>>

\* The second subscriber is on the main thread: the value was posted to it, and
\* the list gets its items later.
Load ==
  /\ Visible /\ list # model
  /\ list' = model
  /\ UNCHANGED <<requestVars, open, asked, ready, bound, model, markers, moving>>

\* getMapAsync calls back with the map.
MapReady ==
  /\ Visible /\ ~ready
  /\ ready' = TRUE
  /\ UNCHANGED <<requestVars, open, asked, bound, model, list, markers, moving>>

\* A tap on a photo of the list does nothing without a map.
TapItem ==
  /\ Visible /\ list = "full" /\ ~moving
  /\ ready
  /\ moving' = TRUE
  /\ UNCHANGED <<requestVars, open, asked, ready, bound, model, list, markers>>

\* The camera is there: the marker of the photo is selected.  On Android it is
\* looked up with filter and first, which throws if there is none.
CameraThere ==
  /\ Visible /\ moving
  /\ moving' = FALSE
  /\ IF platform = "Android" /\ markers # "full" THEN Die
                                                 ELSE UNCHANGED requestVars
  /\ UNCHANGED <<open, asked, ready, bound, model, list, markers>>

\* onDestroyView or deinit.
Leave ==
  /\ Unsubscribe("map")
  /\ open' = FALSE
  /\ UNCHANGED <<asked, ready, bound, model, list, markers, moving>>

MapCrash == Crash /\ UNCHANGED screenVars

Reopen ==
  /\ Launch
  /\ open' = TRUE /\ asked' = FALSE /\ bound' = FALSE /\ moving' = FALSE
  /\ ready' = (platform = "iOS")
  /\ model' = "nothing" /\ list' = "nothing" /\ markers' = "nothing"

\* The thread that brings the value is the worker on Android, the main thread on
\* iOS.
Worker == Ask \/ Run \/ Bind

MainThread == Load \/ MapReady \/ CameraThere

MapNext ==
  /\ Worker \/ AddMarkers \/ MainThread \/ TapItem \/ Leave \/ MapCrash \/ Reopen
  /\ UNCHANGED platform

MapSpec == MapInit /\ [][MapNext]_mapVars

\* The worker and the main thread are scheduled again, a transfer ends, the
\* map library comes to load the map.
FairMapSpec ==
  /\ MapSpec
  /\ WF_mapVars(Worker /\ UNCHANGED platform)
  /\ WF_mapVars(AddMarkers /\ UNCHANGED platform)
  /\ WF_mapVars(Load /\ UNCHANGED platform)
  /\ WF_mapVars(MapReady /\ UNCHANGED platform)

-----------------------------------------------------------------------------
(* Properties *)

\* Every photo of the list has its marker, once the map is there.
MarkerForEveryPhoto == Visible /\ ready /\ list = "full" => markers = "full"

\* What the controller said reaches the list of a screen that stays open.
PhotosListed ==
  view["map"] # NoView ~> list = view["map"].content \/ ~Visible
=============================================================================
