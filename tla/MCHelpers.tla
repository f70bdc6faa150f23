------------------------------- MODULE MCHelpers -------------------------------
(* Instance of what drives a session from above: the media pipeline and its rate *)
(* control, the surface handle, the pane and the desktop session, and the Python *)
(* handles.  A behaviour exercises one of them; the pane and the desktop share   *)
(* the presenter's objects, and the pipeline runs over a channel that stays, or  *)
(* with fewer frames over one that is lost and recovered.                        *)
EXTENDS MediaPipeline, VideoRate, SurfaceHandle, PaneSession, DesktopSession, PythonHandle

VARIABLE exercised

vars == <<pipelineVars, rateVars, surfaceVars, objectVars, paneOwn, desktopOwn, pythonVars,
          exercised>>

Init ==
  /\ exercised \in {"buffers", "recovery", "rate", "surface", "pane", "desktop", "python"}
  /\ PipelineInit /\ RateInit /\ SurfaceInit /\ DesktopInit /\ PythonInit
  /\ IF exercised = "pane" THEN PaneInit ELSE PaneAt("unused")

\* What each of them leaves alone.
ButSession == UNCHANGED <<pipelineVars, rateVars, surfaceVars, pythonVars, exercised>>
ButPane == ButSession /\ UNCHANGED desktopOwn
ButDesktop == ButSession /\ UNCHANGED paneOwn
NoSession == UNCHANGED <<objectVars, paneOwn, desktopOwn, exercised>>
ButPipeline == NoSession /\ UNCHANGED <<rateVars, surfaceVars, pythonVars>>
ButRate == NoSession /\ UNCHANGED <<pipelineVars, surfaceVars, pythonVars>>
ButSurface == NoSession /\ UNCHANGED <<pipelineVars, rateVars, pythonVars>>
ButPython == NoSession /\ UNCHANGED <<pipelineVars, rateVars, surfaceVars>>

ChannelStays == recovery' = recovery /\ track'.open /\ ~senders'[1].detached
FewFrames == slot'.stored <= 2 /\ At("awaits_frame")' = {}

PollStep == exercised = "rate" /\ Polls /\ ButRate

Next ==
  \/ exercised = "buffers" /\ PipelineNext /\ ChannelStays /\ ButPipeline
  \/ exercised = "recovery" /\ PipelineNext /\ FewFrames /\ ButPipeline
  \/ exercised = "rate" /\ RateNext /\ ButRate
  \/ exercised = "surface" /\ SurfaceNext /\ ButSurface
  \/ exercised = "pane" /\ PaneNext /\ ButPane
  \/ exercised = "desktop" /\ DesktopNext /\ ButDesktop
  \/ exercised = "python" /\ PythonNext /\ ButPython

Spec == Init /\ [][Next]_vars /\ WF_vars(PollStep)
================================================================================
