------------------------------- MODULE Camera -------------------------------
(***************************************************************************)
(* The camera of the web client: camera-settings.js with the plate solver   *)
(* and its worker, the video sources (video-source-integration.js) and the  *)
(* handheld mode (mobile-camera.js).  Starting a camera and solving a frame *)
(* take awaits, between which the user goes on using the settings panel and *)
(* the phone moves; the buttons' disabled flags and the generation of the   *)
(* solve are what keeps them apart.                                         *)
(***************************************************************************)
EXTENDS Naturals, FiniteSets, Sequences, SequencesExt

CONSTANTS
  Settings,    \* lens settings and saved places, each of a small set
  MaxStarts,   \* bound: camera starts under way at a time
  MaxSolves    \* bound: solves under way, cancelled ones included

VARIABLES
  form,      \* [lens, place, hidden, network, handheld, probing, steady]: the panel's inputs and
             \* whether it is hidden; handheld is handheldSession, probing and steady what the
             \* handheld mode awaits: the rear camera, and "no", "waiting" or "captured"
  buttons,   \* [start, stop, capture]: which are enabled
  camera,    \* [active, leaked, starts]: whether activeStream is set, whether an open stream
             \* is not it any more, and the stages of the startCamera calls under way
  frame,     \* lastFrame: "none" or "still"
  solves,    \* solveCapturedFrame calls under way: [now, stage, lens, place]
  solution,  \* NIGHTAZIMUTH_CAMERA_SOLUTION: NoSolution or [lens, place, handheld]
  lately,    \* a solution was invalidated by motion less than 500 ms ago
  slips      \* what the code lets pass: "overlap" of starts, a panel "closed" under a start,
             \* a start from a "probe" behind a closed panel

vars == <<form, buttons, camera, frame, solves, solution, lately, slips>>

NoSolution == [lens |-> 0, place |-> 0, handheld |-> FALSE]

\* cancelPendingSolve: the worker is terminated, the stars are still awaited.
Cancelled == {[s EXCEPT !.now = FALSE] : s \in {x \in solves : x.stage = "stars"}}
\* ... invalidateSolution.
Invalidated == solves' = Cancelled /\ solution' = NoSolution

(***************************************************************************)
(* Starting and stopping.                                                  *)
(***************************************************************************)
\* stopCamera: the tracks of activeStream are stopped, the frame is forgotten
\* and a solve of it cancelled.
Stopped(c) == [c EXCEPT !.active = FALSE]
ButtonsStopped == [start |-> TRUE, stop |-> FALSE, capture |-> FALSE]
Stop(c) ==
  /\ camera' = Stopped(c) /\ buttons' = ButtonsStopped
  /\ frame' = "none" /\ solves' = Cancelled

\* startCamera up to its first await.
StartCamera ==
  /\ Len(camera.starts) < MaxStarts
  /\ camera' = [Stopped(camera) EXCEPT !.starts = Append(@, "asking")]
  /\ buttons' = [(IF camera.active THEN ButtonsStopped ELSE buttons) EXCEPT !.start = FALSE]
  /\ frame' = "none" /\ Invalidated
  /\ slips' = slips \cup (IF camera.starts # <<>> THEN {"overlap"} ELSE {})
                   \cup (IF form.hidden THEN {"probe"} ELSE {})

Start == buttons.start /\ ~form.hidden /\ StartCamera /\ UNCHANGED <<form, lately>>

\* getUserMedia resolves, for the device or, when that is gone, for any.
StreamOpens(i) ==
  /\ camera.starts[i] = "asking"
  /\ camera' = [camera EXCEPT !.active = TRUE, !.leaked = @ \/ camera.active, !.starts[i] = "playing"]
  /\ UNCHANGED <<form, buttons, frame, solves, solution, lately, slips>>

Ended(c, i) == [c EXCEPT !.starts = RemoveAt(@, i)]

\* preview.play() resolves.
Plays(i) ==
  /\ camera.starts[i] = "playing" /\ camera.active
  /\ camera' = Ended(camera, i)
  /\ buttons' = [start |-> FALSE, stop |-> TRUE, capture |-> TRUE]
  /\ UNCHANGED <<form, frame, solves, solution, lately, slips>>

\* Either is refused, or the preview's stream was taken away: stopCamera.
StartFails(i) ==
  /\ Stop(Ended(camera, i)) /\ solution' = NoSolution
  /\ UNCHANGED <<form, lately, slips>>

StopPressed ==
  /\ buttons.stop /\ ~form.hidden
  /\ Stop(camera)
  /\ UNCHANGED <<form, solution, lately, slips>>

\* Slip: nothing observes the panel.
ClosedRunning ==
  /\ ~form.hidden
  /\ form' = [form EXCEPT !.hidden = TRUE]
  /\ slips' = IF camera.starts # <<>> THEN slips \cup {"closed"} ELSE slips
  /\ UNCHANGED <<buttons, camera, frame, solves, solution, lately>>

\* The panel is hidden: the observer of its attribute stops a camera that runs.
Close ==
  /\ ~form.hidden
  /\ form' = [form EXCEPT !.hidden = TRUE]
  /\ IF camera.active THEN Stop(camera) ELSE UNCHANGED <<buttons, camera, frame, solves>>
  /\ slips' = IF camera.starts # <<>> THEN slips \cup {"closed"} ELSE slips
  /\ UNCHANGED <<solution, lately>>

Open ==
  /\ form.hidden
  /\ form' = [form EXCEPT !.hidden = FALSE]
  /\ UNCHANGED <<buttons, camera, frame, solves, solution, lately, slips>>

(***************************************************************************)
(* The settings.                                                           *)
(***************************************************************************)
\* Another device: a running camera stops.
DeviceChosen ==
  /\ ~form.hidden /\ ~form.network
  /\ IF camera.active THEN Stop(camera) ELSE solves' = Cancelled /\ UNCHANGED <<buttons, camera, frame>>
  /\ solution' = NoSolution
  /\ UNCHANGED <<form, lately, slips>>

\* setModeUi: a network source stops the camera by its button, if that is
\* enabled; going back enables the start button, whatever is under way.
ModeChosen ==
  /\ ~form.hidden
  /\ form' = [form EXCEPT !.network = ~@]
  /\ IF ~form.network
       THEN /\ IF camera.active /\ buttons.stop THEN Stop(camera) ELSE UNCHANGED <<camera, frame, solves>>
            /\ buttons' = [start |-> FALSE, stop |-> FALSE, capture |-> FALSE]
       ELSE buttons' = [buttons EXCEPT !.start = TRUE] /\ UNCHANGED <<camera, frame, solves>>
  /\ UNCHANGED <<solution, lately, slips>>

\* cameraGeometryChanged, also through the field of view of the handheld mode.
LensChanged ==
  /\ ~form.hidden
  /\ \E l \in Settings : form' = [form EXCEPT !.lens = l]
  /\ Invalidated
  /\ UNCHANGED <<buttons, camera, frame, lately, slips>>

\* The location form is submitted, which hides the panel.
PlaceSaved ==
  /\ ~form.hidden
  /\ \E p \in Settings : form' = [form EXCEPT !.place = p, !.hidden = TRUE]
  /\ Invalidated
  /\ IF camera.active THEN camera' = Stopped(camera) /\ buttons' = ButtonsStopped /\ frame' = "none"
                      ELSE UNCHANGED <<buttons, camera, frame>>
  /\ slips' = IF camera.starts # <<>> THEN slips \cup {"closed"} ELSE slips
  /\ UNCHANGED lately

\* startRearCamera up to its await: the lens is set from the field of view.
RearCameraAsked ==
  /\ ~form.hidden /\ ~form.probing
  /\ \E l \in Settings : form' = [form EXCEPT !.lens = l, !.probing = TRUE]
  /\ Invalidated
  /\ UNCHANGED <<buttons, camera, frame, lately, slips>>

\* The probe is refused, or does not tell its device.
ProbeFails ==
  /\ form.probing /\ form' = [form EXCEPT !.probing = FALSE]
  /\ UNCHANGED <<buttons, camera, frame, solves, solution, lately, slips>>

\* The probe found its device, with the panel still open or not: the device is
\* chosen, which stops a running camera, the session is handheld from now on, and
\* the start button is clicked if it is enabled.
RearCameraChosen ==
  /\ form.probing /\ form' = [form EXCEPT !.probing = FALSE, !.handheld = TRUE]
  /\ IF camera.active \/ buttons.start
       THEN StartCamera
       ELSE Invalidated /\ UNCHANGED <<buttons, camera, frame, slips>>
  /\ UNCHANGED lately

(***************************************************************************)
(* Frames and solutions.                                                   *)
(***************************************************************************)
\* captureFrame.
CaptureFrame == camera.active /\ frame' = "still" /\ Invalidated

Capture ==
  /\ buttons.capture /\ ~form.hidden /\ CaptureFrame
  /\ UNCHANGED <<form, buttons, camera, lately, slips>>

\* solveCapturedFrame up to its first await; the frame has enough bright points.
SolveFrame ==
  /\ frame # "none" /\ \A s \in solves : ~s.now
  /\ Cardinality(solves) < MaxSolves
  /\ solves' = solves \cup {[now |-> TRUE, stage |-> "stars", lens |-> form.lens, place |-> form.place]}

Solve ==
  /\ ~form.hidden /\ SolveFrame
  /\ UNCHANGED <<form, buttons, camera, frame, solution, lately, slips>>

\* captureAndSolveWhenStable waits for the phone to be steady for 750 ms ...
SteadyAsked ==
  /\ form.handheld /\ camera.active /\ ~form.hidden /\ form.steady = "no"
  /\ form' = [form EXCEPT !.steady = "waiting"]
  /\ UNCHANGED <<buttons, camera, frame, solves, solution, lately, slips>>

\* ... gives up after 8 s, or clicks the capture button, which may be disabled by
\* now, then yields, and clicks the solve button, which may be disabled as well.
SteadyCapture ==
  /\ form.steady = "waiting"
  /\ \/ /\ form' = [form EXCEPT !.steady = "no"]
        /\ UNCHANGED <<frame, solves, solution>>
     \/ /\ form' = [form EXCEPT !.steady = "captured"]
        /\ IF buttons.capture THEN CaptureFrame ELSE UNCHANGED <<frame, solves, solution>>
  /\ UNCHANGED <<buttons, camera, lately, slips>>

SteadySolve ==
  /\ form.steady = "captured" /\ form' = [form EXCEPT !.steady = "no"]
  /\ SolveFrame \/ UNCHANGED solves
  /\ UNCHANGED <<buttons, camera, frame, solution, lately, slips>>

\* The stars of the saved place have come; a cancelled solve ends here.
StarsArrive(s) ==
  /\ s.stage = "stars"
  /\ solves' = (solves \ {s}) \cup (IF s.now THEN {[s EXCEPT !.stage = "matching"]} ELSE {})
  /\ UNCHANGED <<form, buttons, camera, frame, solution, lately, slips>>

\* The worker answers: a locked solution is published, and marked as handheld.
Solved(s) ==
  /\ s.stage = "matching"
  /\ solves' = solves \ {s}
  /\ IF s.now
       THEN solution' \in {NoSolution, [lens |-> s.lens, place |-> s.place, handheld |-> form.handheld]}
       ELSE UNCHANGED solution
  /\ UNCHANGED <<form, buttons, camera, frame, lately, slips>>

\* Stars or worker fail or time out.
SolveFails(s) ==
  /\ solves' = solves \ {s}
  /\ solution' = IF s.now THEN NoSolution ELSE solution
  /\ UNCHANGED <<form, buttons, camera, frame, lately, slips>>

\* The phone turns faster than 5 degrees a second: a handheld solution goes, but
\* not twice within 500 ms.
PhoneMoves ==
  /\ solution.handheld /\ ~lately
  /\ solution' = NoSolution /\ lately' = TRUE
  /\ UNCHANGED <<form, buttons, camera, frame, solves, slips>>

HalfSecondPasses == lately /\ lately' = FALSE /\ UNCHANGED <<form, buttons, camera, frame, solves, solution, slips>>

Init ==
  /\ \E s \in Settings : form = [lens |-> s, place |-> s, hidden |-> TRUE, network |-> FALSE,
                               handheld |-> FALSE, probing |-> FALSE, steady |-> "no"]
  /\ buttons = ButtonsStopped
  /\ camera = [active |-> FALSE, leaked |-> FALSE, starts |-> <<>>]
  /\ frame = "none" /\ solves = {} /\ solution = NoSolution
  /\ lately = FALSE /\ slips = {}

Next ==
  \/ Start \/ StopPressed \/ Close \/ Open
  \/ DeviceChosen \/ ModeChosen \/ LensChanged \/ PlaceSaved
  \/ RearCameraAsked \/ ProbeFails \/ RearCameraChosen
  \/ Capture \/ Solve \/ SteadyAsked \/ SteadyCapture \/ SteadySolve
  \/ PhoneMoves \/ HalfSecondPasses
  \/ \E i \in DOMAIN camera.starts : StreamOpens(i) \/ Plays(i) \/ StartFails(i)
  \/ \E s \in solves : StarsArrive(s) \/ Solved(s) \/ SolveFails(s)

Spec == Init /\ [][Next]_vars

(***************************************************************************)
(* Properties.                                                             *)
(***************************************************************************)
\* A solution offered for the alignment was computed with the lens and for the
\* place that are set, however long the solve took and whatever was changed,
\* captured, stopped or closed meanwhile.
SolutionOfSettings ==
  solution # NoSolution => solution.lens = form.lens /\ solution.place = form.place

\* A stream that is open is the one that can be stopped, and none is while the
\* panel is hidden, but for three ways the code leaves: a start enabled by the
\* source selector while another one is under way, a panel closed under a start,
\* and a rear camera found after the panel was closed.  A frame is only kept of a camera that runs.
StreamsExplained ==
  /\ camera.leaked => "overlap" \in slips
  /\ form.hidden /\ camera.active => slips \cap {"closed", "probe"} # {}
  /\ frame # "none" => camera.active

\* test_camera_settings_ui.py: the camera stream is stopped when settings close.
StoppedWhenClosed == form.hidden => ~camera.active /\ ~camera.leaked

(***************************************************************************)
(* What SolutionOfSettings and StreamsExplained rest on.                   *)
(***************************************************************************)
Forms == [lens : Settings, place : Settings, hidden : BOOLEAN, network : BOOLEAN,
          handheld : BOOLEAN, probing : BOOLEAN, steady : {"no", "waiting", "captured"}]

Cameras == [active : BOOLEAN, leaked : BOOLEAN, starts : Seq({"asking", "playing"})]

Solves == [now : BOOLEAN, stage : {"stars", "matching"}, lens : Settings, place : Settings]

Solutions == [lens : Settings, place : Settings, handheld : BOOLEAN]

TypeOK ==
  /\ form \in Forms /\ camera \in Cameras
  /\ frame \in {"none", "still"}
  /\ solves \subseteq Solves
  /\ solution \in Solutions \cup {NoSolution}
  /\ slips \subseteq {"overlap", "closed", "probe"}

\* A solve that is not cancelled, and a solution, are for the settings.
ForSettings ==
  /\ \A s \in solves : s.now => s.lens = form.lens /\ s.place = form.place
  /\ SolutionOfSettings

\* A second start, and a start under a closed panel, have been noted.
Noted ==
  /\ Len(camera.starts) > 1 => "overlap" \in slips
  /\ camera.active /\ (\E i \in DOMAIN camera.starts : camera.starts[i] = "asking") =>
       "overlap" \in slips
  /\ form.hidden /\ camera.starts # <<>> => slips \cap {"closed", "probe"} # {}
  /\ StreamsExplained

CameraInv == TypeOK /\ ForSettings /\ Noted
=============================================================================
