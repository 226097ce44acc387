--------------------------- MODULE CameraFragment ---------------------------
(***************************************************************************)
(* The phone application's camera (Camera2BasicFragment): three threads    *)
(* open and close it.  The main thread runs onResume, onPause and the      *)
(* buttons; the GL thread opens the camera when its surface appears; the   *)
(* background HandlerThread runs the callbacks of the camera service.  One *)
(* Semaphore(1), taken by one thread and given back by another, is all     *)
(* that orders them.                                                       *)
(***************************************************************************)
EXTENDS Naturals, Sequences, FiniteSets

CONSTANTS
    MaxVisits,    \* times onResume runs
    MaxContexts,  \* times the GL thread gets a new surface
    MaxFaults,    \* devices that are disconnected or fail after they were opened
    MaxSwitches   \* presses of a button that closes and opens the camera

ASSUME FragmentBounds ==
    /\ MaxVisits \in Nat /\ MaxContexts \in Nat
    /\ MaxFaults \in Nat /\ MaxSwitches \in Nat

VARIABLES
    resumed,          \* between onResume and the end of onPause
    main, after,      \* where the main thread is, and for what it closes the camera
    gl,               \* where the GL thread is
    avail, listener,  \* CameraGLSurfaceView: surfaceAvailable, mSurfaceListener is set
    drawn,            \* the renderer's objects and mMediaEncoderHandler exist
    permission,       \* the camera permission is granted
    permits,          \* mCameraOpenCloseLock
    handler,          \* the background thread: none, running, or told to quit
    queue,            \* its messages
    bg,               \* what it is doing
    n, device,        \* devices opened so far and the state of each
    mCameraDevice,    \* 0 for null
    mCaptureSession,  \* the device it belongs to, 0 for null
    closed,           \* sessions that have been closed
    crash,            \* an exception that nobody catches
    released,         \* history: how often the callbacks of a device gave a permit back
    stray,            \* history: open devices that mCameraDevice no longer names, or not yet at a close
    visits, contexts, faults, switches  \* bounds

screen == <<resumed, avail, listener, drawn, permission, visits, contexts, switches>>
camera == <<n, device, faults>>
fields == <<mCameraDevice, mCaptureSession, closed>>
back   == <<handler, queue, bg>>
ghosts == <<released, stray>>
vars   == <<screen, main, after, gl, permits, back, camera, fields, crash, ghosts>>

\* Each of these may open the camera once.
MaxOpens == MaxVisits + MaxContexts + MaxSwitches
Devices  == 1 .. MaxOpens
Idle    == [at |-> "idle", d |-> 0]

Init ==
    /\ resumed = FALSE /\ main = "idle" /\ after = "none" /\ gl = "idle"
    /\ avail = FALSE /\ listener = FALSE /\ drawn = FALSE /\ permission \in BOOLEAN
    /\ permits = 1 /\ handler = "none" /\ queue = <<>> /\ bg = Idle
    /\ n = 0 /\ device = [d \in Devices |-> "none"]
    /\ mCameraDevice = 0 /\ mCaptureSession = 0 /\ closed = {} /\ crash = "no"
    /\ released = [d \in Devices |-> 0] /\ stray = {}
    /\ visits = 0 /\ contexts = 0 /\ faults = 0 /\ switches = 0

-----------------------------------------------------------------------------
(* openCamera, on the main thread or on the GL thread.                     *)

\* Without the permission openCamera only asks for it.
OpenCamera == IF permission THEN "acquire" ELSE "idle"

TryAcquire(pc) == pc = "acquire" /\ permits > 0 /\ permits' = permits - 1

\* tryAcquire gives up after 2500 ms, and openCamera throws.
TimesOut(pc) == pc = "acquire" /\ permits = 0 /\ crash' = "timeout"

\* CameraManager.openCamera with a null handler throws on the GL thread, which has no
\* looper.  Otherwise it opens the device and posts onOpened, or fails and posts onError
\* or onDisconnected, or throws without a callback.
ManagerOpens ==
    IF handler = "none"
    THEN crash' = "no handler" /\ UNCHANGED <<n, device, queue>>
    ELSE /\ n' = n + 1
         /\ \E r \in {"opened", "failed", "thrown"} :
              /\ device' = [device EXCEPT ![n'] = IF r = "opened" THEN "open" ELSE "failed"]
              /\ queue' = IF r = "thrown" \/ handler = "quitting" THEN queue
                          ELSE Append(queue, [at |-> r, d |-> n'])
         /\ crash' = crash

-----------------------------------------------------------------------------
(* The main thread.                                                        *)

OnResume ==
    /\ ~resumed /\ main = "idle" /\ visits < MaxVisits
    /\ resumed' = TRUE /\ visits' = visits + 1 /\ handler' = "running"
    /\ IF avail THEN main' = OpenCamera /\ listener' = listener
                ELSE listener' = TRUE /\ main' = main
    /\ UNCHANGED <<avail, drawn, permission, contexts, switches, after, gl, permits, queue, bg, camera,
                   fields, crash, ghosts>>

\* The user answers the permission dialog; nothing else happens until the next onResume.
OnRequestPermissionsResult ==
    /\ resumed /\ main = "idle" /\ ~permission /\ permission' = TRUE
    /\ UNCHANGED <<resumed, avail, listener, drawn, visits, contexts, switches, main, after, gl, permits,
                   back, camera, fields, crash, ghosts>>

SurfaceCreated ==
    /\ resumed /\ main = "idle" /\ ~avail /\ avail' = TRUE
    /\ UNCHANGED <<resumed, listener, drawn, permission, visits, contexts, switches, main, after, gl,
                   permits, back, camera, fields, crash, ghosts>>

\* btn_switch, btn_sm and btn_sb close the camera and open it again.
OnClick ==
    /\ resumed /\ main = "idle" /\ switches < MaxSwitches /\ switches' = switches + 1
    /\ main' = "close" /\ after' = "switch"
    /\ UNCHANGED <<resumed, avail, listener, drawn, permission, visits, contexts, gl, permits, back,
                   camera, fields, crash, ghosts>>

OnPause ==
    /\ resumed /\ main = "idle" /\ main' = "close" /\ after' = "pause"
    /\ UNCHANGED <<screen, gl, permits, back, camera, fields, crash, ghosts>>

\* acquire() has no timeout.
CloseAcquire ==
    /\ main = "close" /\ permits > 0
    /\ permits' = permits - 1 /\ main' = "close session"
    /\ stray' = stray \cup {d \in Devices : bg = [at |-> "assign", d |-> d]}
    /\ UNCHANGED <<screen, after, gl, back, camera, fields, crash, released>>

CloseSession ==
    /\ main = "close session" /\ main' = "close device"
    /\ closed' = closed \cup ({mCaptureSession} \ {0}) /\ mCaptureSession' = 0
    /\ UNCHANGED <<screen, after, gl, permits, back, camera, mCameraDevice, crash, ghosts>>

Closes(d) == [device EXCEPT ![d] = IF @ = "open" THEN "closed" ELSE @]

\* Mutant: the field is cleared, the device stays open.
CloseDeviceForgets ==
    /\ main = "close device" /\ main' = "release" /\ mCameraDevice' = 0
    /\ UNCHANGED <<screen, after, gl, permits, back, camera, mCaptureSession, closed, crash, ghosts>>

CloseDevice ==
    /\ main = "close device" /\ main' = "release"
    /\ device' = IF mCameraDevice = 0 THEN device ELSE Closes(mCameraDevice)
    /\ mCameraDevice' = 0
    /\ UNCHANGED <<screen, after, gl, permits, back, n, faults, mCaptureSession, closed, crash, ghosts>>

\* Mutant: the permit is not given back.
CloseReleaseMissing ==
    /\ main = "release" /\ permits' = permits /\ after' = "none"
    /\ IF after = "pause"
       THEN main' = "join" /\ handler' = "quitting" /\ crash' = crash
       ELSE /\ main' = OpenCamera /\ handler' = handler
            /\ crash' = IF drawn THEN crash ELSE "not drawn"
    /\ UNCHANGED <<screen, gl, queue, bg, camera, fields, ghosts>>

\* The finally block; then switchcamera and openCamera, or the end of onPause.
\* switchcamera goes through objects that the first onSurfaceCreated makes.
CloseRelease ==
    /\ main = "release" /\ permits' = permits + 1 /\ after' = "none"
    /\ IF after = "pause"
       THEN main' = "join" /\ handler' = "quitting" /\ crash' = crash
       ELSE /\ main' = OpenCamera /\ handler' = handler
            /\ crash' = IF drawn THEN crash ELSE "not drawn"
    /\ UNCHANGED <<screen, gl, queue, bg, camera, fields, ghosts>>

MainAcquire ==
    /\ TryAcquire(main) /\ main' = "open"
    /\ UNCHANGED <<screen, after, gl, back, camera, fields, crash, ghosts>>

MainOpens ==
    /\ main = "open" /\ main' = "idle" /\ ManagerOpens
    /\ UNCHANGED <<screen, after, gl, permits, handler, bg, faults, fields, ghosts>>

\* stopBackgroundThread: quitSafely lets the queued messages run, join waits for them.
StopBackgroundThread ==
    /\ main = "join" /\ queue = <<>> /\ bg = Idle
    /\ handler' = "none" /\ main' = "idle" /\ resumed' = FALSE
    /\ UNCHANGED <<avail, listener, drawn, permission, visits, contexts, switches, after, gl, permits,
                   queue, bg, camera, fields, crash, ghosts>>

-----------------------------------------------------------------------------
(* The GL thread.                                                          *)

\* onSurfaceCreated, also for a context that was lost and made again.
OnSurfaceCreated ==
    /\ gl = "idle" /\ avail /\ contexts < MaxContexts /\ contexts' = contexts + 1
    /\ gl' = IF listener THEN OpenCamera ELSE gl
    /\ drawn' = (drawn \/ gl' = "idle")
    /\ UNCHANGED <<resumed, avail, listener, permission, visits, switches, main, after, permits, back,
                   camera, fields, crash, ghosts>>

GLAcquire ==
    /\ TryAcquire(gl) /\ gl' = "open"
    /\ UNCHANGED <<screen, main, after, back, camera, fields, crash, ghosts>>

GLOpens ==
    /\ gl = "open" /\ gl' = "idle" /\ ManagerOpens /\ drawn' = TRUE
    /\ UNCHANGED <<resumed, avail, listener, permission, visits, contexts, switches, main, after, permits,
                   handler, bg, faults, fields, ghosts>>

Timeout ==
    /\ TimesOut(main) \/ TimesOut(gl)
    /\ UNCHANGED <<screen, main, after, gl, permits, back, camera, fields, ghosts>>

-----------------------------------------------------------------------------
(* The camera service and the background thread.                           *)

\* An open device is taken away, or fails.
Fault(d) ==
    /\ device[d] = "open" /\ faults < MaxFaults /\ handler = "running"
    /\ [at |-> "failed", d |-> d] \notin {queue[i] : i \in DOMAIN queue}
    /\ queue' = Append(queue, [at |-> "failed", d |-> d]) /\ faults' = faults + 1
    /\ UNCHANGED <<screen, main, after, gl, permits, handler, bg, n, device, fields, crash, ghosts>>

\* The framework drops the callbacks of a device that was closed meanwhile.
Take ==
    /\ bg = Idle /\ queue # <<>> /\ queue' = Tail(queue)
    /\ bg' = IF Head(queue).at # "configured" /\ device[Head(queue).d] = "closed" THEN Idle ELSE Head(queue)
    /\ UNCHANGED <<screen, main, after, gl, permits, handler, camera, fields, crash, ghosts>>

\* onOpened, onError and onDisconnected all begin with release().
CallbackRelease ==
    /\ bg.at \in {"opened", "failed"} /\ permits' = permits + 1
    /\ released' = [released EXCEPT ![bg.d] = @ + 1]
    /\ bg' = [bg EXCEPT !.at = IF @ = "opened" THEN "assign" ELSE "drop"]
    /\ UNCHANGED <<screen, main, after, gl, handler, queue, camera, fields, crash, stray>>

\* Mutant: onOpened gives the permit back before the field is set and once more after it.
OnOpenedReleasesTwice ==
    /\ bg.at = "assign" /\ mCameraDevice' = bg.d /\ bg' = [bg EXCEPT !.at = "create"]
    /\ permits' = permits + 1
    /\ stray' = stray \cup ({mCameraDevice} \ {0})
    /\ UNCHANGED <<screen, main, after, gl, handler, queue, camera, mCaptureSession, closed, crash, released>>

OnOpened ==
    /\ bg.at = "assign" /\ mCameraDevice' = bg.d /\ bg' = [bg EXCEPT !.at = "create"]
    /\ stray' = stray \cup ({mCameraDevice} \ {0})
    /\ UNCHANGED <<screen, main, after, gl, permits, handler, queue, camera, mCaptureSession, closed, crash, released>>

\* The rest of onError and onDisconnected.
DropDevice ==
    /\ bg.at = "drop" /\ bg' = Idle
    /\ device' = Closes(bg.d) /\ mCameraDevice' = 0
    /\ stray' = stray \cup ({mCameraDevice} \ {0, bg.d})
    /\ UNCHANGED <<screen, main, after, gl, permits, handler, queue, n, faults, mCaptureSession, closed, crash, released>>

\* It uses the field: null, or a device that has been closed, is an exception nobody catches.
CreateCameraPreviewSession ==
    /\ bg.at = "create" /\ bg' = Idle
    /\ IF mCameraDevice = 0 \/ device[mCameraDevice] = "closed"
       THEN crash' = "preview" /\ queue' = queue
       ELSE /\ crash' = crash
            /\ queue' = IF handler = "quitting" THEN queue
                        ELSE Append(queue, [at |-> "configured", d |-> mCameraDevice])
    /\ UNCHANGED <<screen, main, after, gl, permits, handler, camera, fields, ghosts>>

\* onConfigured: "The camera is already closed" is asked once, here.
OnConfigured ==
    /\ bg.at = "configured"
    /\ bg' = IF mCameraDevice = 0 THEN Idle ELSE [bg EXCEPT !.at = "repeat"]
    /\ mCaptureSession' = IF mCameraDevice = 0 THEN mCaptureSession ELSE bg.d
    /\ UNCHANGED <<screen, main, after, gl, permits, handler, queue, camera, mCameraDevice, closed, crash, ghosts>>

SetRepeatingRequest ==
    /\ bg.at = "repeat" /\ bg' = Idle
    /\ crash' = IF mCaptureSession = 0 \/ mCaptureSession \in closed
                   \/ (mCaptureSession # 0 /\ device[mCaptureSession] = "closed")
                THEN "repeating" ELSE crash
    /\ UNCHANGED <<screen, main, after, gl, permits, handler, queue, camera, fields, ghosts>>

-----------------------------------------------------------------------------
Main ==
    \/ CloseAcquire \/ CloseSession \/ CloseDevice \/ CloseRelease \/ MainAcquire \/ MainOpens
    \/ StopBackgroundThread
GL == GLAcquire \/ GLOpens
Background ==
    \/ Take \/ CallbackRelease \/ OnOpened \/ DropDevice \/ CreateCameraPreviewSession
    \/ OnConfigured \/ SetRepeatingRequest

Next ==
    /\ crash = "no"
    /\ \/ OnResume \/ OnRequestPermissionsResult \/ SurfaceCreated \/ OnClick \/ OnPause \/ Main
       \/ OnSurfaceCreated \/ GL \/ Timeout \/ Background
       \/ \E d \in Devices : Fault(d)

Spec == Init /\ [][Next]_vars

Alive(A) == crash = "no" /\ A

\* Threads that can run do; neither the user nor the camera service has to do anything.
FairSpec ==
    Spec /\ WF_vars(Alive(Main)) /\ WF_vars(Alive(GL)) /\ WF_vars(Alive(Background))

-----------------------------------------------------------------------------
(* Properties.                                                             *)

Posts  == {"opened", "failed", "configured"}
Stages == Posts \cup {"assign", "create", "drop", "repeat"}

ScreenType ==
    /\ resumed \in BOOLEAN /\ avail \in BOOLEAN /\ listener \in BOOLEAN /\ drawn \in BOOLEAN
    /\ permission \in BOOLEAN

PlaceType ==
    /\ main \in {"idle", "acquire", "open", "close", "close session", "close device", "release", "join"}
    /\ after \in {"none", "switch", "pause"} /\ gl \in {"idle", "acquire", "open"}
    /\ handler \in {"none", "running", "quitting"}
    /\ crash \in {"no", "timeout", "no handler", "not drawn", "preview", "repeating"}

CountType ==
    /\ permits \in Nat
    /\ visits \in Nat /\ contexts \in Nat /\ faults \in Nat /\ switches \in Nat

MessageType ==
    /\ queue \in Seq([at : Posts, d : Devices])
    /\ bg \in [at : Stages, d : Devices] \cup {Idle}

DeviceType ==
    /\ n \in 0 .. MaxOpens /\ device \in [Devices -> {"none", "open", "failed", "closed"}]
    /\ mCameraDevice \in 0 .. n /\ mCaptureSession \in 0 .. n /\ closed \subseteq Devices
    /\ released \in [Devices -> Nat] /\ stray \subseteq Devices

\* The types of the fields, places and messages of the three threads.
TypeOK == ScreenType /\ PlaceType /\ CountType /\ MessageType /\ DeviceType

\* Who has a permit: an open between tryAcquire and its first callback, a close in progress.
Holds(b)    == IF b THEN 1 ELSE 0
Unanswered  == {d \in 1 .. n : released[d] = 0}
AnsweredTwice == {d \in 1 .. n : released[d] = 2}
Holders ==
    Cardinality(Unanswered) + Holds(main = "open") + Holds(gl = "open")
      + Holds(main \in {"close session", "close device", "release"})

\* An open whose callback will never come.
Lost == \E d \in Unanswered :
    /\ bg.d # d
    /\ \A i \in DOMAIN queue : queue[i].d # d

(* Permits are neither made nor lost, except that a device that is opened and later        *)
(* disconnected gives one back twice; as long as none has, opening and closing exclude     *)
(* each other although one thread takes the permit and another returns it.                 *)
PermitAccount ==
    crash = "no" => /\ permits + Holders = 1 + Cardinality(AnsweredTwice)
                    /\ AnsweredTwice = {} => Holders <= 1

(* What the semaphore is for: when onPause has returned no camera is open.  The exceptions *)
(* are a device whose onOpened a close overtook between release() and the assignment, or   *)
(* that a second open, made without closing the first, pushed out of mCameraDevice; an     *)
(* open of the GL thread whose callback the quitting thread no longer takes; and the extra *)
(* permit of a disconnected device.                                                        *)
PausedClosed ==
    ~resumed => \A d \in Devices :
        device[d] = "open" => d \in stray \/ d \in Unanswered \/ AnsweredTwice # {}

(* closeCamera waits without a timeout on the main thread; it gets the permit unless an    *)
(* open threw, or was made when the background thread was quitting.                        *)
CloseReturns == main = "close" ~> (main # "close" \/ Lost \/ crash # "no")
=============================================================================
