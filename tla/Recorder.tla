------------------------------ MODULE Recorder ------------------------------
(***************************************************************************)
(* The recording half of the phone application: the button                 *)
(* (CameraGLSurfaceView), the renderer that notices it, the handler thread *)
(* that owns the encoder (MediaEncoderHandler), the encoder's own thread   *)
(* (MediaEncoder, MediaMuxerWrapper) and the RTP session that all          *)
(* recordings share through the singleton JrtplibUtil.                     *)
(*                                                                         *)
(* Four threads meet here: UI, GL renderer, handler thread, and one        *)
(* encoder thread per recording; the one of the previous recording may     *)
(* still be draining when the next recording begins.                       *)
(***************************************************************************)
EXTENDS Naturals, Sequences, FiniteSets

CONSTANTS
    MaxRecordings,  \* recordings begun in a behaviour
    MaxFrames,      \* camera frames handed to the handler thread
    MaxClicks,      \* presses of the start/stop button
    MaxWakeups,     \* spurious returns from Object.wait()
    Users           \* which users there are: patient ones (TRUE), hasty ones (FALSE)

ASSUME RecorderBounds ==
    /\ MaxRecordings \in Nat \ {0}
    /\ MaxFrames \in Nat /\ MaxClicks \in Nat /\ MaxWakeups \in Nat
    /\ Users \subseteq BOOLEAN

VARIABLES
    status,    \* mRecordingStatus = RECORDING_ON
    enabled,   \* mRecordingEnabled, written by the UI and by the renderer
    upc, gpc,  \* where the UI and the renderer are
    mRunning, mReady, mHandler, \* MediaEncoderHandler; mHandler: is not null
    queue,     \* the messages of its looper
    hpc,       \* where the handler thread is
    surface,   \* mInputWindowSurface, mRect and mEglCore exist
    mMuxer,    \* the recording whose muxer the handler holds, 0 for null
    session,   \* the shared RTP session: none, open, or being dismantled by BYEDestroy
    n,         \* recordings begun
    enc,       \* the encoder of each recording
    crash,     \* what killed the process
    patient,   \* the user presses the button only when the last press has taken effect
    clicks, frames, wakeups  \* bounds

ui      == <<status, enabled, upc, clicks, patient>>
gl      == <<gpc, frames>>
handler == <<mRunning, mReady, mHandler, queue, hpc>>
owner   == <<surface, mMuxer, n>>
vars    == <<ui, gl, handler, owner, session, enc, crash, wakeups>>

Recordings == 1 .. MaxRecordings

\* A MediaEncoder before its recording.
NoEncoder == [pc |-> "off", mIsCapturing |-> FALSE, mRequestStop |-> FALSE, mRequestDrain |-> 0,
              mIsEOS |-> FALSE, mMuxerStarted |-> FALSE, codec |-> 0, sending |-> FALSE]

Init ==
    /\ status = FALSE /\ enabled = FALSE /\ upc = "idle" /\ gpc = "idle"
    /\ mRunning = FALSE /\ mReady = FALSE /\ mHandler = FALSE /\ queue = <<>> /\ hpc = "none"
    /\ surface = FALSE /\ mMuxer = 0 /\ session = "none" /\ n = 0
    /\ enc = [k \in Recordings |-> NoEncoder]
    /\ patient \in Users
    /\ crash = "no" /\ clicks = 0 /\ frames = 0 /\ wakeups = 0

\* The last press of the button has taken effect.
Settled == upc = "idle" /\ IF status THEN mMuxer # 0 /\ hpc = "loop" ELSE ~mRunning

MayClick ==
    /\ patient => Settled
    /\ clicks < MaxClicks /\ upc = "idle" /\ clicks' = clicks + 1 /\ UNCHANGED patient

-----------------------------------------------------------------------------
(* The UI thread.                                                          *)

StartRecord ==
    /\ ~status /\ MayClick
    /\ status' = TRUE
    /\ UNCHANGED <<enabled, upc, gl, handler, owner, session, enc, crash, wakeups>>

\* When the handler thread is not running yet the press is forgotten: the status stays ON.
StopRecord ==
    /\ status /\ MayClick
    /\ enabled' = mRunning
    /\ IF mRunning THEN status' = FALSE /\ upc' = "remove" ELSE UNCHANGED <<status, upc>>
    /\ UNCHANGED <<gl, handler, owner, session, enc, crash, wakeups>>

\* sendMessage through the field mHandler: a null field kills the caller, a looper
\* that has quit drops the message.
Post(msgs, from) ==
    IF mHandler THEN queue' = (IF hpc = "quit" THEN queue ELSE msgs) /\ crash' = crash
                ELSE crash' = from /\ queue' = queue

\* removeMessages: the j-th message that is kept has j - 1 of them before it.
RemoveFrames(msgs) ==
    LET keep == {i \in DOMAIN msgs : msgs[i] # "frame"}
    IN  [j \in 1 .. Cardinality(keep) |-> msgs[CHOOSE i \in keep : Cardinality({h \in keep : h < i}) = j - 1]]

\* Mutant: QUIT is posted before STOP.
StopRecordingQuitFirst ==
    /\ upc \in {"remove", "stop", "quit"}
    /\ Post(CASE upc = "remove" -> RemoveFrames(queue)
              [] upc = "stop"   -> Append(queue, "quit")
              [] upc = "quit"   -> Append(queue, "stop"), "ui: no handler")
    /\ upc' = CASE upc = "remove" -> "stop" [] upc = "stop" -> "quit" [] upc = "quit" -> "idle"
    /\ UNCHANGED <<status, enabled, clicks, patient, gl, mRunning, mReady, mHandler, hpc, owner, session, enc, wakeups>>

\* Mutant: no QUIT is posted.
StopRecordingNoQuit ==
    /\ upc \in {"remove", "stop", "quit"}
    /\ Post(CASE upc = "remove" -> RemoveFrames(queue)
              [] upc = "stop"   -> Append(queue, "stop")
              [] upc = "quit"   -> queue, "ui: no handler")
    /\ upc' = CASE upc = "remove" -> "stop" [] upc = "stop" -> "quit" [] upc = "quit" -> "idle"
    /\ UNCHANGED <<status, enabled, clicks, patient, gl, mRunning, mReady, mHandler, hpc, owner, session, enc, wakeups>>

StopRecording ==
    /\ upc \in {"remove", "stop", "quit"}
    /\ Post(CASE upc = "remove" -> RemoveFrames(queue)
              [] upc = "stop"   -> Append(queue, "stop")
              [] upc = "quit"   -> Append(queue, "quit"), "ui: no handler")
    /\ upc' = CASE upc = "remove" -> "stop" [] upc = "stop" -> "quit" [] upc = "quit" -> "idle"
    /\ UNCHANGED <<status, enabled, clicks, patient, gl, mRunning, mReady, mHandler, hpc, owner, session, enc, wakeups>>

-----------------------------------------------------------------------------
(* The renderer.                                                           *)

OnDrawFrame ==
    /\ gpc = "idle"
    /\ IF mRunning THEN frames < MaxFrames ELSE status /\ n < MaxRecordings
    /\ enabled' = mRunning
    /\ gpc' = IF mRunning THEN "check" ELSE "start"
    /\ UNCHANGED <<status, upc, clicks, patient, frames, handler, owner, session, enc, crash, wakeups>>

\* startRecording under mReadyFence, up to the wait.
StartThread ==
    /\ gpc = "start"
    /\ IF mRunning THEN gpc' = "check" /\ UNCHANGED <<mRunning, hpc>>
                   ELSE gpc' = "wait" /\ mRunning' = TRUE /\ hpc' = "starting"
    /\ UNCHANGED <<ui, frames, mReady, mHandler, queue, owner, session, enc, crash, wakeups>>

\* The wait for mReady ends, mReadyFence is given back.
WaitReady ==
    /\ gpc = "wait" /\ mReady
    /\ gpc' = "send"
    /\ UNCHANGED <<ui, frames, handler, owner, session, enc, crash, wakeups>>

\* The rest of startRecording.
SendStart ==
    /\ gpc = "send"
    /\ Post(Append(queue, "start"), "gl: no handler")
    /\ gpc' = "check"
    /\ UNCHANGED <<ui, frames, mRunning, mReady, mHandler, hpc, owner, session, enc, wakeups>>

\* The second look at mRecordingEnabled, and frameAvailable's look at mReady.
FrameAvailable ==
    /\ gpc = "check"
    /\ gpc' = IF enabled /\ mReady /\ frames < MaxFrames THEN "post" ELSE "idle"
    /\ UNCHANGED <<ui, frames, handler, owner, session, enc, crash, wakeups>>

PostFrame ==
    /\ gpc = "post"
    /\ Post(Append(queue, "frame"), "gl: no handler")
    /\ gpc' = "idle" /\ frames' = frames + 1
    /\ UNCHANGED <<ui, mRunning, mReady, mHandler, hpc, owner, session, enc, wakeups>>

-----------------------------------------------------------------------------
(* The handler thread.                                                     *)

Ready ==
    /\ hpc = "starting"
    /\ mHandler' = TRUE /\ mReady' = TRUE /\ queue' = <<>> /\ hpc' = "loop"
    /\ UNCHANGED <<ui, gl, mRunning, owner, session, enc, crash, wakeups>>

Take(m) == hpc = "loop" /\ queue # <<>> /\ Head(queue) = m /\ queue' = Tail(queue)

\* prepareEncoder: the constructor waits until the encoder's thread has run its first block.
HandleStart ==
    /\ Take("start") /\ n < MaxRecordings
    /\ n' = n + 1 /\ surface' = TRUE /\ hpc' = "create"
    /\ enc' = [enc EXCEPT ![n'].pc = "loop"]
    /\ UNCHANGED <<ui, gl, mRunning, mReady, mHandler, mMuxer, session, crash, wakeups>>

\* A codec that cannot be created throws out of the handler thread.
PrepareFails ==
    /\ Take("start") /\ crash' = "prepare"
    /\ UNCHANGED <<ui, gl, mRunning, mReady, mHandler, hpc, owner, session, enc, wakeups>>

\* createSendSession: a session that exists makes RTPSession::Create fail, and
\* CHECK_ERROR_JRTPLIB leaves the process; then the encoder's startRecording.
CreateSendSession ==
    /\ hpc = "create"
    /\ IF session = "none"
       THEN /\ session' = "open" /\ crash' = crash /\ mMuxer' = n /\ hpc' = "loop"
            /\ enc' = [enc EXCEPT ![n].mIsCapturing = TRUE, ![n].mRequestStop = FALSE,
                                  ![n].pc = IF @ = "waiting" THEN "loop" ELSE @]
       ELSE crash' = "session exists" /\ UNCHANGED <<session, mMuxer, hpc, enc>>
    /\ UNCHANGED <<ui, gl, mRunning, mReady, mHandler, queue, surface, n, wakeups>>

Accepts(k) == enc[k].mIsCapturing /\ ~enc[k].mRequestStop

\* Drawing needs the surface; then frameAvailableSoon.
HandleFrame ==
    /\ Take("frame")
    /\ IF ~surface THEN crash' = "frame without surface" /\ enc' = enc
       ELSE /\ crash' = crash
            /\ enc' = [enc EXCEPT ![n].codec = @ + 1,
                                  ![n].mRequestDrain = IF Accepts(n) THEN @ + 1 ELSE @,
                                  ![n].pc = IF Accepts(n) /\ @ = "waiting" THEN "loop" ELSE @]
    /\ UNCHANGED <<ui, gl, mRunning, mReady, mHandler, hpc, owner, session, wakeups>>

\* Mutant: the session is not destroyed.
HandleStopKeepsSession ==
    /\ Take("stop") /\ mMuxer' = 0 /\ hpc' = "release"
    /\ enc' = IF mMuxer # 0 THEN [enc EXCEPT ![mMuxer].mRequestStop = TRUE] ELSE enc
    /\ UNCHANGED <<ui, gl, mRunning, mReady, mHandler, surface, n, session, crash, wakeups>>

\* handleStopRecording up to MediaMuxerWrapper.stopRecording's call of destroySendSession.
HandleStop ==
    /\ Take("stop")
    /\ IF mMuxer = 0 THEN hpc' = "release" /\ enc' = enc
       ELSE /\ hpc' = "destroy"
            /\ enc' = IF Accepts(mMuxer)
                      THEN [enc EXCEPT ![mMuxer].mRequestStop = TRUE,
                                       ![mMuxer].pc = IF @ = "waiting" THEN "loop" ELSE @]
                      ELSE enc
    /\ mMuxer' = 0
    /\ UNCHANGED <<ui, gl, mRunning, mReady, mHandler, surface, n, session, crash, wakeups>>

\* BYEDestroy: what the senders use is deleted first, "created" is cleared last.
Dismantle ==
    /\ hpc = "destroy"
    /\ session' = IF session = "open" THEN "dismantled" ELSE session
    /\ hpc' = "destroyed"
    /\ UNCHANGED <<ui, gl, mRunning, mReady, mHandler, queue, owner, enc, crash, wakeups>>

Destroyed ==
    /\ hpc = "destroyed"
    /\ session' = "none" /\ hpc' = "release"
    /\ UNCHANGED <<ui, gl, mRunning, mReady, mHandler, queue, owner, enc, crash, wakeups>>

ReleaseSurface ==
    /\ hpc = "release"
    /\ surface' = FALSE /\ hpc' = "loop"
    /\ UNCHANGED <<ui, gl, mRunning, mReady, mHandler, queue, mMuxer, n, session, enc, crash, wakeups>>

\* Looper.quit drops what is left in the queue.
HandleQuit ==
    /\ hpc = "loop" /\ queue # <<>> /\ Head(queue) = "quit"
    /\ queue' = <<>> /\ hpc' = "quit"
    /\ UNCHANGED <<ui, gl, mRunning, mReady, mHandler, owner, session, enc, crash, wakeups>>

ThreadExit ==
    /\ hpc = "quit"
    /\ mReady' = FALSE /\ mRunning' = FALSE /\ mHandler' = FALSE /\ hpc' = "none"
    /\ UNCHANGED <<ui, gl, queue, owner, session, enc, crash, wakeups>>

-----------------------------------------------------------------------------
(* The encoder thread of recording k.                                      *)

EncoderStep == UNCHANGED <<ui, gl, handler, owner, session, crash>>

\* The first synchronized block of the loop.
ReadFlags(k) ==
    /\ enc[k].pc = "loop"
    /\ enc' = [enc EXCEPT ![k] =
                 IF @.mRequestStop THEN [@ EXCEPT !.pc = "drain1"]
                 ELSE IF @.mRequestDrain > 0
                      THEN [@ EXCEPT !.pc = "drain", !.mRequestDrain = enc[k].mRequestDrain - 1]
                 ELSE [@ EXCEPT !.pc = "gap"]]
    /\ EncoderStep /\ UNCHANGED wakeups

\* The second synchronized block: wait, whatever has happened since the first.
Wait(k) ==
    /\ enc[k].pc = "gap"
    /\ enc' = [enc EXCEPT ![k].pc = "waiting"]
    /\ EncoderStep /\ UNCHANGED wakeups

SpuriousWakeup(k) ==
    /\ enc[k].pc = "waiting" /\ wakeups < MaxWakeups
    /\ enc' = [enc EXCEPT ![k].pc = "loop"] /\ wakeups' = wakeups + 1
    /\ EncoderStep

Draining(k) == enc[k].pc \in {"drain", "drain1", "drain2"} /\ ~enc[k].sending

\* INFO_OUTPUT_FORMAT_CHANGED: with one encoder the muxer starts at once.
FormatChanged(k) ==
    /\ Draining(k) /\ enc[k].mIsCapturing /\ enc[k].codec > 0 /\ ~enc[k].mMuxerStarted
    /\ enc' = [enc EXCEPT ![k].mMuxerStarted = TRUE]
    /\ EncoderStep /\ UNCHANGED wakeups

\* An encoded frame: writeSampleData passes it to the session, which refuses it
\* when it is not "created".
WriteSampleData(k) ==
    /\ Draining(k) /\ enc[k].mIsCapturing /\ enc[k].codec > 0 /\ enc[k].mMuxerStarted
    /\ enc' = [enc EXCEPT ![k].codec = @ - 1,
                          ![k].sending = session # "none"]
    /\ EncoderStep /\ UNCHANGED wakeups

\* SendPacketAfterSlice returns, and with it writeSampleData.
SendReturns(k) ==
    /\ enc[k].sending
    /\ enc' = [enc EXCEPT ![k].sending = FALSE]
    /\ EncoderStep /\ UNCHANGED wakeups

\* Mutant: the last drain goes on until the end of the stream.
DrainReturnsAtEOS(k) ==
    /\ Draining(k) /\ (enc[k].pc = "drain2" => enc[k].mIsEOS)
    /\ enc' = [enc EXCEPT ![k].pc = CASE @ = "drain"  -> "loop"
                                      [] @ = "drain1" -> "signal"
                                      [] @ = "drain2" -> "release"]
    /\ EncoderStep /\ UNCHANGED wakeups

\* drain returns: not capturing, or INFO_TRY_AGAIN_LATER six times, whether or not
\* the codec still has frames in work.
DrainReturns(k) ==
    /\ Draining(k)
    /\ enc' = [enc EXCEPT ![k].pc = CASE @ = "drain"  -> "loop"
                                      [] @ = "drain1" -> "signal"
                                      [] @ = "drain2" -> "release"]
    /\ EncoderStep /\ UNCHANGED wakeups

\* encode(buffer, length, ..) gets to queue BUFFER_FLAG_END_OF_STREAM: its loop runs
\* while 0 < length, and inside the test for the end of the stream is length <= 0.
EncodeSendsEOS(length) == 0 < length /\ length <= 0

\* signalEndOfInputStream calls encode(null, 0, ..).
SignalEndOfInputStream(k) ==
    /\ enc[k].pc = "signal"
    /\ enc' = [enc EXCEPT ![k].pc = "drain2", ![k].mIsEOS = @ \/ (enc[k].mIsCapturing /\ EncodeSendsEOS(0))]
    /\ EncoderStep /\ UNCHANGED wakeups

\* release, and the block at the end of run.
Release(k) ==
    /\ enc[k].pc = "release"
    /\ enc' = [enc EXCEPT ![k].pc = "ended", ![k].mIsCapturing = FALSE, ![k].mRequestStop = TRUE,
                          ![k].codec = 0]
    /\ EncoderStep /\ UNCHANGED wakeups

-----------------------------------------------------------------------------
UI       == StopRecording
Renderer == OnDrawFrame \/ StartThread \/ WaitReady \/ SendStart \/ FrameAvailable \/ PostFrame
HandlerThread ==
    \/ Ready \/ HandleStart \/ CreateSendSession \/ HandleFrame \/ HandleStop \/ Dismantle
    \/ Destroyed \/ ReleaseSurface \/ HandleQuit \/ ThreadExit
EncoderThread(k) ==
    \/ ReadFlags(k) \/ Wait(k) \/ FormatChanged(k) \/ WriteSampleData(k) \/ SendReturns(k)
    \/ DrainReturns(k) \/ SignalEndOfInputStream(k) \/ Release(k)

Next ==
    /\ crash = "no"
    /\ \/ StartRecord \/ StopRecord \/ UI \/ Renderer \/ HandlerThread \/ PrepareFails
       \/ \E k \in Recordings : EncoderThread(k) \/ SpuriousWakeup(k)

Spec == Init /\ [][Next]_vars

Alive(A) == crash = "no" /\ A

\* Every thread that can run does; nobody has to press the button, and a frame need not
\* come.
FairSpec ==
    /\ Spec
    /\ WF_vars(Alive(UI)) /\ WF_vars(Alive(Renderer)) /\ WF_vars(Alive(HandlerThread))
    /\ \A k \in Recordings : WF_vars(Alive(EncoderThread(k)))

-----------------------------------------------------------------------------
(* Properties.                                                             *)

FlagType ==
    /\ status \in BOOLEAN /\ enabled \in BOOLEAN /\ patient \in BOOLEAN
    /\ mRunning \in BOOLEAN /\ mReady \in BOOLEAN /\ mHandler \in BOOLEAN /\ surface \in BOOLEAN

PlaceType ==
    /\ upc \in {"idle", "remove", "stop", "quit"}
    /\ gpc \in {"idle", "start", "wait", "send", "check", "post"}
    /\ hpc \in {"none", "starting", "loop", "create", "destroy", "destroyed", "release", "quit"}
    /\ session \in {"none", "open", "dismantled"}
    /\ crash \in {"no", "prepare", "session exists", "frame without surface",
                  "ui: no handler", "gl: no handler"}

CountType ==
    /\ n \in 0 .. MaxRecordings /\ mMuxer \in 0 .. n
    /\ clicks \in Nat /\ frames \in Nat /\ wakeups \in Nat

Messages  == {"start", "frame", "stop", "quit"}
QueueType == queue \in Seq(Messages)

Encoder ==
    [pc : {"off", "loop", "gap", "waiting", "drain", "drain1", "signal", "drain2", "release", "ended"},
     mIsCapturing : BOOLEAN, mRequestStop : BOOLEAN, mRequestDrain : Nat,
     mIsEOS : BOOLEAN, mMuxerStarted : BOOLEAN, codec : Nat, sending : BOOLEAN]
EncoderType == enc \in [Recordings -> Encoder]

\* The types of the flags, places and queues of the four threads.
TypeOK == FlagType /\ PlaceType /\ CountType /\ QueueType /\ EncoderType

(* A recording opens the shared session only after the previous one has closed it      *)
(* (Create on an open session makes the application exit), and a press of the button   *)
(* never meets a handler that is gone, provided that presses wait for the previous one *)
(* to take effect.                                                                      *)
ReopenedAfterClose == patient => crash \notin {"session exists", "ui: no handler"}

(* Without a handler thread nothing of a recording is left open: not the session, not   *)
(* the encoder's input surface, and no encoder still takes frames, although stopping    *)
(* is asynchronous at each of the three levels.                                         *)
NothingLeftOpen ==
    patient /\ ~mRunning => session = "none" /\ ~surface /\ \A k \in Recordings : ~Accepts(k)

(* Once QUIT is on its way the handler thread ends (or the process does), also when the *)
(* button is pressed at any moment.                                                     *)
QuitEndsThread == upc = "quit" ~> (~mRunning \/ crash # "no")

(* A stop that finds the encoder's thread in its loop or asleep ends it; the window      *)
(* between reading the flags and waiting is left out: a stop in it wakes nobody.          *)
StopHeard ==
    \A k \in Recordings :
        enc[k].mRequestStop /\ enc[k].pc \notin {"gap", "waiting"} ~> (enc[k].pc = "ended" \/ crash # "no")
=============================================================================
