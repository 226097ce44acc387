--------------------------- MODULE CaptureSession ---------------------------
(***************************************************************************)
(* One open camera of the HAL provider,                                    *)
(* src/camera_vir/device/VirtualCameraDeviceSession.cpp: the framework's   *)
(* calls, serialised by mInterfaceLock; FormatConvertThread; OutputThread; *)
(* and the V4L2 buffers the requests borrow from the driver.               *)
(*                                                                         *)
(* A request is its frame number.  It is taken in by                       *)
(* processOneCaptureRequest, which dequeues a V4L2 frame for it, goes      *)
(* through the lists of the two threads and is answered by OutputThread or *)
(* by the caller of flush: the frame goes back to the driver, a shutter    *)
(* notification and a capture result (or an error) go to the framework.    *)
(* pc is the place of the call in progress; it keeps mInterfaceLock until  *)
(* it is "idle" again.  A call that is rejected at its checks changes      *)
(* nothing and is left out.  mLock is taken by no other modelled thread.   *)
(***************************************************************************)
EXTENDS Integers, Sequences

CONSTANTS NumVideoBuffers, NumStillBuffers,  \* VirtualCameraConfig
          MaxRequests,                       \* bound: frame numbers
          MaxSpurious,                       \* bound: spurious wake-ups
          Timeouts,                          \* whether a timed wait may run out
          IoctlsFail                         \* whether the video device may fail

ASSUME SessionBounds ==
    /\ NumVideoBuffers \in Nat \ {0} /\ NumStillBuffers \in Nat \ {0}
    /\ MaxRequests \in Nat /\ MaxSpurious \in Nat
    /\ Timeouts \in BOOLEAN /\ IoctlsFail \in BOOLEAN

Requests == 1 .. MaxRequests
None == 0
Fps == {"video", "still"}           \* at least 30 fps, or fewer
Answerers == {"call", "output"}     \* who runs processCaptureResult and its like

VARIABLES
    pc, cur,              \* the framework's call and its latest request
    closing, mClosed,
    mV4l2Streaming, mV4l2StreamingFps, mV4L2BufferCount,
    mNumDequeuedV4l2Buffers,
    driverOn,             \* the driver streams, whatever mV4l2Streaming says
    queued,               \* buffers the driver has been given
    leaked,               \* buffers never given to it, or dequeued and forgotten
    mInflightFrames,
    fmtList, fmtPc, fmtReq, fmtExit,     \* FormatConvertThread
    outList, outPc, outExit,             \* OutputThread
    mProcessingRequest,
    reqs,                 \* the list flush took from OutputThread
    step, req, kind,      \* how far each answerer is with which request
    woken, done,          \* the two condition variables have been notified
    shutters, results,    \* what the framework was told, in order
    lost,                 \* requests dropped without an answer
    spurious

call    == <<pc, cur, closing, mClosed>>
stream  == <<mV4l2Streaming, mV4l2StreamingFps, mV4L2BufferCount>>
driver  == <<driverOn, queued, leaked>>
buffers == <<mNumDequeuedV4l2Buffers, driver>>
convert == <<fmtList, fmtPc, fmtReq, fmtExit>>
output  == <<outList, outPc, outExit, mProcessingRequest>>
answer  == <<step, req, kind>>
signals == <<woken, done, spurious>>
told    == <<shutters, results, lost>>
vars == <<call, stream, buffers, mInflightFrames, convert, output,
          reqs, answer, signals, told>>

BufferCount(f) == IF f = "video" THEN NumVideoBuffers ELSE NumStillBuffers

\* A session after initialize: both threads run, nothing is configured.
Init ==
    /\ pc = "idle" /\ cur = None
    /\ closing = FALSE /\ mClosed = FALSE
    /\ mV4l2Streaming = FALSE /\ mV4l2StreamingFps = "video" /\ mV4L2BufferCount = 0
    /\ mNumDequeuedV4l2Buffers = 0 /\ driverOn = FALSE /\ queued = 0 /\ leaked = 0
    /\ mInflightFrames = {}
    /\ fmtList = <<>> /\ fmtPc = "wait" /\ fmtReq = None /\ fmtExit = FALSE
    /\ outList = <<>> /\ outPc = "wait" /\ outExit = FALSE
    /\ mProcessingRequest = FALSE
    /\ reqs = <<>>
    /\ step = [t \in Answerers |-> "none"] /\ req = [t \in Answerers |-> None]
    /\ kind = [t \in Answerers |-> "result"]
    /\ woken = FALSE /\ done = FALSE /\ spurious = 0
    /\ shutters = <<>> /\ results = <<>> /\ lost = {}

-----------------------------------------------------------------------------
(* V4L2 stream set-up.                                                     *)

\* v4l2StreamOffLocked refuses while buffers are out, and then changes nothing.
StreamOffRefused == mV4l2Streaming /\ mNumDequeuedV4l2Buffers # 0

\* VIDIOC_STREAMOFF: all buffers leave the driver's queues.
DriverStops == driverOn' = FALSE /\ queued' = 0 /\ leaked' = 0

\* v4l2StreamOffLocked: STREAMOFF fails, or REQBUFS(0) does after it; by then
\* the count was reset, and mV4l2Streaming stays set.
StreamOffFailed ==
    \/ /\ StreamOffRefused
       /\ UNCHANGED <<stream, driver>>
    \/ /\ IoctlsFail /\ mV4l2Streaming /\ ~StreamOffRefused
       /\ mV4L2BufferCount' = 0
       /\ DriverStops \/ UNCHANGED driver
       /\ UNCHANGED <<mV4l2Streaming, mV4l2StreamingFps>>

\* v4l2StreamOffLocked succeeds; for a session that does not believe it
\* streams it does not ask the driver.
StreamOff ==
    /\ ~StreamOffRefused
    /\ mV4l2Streaming' = FALSE
    /\ IF mV4l2Streaming
       THEN DriverStops /\ mV4L2BufferCount' = 0
       ELSE UNCHANGED <<mV4L2BufferCount, driver>>

\* REQBUFS succeeds only on a driver that does not stream.  The count is set,
\* q of the buffers are queued, the driver streams or not, and ok says whether
\* configureV4l2StreamLocked comes to its end.
StreamSet(f, q, on, ok) ==
    /\ ~StreamOffRefused /\ (driverOn => mV4l2Streaming)
    /\ mV4l2Streaming' = ok /\ mV4l2StreamingFps' = f
    /\ mV4L2BufferCount' = BufferCount(f)
    /\ driverOn' = on /\ queued' = q /\ leaked' = BufferCount(f) - q

\* configureV4l2StreamLocked returns early after REQBUFS: QUERYBUF, QBUF or
\* STREAMON fails; or, in the loop that swallows the first frames, DQBUF does,
\* or QBUF with a buffer out.
StreamHalfSet(f) ==
    \/ \E q \in 0 .. BufferCount(f) : StreamSet(f, q, FALSE, FALSE)
    \/ \E q \in {BufferCount(f) - 1, BufferCount(f)} : StreamSet(f, q, TRUE, FALSE)

\* S_FMT or REQBUFS fails, with the new fps recorded or not; a REQBUFS that
\* fails may have freed the buffers that an earlier failure left queued.
StreamNotSet(f) ==
    /\ mV4l2StreamingFps' \in {f, mV4l2StreamingFps}
    /\ \/ StreamOff
       \/ /\ ~mV4l2Streaming /\ ~driverOn
          /\ queued' = 0 /\ leaked' = mV4L2BufferCount
          /\ UNCHANGED <<mV4l2Streaming, mV4L2BufferCount, driverOn>>

\* configureV4l2StreamLocked, wherever it ends.
Configure(f) ==
    \/ StreamSet(f, BufferCount(f), TRUE, TRUE)
    \/ IoctlsFail /\ (StreamHalfSet(f) \/ StreamNotSet(f))
    \/ StreamOffFailed

-----------------------------------------------------------------------------
(* processOneCaptureRequest.                                               *)

\* The checks pass; a request for another fps first drains the pipeline.
ProcessCaptureRequest(f) ==
    /\ pc = "idle" /\ ~mClosed /\ mV4l2Streaming /\ cur < MaxRequests
    /\ cur' = cur + 1
    /\ pc' = IF f = mV4l2StreamingFps THEN "import" ELSE "drain"
    /\ UNCHANGED <<closing, mClosed, stream, buffers, mInflightFrames,
                   convert, output, reqs, answer, signals, told>>

\* while (mNumDequeuedV4l2Buffers != 0): waits with mLock released.
DrainWait ==
    /\ pc = "drain" /\ mNumDequeuedV4l2Buffers # 0
    /\ pc' = "drainwait" /\ woken' = FALSE
    /\ UNCHANGED <<cur, closing, mClosed, stream, buffers, mInflightFrames,
                   convert, output, reqs, answer, done, spurious, told>>

\* The pipeline is idle: configureV4l2StreamLocked for the rate of the request,
\* the other one; its result is ignored.
Reconfigure ==
    /\ pc = "drain" /\ mNumDequeuedV4l2Buffers = 0
    /\ \E f \in Fps \ {mV4l2StreamingFps} : Configure(f)
    /\ pc' = "import"
    /\ UNCHANGED <<cur, closing, mClosed, mNumDequeuedV4l2Buffers,
                   mInflightFrames, convert, output, reqs, answer, signals, told>>

\* waitForV4L2BufferReturnLocked returns 0: a drain checks again, a dequeue
\* goes on without checking.
AfterWait == IF pc = "drainwait" THEN "drain" ELSE "dqbuf"
Waiting == pc \in {"drainwait", "bufwait"}

BufferReturned ==
    /\ Waiting /\ woken
    /\ pc' = AfterWait /\ woken' = FALSE
    /\ UNCHANGED <<cur, closing, mClosed, stream, buffers, mInflightFrames,
                   convert, output, reqs, answer, done, spurious, told>>

\* wait_for may return without a notification before its time is up.
SpuriousReturn ==
    /\ Waiting /\ ~woken /\ spurious < MaxSpurious
    /\ pc' = AfterWait /\ spurious' = spurious + 1
    /\ UNCHANGED <<cur, closing, mClosed, stream, buffers, mInflightFrames,
                   convert, output, reqs, answer, woken, done, told>>

\* A request given up with INTERNAL_ERROR: kBufferWaitTimeoutSec passed, or
\* a buffer cannot be imported, or VIDIOC_DQBUF fails.
RequestFails ==
    /\ \/ Waiting /\ ~woken /\ Timeouts
       \/ pc = "import"
       \/ pc = "dqbuf" /\ (IoctlsFail \/ ~driverOn)
    /\ pc' = "idle"
    /\ UNCHANGED <<cur, closing, mClosed, stream, buffers, mInflightFrames,
                   convert, output, reqs, answer, signals, told>>

\* importRequestLocked, then dequeueV4l2FrameLocked's test.
Import ==
    /\ pc = "import"
    /\ pc' = IF mNumDequeuedV4l2Buffers = mV4L2BufferCount THEN "bufwait" ELSE "dqbuf"
    /\ woken' = FALSE
    /\ UNCHANGED <<cur, closing, mClosed, stream, buffers, mInflightFrames,
                   convert, output, reqs, answer, done, spurious, told>>

\* VIDIOC_DQBUF: blocks while the driver streams and holds no buffer.  Nobody
\* looks at mV4l2Streaming again after the reconfiguration.
DequeueFrame ==
    /\ pc = "dqbuf" /\ driverOn /\ queued > 0
    /\ queued' = queued - 1 /\ pc' = "count"
    /\ UNCHANGED <<cur, closing, mClosed, stream, mNumDequeuedV4l2Buffers, driverOn,
                   leaked, mInflightFrames, convert, output, reqs, answer, signals, told>>

\* The frame's index or size is not credible: it is neither counted nor
\* queued again.
FrameInvalid ==
    /\ pc = "count"
    /\ leaked' = leaked + 1 /\ pc' = "idle"
    /\ UNCHANGED <<cur, closing, mClosed, stream, mNumDequeuedV4l2Buffers, driverOn, queued,
                   mInflightFrames, convert, output, reqs, answer, signals, told>>

\* Mutant: the frame is not counted.
CountFrameSkipped ==
    /\ pc = "count"
    /\ pc' = "submit"
    /\ UNCHANGED <<cur, closing, mClosed, stream, buffers,
                   mInflightFrames, convert, output, reqs, answer, signals, told>>

\* The index is one of the buffers: mNumDequeuedV4l2Buffers++
CountFrame ==
    /\ pc = "count" /\ mV4L2BufferCount # 0
    /\ mNumDequeuedV4l2Buffers' = mNumDequeuedV4l2Buffers + 1 /\ pc' = "submit"
    /\ UNCHANGED <<cur, closing, mClosed, stream, driver,
                   mInflightFrames, convert, output, reqs, answer, signals, told>>

\* Mutant: the frame number is not recorded.
SubmitUnrecorded ==
    /\ pc = "submit"
    /\ fmtList' = Append(fmtList, cur) /\ pc' = "idle"
    /\ UNCHANGED <<cur, closing, mClosed, stream, buffers, mInflightFrames,
                   fmtPc, fmtReq, fmtExit, output, reqs, answer, signals, told>>

\* mInflightFrames.insert, mFormatConvertThread->submitRequest
Submit ==
    /\ pc = "submit"
    /\ mInflightFrames' = mInflightFrames \cup {cur}
    /\ fmtList' = Append(fmtList, cur) /\ pc' = "idle"
    /\ UNCHANGED <<cur, closing, mClosed, stream, buffers,
                   fmtPc, fmtReq, fmtExit, output, reqs, answer, signals, told>>

-----------------------------------------------------------------------------
(* configureStreams, flush and close.                                      *)

\* configureStreams finds no in-flight frame and takes mLock.
ConfigureBegin ==
    /\ pc = "idle" /\ ~mClosed /\ mInflightFrames = {}
    /\ pc' = "configure"
    /\ UNCHANGED <<cur, closing, mClosed, stream, buffers, mInflightFrames,
                   convert, output, reqs, answer, signals, told>>

\* The buffers of removed streams are freed and the V4L2 stream is set up at
\* the default rate.
ConfigureStreams ==
    /\ pc = "configure"
    /\ Configure("video")
    /\ pc' = "idle"
    /\ UNCHANGED <<cur, closing, mClosed, mNumDequeuedV4l2Buffers,
                   mInflightFrames, convert, output, reqs, answer, signals, told>>

\* Mutant: flush copies the list and leaves it in place.
FlushCopies(end) ==
    /\ pc = "idle" /\ ~mClosed
    /\ closing' = end
    /\ reqs' = outList /\ done' = FALSE
    /\ pc' = IF mProcessingRequest THEN "flushwait" ELSE "flush"
    /\ UNCHANGED <<cur, mClosed, stream, buffers, mInflightFrames,
                   convert, output, answer, woken, spurious, told>>

\* OutputThread::flush, as called by flush or (end) by close: takes the list.
Flush(end) ==
    /\ pc = "idle" /\ ~mClosed
    /\ closing' = end
    /\ reqs' = outList /\ outList' = <<>> /\ done' = FALSE
    /\ pc' = IF mProcessingRequest THEN "flushwait" ELSE "flush"
    /\ UNCHANGED <<cur, mClosed, stream, buffers, mInflightFrames,
                   convert, outPc, outExit, mProcessingRequest, answer, woken, spurious, told>>

\* mRequestDoneCond was notified, or kFlushWaitTimeoutSec passed.
FlushWaitEnds ==
    /\ pc = "flushwait" /\ (done \/ Timeouts)
    /\ pc' = "flush" /\ done' = FALSE
    /\ UNCHANGED <<cur, closing, mClosed, stream, buffers, mInflightFrames,
                   convert, output, reqs, answer, woken, spurious, told>>

\* processCaptureRequestError for the next request of the list.
FlushOne ==
    /\ pc = "flush" /\ reqs # <<>> /\ step["call"] = "none"
    /\ req' = [req EXCEPT !["call"] = Head(reqs)]
    /\ kind' = [kind EXCEPT !["call"] = "error"]
    /\ step' = [step EXCEPT !["call"] = "enqueue"]
    /\ reqs' = Tail(reqs)
    /\ UNCHANGED <<call, stream, buffers, mInflightFrames, convert, output,
                   signals, told>>

\* The list is answered: flush returns, or close goes on to end OutputThread.
FlushEnd ==
    /\ pc = "flush" /\ reqs = <<>> /\ step["call"] = "none"
    /\ pc' = IF closing THEN "joinout" ELSE "idle"
    /\ outExit' = closing
    /\ UNCHANGED <<cur, closing, mClosed, stream, buffers, mInflightFrames,
                   convert, outList, outPc, mProcessingRequest, reqs, answer, signals, told>>

\* Mutant: close does not wait for OutputThread.
JoinOutputSkipped ==
    /\ pc = "joinout"
    /\ pc' = "joinfmt" /\ fmtExit' = TRUE
    /\ UNCHANGED <<cur, closing, mClosed, stream, buffers, mInflightFrames,
                   fmtList, fmtPc, fmtReq, output, reqs, answer, signals, told>>

\* Mutant: FormatConvertThread is joined before it is asked to exit.
JoinOutputFirst ==
    /\ pc = "joinout" /\ outPc = "exited"
    /\ pc' = "joinfmt"
    /\ UNCHANGED <<cur, closing, mClosed, stream, buffers, mInflightFrames,
                   convert, output, reqs, answer, signals, told>>

\* OutputThread is joined; FormatConvertThread, never flushed, is asked to exit.
JoinOutput ==
    /\ pc = "joinout" /\ outPc = "exited"
    /\ pc' = "joinfmt" /\ fmtExit' = TRUE
    /\ UNCHANGED <<cur, closing, mClosed, stream, buffers, mInflightFrames,
                   fmtList, fmtPc, fmtReq, output, reqs, answer, signals, told>>

\* FormatConvertThread is joined; the buffers are freed, the stream is stopped
\* if it can be, and the device is closed whatever came of that; what becomes
\* of the driver's queues then concerns nobody.
Close ==
    /\ pc = "joinfmt" /\ fmtPc = "exited"
    /\ StreamOffFailed \/ (StreamOff /\ UNCHANGED mV4l2StreamingFps)
    /\ mClosed' = TRUE /\ pc' = "idle"
    /\ UNCHANGED <<cur, closing, mNumDequeuedV4l2Buffers, mInflightFrames,
                   convert, output, reqs, answer, signals, told>>

-----------------------------------------------------------------------------
(* processCaptureResult and processCaptureRequestError, run by t.          *)

Goto(t, s) == step' = [step EXCEPT ![t] = s] /\ UNCHANGED <<req, kind>>

\* enqueueV4l2Frame: VIDIOC_QBUF; on failure it returns at once, uncounted.
EnqueueFrame(t) ==
    /\ step[t] = "enqueue"
    /\ \/ queued' = queued + 1 /\ Goto(t, "return")
       \/ IoctlsFail /\ queued' = queued /\ Goto(t, "notify")
    /\ UNCHANGED <<call, stream, mNumDequeuedV4l2Buffers, driverOn, leaked, mInflightFrames,
                   convert, output, reqs, signals, told>>

\* Mutant: the count is not lowered for a request answered with an error.
ReturnFrameUncounted(t) ==
    /\ step[t] = "return"
    /\ mNumDequeuedV4l2Buffers' = mNumDequeuedV4l2Buffers - IF kind[t] = "error" THEN 0 ELSE 1
    /\ woken' = Waiting
    /\ Goto(t, "notify")
    /\ UNCHANGED <<call, stream, driver, mInflightFrames,
                   convert, output, reqs, done, spurious, told>>

\* mNumDequeuedV4l2Buffers--, mV4L2BufferReturned.notify_one
ReturnFrame(t) ==
    /\ step[t] = "return"
    /\ mNumDequeuedV4l2Buffers' = mNumDequeuedV4l2Buffers - 1 /\ woken' = Waiting
    /\ Goto(t, "notify")
    /\ UNCHANGED <<call, stream, driver, mInflightFrames,
                   convert, output, reqs, done, spurious, told>>

\* The shutter notification, with ERROR_REQUEST after it on the error path.
NotifyShutter(t) ==
    /\ step[t] = "notify"
    /\ shutters' = Append(shutters, req[t])
    /\ Goto(t, "erase")
    /\ UNCHANGED <<call, stream, buffers, mInflightFrames, convert, output,
                   reqs, signals, results, lost>>

\* mInflightFrames.erase
EraseInflight(t) ==
    /\ step[t] = "erase"
    /\ mInflightFrames' = mInflightFrames \ {req[t]}
    /\ Goto(t, "invoke")
    /\ UNCHANGED <<call, stream, buffers, convert, output, reqs, signals, told>>

\* invokeProcessCaptureResultCallback gets mProcessCaptureResultLock and calls.
InvokeCallback(t) ==
    /\ step[t] = "invoke" /\ \A u \in Answerers : step[u] # "calling"
    /\ results' = IF kind[t] = "result" THEN Append(results, req[t]) ELSE results
    /\ Goto(t, "calling")
    /\ UNCHANGED <<call, stream, buffers, mInflightFrames, convert, output,
                   reqs, signals, shutters, lost>>

\* The lock is not free within a second: the result is never delivered.
CallbackTimesOut(t) ==
    /\ step[t] = "invoke" /\ Timeouts /\ \E u \in Answerers : step[u] = "calling"
    /\ lost' = lost \cup {req[t]}
    /\ Goto(t, "done")
    /\ UNCHANGED <<call, stream, buffers, mInflightFrames, convert, output,
                   reqs, signals, shutters, results>>

CallbackReturns(t) ==
    /\ step[t] = "calling"
    /\ Goto(t, "done")
    /\ UNCHANGED <<call, stream, buffers, mInflightFrames, convert, output,
                   reqs, signals, told>>

\* Back in flush, which goes on with its list.
FlushedOne ==
    /\ step["call"] = "done"
    /\ step' = [step EXCEPT !["call"] = "none"] /\ req' = [req EXCEPT !["call"] = None]
    /\ kind' = [kind EXCEPT !["call"] = "result"]
    /\ UNCHANGED <<call, stream, buffers, mInflightFrames, convert, output,
                   reqs, signals, told>>

-----------------------------------------------------------------------------
(* The two threads.  A thread asked to exit ends after its current round.  *)

NextRound(exit) == IF exit THEN "exited" ELSE "wait"

\* FormatConvertThread::waitForNextRequest
FormatTake ==
    /\ fmtPc = "wait" /\ fmtList # <<>>
    /\ fmtReq' = Head(fmtList) /\ fmtList' = Tail(fmtList) /\ fmtPc' = "convert"
    /\ UNCHANGED <<call, stream, buffers, mInflightFrames, fmtExit, output,
                   reqs, answer, signals, told>>

\* Mutant: a frame whose decoding failed is not passed on.
FormatSubmitDrops ==
    /\ fmtPc = "convert"
    /\ outList' \in {Append(outList, fmtReq), outList}
    /\ fmtReq' = None /\ fmtPc' = NextRound(fmtExit)
    /\ UNCHANGED <<call, stream, buffers, mInflightFrames, fmtList, fmtExit,
                   outPc, outExit, mProcessingRequest, reqs, answer, signals, told>>

\* Mutant: a converted request is put at the front of the list.
FormatSubmitFront ==
    /\ fmtPc = "convert"
    /\ outList' = <<fmtReq>> \o outList
    /\ fmtReq' = None /\ fmtPc' = NextRound(fmtExit)
    /\ UNCHANGED <<call, stream, buffers, mInflightFrames, fmtList, fmtExit,
                   outPc, outExit, mProcessingRequest, reqs, answer, signals, told>>

\* The frame is decoded, or not; either way mFmtOutputThread->submitRequest.
FormatSubmit ==
    /\ fmtPc = "convert"
    /\ outList' = Append(outList, fmtReq)
    /\ fmtReq' = None /\ fmtPc' = NextRound(fmtExit)
    /\ UNCHANGED <<call, stream, buffers, mInflightFrames, fmtList, fmtExit,
                   outPc, outExit, mProcessingRequest, reqs, answer, signals, told>>

FormatExit ==
    /\ fmtPc = "wait" /\ fmtList = <<>> /\ fmtExit
    /\ fmtPc' = "exited"
    /\ UNCHANGED <<call, stream, buffers, mInflightFrames, fmtList, fmtReq, fmtExit,
                   output, reqs, answer, signals, told>>

\* OutputThread::waitForNextRequest
OutputTake ==
    /\ outPc = "wait" /\ outList # <<>>
    /\ req' = [req EXCEPT !["output"] = Head(outList)] /\ outList' = Tail(outList)
    /\ outPc' = "convert" /\ mProcessingRequest' = TRUE
    /\ UNCHANGED <<step, kind, call, stream, buffers, mInflightFrames, convert,
                   outExit, reqs, signals, told>>

\* Every output buffer is filled (or its fence timed out), or the frame cannot
\* be converted: processCaptureResult or processCaptureRequestError.
OutputAnswer ==
    /\ outPc = "convert"
    /\ kind' \in {[kind EXCEPT !["output"] = k] : k \in {"result", "error"}}
    /\ step' = [step EXCEPT !["output"] = "enqueue"] /\ outPc' = "answer"
    /\ UNCHANGED <<req, call, stream, buffers, mInflightFrames, convert, outList,
                   outExit, mProcessingRequest, reqs, signals, told>>

\* signalRequestDone
OutputDone ==
    /\ step["output"] = "done"
    /\ step' = [step EXCEPT !["output"] = "none"] /\ req' = [req EXCEPT !["output"] = None]
    /\ kind' = [kind EXCEPT !["output"] = "result"]
    /\ mProcessingRequest' = FALSE /\ done' = (pc = "flushwait")
    /\ outPc' = NextRound(outExit)
    /\ UNCHANGED <<call, stream, buffers, mInflightFrames, convert, outList,
                   outExit, reqs, woken, spurious, told>>

\* onDeviceError: ERROR_DEVICE, signalRequestDone, and the thread ends.
OutputDeviceError ==
    /\ outPc = "convert"
    /\ lost' = lost \cup {req["output"]} /\ req' = [req EXCEPT !["output"] = None]
    /\ mProcessingRequest' = FALSE /\ done' = (pc = "flushwait")
    /\ outPc' = "exited"
    /\ UNCHANGED <<step, kind, call, stream, buffers, mInflightFrames, convert,
                   outList, outExit, reqs, woken, spurious, shutters, results>>

\* "return -EINVAL": a buffer without a file descriptor; the thread goes on,
\* the request is forgotten and mProcessingRequest stays set.
OutputForgets ==
    /\ outPc = "convert"
    /\ lost' = lost \cup {req["output"]} /\ req' = [req EXCEPT !["output"] = None]
    /\ outPc' = NextRound(outExit)
    /\ UNCHANGED <<step, kind, call, stream, buffers, mInflightFrames, convert,
                   outList, outExit, mProcessingRequest, reqs, signals, shutters, results>>

OutputExit ==
    /\ outPc = "wait" /\ outList = <<>> /\ outExit
    /\ outPc' = "exited"
    /\ UNCHANGED <<call, stream, buffers, mInflightFrames, convert, outList, outExit,
                   mProcessingRequest, reqs, answer, signals, told>>

-----------------------------------------------------------------------------
Call ==
    \/ \E f \in Fps : ProcessCaptureRequest(f)
    \/ DrainWait \/ Reconfigure \/ BufferReturned \/ SpuriousReturn \/ RequestFails
    \/ Import \/ DequeueFrame \/ FrameInvalid \/ CountFrame \/ Submit
    \/ ConfigureBegin \/ ConfigureStreams
    \/ \E end \in BOOLEAN : Flush(end)
    \/ FlushWaitEnds \/ FlushOne \/ FlushEnd \/ FlushedOne
    \/ JoinOutput \/ Close

Answer(t) ==
    \/ EnqueueFrame(t) \/ ReturnFrame(t) \/ NotifyShutter(t) \/ EraseInflight(t)
    \/ InvokeCallback(t) \/ CallbackTimesOut(t) \/ CallbackReturns(t)

FormatThread == FormatTake \/ FormatSubmit \/ FormatExit

OutputThread ==
    \/ OutputTake \/ OutputAnswer \/ OutputDone \/ OutputDeviceError \/ OutputForgets
    \/ OutputExit

Next ==
    \/ Call
    \/ \E t \in Answerers : Answer(t)
    \/ FormatThread
    \/ OutputThread

Spec == Init /\ [][Next]_vars

\* A request whose VIDIOC_DQBUF might still succeed need not be given up.
RequestMustFail == RequestFails /\ ~(pc = "dqbuf" /\ driverOn)

\* Threads run; a call that can go on goes on, a timed wait included; what the
\* framework calls next, and whether the device leaves, is up to them.
CallProgress ==
    \/ DrainWait \/ Reconfigure \/ BufferReturned \/ RequestMustFail
    \/ Import \/ DequeueFrame \/ FrameInvalid \/ CountFrame \/ Submit
    \/ ConfigureStreams \/ FlushWaitEnds \/ FlushOne \/ FlushEnd \/ FlushedOne
    \/ JoinOutput \/ Close

FairSpec ==
    /\ Spec
    /\ WF_vars(CallProgress)
    /\ \A t \in Answerers : WF_vars(Answer(t))
    /\ WF_vars(FormatThread) /\ WF_vars(OutputThread)

-----------------------------------------------------------------------------
(* Properties.                                                             *)

Elems(s) == {s[i] : i \in DOMAIN s}

\* The requests that still use the buffers they came with: in a list, or with
\* a thread that has not taken them off mInflightFrames yet.
Answering(t) == step[t] \in {"enqueue", "return", "notify", "erase"}
Pending ==
    Elems(fmtList) \cup Elems(outList) \cup Elems(reqs)
    \cup (IF fmtPc = "convert" THEN {fmtReq} ELSE {})
    \cup (IF outPc = "convert" THEN {req["output"]} ELSE {})
    \cup {req[t] : t \in {u \in Answerers : Answering(u)}}

Flags ==
    /\ closing \in BOOLEAN /\ mClosed \in BOOLEAN
    /\ mV4l2Streaming \in BOOLEAN /\ driverOn \in BOOLEAN /\ mProcessingRequest \in BOOLEAN
    /\ fmtExit \in BOOLEAN /\ outExit \in BOOLEAN
    /\ woken \in BOOLEAN /\ done \in BOOLEAN

Counters ==
    /\ cur \in 0 .. MaxRequests /\ spurious \in Nat
    /\ mV4L2BufferCount \in Nat /\ mNumDequeuedV4l2Buffers \in Nat
    /\ queued \in Nat /\ leaked \in Nat

Places ==
    /\ pc \in {"idle", "drain", "drainwait", "import", "bufwait", "dqbuf", "count", "submit",
               "configure", "flushwait", "flush", "joinout", "joinfmt"}
    /\ mV4l2StreamingFps \in Fps
    /\ fmtPc \in {"wait", "convert", "exited"}
    /\ outPc \in {"wait", "convert", "answer", "exited"}
    /\ step \in [Answerers -> {"none", "enqueue", "return", "notify", "erase", "invoke",
                               "calling", "done"}]
    /\ kind \in [Answerers -> {"result", "error"}]

Lists ==
    /\ fmtList \in Seq(Requests) /\ outList \in Seq(Requests) /\ reqs \in Seq(Requests)
    /\ shutters \in Seq(Requests) /\ results \in Seq(Requests)
    /\ fmtReq \in Requests \cup {None} /\ req \in [Answerers -> Requests \cup {None}]
    /\ mInflightFrames \subseteq Requests /\ lost \subseteq Requests

\* Every variable has its type; the count of dequeued buffers, a size_t in the
\* code, is a natural number.
TypeOK == Flags /\ Counters /\ Places /\ Lists

Bit(b) == IF b THEN 1 ELSE 0

\* Buffers are conserved from the moment the count is set, wherever the set-up
\* then ends: what the driver was given, what the session counts as dequeued
\* and what was never queued or was forgotten make up the pool, up to the
\* buffers on their way between the ioctl and the count.  So the session never
\* takes back, or gives out, a buffer it does not have.
BufferConservation ==
    mV4L2BufferCount # 0 =>
        queued + mNumDequeuedV4l2Buffers + leaked + Bit(pc = "count")
            = mV4L2BufferCount + Bit(step["call"] = "return") + Bit(step["output"] = "return")

\* The count covers every frame a request still holds, so it never wraps below
\* zero; and the driver's queues outlive every counted frame, also for a
\* session that a failed set-up left with mV4l2Streaming unset.
HoldsFrame(t) == step[t] \in {"enqueue", "return"}
FramesInUse ==
    Len(fmtList) + Len(outList) + Len(reqs)
      + Bit(pc = "submit") + Bit(fmtPc = "convert") + Bit(outPc = "convert")
      + Bit(HoldsFrame("call")) + Bit(HoldsFrame("output"))
Covered == FramesInUse <= mNumDequeuedV4l2Buffers
FramesHeld == Covered /\ (mNumDequeuedV4l2Buffers # 0 => driverOn)

\* configureStreams frees the buffers of a removed stream only when no request
\* that came with such buffers is still being worked on: checking
\* mInflightFrames before taking mLock is enough.
ConfigureIdle == pc = "configure" => Pending = {}

\* No request is answered twice, whoever of OutputThread and flush has it.
AnsweredOnce ==
    \A i, j \in DOMAIN shutters : shutters[i] = shutters[j] => i = j

\* Capture results with metadata reach the framework in frame order.
ResultsInOrder ==
    \A i, j \in DOMAIN results : i < j => results[i] < results[j]

\* Once close has returned nothing calls back and no frame goes to the driver:
\* mV4l2Fd is "reset in close() after OutputThread is joined".
QuietAfterClose ==
    [][mClosed => UNCHANGED <<shutters, results, queued, mInflightFrames>>]_vars

\* Every call returns, unless a buffer is gone from a stream that runs, by the
\* set-up, by a frame that was not credible or by a counted frame that no
\* request holds any more: then a dequeue may wait for what nobody returns.
BufferGone == driverOn /\ (leaked # 0 \/ FramesInUse < mNumDequeuedV4l2Buffers)
CallsReturn == (pc # "idle") ~> (pc = "idle" \/ BufferGone)

\* An accepted request is answered, unless the output thread drops it or ends.
RequestAnswered ==
    \A f \in Requests :
        (f \in mInflightFrames) ~> (f \notin mInflightFrames \/ f \in lost \/ outPc = "exited")

\* "Verify ordering of shutter notifications": the framework takes a shutter
\* notification for an earlier frame as a fatal device error.
ShutterInOrder ==
    \A i, j \in DOMAIN shutters : i < j => shutters[i] < shutters[j]
=============================================================================
