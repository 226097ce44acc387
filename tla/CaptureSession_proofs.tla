----------------------- MODULE CaptureSession_proofs -----------------------
(***************************************************************************)
(* Proofs about CaptureSession, for every number of buffers and requests.  *)
(*                                                                         *)
(* BufferConservation is proved together with Covered and Streaming, which *)
(* make up FramesHeld.  A new pool is set up only with no buffer out: a    *)
(* session that believes it streams checks the count (StreamOffRefused),   *)
(* for one that does not REQBUFS fails while the driver streams, and       *)
(* Streaming says that no buffer is out when it does not.  With the count  *)
(* at zero Covered says that no answerer is on its way between QBUF and    *)
(* the count; and Covered keeps the count from going below zero.  SetUp    *)
(* sums up every end of a set-up; Threads says who may be where, for close.*)
(*                                                                         *)
(* The second half says who has which request, and in which order.  The    *)
(* lists and the requests in hand form a pipeline in frame order: what     *)
(* flush or OutputThread has is older than what FormatConvertThread has    *)
(* passed on, that is older than what it converts, that is older than its  *)
(* own list.  flush and OutputThread may overtake each other, so for them  *)
(* only that their requests are apart is claimed.                          *)
(***************************************************************************)
EXTENDS CaptureSession, TLAPS

USE DEF vars, call, stream, driver, buffers, convert, output, answer, signals, told,
        Requests, None, Fps, Answerers

\* The places of processOneCaptureRequest.
Preparing == {"drain", "drainwait", "import", "bufwait", "dqbuf", "count", "submit"}

\* Whoever works on a request has one; flush alone answers for the caller; a
\* closed session has no thread left.
Threads ==
    /\ pc \in Preparing => cur # 0
    /\ fmtPc = "convert" => fmtReq # None
    /\ outPc = "convert" => req["output"] # None
    /\ \A t \in Answerers : step[t] # "none" => req[t] # None
    /\ step["output"] = "none" <=> outPc # "answer"
    /\ pc # "flush" => step["call"] = "none"
    /\ pc = "joinfmt" => outPc = "exited"
    /\ mClosed => pc = "idle" /\ outPc = "exited" /\ fmtPc = "exited"

\* Buffers are out only while the driver streams, whatever mV4l2Streaming says.
Streaming ==
    /\ ~driverOn => mNumDequeuedV4l2Buffers = 0
    /\ pc = "count" => driverOn

\* The inductive invariant.
IInv == TypeOK /\ Threads /\ Streaming /\ Covered /\ BufferConservation

\* The head of a list belongs to the set its elements are taken from.
LEMMA HeadElem == ASSUME NEW S, NEW s \in Seq(S), s # <<>> PROVE Head(s) \in S
  OBVIOUS

\* What setting the stream up, or stopping it, leaves behind wherever it ends: the
\* pool is gone, as it was, or a new one with no buffer out; and the driver is
\* stopped only when none is.
SetUp ==
    /\ mV4l2Streaming' \in BOOLEAN /\ driverOn' \in BOOLEAN /\ mV4l2StreamingFps' \in Fps
    /\ mV4L2BufferCount' \in Nat /\ queued' \in Nat /\ leaked' \in Nat
    /\ ~driverOn' => mNumDequeuedV4l2Buffers = 0
    /\ \/ mV4L2BufferCount' = 0
       \/ UNCHANGED <<mV4L2BufferCount, queued, leaked>>
       \/ mNumDequeuedV4l2Buffers = 0 /\ queued' + leaked' = mV4L2BufferCount'

LEMMA SetsUp == IInv /\ (Reconfigure \/ ConfigureStreams \/ Close) => SetUp
<1> SUFFICES ASSUME IInv, Reconfigure \/ ConfigureStreams \/ Close PROVE SetUp
  OBVIOUS
<1> USE SessionBounds DEF IInv, TypeOK, Flags, Counters, Places, Streaming, BufferCount
<1>1. ASSUME StreamOffFailed PROVE SetUp
  BY <1>1 DEF StreamOffFailed, StreamOffRefused, DriverStops, SetUp
<1>2. ASSUME StreamOff, mV4l2StreamingFps' \in Fps PROVE SetUp
  BY <1>2 DEF StreamOff, StreamOffRefused, DriverStops, SetUp
<1>3. ASSUME NEW f \in Fps, NEW q \in 0 .. BufferCount(f), NEW on \in BOOLEAN, NEW ok \in BOOLEAN,
             StreamSet(f, q, on, ok)
      PROVE  SetUp
  <2>1. mNumDequeuedV4l2Buffers = 0
    BY <1>3 DEF StreamSet, StreamOffRefused
  <2> QED
    BY <1>3, <2>1 DEF StreamSet, SetUp
<1>4. ASSUME NEW f \in Fps, StreamNotSet(f) PROVE SetUp
  <2>1. CASE StreamOff
    BY <1>2, <1>4, <2>1 DEF StreamNotSet
  <2>2. CASE ~StreamOff
    BY <1>4, <2>2 DEF StreamNotSet, SetUp
  <2> QED
    BY <2>1, <2>2
<1>5. ASSUME NEW f \in Fps, Configure(f) PROVE SetUp
  <2>1. /\ BufferCount(f) \in 0 .. BufferCount(f)
        /\ BufferCount(f) - 1 \in 0 .. BufferCount(f)
    OBVIOUS
  <2> QED
    BY <1>1, <1>3, <1>4, <1>5, <2>1 DEF Configure, StreamHalfSet
<1> QED
  BY <1>1, <1>2, <1>5 DEF Reconfigure, ConfigureStreams, Close

\* A new session holds no buffer and works on no request.
LEMMA InitIInv == Init => IInv
<1> SUFFICES ASSUME Init PROVE IInv
  OBVIOUS
<1>1. Flags
  BY DEF Init, Flags
<1>2. Counters
  BY SessionBounds DEF Init, Counters
<1>3. Places
  BY DEF Init, Places
<1>4. Lists
  BY DEF Init, Lists
<1>5. Threads
  BY DEF Init, Threads, Preparing
<1>6. Streaming
  BY DEF Init, Streaming
<1>7. Covered
  BY DEF Init, Covered, FramesInUse, HoldsFrame, Bit
<1>8. BufferConservation
  BY DEF Init, BufferConservation
<1> QED
  BY <1>1, <1>2, <1>3, <1>4, <1>5, <1>6, <1>7, <1>8 DEF IInv, TypeOK

\* Flags stay Boolean.
LEMMA NextFlags == IInv /\ [Next]_vars => Flags'
<1> SUFFICES ASSUME IInv, [Next]_vars PROVE Flags'
  OBVIOUS
<1> USE DEF IInv, TypeOK, Flags
<1>1. CASE \E f \in Fps : ProcessCaptureRequest(f)
  BY <1>1 DEF ProcessCaptureRequest
<1>2. CASE DrainWait
  BY <1>2 DEF DrainWait
<1>3. CASE Reconfigure
  BY <1>3, SetsUp DEF Reconfigure, SetUp
<1>4. CASE BufferReturned
  BY <1>4 DEF BufferReturned, AfterWait, Waiting
<1>5. CASE SpuriousReturn
  BY <1>5 DEF SpuriousReturn, AfterWait, Waiting
<1>6. CASE RequestFails
  BY <1>6 DEF RequestFails, Waiting
<1>7. CASE Import
  BY <1>7 DEF Import
<1>8. CASE DequeueFrame
  BY <1>8 DEF DequeueFrame
<1>9. CASE FrameInvalid
  BY <1>9 DEF FrameInvalid
<1>10. CASE CountFrame
  BY <1>10 DEF CountFrame
<1>11. CASE Submit
  BY <1>11 DEF Submit
<1>12. CASE ConfigureBegin
  BY <1>12 DEF ConfigureBegin
<1>13. CASE ConfigureStreams
  BY <1>13, SetsUp DEF ConfigureStreams, SetUp
<1>14. CASE \E end \in BOOLEAN : Flush(end)
  BY <1>14 DEF Flush
<1>15. CASE FlushWaitEnds
  BY <1>15 DEF FlushWaitEnds
<1>16. CASE FlushOne
  BY <1>16 DEF FlushOne
<1>17. CASE FlushEnd
  BY <1>17 DEF FlushEnd
<1>18. CASE FlushedOne
  BY <1>18 DEF FlushedOne
<1>19. CASE JoinOutput
  BY <1>19 DEF JoinOutput
<1>20. CASE Close
  BY <1>20, SetsUp DEF Close, SetUp
<1>21. CASE \E t \in Answerers : EnqueueFrame(t)
  BY <1>21 DEF EnqueueFrame, Goto
<1>22. CASE \E t \in Answerers : ReturnFrame(t)
  BY <1>22 DEF ReturnFrame, Goto, Waiting
<1>23. CASE \E t \in Answerers : NotifyShutter(t)
  BY <1>23 DEF NotifyShutter, Goto
<1>24. CASE \E t \in Answerers : EraseInflight(t)
  BY <1>24 DEF EraseInflight, Goto
<1>25. CASE \E t \in Answerers : InvokeCallback(t)
  BY <1>25 DEF InvokeCallback, Goto
<1>26. CASE \E t \in Answerers : CallbackTimesOut(t)
  BY <1>26 DEF CallbackTimesOut, Goto
<1>27. CASE \E t \in Answerers : CallbackReturns(t)
  BY <1>27 DEF CallbackReturns, Goto
<1>28. CASE FormatTake
  BY <1>28 DEF FormatTake
<1>29. CASE FormatSubmit
  BY <1>29 DEF FormatSubmit, NextRound
<1>30. CASE FormatExit
  BY <1>30 DEF FormatExit
<1>31. CASE OutputTake
  BY <1>31 DEF OutputTake
<1>32. CASE OutputAnswer
  BY <1>32 DEF OutputAnswer
<1>33. CASE OutputDone
  BY <1>33 DEF OutputDone, NextRound
<1>34. CASE OutputDeviceError
  BY <1>34 DEF OutputDeviceError
<1>35. CASE OutputForgets
  BY <1>35 DEF OutputForgets, NextRound
<1>36. CASE OutputExit
  BY <1>36 DEF OutputExit
<1>37. CASE UNCHANGED vars
  BY <1>37
<1> QED
  BY <1>1, <1>2, <1>3, <1>4, <1>5, <1>6, <1>7, <1>8, <1>9, <1>10, <1>11, <1>12, <1>13, <1>14,
     <1>15, <1>16, <1>17, <1>18, <1>19, <1>20, <1>21, <1>22, <1>23, <1>24, <1>25, <1>26, <1>27,
     <1>28, <1>29, <1>30, <1>31, <1>32, <1>33, <1>34, <1>35, <1>36, <1>37 DEF Next, Call,
     Answer, FormatThread, OutputThread

\* Counters stay natural numbers: a frame is counted back only by a thread that
\* holds one, so the count is positive then.
LEMMA NextCounters == IInv /\ [Next]_vars => Counters'
<1> SUFFICES ASSUME IInv, [Next]_vars PROVE Counters'
  OBVIOUS
<1> USE SessionBounds DEF IInv, TypeOK, Counters, Places, Lists, Covered, FramesInUse, HoldsFrame, Bit,
           BufferCount
<1>1. CASE \E f \in Fps : ProcessCaptureRequest(f)
  BY <1>1 DEF ProcessCaptureRequest
<1>2. CASE DrainWait
  BY <1>2 DEF DrainWait
<1>3. CASE Reconfigure
  BY <1>3, SetsUp DEF Reconfigure, SetUp
<1>4. CASE BufferReturned
  BY <1>4 DEF BufferReturned, AfterWait, Waiting
<1>5. CASE SpuriousReturn
  BY <1>5 DEF SpuriousReturn, AfterWait, Waiting
<1>6. CASE RequestFails
  BY <1>6 DEF RequestFails, Waiting
<1>7. CASE Import
  BY <1>7 DEF Import
<1>8. CASE DequeueFrame
  BY <1>8 DEF DequeueFrame
<1>9. CASE FrameInvalid
  BY <1>9 DEF FrameInvalid
<1>10. CASE CountFrame
  BY <1>10 DEF CountFrame
<1>11. CASE Submit
  BY <1>11 DEF Submit
<1>12. CASE ConfigureBegin
  BY <1>12 DEF ConfigureBegin
<1>13. CASE ConfigureStreams
  BY <1>13, SetsUp DEF ConfigureStreams, SetUp
<1>14. CASE \E end \in BOOLEAN : Flush(end)
  BY <1>14 DEF Flush
<1>15. CASE FlushWaitEnds
  BY <1>15 DEF FlushWaitEnds
<1>16. CASE FlushOne
  BY <1>16 DEF FlushOne
<1>17. CASE FlushEnd
  BY <1>17 DEF FlushEnd
<1>18. CASE FlushedOne
  BY <1>18 DEF FlushedOne
<1>19. CASE JoinOutput
  BY <1>19 DEF JoinOutput
<1>20. CASE Close
  BY <1>20, SetsUp DEF Close, SetUp
<1>21. CASE \E t \in Answerers : EnqueueFrame(t)
  BY <1>21 DEF EnqueueFrame, Goto
<1>22. CASE \E t \in Answerers : ReturnFrame(t)
  BY <1>22 DEF ReturnFrame, Goto, Waiting
<1>23. CASE \E t \in Answerers : NotifyShutter(t)
  BY <1>23 DEF NotifyShutter, Goto
<1>24. CASE \E t \in Answerers : EraseInflight(t)
  BY <1>24 DEF EraseInflight, Goto
<1>25. CASE \E t \in Answerers : InvokeCallback(t)
  BY <1>25 DEF InvokeCallback, Goto
<1>26. CASE \E t \in Answerers : CallbackTimesOut(t)
  BY <1>26 DEF CallbackTimesOut, Goto
<1>27. CASE \E t \in Answerers : CallbackReturns(t)
  BY <1>27 DEF CallbackReturns, Goto
<1>28. CASE FormatTake
  BY <1>28 DEF FormatTake
<1>29. CASE FormatSubmit
  BY <1>29 DEF FormatSubmit, NextRound
<1>30. CASE FormatExit
  BY <1>30 DEF FormatExit
<1>31. CASE OutputTake
  BY <1>31 DEF OutputTake
<1>32. CASE OutputAnswer
  BY <1>32 DEF OutputAnswer
<1>33. CASE OutputDone
  BY <1>33 DEF OutputDone, NextRound
<1>34. CASE OutputDeviceError
  BY <1>34 DEF OutputDeviceError
<1>35. CASE OutputForgets
  BY <1>35 DEF OutputForgets, NextRound
<1>36. CASE OutputExit
  BY <1>36 DEF OutputExit
<1>37. CASE UNCHANGED vars
  BY <1>37
<1> QED
  BY <1>1, <1>2, <1>3, <1>4, <1>5, <1>6, <1>7, <1>8, <1>9, <1>10, <1>11, <1>12, <1>13, <1>14,
     <1>15, <1>16, <1>17, <1>18, <1>19, <1>20, <1>21, <1>22, <1>23, <1>24, <1>25, <1>26, <1>27,
     <1>28, <1>29, <1>30, <1>31, <1>32, <1>33, <1>34, <1>35, <1>36, <1>37 DEF Next, Call,
     Answer, FormatThread, OutputThread

\* Program counters and steps stay in their ranges.
LEMMA NextPlaces == IInv /\ [Next]_vars => Places'
<1> SUFFICES ASSUME IInv, [Next]_vars PROVE Places'
  OBVIOUS
<1> USE DEF IInv, TypeOK, Places
<1>1. CASE Call
  BY <1>1, SetsUp DEF SetUp, Call, ProcessCaptureRequest, DrainWait, Reconfigure,
     BufferReturned, AfterWait, Waiting,
     SpuriousReturn, RequestFails, Import, DequeueFrame, FrameInvalid, CountFrame, Submit,
     ConfigureBegin, ConfigureStreams, Flush, FlushWaitEnds, FlushOne, FlushEnd, FlushedOne,
     JoinOutput, Close
<1>2. CASE \E t \in Answerers : Answer(t)
  BY <1>2 DEF Answer, EnqueueFrame, Goto, ReturnFrame, Waiting, NotifyShutter, EraseInflight,
     InvokeCallback, CallbackTimesOut, CallbackReturns
<1>3. CASE FormatThread
  BY <1>3 DEF FormatThread, FormatTake, FormatSubmit, NextRound, FormatExit
<1>4. CASE OutputThread
  BY <1>4 DEF OutputThread, OutputTake, OutputAnswer, OutputDone, NextRound, OutputDeviceError,
     OutputForgets, OutputExit
<1>5. CASE UNCHANGED vars
  BY <1>5
<1> QED
  BY <1>1, <1>2, <1>3, <1>4, <1>5 DEF Next, Call, Answer, FormatThread, OutputThread

\* Lists hold requests: whoever answers, converts or submits has one.
LEMMA NextLists == IInv /\ [Next]_vars => Lists'
<1> SUFFICES ASSUME IInv, [Next]_vars PROVE Lists'
  OBVIOUS
<1> USE SessionBounds DEF IInv, TypeOK, Counters, Lists, Threads, Preparing
<1>1. CASE \E f \in Fps : ProcessCaptureRequest(f)
  BY <1>1 DEF ProcessCaptureRequest
<1>2. CASE DrainWait
  BY <1>2 DEF DrainWait
<1>3. CASE Reconfigure
  BY <1>3, SetsUp DEF Reconfigure, SetUp
<1>4. CASE BufferReturned
  BY <1>4 DEF BufferReturned, AfterWait, Waiting
<1>5. CASE SpuriousReturn
  BY <1>5 DEF SpuriousReturn, AfterWait, Waiting
<1>6. CASE RequestFails
  BY <1>6 DEF RequestFails, Waiting
<1>7. CASE Import
  BY <1>7 DEF Import
<1>8. CASE DequeueFrame
  BY <1>8 DEF DequeueFrame
<1>9. CASE FrameInvalid
  BY <1>9 DEF FrameInvalid
<1>10. CASE CountFrame
  BY <1>10 DEF CountFrame
<1>11. CASE Submit
  BY <1>11 DEF Submit
<1>12. CASE ConfigureBegin
  BY <1>12 DEF ConfigureBegin
<1>13. CASE ConfigureStreams
  BY <1>13, SetsUp DEF ConfigureStreams, SetUp
<1>14. CASE \E end \in BOOLEAN : Flush(end)
  BY <1>14 DEF Flush
<1>15. CASE FlushWaitEnds
  BY <1>15 DEF FlushWaitEnds
<1>16. CASE FlushOne
  BY <1>16 DEF FlushOne
<1>17. CASE FlushEnd
  BY <1>17 DEF FlushEnd
<1>18. CASE FlushedOne
  BY <1>18 DEF FlushedOne
<1>19. CASE JoinOutput
  BY <1>19 DEF JoinOutput
<1>20. CASE Close
  BY <1>20, SetsUp DEF Close, SetUp
<1>21. CASE \E t \in Answerers : EnqueueFrame(t)
  BY <1>21 DEF EnqueueFrame, Goto
<1>22. CASE \E t \in Answerers : ReturnFrame(t)
  BY <1>22 DEF ReturnFrame, Goto, Waiting
<1>23. CASE \E t \in Answerers : NotifyShutter(t)
  BY <1>23 DEF NotifyShutter, Goto
<1>24. CASE \E t \in Answerers : EraseInflight(t)
  BY <1>24 DEF EraseInflight, Goto
<1>25. CASE \E t \in Answerers : InvokeCallback(t)
  <2>1. PICK t \in Answerers : InvokeCallback(t)
    BY <1>25
  <2>2. req[t] \in Requests
    BY <2>1 DEF InvokeCallback
  <2>3. results' \in {results, Append(results, req[t])}
    BY <2>1, <2>2 DEF InvokeCallback
  <2>4. Append(results, req[t]) \in Seq(Requests)
    BY <2>1, <2>2 DEF InvokeCallback
  <2> QED
    BY <2>1, <2>3, <2>4 DEF InvokeCallback, Goto
<1>26. CASE \E t \in Answerers : CallbackTimesOut(t)
  <2>1. PICK t \in Answerers : CallbackTimesOut(t)
    BY <1>26
  <2>2. req[t] \in Requests
    BY <2>1 DEF CallbackTimesOut
  <2>3. lost' \subseteq Requests
    BY <2>1, <2>2 DEF CallbackTimesOut
  <2> QED
    BY <2>1, <2>3 DEF CallbackTimesOut, Goto
<1>27. CASE \E t \in Answerers : CallbackReturns(t)
  BY <1>27 DEF CallbackReturns, Goto
<1>28. CASE FormatTake
  BY <1>28 DEF FormatTake
<1>29. CASE FormatSubmit
  BY <1>29 DEF FormatSubmit, NextRound
<1>30. CASE FormatExit
  BY <1>30 DEF FormatExit
<1>31. CASE OutputTake
  BY <1>31 DEF OutputTake
<1>32. CASE OutputAnswer
  BY <1>32 DEF OutputAnswer
<1>33. CASE OutputDone
  BY <1>33 DEF OutputDone, NextRound
<1>34. CASE OutputDeviceError
  BY <1>34 DEF OutputDeviceError
<1>35. CASE OutputForgets
  BY <1>35 DEF OutputForgets, NextRound
<1>36. CASE OutputExit
  BY <1>36 DEF OutputExit
<1>37. CASE UNCHANGED vars
  BY <1>37
<1> QED
  BY <1>1, <1>2, <1>3, <1>4, <1>5, <1>6, <1>7, <1>8, <1>9, <1>10, <1>11, <1>12, <1>13, <1>14,
     <1>15, <1>16, <1>17, <1>18, <1>19, <1>20, <1>21, <1>22, <1>23, <1>24, <1>25, <1>26, <1>27,
     <1>28, <1>29, <1>30, <1>31, <1>32, <1>33, <1>34, <1>35, <1>36, <1>37 DEF Next, Call,
     Answer, FormatThread, OutputThread

\* What each thread has in hand fits its place, and a closed session has no
\* thread left: close joins both before it sets mClosed.
LEMMA NextThreads == IInv /\ [Next]_vars => Threads'
<1> SUFFICES ASSUME IInv, [Next]_vars PROVE Threads'
  OBVIOUS
<1> USE DEF IInv, TypeOK, Lists, Places, Counters, Threads, Preparing
<1>1. CASE \E f \in Fps : ProcessCaptureRequest(f)
  BY <1>1 DEF ProcessCaptureRequest
<1>2. CASE DrainWait
  BY <1>2 DEF DrainWait
<1>3. CASE Reconfigure
  BY <1>3, SetsUp DEF Reconfigure, SetUp
<1>4. CASE BufferReturned
  BY <1>4 DEF BufferReturned, AfterWait, Waiting
<1>5. CASE SpuriousReturn
  BY <1>5 DEF SpuriousReturn, AfterWait, Waiting
<1>6. CASE RequestFails
  BY <1>6 DEF RequestFails, Waiting
<1>7. CASE Import
  BY <1>7 DEF Import
<1>8. CASE DequeueFrame
  BY <1>8 DEF DequeueFrame
<1>9. CASE FrameInvalid
  BY <1>9 DEF FrameInvalid
<1>10. CASE CountFrame
  BY <1>10 DEF CountFrame
<1>11. CASE Submit
  BY <1>11 DEF Submit
<1>12. CASE ConfigureBegin
  BY <1>12 DEF ConfigureBegin
<1>13. CASE ConfigureStreams
  BY <1>13, SetsUp DEF ConfigureStreams, SetUp
<1>14. CASE \E end \in BOOLEAN : Flush(end)
  BY <1>14 DEF Flush
<1>15. CASE FlushWaitEnds
  BY <1>15 DEF FlushWaitEnds
<1>16. CASE FlushOne
  <2>1. Head(reqs) \in Requests
    BY <1>16, HeadElem DEF FlushOne
  <2> QED
    BY <1>16, <2>1 DEF FlushOne
<1>17. CASE FlushEnd
  BY <1>17 DEF FlushEnd
<1>18. CASE FlushedOne
  BY <1>18 DEF FlushedOne
<1>19. CASE JoinOutput
  BY <1>19 DEF JoinOutput
<1>20. CASE Close
  BY <1>20, SetsUp DEF Close, SetUp
<1>21. CASE \E t \in Answerers : EnqueueFrame(t)
  BY <1>21 DEF EnqueueFrame, Goto
<1>22. CASE \E t \in Answerers : ReturnFrame(t)
  BY <1>22 DEF ReturnFrame, Goto, Waiting
<1>23. CASE \E t \in Answerers : NotifyShutter(t)
  BY <1>23 DEF NotifyShutter, Goto
<1>24. CASE \E t \in Answerers : EraseInflight(t)
  BY <1>24 DEF EraseInflight, Goto
<1>25. CASE \E t \in Answerers : InvokeCallback(t)
  BY <1>25 DEF InvokeCallback, Goto
<1>26. CASE \E t \in Answerers : CallbackTimesOut(t)
  BY <1>26 DEF CallbackTimesOut, Goto
<1>27. CASE \E t \in Answerers : CallbackReturns(t)
  BY <1>27 DEF CallbackReturns, Goto
<1>28. CASE FormatTake
  <2>1. Head(fmtList) \in Requests
    BY <1>28, HeadElem DEF FormatTake
  <2> QED
    BY <1>28, <2>1 DEF FormatTake
<1>29. CASE FormatSubmit
  BY <1>29 DEF FormatSubmit, NextRound
<1>30. CASE FormatExit
  BY <1>30 DEF FormatExit
<1>31. CASE OutputTake
  <2>1. Head(outList) \in Requests
    BY <1>31, HeadElem DEF OutputTake
  <2> QED
    BY <1>31, <2>1 DEF OutputTake
<1>32. CASE OutputAnswer
  BY <1>32 DEF OutputAnswer
<1>33. CASE OutputDone
  BY <1>33 DEF OutputDone, NextRound
<1>34. CASE OutputDeviceError
  BY <1>34 DEF OutputDeviceError
<1>35. CASE OutputForgets
  BY <1>35 DEF OutputForgets, NextRound
<1>36. CASE OutputExit
  BY <1>36 DEF OutputExit
<1>37. CASE UNCHANGED vars
  BY <1>37
<1> QED
  BY <1>1, <1>2, <1>3, <1>4, <1>5, <1>6, <1>7, <1>8, <1>9, <1>10, <1>11, <1>12, <1>13, <1>14,
     <1>15, <1>16, <1>17, <1>18, <1>19, <1>20, <1>21, <1>22, <1>23, <1>24, <1>25, <1>26, <1>27,
     <1>28, <1>29, <1>30, <1>31, <1>32, <1>33, <1>34, <1>35, <1>36, <1>37 DEF Next, Call,
     Answer, FormatThread, OutputThread

\* The count covers the frames held: every step that takes a request out of one
\* place puts it in at most one other, and the count falls with the last.
LEMMA NextCovered == IInv /\ [Next]_vars => Covered'
<1> SUFFICES ASSUME IInv, [Next]_vars PROVE Covered'
  OBVIOUS
<1> USE SessionBounds DEF IInv, TypeOK, Lists, Places, Counters, Threads, Covered, FramesInUse,
           HoldsFrame, Bit, Streaming
<1>1. CASE \E f \in Fps : ProcessCaptureRequest(f)
  BY <1>1 DEF ProcessCaptureRequest
<1>2. CASE DrainWait
  BY <1>2 DEF DrainWait
<1>3. CASE Reconfigure
  BY <1>3, SetsUp DEF Reconfigure, SetUp
<1>4. CASE BufferReturned
  BY <1>4 DEF BufferReturned, AfterWait, Waiting
<1>5. CASE SpuriousReturn
  BY <1>5 DEF SpuriousReturn, AfterWait, Waiting
<1>6. CASE RequestFails
  BY <1>6 DEF RequestFails, Waiting
<1>7. CASE Import
  BY <1>7 DEF Import
<1>8. CASE DequeueFrame
  BY <1>8 DEF DequeueFrame
<1>9. CASE FrameInvalid
  BY <1>9 DEF FrameInvalid
<1>10. CASE CountFrame
  BY <1>10 DEF CountFrame
<1>11. CASE Submit
  BY <1>11 DEF Submit
<1>12. CASE ConfigureBegin
  BY <1>12 DEF ConfigureBegin
<1>13. CASE ConfigureStreams
  BY <1>13, SetsUp DEF ConfigureStreams, SetUp
<1>14. CASE \E end \in BOOLEAN : Flush(end)
  BY <1>14 DEF Flush
<1>15. CASE FlushWaitEnds
  BY <1>15 DEF FlushWaitEnds
<1>16. CASE FlushOne
  BY <1>16 DEF FlushOne
<1>17. CASE FlushEnd
  BY <1>17 DEF FlushEnd
<1>18. CASE FlushedOne
  BY <1>18 DEF FlushedOne
<1>19. CASE JoinOutput
  BY <1>19 DEF JoinOutput
<1>20. CASE Close
  BY <1>20, SetsUp DEF Close, SetUp
<1>21. CASE \E t \in Answerers : EnqueueFrame(t)
  BY <1>21 DEF EnqueueFrame, Goto
<1>22. CASE \E t \in Answerers : ReturnFrame(t)
  BY <1>22 DEF ReturnFrame, Goto, Waiting
<1>23. CASE \E t \in Answerers : NotifyShutter(t)
  BY <1>23 DEF NotifyShutter, Goto
<1>24. CASE \E t \in Answerers : EraseInflight(t)
  BY <1>24 DEF EraseInflight, Goto
<1>25. CASE \E t \in Answerers : InvokeCallback(t)
  BY <1>25 DEF InvokeCallback, Goto
<1>26. CASE \E t \in Answerers : CallbackTimesOut(t)
  BY <1>26 DEF CallbackTimesOut, Goto
<1>27. CASE \E t \in Answerers : CallbackReturns(t)
  BY <1>27 DEF CallbackReturns, Goto
<1>28. CASE FormatTake
  BY <1>28 DEF FormatTake
<1>29. CASE FormatSubmit
  BY <1>29 DEF FormatSubmit, NextRound
<1>30. CASE FormatExit
  BY <1>30 DEF FormatExit
<1>31. CASE OutputTake
  BY <1>31 DEF OutputTake
<1>32. CASE OutputAnswer
  BY <1>32 DEF OutputAnswer
<1>33. CASE OutputDone
  BY <1>33 DEF OutputDone, NextRound
<1>34. CASE OutputDeviceError
  BY <1>34 DEF OutputDeviceError
<1>35. CASE OutputForgets
  BY <1>35 DEF OutputForgets, NextRound
<1>36. CASE OutputExit
  BY <1>36 DEF OutputExit
<1>37. CASE UNCHANGED vars
  BY <1>37
<1> QED
  BY <1>1, <1>2, <1>3, <1>4, <1>5, <1>6, <1>7, <1>8, <1>9, <1>10, <1>11, <1>12, <1>13, <1>14,
     <1>15, <1>16, <1>17, <1>18, <1>19, <1>20, <1>21, <1>22, <1>23, <1>24, <1>25, <1>26, <1>27,
     <1>28, <1>29, <1>30, <1>31, <1>32, <1>33, <1>34, <1>35, <1>36, <1>37 DEF Next, Call,
     Answer, FormatThread, OutputThread

\* A stream is stopped only when the count is zero, and counting needs a stream.
LEMMA NextStreaming == IInv /\ [Next]_vars => Streaming'
<1> SUFFICES ASSUME IInv, [Next]_vars PROVE Streaming'
  OBVIOUS
<1> USE DEF IInv, TypeOK, Lists, Places, Counters, Streaming, Covered, FramesInUse, HoldsFrame, Bit
<1>1. CASE \E f \in Fps : ProcessCaptureRequest(f)
  BY <1>1 DEF ProcessCaptureRequest
<1>2. CASE DrainWait
  BY <1>2 DEF DrainWait
<1>3. CASE Reconfigure
  BY <1>3, SetsUp DEF Reconfigure, SetUp
<1>4. CASE BufferReturned
  BY <1>4 DEF BufferReturned, AfterWait, Waiting
<1>5. CASE SpuriousReturn
  BY <1>5 DEF SpuriousReturn, AfterWait, Waiting
<1>6. CASE RequestFails
  BY <1>6 DEF RequestFails, Waiting
<1>7. CASE Import
  BY <1>7 DEF Import
<1>8. CASE DequeueFrame
  BY <1>8 DEF DequeueFrame
<1>9. CASE FrameInvalid
  BY <1>9 DEF FrameInvalid
<1>10. CASE CountFrame
  BY <1>10 DEF CountFrame
<1>11. CASE Submit
  BY <1>11 DEF Submit
<1>12. CASE ConfigureBegin
  BY <1>12 DEF ConfigureBegin
<1>13. CASE ConfigureStreams
  BY <1>13, SetsUp DEF ConfigureStreams, SetUp
<1>14. CASE \E end \in BOOLEAN : Flush(end)
  BY <1>14 DEF Flush
<1>15. CASE FlushWaitEnds
  BY <1>15 DEF FlushWaitEnds
<1>16. CASE FlushOne
  BY <1>16 DEF FlushOne
<1>17. CASE FlushEnd
  BY <1>17 DEF FlushEnd
<1>18. CASE FlushedOne
  BY <1>18 DEF FlushedOne
<1>19. CASE JoinOutput
  BY <1>19 DEF JoinOutput
<1>20. CASE Close
  BY <1>20, SetsUp DEF Close, SetUp
<1>21. CASE \E t \in Answerers : EnqueueFrame(t)
  BY <1>21 DEF EnqueueFrame, Goto
<1>22. CASE \E t \in Answerers : ReturnFrame(t)
  BY <1>22 DEF ReturnFrame, Goto, Waiting
<1>23. CASE \E t \in Answerers : NotifyShutter(t)
  BY <1>23 DEF NotifyShutter, Goto
<1>24. CASE \E t \in Answerers : EraseInflight(t)
  BY <1>24 DEF EraseInflight, Goto
<1>25. CASE \E t \in Answerers : InvokeCallback(t)
  BY <1>25 DEF InvokeCallback, Goto
<1>26. CASE \E t \in Answerers : CallbackTimesOut(t)
  BY <1>26 DEF CallbackTimesOut, Goto
<1>27. CASE \E t \in Answerers : CallbackReturns(t)
  BY <1>27 DEF CallbackReturns, Goto
<1>28. CASE FormatTake
  BY <1>28 DEF FormatTake
<1>29. CASE FormatSubmit
  BY <1>29 DEF FormatSubmit, NextRound
<1>30. CASE FormatExit
  BY <1>30 DEF FormatExit
<1>31. CASE OutputTake
  BY <1>31 DEF OutputTake
<1>32. CASE OutputAnswer
  BY <1>32 DEF OutputAnswer
<1>33. CASE OutputDone
  BY <1>33 DEF OutputDone, NextRound
<1>34. CASE OutputDeviceError
  BY <1>34 DEF OutputDeviceError
<1>35. CASE OutputForgets
  BY <1>35 DEF OutputForgets, NextRound
<1>36. CASE OutputExit
  BY <1>36 DEF OutputExit
<1>37. CASE UNCHANGED vars
  BY <1>37
<1> QED
  BY <1>1, <1>2, <1>3, <1>4, <1>5, <1>6, <1>7, <1>8, <1>9, <1>10, <1>11, <1>12, <1>13, <1>14,
     <1>15, <1>16, <1>17, <1>18, <1>19, <1>20, <1>21, <1>22, <1>23, <1>24, <1>25, <1>26, <1>27,
     <1>28, <1>29, <1>30, <1>31, <1>32, <1>33, <1>34, <1>35, <1>36, <1>37 DEF Next, Call,
     Answer, FormatThread, OutputThread

\* Buffers are conserved; when the pool is replaced the count is zero, so by
\* Covered nobody is on the way to the driver.
LEMMA NextConservation == IInv /\ [Next]_vars => BufferConservation'
<1> SUFFICES ASSUME IInv, [Next]_vars PROVE BufferConservation'
  OBVIOUS
<1> USE SessionBounds DEF IInv, TypeOK, Lists, Places, Counters, BufferConservation, Covered,
           FramesInUse, HoldsFrame, Bit, Streaming, Threads, BufferCount
\* A new pool, the old one, or none, for a call that is not about to count.
<1>s. ASSUME SetUp, pc # "count", pc' # "count", UNCHANGED <<step, mNumDequeuedV4l2Buffers>>
      PROVE  BufferConservation'
  <2>1. CASE mNumDequeuedV4l2Buffers = 0 /\ queued' + leaked' = mV4L2BufferCount'
    <3>1. step["call"] # "return" /\ step["output"] # "return"
      BY <2>1
    <3>2. /\ queued' \in Nat /\ leaked' \in Nat /\ mNumDequeuedV4l2Buffers' = 0
          /\ step'["call"] # "return" /\ step'["output"] # "return" /\ pc' # "count"
      BY <1>s, <2>1, <3>1 DEF SetUp
    <3> QED
      BY <2>1, <3>2
  <2>2. CASE mV4L2BufferCount' = 0
    BY <2>2
  <2>3. CASE UNCHANGED <<mV4L2BufferCount, queued, leaked>>
    BY <1>s, <2>3
  <2> QED
    BY <1>s, <2>1, <2>2, <2>3 DEF SetUp
<1>1. CASE \E f \in Fps : ProcessCaptureRequest(f)
  BY <1>1 DEF ProcessCaptureRequest
<1>2. CASE DrainWait
  BY <1>2 DEF DrainWait
<1>3. CASE Reconfigure
  BY <1>3, SetsUp, <1>s DEF Reconfigure
<1>4. CASE BufferReturned
  BY <1>4 DEF BufferReturned, AfterWait, Waiting
<1>5. CASE SpuriousReturn
  BY <1>5 DEF SpuriousReturn, AfterWait, Waiting
<1>6. CASE RequestFails
  BY <1>6 DEF RequestFails, Waiting
<1>7. CASE Import
  BY <1>7 DEF Import
<1>8. CASE DequeueFrame
  BY <1>8 DEF DequeueFrame
<1>9. CASE FrameInvalid
  BY <1>9 DEF FrameInvalid
<1>10. CASE CountFrame
  BY <1>10 DEF CountFrame
<1>11. CASE Submit
  BY <1>11 DEF Submit
<1>12. CASE ConfigureBegin
  BY <1>12 DEF ConfigureBegin
<1>13. CASE ConfigureStreams
  BY <1>13, SetsUp, <1>s DEF ConfigureStreams
<1>14. CASE \E end \in BOOLEAN : Flush(end)
  BY <1>14 DEF Flush
<1>15. CASE FlushWaitEnds
  BY <1>15 DEF FlushWaitEnds
<1>16. CASE FlushOne
  BY <1>16 DEF FlushOne
<1>17. CASE FlushEnd
  BY <1>17 DEF FlushEnd
<1>18. CASE FlushedOne
  BY <1>18 DEF FlushedOne
<1>19. CASE JoinOutput
  BY <1>19 DEF JoinOutput
<1>20. CASE Close
  BY <1>20, SetsUp, <1>s DEF Close
<1>21. CASE \E t \in Answerers : EnqueueFrame(t)
  <2>1. PICK t \in Answerers : EnqueueFrame(t)
    BY <1>21
  <2>2. pc' = pc /\ UNCHANGED <<mV4L2BufferCount, mNumDequeuedV4l2Buffers, leaked>>
    BY <2>1 DEF EnqueueFrame
  <2>3. CASE queued' = queued + 1 /\ Goto(t, "return")
    <3>1. queued' = queued + 1 /\ step' = [step EXCEPT ![t] = "return"] /\ step[t] = "enqueue"
      BY <2>1, <2>3 DEF EnqueueFrame, Goto
    <3> QED
      BY <2>2, <3>1
  <2>4. CASE queued' = queued /\ Goto(t, "notify")
    <3>1. queued' = queued /\ step' = [step EXCEPT ![t] = "notify"] /\ step[t] = "enqueue"
      BY <2>1, <2>4 DEF EnqueueFrame, Goto
    <3> QED
      BY <2>2, <3>1
  <2> QED
    BY <2>1, <2>3, <2>4 DEF EnqueueFrame
<1>22. CASE \E t \in Answerers : ReturnFrame(t)
  BY <1>22 DEF ReturnFrame, Goto, Waiting
<1>23. CASE \E t \in Answerers : NotifyShutter(t)
  BY <1>23 DEF NotifyShutter, Goto
<1>24. CASE \E t \in Answerers : EraseInflight(t)
  BY <1>24 DEF EraseInflight, Goto
<1>25. CASE \E t \in Answerers : InvokeCallback(t)
  BY <1>25 DEF InvokeCallback, Goto
<1>26. CASE \E t \in Answerers : CallbackTimesOut(t)
  BY <1>26 DEF CallbackTimesOut, Goto
<1>27. CASE \E t \in Answerers : CallbackReturns(t)
  BY <1>27 DEF CallbackReturns, Goto
<1>28. CASE FormatTake
  BY <1>28 DEF FormatTake
<1>29. CASE FormatSubmit
  BY <1>29 DEF FormatSubmit, NextRound
<1>30. CASE FormatExit
  BY <1>30 DEF FormatExit
<1>31. CASE OutputTake
  BY <1>31 DEF OutputTake
<1>32. CASE OutputAnswer
  BY <1>32 DEF OutputAnswer
<1>33. CASE OutputDone
  BY <1>33 DEF OutputDone, NextRound
<1>34. CASE OutputDeviceError
  BY <1>34 DEF OutputDeviceError
<1>35. CASE OutputForgets
  BY <1>35 DEF OutputForgets, NextRound
<1>36. CASE OutputExit
  BY <1>36 DEF OutputExit
<1>37. CASE UNCHANGED vars
  BY <1>37
<1> QED
  BY <1>1, <1>2, <1>3, <1>4, <1>5, <1>6, <1>7, <1>8, <1>9, <1>10, <1>11, <1>12, <1>13, <1>14,
     <1>15, <1>16, <1>17, <1>18, <1>19, <1>20, <1>21, <1>22, <1>23, <1>24, <1>25, <1>26, <1>27,
     <1>28, <1>29, <1>30, <1>31, <1>32, <1>33, <1>34, <1>35, <1>36, <1>37 DEF Next, Call,
     Answer, FormatThread, OutputThread

\* The inductive invariant holds in every reachable state.
THEOREM Invariance == Spec => []IInv
<1>1. IInv /\ [Next]_vars => IInv'
  BY NextFlags, NextCounters, NextPlaces, NextLists, NextThreads, NextCovered, NextStreaming,
     NextConservation DEF IInv, TypeOK
<1> QED
  BY InitIInv, <1>1, PTL DEF Spec

\* Every variable keeps its type, for every pool size and number of requests; in
\* particular mNumDequeuedV4l2Buffers, a size_t, never goes below zero.
THEOREM TypeCorrectness == Spec => []TypeOK
<1>1. IInv => TypeOK
  BY DEF IInv
<1> QED
  BY Invariance, <1>1, PTL

\* mNumDequeuedV4l2Buffers covers every frame that a request still holds.
THEOREM Held == Spec => []FramesHeld
<1>1. IInv => FramesHeld
  BY DEF IInv, Streaming, FramesHeld
<1> QED
  BY Invariance, <1>1, PTL

\* No V4L2 buffer is created or lost unaccounted between driver and session.
THEOREM Conservation == Spec => []BufferConservation
<1>1. IInv => BufferConservation
  BY DEF IInv
<1> QED
  BY Invariance, <1>1, PTL

\* After close has returned no callback is made and no frame is queued.
THEOREM ClosedIsQuiet == Spec => QuietAfterClose
<1>1. IInv /\ [Next]_vars => [mClosed => UNCHANGED <<shutters, results, queued, mInflightFrames>>]_vars
  <2> SUFFICES ASSUME IInv, [Next]_vars, mClosed
               PROVE  UNCHANGED <<shutters, results, queued, mInflightFrames>>
    OBVIOUS
  <2>1. /\ pc = "idle" /\ outPc = "exited" /\ fmtPc = "exited"
        /\ \A t \in Answerers : step[t] = "none"
    BY DEF IInv, Threads
  <2>2. CASE Call
    BY <2>1, <2>2 DEF Call, ProcessCaptureRequest, DrainWait, Reconfigure, BufferReturned,
       SpuriousReturn, RequestFails, Waiting, Import, DequeueFrame, FrameInvalid, CountFrame,
       Submit, ConfigureBegin, ConfigureStreams, Flush, FlushWaitEnds, FlushOne, FlushEnd,
       FlushedOne, JoinOutput, Close
  <2>3. CASE \E t \in Answerers : Answer(t)
    BY <2>1, <2>3 DEF Answer, EnqueueFrame, ReturnFrame, NotifyShutter, EraseInflight,
       InvokeCallback, CallbackTimesOut, CallbackReturns
  <2>4. CASE FormatThread
    BY <2>1, <2>4 DEF FormatThread, FormatTake, FormatSubmit, FormatExit
  <2>5. CASE OutputThread
    BY <2>1, <2>5 DEF OutputThread, OutputTake, OutputAnswer, OutputDone, OutputDeviceError,
       OutputForgets, OutputExit
    <2>6. CASE UNCHANGED vars
    BY <2>6
  <2> QED
    BY <2>2, <2>3, <2>4, <2>5, <2>6 DEF Next
<1> QED
  BY Invariance, <1>1, PTL DEF Spec, QuietAfterClose

-----------------------------------------------------------------------------
(* Lists and their elements.                                               *)

Increasing(s) == \A i, j \in DOMAIN s : i < j => s[i] < s[j]
Distinct(s)   == \A i, j \in DOMAIN s : s[i] = s[j] => i = j
Before(A, B)  == \A a \in A, b \in B : a < b

LEMMA ElemsEmpty == Elems(<<>>) = {}
BY DEF Elems

LEMMA ElemsOf == ASSUME NEW S, NEW s \in Seq(S) PROVE Elems(s) \subseteq S
BY DEF Elems

LEMMA ElemsAppend ==
    ASSUME NEW s \in Seq(Requests), NEW x \in Requests
    PROVE  Elems(Append(s, x)) = Elems(s) \cup {x}
<1> DEFINE t == Append(s, x)
<1>1. /\ Len(t) = Len(s) + 1 /\ DOMAIN t = 1 .. Len(s) + 1 /\ DOMAIN s = 1 .. Len(s)
      /\ Len(s) \in Nat /\ t[Len(s) + 1] = x /\ \A i \in 1 .. Len(s) : t[i] = s[i]
  OBVIOUS
<1>2. DOMAIN t = DOMAIN s \cup {Len(s) + 1}
  BY <1>1
<1> HIDE DEF t
<1> QED
  BY <1>1, <1>2 DEF Elems

LEMMA ElemsTail ==
    ASSUME NEW s \in Seq(Requests), s # <<>>
    PROVE  Elems(s) = {Head(s)} \cup Elems(Tail(s))
<1> DEFINE t == Tail(s)
<1>1. /\ DOMAIN t = 1 .. Len(s) - 1 /\ DOMAIN s = 1 .. Len(s)
      /\ Len(s) \in Nat \ {0} /\ Head(s) = s[1] /\ \A i \in 1 .. Len(s) - 1 : t[i] = s[i + 1]
  OBVIOUS
<1>2. ASSUME NEW x \in Elems(s) PROVE x = Head(s) \/ x \in Elems(t)
  <2>1. PICK i \in DOMAIN s : x = s[i]
    BY DEF Elems
  <2>2. CASE i = 1
    BY <1>1, <2>1, <2>2
  <2>3. CASE i # 1
    <3>1. i - 1 \in DOMAIN t /\ t[i - 1] = s[i]
      BY <1>1, <2>3
    <3> QED
      BY <2>1, <3>1 DEF Elems
  <2> QED
    BY <2>2, <2>3
<1>3. ASSUME NEW x \in Elems(t) PROVE x \in Elems(s)
  <2>1. PICK i \in DOMAIN t : x = t[i]
    BY DEF Elems
  <2>2. i + 1 \in DOMAIN s /\ s[i + 1] = t[i]
    BY <1>1
  <2> QED
    BY <2>1, <2>2 DEF Elems
<1>4. Head(s) \in Elems(s)
  BY <1>1 DEF Elems
<1> QED
  BY <1>2, <1>3, <1>4

LEMMA IncreasingAppend ==
    ASSUME NEW s \in Seq(Nat), NEW x \in Nat, Increasing(s), Before(Elems(s), {x})
    PROVE  Increasing(Append(s, x))
BY DEF Increasing, Before, Elems

LEMMA IncreasingTail ==
    ASSUME NEW s \in Seq(Nat), s # <<>>, Increasing(s)
    PROVE  Increasing(Tail(s)) /\ Before({Head(s)}, Elems(Tail(s)))
<1> DEFINE t == Tail(s)
<1>1. /\ DOMAIN t = 1 .. Len(s) - 1 /\ DOMAIN s = 1 .. Len(s)
      /\ Len(s) \in Nat \ {0} /\ Head(s) = s[1] /\ \A i \in 1 .. Len(s) - 1 : t[i] = s[i + 1]
  OBVIOUS
<1> HIDE DEF t
<1>2. ASSUME NEW i \in DOMAIN t, NEW j \in DOMAIN t, i < j PROVE t[i] < t[j]
  <2>1. i + 1 \in DOMAIN s /\ j + 1 \in DOMAIN s /\ i + 1 < j + 1
    BY <1>1, <1>2
  <2> QED
    BY <1>1, <2>1 DEF Increasing
<1>3. ASSUME NEW i \in DOMAIN t PROVE Head(s) < t[i]
  <2>1. 1 \in DOMAIN s /\ i + 1 \in DOMAIN s /\ 1 < i + 1
    BY <1>1
  <2> QED
    BY <1>1, <2>1 DEF Increasing
<1> QED
  BY <1>2, <1>3 DEF Before, Elems, Increasing, t

LEMMA DistinctAppend ==
    ASSUME NEW s \in Seq(Requests), NEW x \in Requests, Distinct(s), x \notin Elems(s)
    PROVE  Distinct(Append(s, x))
BY DEF Distinct, Elems

-----------------------------------------------------------------------------
(* The inductive invariant.                                                *)

\* The request FormatConvertThread has in hand.
Converting == IF fmtPc = "convert" THEN {fmtReq} ELSE {}

\* The requests OutputThread and flush have in hand or have answered.
Old == Elems(shutters) \cup Elems(results) \cup Elems(reqs) \cup {req["call"], req["output"]}

\* The pipeline is in frame order, from its end to the call in progress.
PipelineOrder ==
    /\ Increasing(fmtList) /\ Increasing(outList) /\ Increasing(reqs)
    /\ Before(Old, Elems(outList)) /\ Before(Old, Converting) /\ Before(Old, Elems(fmtList))
    /\ Before(Elems(outList), Converting) /\ Before(Elems(outList), Elems(fmtList))
    /\ Before(Converting, Elems(fmtList))
    /\ \A x \in Old \cup Elems(outList) \cup Converting \cup Elems(fmtList) :
         x <= cur /\ (pc \in Preparing => x < cur)

\* The requests of flush, of its list and of OutputThread are different ones,
\* and none of them has had its shutter notification yet.
Apart ==
    /\ \A t \in Answerers : req[t] \notin Elems(reqs)
    /\ req["call"] = req["output"] => req["call"] = None
    /\ Elems(reqs) \cap Elems(shutters) = {}
    /\ \A t \in Answerers :
         step[t] \in {"enqueue", "return", "notify"} => req[t] \notin Elems(shutters)
    /\ outPc = "convert" => req["output"] \notin Elems(shutters)

\* Only OutputThread sends metadata, and what it has in hand is newer than all
\* it has sent.
Metadata ==
    /\ step["call"] # "none" => kind["call"] = "error"
    /\ (outPc = "convert" \/ step["output"] \in {"enqueue", "return", "notify", "erase", "invoke"})
          => Before(Elems(results), {req["output"]})

\* mInflightFrames names every request that still uses its buffers.
Inflight ==
    /\ Pending \subseteq mInflightFrames
    /\ pc = "configure" => mInflightFrames = {}

OInv == /\ PipelineOrder /\ Apart /\ Metadata /\ Inflight
        /\ AnsweredOnce /\ ResultsInOrder

\* What is in the lists is a request, and a number.
LEMMA InLists ==
    ASSUME IInv
    PROVE  /\ Elems(fmtList) \subseteq Requests /\ Elems(outList) \subseteq Requests
           /\ Elems(reqs) \subseteq Requests /\ Elems(shutters) \subseteq Requests
           /\ Elems(results) \subseteq Requests /\ Converting \subseteq Requests
           /\ req["call"] \in 0 .. MaxRequests /\ req["output"] \in 0 .. MaxRequests
           /\ cur \in 0 .. MaxRequests /\ MaxRequests \in Nat
           /\ Old \subseteq 0 .. MaxRequests
           /\ fmtList \in Seq(Nat) /\ outList \in Seq(Nat) /\ reqs \in Seq(Nat)
           /\ shutters \in Seq(Nat) /\ results \in Seq(Nat)
<1>1. /\ Elems(fmtList) \subseteq Requests /\ Elems(outList) \subseteq Requests
      /\ Elems(reqs) \subseteq Requests /\ Elems(shutters) \subseteq Requests
      /\ Elems(results) \subseteq Requests
  BY ElemsOf DEF IInv, TypeOK, Lists
<1>2. Converting \subseteq Requests
  BY DEF IInv, TypeOK, Lists, Threads, Converting
<1>3. /\ req["call"] \in 0 .. MaxRequests /\ req["output"] \in 0 .. MaxRequests
      /\ cur \in 0 .. MaxRequests /\ MaxRequests \in Nat
  BY SessionBounds DEF IInv, TypeOK, Lists, Counters
<1>4. Old \subseteq 0 .. MaxRequests
  BY <1>1, <1>3 DEF Old
<1>5. /\ fmtList \in Seq(Nat) /\ outList \in Seq(Nat) /\ reqs \in Seq(Nat)
      /\ shutters \in Seq(Nat) /\ results \in Seq(Nat)
  BY SessionBounds DEF IInv, TypeOK, Lists
<1> QED
  BY <1>1, <1>2, <1>3, <1>4, <1>5

\* A new session has no request anywhere.
LEMMA InitOInv == Init => OInv
<1> SUFFICES ASSUME Init PROVE OInv
  OBVIOUS
<1> USE ElemsEmpty DEF Init
<1>1. Converting = {} /\ Old = {0}
  BY DEF Converting, Old
<1>2. PipelineOrder
  BY <1>1 DEF PipelineOrder, Increasing, Before, Preparing
<1>3. Apart /\ Metadata
  BY DEF Apart, Metadata
<1>4. Inflight
  BY DEF Inflight, Pending, Answering
<1>5. AnsweredOnce /\ ResultsInOrder
  BY DEF AnsweredOnce, ResultsInOrder
<1> QED
  BY <1>2, <1>3, <1>4, <1>5 DEF OInv

-----------------------------------------------------------------------------
(* What a step may do to the pipeline.                                     *)

\* A step that moves no request.
Still ==
    /\ UNCHANGED <<cur, fmtList, fmtReq, outList, reqs, step, req, kind, shutters, results,
                   mInflightFrames>>
    /\ (fmtPc = "convert") = (fmtPc' = "convert") /\ (outPc = "convert") = (outPc' = "convert")
    /\ pc' \in Preparing => pc \in Preparing
    /\ pc' = "configure" => pc = "configure"

LEMMA Steps ==
    [Next]_vars => \/ Still
                   \/ \E f \in Fps : ProcessCaptureRequest(f)
                   \/ Submit \/ ConfigureBegin
                   \/ \E end \in BOOLEAN : Flush(end)
                   \/ FlushOne \/ FlushedOne
                   \/ \E t \in Answerers : Answer(t)
                   \/ FormatTake \/ FormatSubmit
                   \/ OutputTake \/ OutputAnswer \/ OutputDone \/ OutputDeviceError
                   \/ OutputForgets
<1> USE DEF Still, Preparing
<1>1. CASE DrainWait
  BY <1>1 DEF DrainWait
<1>2. CASE Reconfigure
  BY <1>2 DEF Reconfigure
<1>3. CASE BufferReturned \/ SpuriousReturn
  BY <1>3 DEF BufferReturned, SpuriousReturn, AfterWait, Waiting
<1>4. CASE RequestFails
  BY <1>4 DEF RequestFails
<1>5. CASE Import \/ DequeueFrame \/ FrameInvalid \/ CountFrame
  BY <1>5 DEF Import, DequeueFrame, FrameInvalid, CountFrame
<1>6. CASE ConfigureStreams
  BY <1>6 DEF ConfigureStreams
<1>7. CASE FlushWaitEnds \/ FlushEnd
  BY <1>7 DEF FlushWaitEnds, FlushEnd
<1>8. CASE JoinOutput \/ Close
  BY <1>8 DEF JoinOutput, Close
<1>9. CASE FormatExit \/ OutputExit
  BY <1>9 DEF FormatExit, OutputExit
<1>10. CASE UNCHANGED vars
  BY <1>10
<1> QED
  BY <1>1, <1>2, <1>3, <1>4, <1>5, <1>6, <1>7, <1>8, <1>9, <1>10
     DEF Next, Call, FormatThread, OutputThread

\* The pipeline stays in frame order.
LEMMA NextPipelineOrder == IInv /\ IInv' /\ OInv /\ [Next]_vars => PipelineOrder'
<1> SUFFICES ASSUME IInv, IInv', OInv, [Next]_vars PROVE PipelineOrder'
  OBVIOUS
<1>0. PipelineOrder
  BY DEF OInv
<1>t. /\ Elems(fmtList) \subseteq Requests /\ Elems(outList) \subseteq Requests
      /\ Elems(reqs) \subseteq Requests /\ Converting \subseteq Requests
      /\ cur \in 0 .. MaxRequests /\ MaxRequests \in Nat
      /\ Old \subseteq 0 .. MaxRequests
      /\ fmtList \in Seq(Nat) /\ outList \in Seq(Nat) /\ reqs \in Seq(Nat)
      /\ fmtList \in Seq(Requests) /\ outList \in Seq(Requests) /\ reqs \in Seq(Requests)
      /\ shutters \in Seq(Requests) /\ results \in Seq(Requests)
      /\ req \in [Answerers -> Requests \cup {None}]
  BY InLists DEF IInv, TypeOK, Lists
\* What OutputThread and flush have may shrink, or move to the callbacks.
<1>1. CASE /\ Old' \subseteq Old \cup {None} /\ Increasing(reqs')
           /\ UNCHANGED <<cur, fmtList, outList, Converting>>
           /\ pc' \in Preparing => pc \in Preparing
  <2>1. /\ Elems(fmtList') = Elems(fmtList) /\ Elems(outList') = Elems(outList)
        /\ Converting' = Converting /\ cur' = cur
        /\ Increasing(fmtList') /\ Increasing(outList')
    BY <1>0, <1>1 DEF PipelineOrder
  <2>2. \A x \in Old' : x \in Old \/ x = 0
    BY <1>1
  <2>3. /\ Before(Old', Elems(outList)) /\ Before(Old', Converting)
        /\ Before(Old', Elems(fmtList))
    <3>1. \A y \in Elems(outList) \cup Converting \cup Elems(fmtList) : 0 < y
      <4>1. Elems(outList) \cup Converting \cup Elems(fmtList) \subseteq 1 .. MaxRequests
        BY <1>t
      <4> QED
        BY <4>1
    <3>2. Before(Old, Elems(outList)) /\ Before(Old, Converting) /\ Before(Old, Elems(fmtList))
      BY <1>0 DEF PipelineOrder
    <3> QED
      BY <2>2, <3>1, <3>2 DEF Before
  <2>4. pc' \in Preparing => cur # 0
    BY <1>1 DEF IInv, Threads
  <2>5. \A x \in Old' : x <= cur /\ (pc' \in Preparing => x < cur)
    BY <1>0, <1>1, <1>t, <2>2, <2>4 DEF PipelineOrder
  <2> QED
    BY <1>0, <1>1, <2>1, <2>3, <2>5 DEF PipelineOrder
<1>2. CASE Still
  <2>1. Old' = Old /\ Converting' = Converting
    BY <1>2 DEF Still, Old, Converting
  <2> QED
    BY <1>0, <1>1, <1>2, <2>1 DEF Still, PipelineOrder
<1>3. CASE \E f \in Fps : ProcessCaptureRequest(f)
  <2>1. /\ cur' = cur + 1 /\ UNCHANGED <<fmtList, outList, reqs>>
        /\ Old' = Old /\ Converting' = Converting
    BY <1>3 DEF ProcessCaptureRequest, Old, Converting
  <2> QED
    BY <1>0, <2>1, <1>t DEF PipelineOrder, Before
<1>4. CASE Submit
  <2>1. /\ cur \in Requests /\ pc \in Preparing /\ pc' \notin Preparing /\ cur' = cur
        /\ UNCHANGED <<outList, reqs>> /\ fmtList' = Append(fmtList, cur)
        /\ Old' = Old /\ Converting' = Converting
    BY <1>4, <1>t DEF Submit, Old, Converting, Preparing, IInv, Threads
  <2>2. Elems(fmtList') = Elems(fmtList) \cup {cur}
    BY <2>1, <1>t, ElemsAppend
  <2>3. Before(Elems(fmtList), {cur})
    BY <1>0, <2>1 DEF PipelineOrder, Before
  <2>4. Increasing(fmtList')
    BY <1>0, <1>t, <2>1, <2>3, IncreasingAppend DEF PipelineOrder
  <2> QED
    BY <1>0, <1>t, <2>1, <2>2, <2>4 DEF PipelineOrder, Before
<1>5. CASE ConfigureBegin
  <2>1. Old' = Old /\ Converting' = Converting
    BY <1>5 DEF ConfigureBegin, Old, Converting
  <2> QED
    BY <1>0, <1>1, <1>5, <2>1 DEF ConfigureBegin, PipelineOrder, Preparing
<1>6. CASE \E end \in BOOLEAN : Flush(end)
  <2>1. /\ reqs' = outList /\ outList' = <<>> /\ UNCHANGED <<cur, fmtList>>
        /\ Converting' = Converting /\ Old' \subseteq Old \cup Elems(outList)
        /\ pc' \notin Preparing
    BY <1>6 DEF Flush, Old, Converting, Preparing
  <2>2. Elems(outList') = {} /\ Increasing(outList')
    BY <2>1, ElemsEmpty DEF Increasing
  <2> QED
    BY <1>0, <1>t, <2>1, <2>2 DEF PipelineOrder, Before
<1>7. CASE FlushOne
  <2>1. /\ reqs # <<>> /\ reqs' = Tail(reqs) /\ req' = [req EXCEPT !["call"] = Head(reqs)]
        /\ UNCHANGED <<cur, fmtList, outList, shutters, results, pc>> /\ Converting' = Converting
    BY <1>7 DEF FlushOne, Converting
  <2>2. Elems(reqs) = {Head(reqs)} \cup Elems(reqs')
    BY <2>1, <1>t, ElemsTail
  <2>3. Increasing(reqs')
    BY <1>0, <1>t, <2>1, IncreasingTail DEF PipelineOrder
  <2>4. Old' \subseteq Old \cup {None}
    BY <1>t, <2>1, <2>2 DEF Old
  <2> QED
    BY <1>1, <2>1, <2>3, <2>4
<1>8. CASE FlushedOne \/ OutputDone \/ OutputDeviceError \/ OutputForgets
  <2>1. /\ req' \in {[req EXCEPT ![t] = None] : t \in Answerers}
        /\ UNCHANGED <<cur, fmtList, outList, reqs, shutters, results, pc>>
        /\ Converting' = Converting
    BY <1>8 DEF FlushedOne, OutputDone, OutputDeviceError, OutputForgets, Converting
  <2>2. Old' \subseteq Old \cup {None}
    BY <1>t, <2>1 DEF Old
  <2> QED
    BY <1>0, <1>1, <2>1, <2>2 DEF PipelineOrder
<1>9. CASE \E t \in Answerers : Answer(t)
  <2>1. PICK t \in Answerers : Answer(t)
    BY <1>9
  <2>2. /\ shutters' \in {shutters, Append(shutters, req[t])}
        /\ results' \in {results, Append(results, req[t])}
        /\ shutters' = Append(shutters, req[t]) \/ results' = Append(results, req[t])
             => step[t] # "none"
        /\ UNCHANGED <<cur, fmtList, outList, reqs, req, pc>> /\ Converting' = Converting
    BY <2>1 DEF Answer, EnqueueFrame, ReturnFrame, NotifyShutter, EraseInflight,
       InvokeCallback, CallbackTimesOut, CallbackReturns, Goto, Converting
  <2>3. step[t] # "none" => req[t] \in Requests
    BY <2>1, <1>t DEF IInv, Threads
  <2>4. /\ Elems(shutters') \subseteq Elems(shutters) \cup {req[t]}
        /\ Elems(results') \subseteq Elems(results) \cup {req[t]}
    <3>1. CASE step[t] # "none"
      <4>1. /\ Elems(Append(shutters, req[t])) = Elems(shutters) \cup {req[t]}
            /\ Elems(Append(results, req[t])) = Elems(results) \cup {req[t]}
        BY <1>t, <2>3, <3>1, ElemsAppend
      <4> QED
        BY <2>2, <4>1
    <3>2. CASE step[t] = "none"
      BY <2>2, <3>2
    <3> QED
      BY <3>1, <3>2
  <2>5. Old' \subseteq Old
    BY <2>2, <2>4 DEF Old
  <2> QED
    BY <1>0, <1>1, <2>2, <2>5 DEF PipelineOrder
<1>10. CASE FormatTake
  <2>1. /\ fmtList # <<>> /\ fmtList' = Tail(fmtList)
        /\ Converting = {} /\ Converting' = {Head(fmtList)}
        /\ UNCHANGED <<cur, outList, reqs, pc>> /\ Old' = Old
    BY <1>10 DEF FormatTake, Converting, Old
  <2>2. Elems(fmtList) = {Head(fmtList)} \cup Elems(fmtList')
    BY <2>1, <1>t, ElemsTail
  <2>3. Increasing(fmtList') /\ Before({Head(fmtList)}, Elems(fmtList'))
    BY <1>0, <1>t, <2>1, IncreasingTail DEF PipelineOrder
  <2> QED
    BY <1>0, <1>t, <2>1, <2>2, <2>3 DEF PipelineOrder, Before
<1>11. CASE FormatSubmit
  <2>1. /\ outList' = Append(outList, fmtReq) /\ fmtReq \in Requests
        /\ Converting = {fmtReq} /\ Converting' = {}
        /\ UNCHANGED <<cur, fmtList, reqs, pc>> /\ Old' = Old
    BY <1>11, <1>t DEF FormatSubmit, Converting, Old, NextRound
  <2>2. Elems(outList') = Elems(outList) \cup {fmtReq}
    BY <2>1, <1>t, ElemsAppend
  <2>3. Increasing(outList')
    BY <1>0, <1>t, <2>1, IncreasingAppend DEF PipelineOrder
  <2> QED
    BY <1>0, <1>t, <2>1, <2>2, <2>3 DEF PipelineOrder, Before
<1>12. CASE OutputTake
  <2>1. /\ outList # <<>> /\ outList' = Tail(outList)
        /\ req' = [req EXCEPT !["output"] = Head(outList)]
        /\ UNCHANGED <<cur, fmtList, reqs, shutters, results, pc>> /\ Converting' = Converting
    BY <1>12 DEF OutputTake, Converting
  <2>2. Elems(outList) = {Head(outList)} \cup Elems(outList')
    BY <2>1, <1>t, ElemsTail
  <2>3. Increasing(outList') /\ Before({Head(outList)}, Elems(outList'))
    BY <1>0, <1>t, <2>1, IncreasingTail DEF PipelineOrder
  <2>4. Old' \subseteq Old \cup {Head(outList)}
    BY <1>t, <2>1 DEF Old
  <2> QED
    BY <1>0, <1>t, <2>1, <2>2, <2>3, <2>4 DEF PipelineOrder, Before
<1>13. CASE OutputAnswer
  <2>1. Old' = Old /\ Converting' = Converting
    BY <1>13 DEF OutputAnswer, Old, Converting
  <2> QED
    BY <1>0, <1>1, <1>13, <2>1 DEF OutputAnswer, PipelineOrder
<1> QED
  BY <1>2, <1>3, <1>4, <1>5, <1>6, <1>7, <1>8, <1>9, <1>10, <1>11, <1>12, <1>13, Steps

\* OutputThread and flush keep to different requests: flush takes OutputThread's
\* list and nothing else, and each takes the head of its list off the list.
LEMMA NextApart == IInv /\ OInv /\ [Next]_vars => Apart' /\ AnsweredOnce'
<1> SUFFICES ASSUME IInv, OInv, [Next]_vars PROVE Apart' /\ AnsweredOnce'
  OBVIOUS
<1>0. Apart /\ AnsweredOnce
  BY DEF OInv
<1>t. /\ Elems(outList) \subseteq Requests /\ Elems(reqs) \subseteq Requests
      /\ Elems(shutters) \subseteq Requests /\ Elems(shutters) \subseteq Old
      /\ Elems(reqs) \subseteq Old /\ req["call"] \in Old /\ req["output"] \in Old
      /\ Old \subseteq 0 .. MaxRequests /\ MaxRequests \in Nat
  BY InLists DEF Old
<1>s. /\ outList \in Seq(Requests) /\ reqs \in Seq(Requests) /\ shutters \in Seq(Requests)
      /\ reqs \in Seq(Nat) /\ outList \in Seq(Nat)
      /\ req \in [Answerers -> Requests \cup {None}]
      /\ step \in [Answerers -> {"none", "enqueue", "return", "notify", "erase", "invoke",
                                 "calling", "done"}]
  BY InLists DEF IInv, TypeOK, Lists, Places
<1>b. \A x \in Old, y \in Elems(outList) : x # y
  <2>1. Before(Old, Elems(outList))
    BY DEF OInv, PipelineOrder
  <2>2. Old \subseteq Int /\ Elems(outList) \subseteq Int
    BY <1>t
  <2> QED
    BY <2>1, <2>2 DEF Before
\* A step of an answerer that takes no request and notifies no shutter.
<1>1. CASE /\ UNCHANGED <<reqs, req, shutters>>
           /\ outPc' = "convert" => outPc = "convert"
           /\ \A t \in Answerers :
                step'[t] \in {"enqueue", "return", "notify"}
                  => \/ step[t] \in {"enqueue", "return", "notify"}
                     \/ t = "output" /\ outPc = "convert"
  BY <1>0, <1>1 DEF Apart, AnsweredOnce
<1>2. CASE Still
  BY <1>1, <1>2 DEF Still
<1>3. CASE \E f \in Fps : ProcessCaptureRequest(f)
  BY <1>1, <1>3 DEF ProcessCaptureRequest
<1>4. CASE Submit \/ ConfigureBegin
  BY <1>1, <1>4 DEF Submit, ConfigureBegin
<1>5. CASE \E end \in BOOLEAN : Flush(end)
  <2>1. reqs' = outList /\ UNCHANGED <<req, step, shutters, outPc>>
    BY <1>5 DEF Flush
  <2>2. \A t \in Answerers : req[t] \notin Elems(outList)
    BY <1>t, <1>b
  <2>3. Elems(outList) \cap Elems(shutters) = {}
    BY <1>t, <1>b
  <2> QED
    BY <1>0, <2>1, <2>2, <2>3 DEF Apart, AnsweredOnce
<1>6. CASE FlushOne
  <2>1. /\ reqs # <<>> /\ reqs' = Tail(reqs) /\ req' = [req EXCEPT !["call"] = Head(reqs)]
        /\ step' = [step EXCEPT !["call"] = "enqueue"] /\ UNCHANGED <<shutters, outPc>>
    BY <1>6 DEF FlushOne
  <2>2. Elems(reqs) = {Head(reqs)} \cup Elems(reqs')
    BY <2>1, <1>s, ElemsTail
  <2>3. Before({Head(reqs)}, Elems(reqs'))
    BY <1>s, <2>1, IncreasingTail DEF OInv, PipelineOrder
  <2>4. Head(reqs) \notin Elems(reqs')
    BY <1>t, <2>2, <2>3 DEF Before
  <2>5. /\ Head(reqs) # 0 /\ Head(reqs) # req["output"] /\ Head(reqs) \notin Elems(shutters)
        /\ req["output"] \notin Elems(reqs') /\ Elems(reqs') \cap Elems(shutters) = {}
    BY <1>0, <1>t, <2>2 DEF Apart
  <2>6. req'["call"] = Head(reqs) /\ req'["output"] = req["output"]
        /\ step'["output"] = step["output"]
    BY <1>s, <2>1
  <2> QED
    BY <1>0, <2>1, <2>4, <2>5, <2>6 DEF Apart, AnsweredOnce
<1>7. CASE FlushedOne \/ OutputDone
  <2>1. PICK t \in Answerers : /\ req' = [req EXCEPT ![t] = None]
                               /\ step' = [step EXCEPT ![t] = "none"]
                               /\ UNCHANGED <<reqs, shutters>>
                               /\ outPc' = "convert" => outPc = "convert" /\ t = "call"
    BY <1>7 DEF FlushedOne, OutputDone, NextRound
  <2> QED
    BY <1>0, <1>s, <1>t, <2>1 DEF Apart, AnsweredOnce
<1>8. CASE OutputDeviceError \/ OutputForgets
  <2>1. /\ req' = [req EXCEPT !["output"] = None] /\ UNCHANGED <<step, reqs, shutters>>
        /\ outPc = "convert" /\ outPc' # "convert"
    BY <1>8 DEF OutputDeviceError, OutputForgets, NextRound
  <2> QED
    BY <1>0, <1>s, <1>t, <2>1 DEF Apart, AnsweredOnce
<1>9. ASSUME NEW t \in Answerers, NotifyShutter(t) PROVE Apart' /\ AnsweredOnce'
  <2>1. /\ shutters' = Append(shutters, req[t]) /\ step' = [step EXCEPT ![t] = "erase"]
        /\ UNCHANGED <<reqs, req, outPc>> /\ step[t] = "notify"
    BY <1>9 DEF NotifyShutter, Goto
  <2>2. req[t] \in Requests /\ req[t] \notin Elems(shutters) /\ req[t] \notin Elems(reqs)
    BY <1>0, <1>s, <2>1 DEF Apart, IInv, Threads
  <2>3. Elems(shutters') = Elems(shutters) \cup {req[t]}
    BY <1>s, <2>1, <2>2, ElemsAppend
  <2>4. AnsweredOnce'
    BY <1>0, <1>s, <2>1, <2>2, DistinctAppend DEF AnsweredOnce, Distinct
  <2>5. \A u \in Answerers : u # t => req[u] # req[t]
    BY <1>0, <2>2 DEF Apart
  <2>6. t = "output" => outPc # "convert"
    BY <2>1 DEF IInv, Threads
  <2>7. \A u \in Answerers :
          step'[u] \in {"enqueue", "return", "notify"} => req[u] \notin Elems(shutters')
    BY <1>0, <1>s, <2>1, <2>3, <2>5 DEF Apart
  <2>8. outPc = "convert" => req["output"] \notin Elems(shutters')
    BY <1>0, <2>3, <2>5, <2>6 DEF Apart
  <2> QED
    BY <1>0, <2>1, <2>2, <2>3, <2>4, <2>7, <2>8 DEF Apart
<1>10. ASSUME NEW t \in Answerers, Answer(t), ~NotifyShutter(t) PROVE Apart' /\ AnsweredOnce'
  <2>1. /\ UNCHANGED <<reqs, req, shutters, outPc>>
        /\ \E p \in {"return", "notify", "erase", "invoke", "calling", "done"} :
             /\ step' = [step EXCEPT ![t] = p]
             /\ p \in {"return", "notify"} => step[t] \in {"enqueue", "return"}
    BY <1>10 DEF Answer, EnqueueFrame, ReturnFrame, EraseInflight,
       InvokeCallback, CallbackTimesOut, CallbackReturns, Goto
  <2> QED
    BY <1>1, <1>s, <2>1
<1>11. CASE FormatTake \/ FormatSubmit
  BY <1>1, <1>11 DEF FormatTake, FormatSubmit
<1>12. CASE OutputTake
  <2>1. /\ outList # <<>> /\ req' = [req EXCEPT !["output"] = Head(outList)]
        /\ UNCHANGED <<reqs, step, shutters>> /\ outPc = "wait"
    BY <1>12 DEF OutputTake
  <2>2. Elems(outList) = {Head(outList)} \cup Elems(Tail(outList))
    BY <2>1, <1>s, ElemsTail
  <2>3. /\ Head(outList) # req["call"] /\ Head(outList) \notin Elems(reqs)
        /\ Head(outList) \notin Elems(shutters)
    BY <1>t, <1>b, <2>2
  <2>4. step["output"] = "none"
    BY <2>1 DEF IInv, Threads
  <2>5. req'["output"] = Head(outList) /\ req'["call"] = req["call"]
    BY <1>s, <2>1
  <2> QED
    BY <1>0, <2>1, <2>3, <2>4, <2>5 DEF Apart, AnsweredOnce
<1>13. CASE OutputAnswer
  <2>1. /\ UNCHANGED <<reqs, req, shutters>> /\ step' = [step EXCEPT !["output"] = "enqueue"]
        /\ outPc = "convert" /\ outPc' = "answer"
    BY <1>13 DEF OutputAnswer
  <2> QED
    BY <1>1, <1>s, <2>1
<1> QED
  BY <1>2, <1>3, <1>4, <1>5, <1>6, <1>7, <1>8, <1>9, <1>10, <1>11, <1>12, <1>13, Steps

\* Metadata goes out in the order in which OutputThread took the requests.
LEMMA NextMetadata == IInv /\ OInv /\ [Next]_vars => Metadata' /\ ResultsInOrder'
<1> SUFFICES ASSUME IInv, OInv, [Next]_vars PROVE Metadata' /\ ResultsInOrder'
  OBVIOUS
<1>0. Metadata /\ ResultsInOrder
  BY DEF OInv
<1>s. /\ outList \in Seq(Requests) /\ results \in Seq(Requests) /\ results \in Seq(Nat)
      /\ req \in [Answerers -> Requests \cup {None}]
      /\ kind \in [Answerers -> {"result", "error"}]
      /\ step \in [Answerers -> {"none", "enqueue", "return", "notify", "erase", "invoke",
                                 "calling", "done"}]
      /\ MaxRequests \in Nat
  BY InLists DEF IInv, TypeOK, Lists, Places
<1> DEFINE InHand == \/ outPc = "convert"
                     \/ step["output"] \in {"enqueue", "return", "notify", "erase", "invoke"}
\* A step that sends no metadata and takes no request.
<1>1. CASE /\ results' = results
           /\ InHand' => InHand /\ req'["output"] = req["output"]
           /\ step'["call"] # "none" => step["call"] # "none" /\ kind'["call"] = kind["call"]
  BY <1>0, <1>1 DEF Metadata, ResultsInOrder
<1>2. CASE Still
  BY <1>1, <1>2 DEF Still
<1>3. CASE \E f \in Fps : ProcessCaptureRequest(f)
  BY <1>1, <1>3 DEF ProcessCaptureRequest
<1>4. CASE Submit \/ ConfigureBegin \/ \E end \in BOOLEAN : Flush(end)
  BY <1>1, <1>4 DEF Submit, ConfigureBegin, Flush
<1>5. CASE FlushOne
  <2>1. /\ kind' = [kind EXCEPT !["call"] = "error"] /\ step' = [step EXCEPT !["call"] = "enqueue"]
        /\ req' = [req EXCEPT !["call"] = Head(reqs)] /\ UNCHANGED <<results, outPc>>
    BY <1>5 DEF FlushOne
  <2>2. /\ kind'["call"] = "error" /\ step'["output"] = step["output"]
        /\ req'["output"] = req["output"]
    BY <1>s, <2>1
  <2> QED
    BY <1>0, <2>1, <2>2 DEF Metadata, ResultsInOrder
<1>6. CASE FlushedOne
  <2>1. /\ UNCHANGED <<results, outPc>> /\ step' = [step EXCEPT !["call"] = "none"]
        /\ req' = [req EXCEPT !["call"] = None]
    BY <1>6 DEF FlushedOne
  <2> QED
    BY <1>1, <1>s, <2>1
<1>7. CASE OutputDone
  <2>1. /\ results' = results /\ step' = [step EXCEPT !["output"] = "none"]
        /\ kind' = [kind EXCEPT !["output"] = "result"] /\ outPc' # "convert"
    BY <1>7 DEF OutputDone, NextRound
  <2> QED
    BY <1>1, <1>s, <2>1
<1>8. CASE OutputDeviceError \/ OutputForgets
  <2>1. UNCHANGED <<kind, results, step>> /\ outPc = "convert" /\ outPc' # "convert"
    BY <1>8 DEF OutputDeviceError, OutputForgets, NextRound
  <2>2. step["output"] = "none"
    BY <2>1 DEF IInv, Threads
  <2> QED
    BY <1>1, <2>1, <2>2
<1>9. ASSUME NEW t \in Answerers, InvokeCallback(t) PROVE Metadata' /\ ResultsInOrder'
  <2>1. /\ results' = IF kind[t] = "result" THEN Append(results, req[t]) ELSE results
        /\ step' = [step EXCEPT ![t] = "calling"] /\ step[t] = "invoke"
        /\ UNCHANGED <<req, kind, outPc>>
    BY <1>9 DEF InvokeCallback, Goto
  <2>2. CASE t = "call"
    <3>1. results' = results /\ step'["output"] = step["output"]
      BY <1>0, <1>s, <2>1, <2>2 DEF Metadata
    <3> QED
      BY <1>0, <2>1, <2>2, <3>1 DEF Metadata, ResultsInOrder
  <2>3. CASE t = "output"
    <3>1. /\ step'["output"] = "calling" /\ step'["call"] = step["call"]
          /\ outPc # "convert" /\ req[t] \in Requests
      BY <1>s, <2>1, <2>3 DEF IInv, Threads
    <3>2. Before(Elems(results), {req[t]})
      BY <1>0, <2>1, <2>3 DEF Metadata
    <3>3. ResultsInOrder'
      <4>1. Increasing(results) /\ req[t] \in Nat
        BY <1>0, <3>1 DEF ResultsInOrder, Increasing
      <4>2. Increasing(Append(results, req[t]))
        BY <1>s, <3>2, <4>1, IncreasingAppend
      <4> QED
        BY <1>0, <2>1, <4>2 DEF ResultsInOrder, Increasing
    <3> QED
      BY <1>0, <2>1, <3>1, <3>3 DEF Metadata
  <2> QED
    BY <2>2, <2>3
<1>10. ASSUME NEW t \in Answerers, Answer(t), ~InvokeCallback(t)
       PROVE  Metadata' /\ ResultsInOrder'
  <2>1. /\ UNCHANGED <<results, req, kind, outPc>> /\ step[t] # "none"
        /\ \E p \in {"return", "notify", "erase", "invoke", "calling", "done"} :
             /\ step' = [step EXCEPT ![t] = p]
             /\ p \in {"return", "notify", "erase", "invoke"}
                  => step[t] \in {"enqueue", "return", "notify", "erase"}
    BY <1>10 DEF Answer, EnqueueFrame, ReturnFrame, NotifyShutter, EraseInflight,
       CallbackTimesOut, CallbackReturns, Goto
  <2> QED
    BY <1>1, <1>s, <2>1
<1>11. CASE FormatTake \/ FormatSubmit
  BY <1>1, <1>11 DEF FormatTake, FormatSubmit
<1>12. CASE OutputTake
  <2>1. /\ outList # <<>> /\ req' = [req EXCEPT !["output"] = Head(outList)]
        /\ UNCHANGED <<step, kind, results>>
    BY <1>12 DEF OutputTake
  <2>2. Elems(outList) = {Head(outList)} \cup Elems(Tail(outList))
    BY <2>1, <1>s, ElemsTail
  <2>3. Before(Elems(results), {Head(outList)})
    BY <2>2 DEF OInv, PipelineOrder, Before, Old
  <2>4. req'["output"] = Head(outList)
    BY <1>s, <2>1
  <2> QED
    BY <1>0, <2>1, <2>3, <2>4 DEF Metadata, ResultsInOrder
<1>13. CASE OutputAnswer
  <2>1. /\ UNCHANGED <<results, req>> /\ step' = [step EXCEPT !["output"] = "enqueue"]
        /\ outPc = "convert" /\ kind'["call"] = kind["call"]
    BY <1>13, <1>s DEF OutputAnswer
  <2> QED
    BY <1>1, <1>s, <2>1
<1> QED
  BY <1>2, <1>3, <1>4, <1>5, <1>6, <1>7, <1>8, <1>9, <1>10, <1>11, <1>12, <1>13, Steps

\* A request leaves mInflightFrames only when nobody uses its buffers any more.
LEMMA NextInflight == IInv /\ OInv /\ [Next]_vars => Inflight'
<1> SUFFICES ASSUME IInv, OInv, [Next]_vars PROVE Inflight'
  OBVIOUS
<1>0. Inflight
  BY DEF OInv
<1>t. /\ Elems(outList) \subseteq Requests /\ Elems(fmtList) \subseteq Requests
      /\ Converting \subseteq Requests /\ Old \subseteq 0 .. MaxRequests /\ MaxRequests \in Nat
      /\ req["call"] \in Old /\ req["output"] \in Old
  BY InLists DEF Old
<1>s. /\ outList \in Seq(Requests) /\ fmtList \in Seq(Requests) /\ reqs \in Seq(Requests)
      /\ req \in [Answerers -> Requests \cup {None}]
      /\ step \in [Answerers -> {"none", "enqueue", "return", "notify", "erase", "invoke",
                                 "calling", "done"}]
  BY DEF IInv, TypeOK, Lists, Places
<1> DEFINE OutHand  == IF outPc = "convert" THEN {req["output"]} ELSE {}
           InAnswer == {req[t] : t \in {u \in Answerers : Answering(u)}}
<1>p. /\ Pending = Elems(fmtList) \cup Elems(outList) \cup Elems(reqs) \cup Converting
                    \cup OutHand \cup InAnswer
      /\ Pending' = Elems(fmtList') \cup Elems(outList') \cup Elems(reqs') \cup Converting'
                    \cup OutHand' \cup InAnswer'
  BY DEF Pending, Converting
\* Requests only move from one place to the next.
<1>1. CASE /\ Pending' \subseteq Pending /\ mInflightFrames' = mInflightFrames
           /\ pc' = "configure" => pc = "configure"
  BY <1>0, <1>1 DEF Inflight
<1>2. CASE Still
  <2>1. Pending' = Pending
    BY <1>2 DEF Still, Pending, Answering
  <2> QED
    BY <1>1, <1>2, <2>1 DEF Still
<1>3. CASE \E f \in Fps : ProcessCaptureRequest(f)
  <2>1. Pending' = Pending
    BY <1>3 DEF ProcessCaptureRequest, Pending, Answering
  <2> QED
    BY <1>1, <1>3, <2>1 DEF ProcessCaptureRequest
<1>4. CASE Submit
  <2>1. /\ cur \in Requests /\ fmtList' = Append(fmtList, cur) /\ pc' = "idle"
        /\ mInflightFrames' = mInflightFrames \cup {cur}
        /\ UNCHANGED <<outList, reqs, fmtPc, fmtReq, outPc, req, step>>
    BY <1>4 DEF Submit, IInv, TypeOK, Counters, Threads, Preparing
  <2>2. Elems(fmtList') = Elems(fmtList) \cup {cur}
    BY <1>s, <2>1, ElemsAppend
  <2>3. Converting' = Converting /\ OutHand' = OutHand /\ InAnswer' = InAnswer
    BY <2>1 DEF Converting, Answering
  <2>4. Pending' = Pending \cup {cur}
    BY <1>p, <2>1, <2>2, <2>3
  <2> QED
    BY <1>0, <2>1, <2>4 DEF Inflight
<1>5. CASE ConfigureBegin
  <2>1. Pending' = Pending /\ mInflightFrames' = mInflightFrames /\ mInflightFrames = {}
    BY <1>5 DEF ConfigureBegin, Pending, Answering
  <2> QED
    BY <1>0, <2>1 DEF Inflight
<1>6. CASE \E end \in BOOLEAN : Flush(end)
  <2>1. /\ reqs' = outList /\ outList' = <<>> /\ mInflightFrames' = mInflightFrames
        /\ UNCHANGED <<fmtList, fmtPc, fmtReq, outPc, req, step>> /\ pc' # "configure"
    BY <1>6 DEF Flush
  <2>2. Converting' = Converting /\ OutHand' = OutHand /\ InAnswer' = InAnswer
    BY <2>1 DEF Converting, Answering
  <2>3. Pending' \subseteq Pending
    BY <1>p, <2>1, <2>2, ElemsEmpty
  <2> QED
    BY <1>1, <2>1, <2>3
<1>7. CASE FlushOne
  <2>1. /\ reqs # <<>> /\ reqs' = Tail(reqs) /\ req' = [req EXCEPT !["call"] = Head(reqs)]
        /\ step' = [step EXCEPT !["call"] = "enqueue"]
        /\ UNCHANGED <<fmtList, outList, fmtPc, fmtReq, outPc, mInflightFrames, pc>>
    BY <1>7 DEF FlushOne
  <2>2. Elems(reqs) = {Head(reqs)} \cup Elems(reqs')
    BY <2>1, <1>s, ElemsTail
  <2>3. Converting' = Converting /\ OutHand' = OutHand
    BY <1>s, <2>1 DEF Converting
  <2>4. InAnswer' \subseteq InAnswer \cup {Head(reqs)}
    BY <1>s, <2>1 DEF Answering
  <2>5. Pending' \subseteq Pending
    BY <1>p, <2>1, <2>2, <2>3, <2>4
  <2> QED
    BY <1>1, <2>1, <2>5
<1>8. CASE FlushedOne \/ OutputDone
  <2>1. PICK t \in Answerers : /\ req' = [req EXCEPT ![t] = None]
                               /\ step' = [step EXCEPT ![t] = "none"]
                               /\ outPc' = "convert" => outPc = "convert" /\ t = "call"
    BY <1>8 DEF FlushedOne, OutputDone, NextRound
  <2>2. UNCHANGED <<fmtList, outList, reqs, fmtPc, fmtReq, mInflightFrames, pc>>
    BY <1>8 DEF FlushedOne, OutputDone
  <2>3. Converting' = Converting /\ OutHand' \subseteq OutHand /\ InAnswer' \subseteq InAnswer
    BY <1>s, <2>1, <2>2 DEF Converting, Answering
  <2>4. Pending' \subseteq Pending
    BY <1>p, <2>2, <2>3
  <2> QED
    BY <1>1, <2>2, <2>4
<1>9. CASE OutputDeviceError \/ OutputForgets
  <2>1. /\ req' = [req EXCEPT !["output"] = None] /\ outPc = "convert" /\ outPc' # "convert"
        /\ UNCHANGED <<step, fmtList, outList, reqs, fmtPc, fmtReq, mInflightFrames, pc>>
    BY <1>9 DEF OutputDeviceError, OutputForgets, NextRound
  <2>2. step["output"] = "none"
    BY <2>1 DEF IInv, Threads
  <2>3. Converting' = Converting /\ OutHand' \subseteq OutHand /\ InAnswer' \subseteq InAnswer
    BY <1>s, <2>1, <2>2 DEF Converting, Answering
  <2>4. Pending' \subseteq Pending
    BY <1>p, <2>1, <2>3
  <2> QED
    BY <1>1, <2>1, <2>4
<1>10. ASSUME NEW t \in Answerers, EraseInflight(t) PROVE Inflight'
  <2>1. /\ step[t] = "erase" /\ step' = [step EXCEPT ![t] = "invoke"]
        /\ mInflightFrames' = mInflightFrames \ {req[t]}
        /\ UNCHANGED <<req, fmtList, outList, reqs, fmtPc, fmtReq, outPc, pc>>
    BY <1>10 DEF EraseInflight, Goto
  <2>2. req[t] # None /\ req[t] \notin Elems(reqs) /\ (\A u \in Answerers : u # t => req[u] # req[t])
    BY <2>1 DEF IInv, Threads, OInv, Apart
  <2>3. req[t] \notin Elems(fmtList) \cup Elems(outList) \cup Converting
    <3>1. /\ Before(Old, Elems(fmtList)) /\ Before(Old, Elems(outList))
          /\ Before(Old, Converting)
      BY DEF OInv, PipelineOrder
    <3>2. req[t] \in Old
      BY <1>t
    <3>3. req[t] \in Int
      <4>1. req[t] \in Requests \cup {None}
        BY <1>s
      <4> QED
        BY <4>1
    <3> QED
      BY <3>1, <3>2, <3>3 DEF Before
  <2>4. req[t] \notin OutHand
    BY <2>1, <2>2 DEF IInv, Threads
  <2>5. InAnswer' \subseteq InAnswer \ {req[t]}
    BY <1>s, <2>1, <2>2 DEF Answering
  <2>6. Converting' = Converting /\ OutHand' = OutHand
    BY <2>1 DEF Converting
  <2>7. Pending' \subseteq Pending \ {req[t]}
    BY <1>p, <2>1, <2>2, <2>3, <2>4, <2>5, <2>6
  <2> QED
    BY <1>0, <2>1, <2>7 DEF Inflight
<1>11. ASSUME NEW t \in Answerers, Answer(t), ~EraseInflight(t) PROVE Inflight'
  <2>1. /\ UNCHANGED <<req, fmtList, outList, reqs, fmtPc, fmtReq, outPc, pc, mInflightFrames>>
        /\ \E p \in {"return", "notify", "erase", "invoke", "calling", "done"} :
             /\ step' = [step EXCEPT ![t] = p]
             /\ p \in {"return", "notify", "erase"} => step[t] \in {"enqueue", "return", "notify"}
    BY <1>11 DEF Answer, EnqueueFrame, ReturnFrame, NotifyShutter, InvokeCallback,
       CallbackTimesOut, CallbackReturns, Goto
  <2>2. Converting' = Converting /\ OutHand' = OutHand /\ InAnswer' \subseteq InAnswer
    BY <1>s, <2>1 DEF Converting, Answering
  <2>3. Pending' \subseteq Pending
    BY <1>p, <2>1, <2>2
  <2> QED
    BY <1>1, <2>1, <2>3
<1>12. CASE FormatTake
  <2>1. /\ fmtList # <<>> /\ fmtList' = Tail(fmtList) /\ Converting' = {Head(fmtList)}
        /\ UNCHANGED <<req, step, outList, reqs, outPc, pc, mInflightFrames>>
    BY <1>12 DEF FormatTake, Converting
  <2>2. Elems(fmtList) = {Head(fmtList)} \cup Elems(fmtList')
    BY <2>1, <1>s, ElemsTail
  <2>3. OutHand' = OutHand /\ InAnswer' = InAnswer
    BY <2>1 DEF Answering
  <2>4. Pending' \subseteq Pending
    BY <1>p, <2>1, <2>2, <2>3
  <2> QED
    BY <1>1, <2>1, <2>4
<1>13. CASE FormatSubmit
  <2>1. /\ outList' = Append(outList, fmtReq) /\ Converting = {fmtReq} /\ Converting' = {}
        /\ UNCHANGED <<req, step, fmtList, reqs, outPc, pc, mInflightFrames>>
    BY <1>13 DEF FormatSubmit, Converting, NextRound
  <2>2. Elems(outList') = Elems(outList) \cup {fmtReq}
    BY <1>s, <1>t, <2>1, ElemsAppend
  <2>3. OutHand' = OutHand /\ InAnswer' = InAnswer
    BY <2>1 DEF Answering
  <2>4. Pending' \subseteq Pending
    BY <1>p, <2>1, <2>2, <2>3
  <2> QED
    BY <1>1, <2>1, <2>4
<1>14. CASE OutputTake
  <2>1. /\ outList # <<>> /\ outList' = Tail(outList) /\ outPc = "wait" /\ outPc' = "convert"
        /\ req' = [req EXCEPT !["output"] = Head(outList)]
        /\ UNCHANGED <<step, fmtList, fmtPc, fmtReq, reqs, pc, mInflightFrames>>
    BY <1>14 DEF OutputTake
  <2>2. Elems(outList) = {Head(outList)} \cup Elems(outList')
    BY <2>1, <1>s, ElemsTail
  <2>3. step["output"] = "none"
    BY <2>1 DEF IInv, Threads
  <2>4. /\ Converting' = Converting /\ OutHand' = {Head(outList)}
        /\ InAnswer' \subseteq InAnswer
    BY <1>s, <2>1, <2>3 DEF Converting, Answering
  <2>5. Pending' \subseteq Pending
    BY <1>p, <2>1, <2>2, <2>4
  <2> QED
    BY <1>1, <2>1, <2>5
<1>15. CASE OutputAnswer
  <2>1. /\ step' = [step EXCEPT !["output"] = "enqueue"] /\ outPc = "convert" /\ outPc' = "answer"
        /\ UNCHANGED <<req, fmtList, outList, fmtPc, fmtReq, reqs, pc, mInflightFrames>>
    BY <1>15 DEF OutputAnswer
  <2>2. Converting' = Converting /\ OutHand' = {} /\ InAnswer' \subseteq InAnswer \cup OutHand
    BY <1>s, <2>1 DEF Converting, Answering
  <2>3. Pending' \subseteq Pending
    BY <1>p, <2>1, <2>2
  <2> QED
    BY <1>1, <2>1, <2>3
<1> QED
  BY <1>2, <1>3, <1>4, <1>5, <1>6, <1>7, <1>8, <1>9, <1>10, <1>11, <1>12, <1>13, <1>14,
     <1>15, Steps

\* The pipeline invariant holds in every reachable state.
THEOREM OrderInvariance == Spec => []OInv
<1>1. IInv /\ IInv' /\ OInv /\ [Next]_vars => OInv'
  BY NextPipelineOrder, NextApart, NextMetadata, NextInflight DEF OInv
<1> QED
  BY <1>1, InitOInv, Invariance, PTL DEF Spec

-----------------------------------------------------------------------------
(* The results.                                                            *)

\* No request has two shutter notifications, although flush and OutputThread
\* answer requests at the same time.
THEOREM NoDoubleAnswer == Spec => []AnsweredOnce
<1>1. OInv => AnsweredOnce
  BY DEF OInv
<1> QED
  BY <1>1, OrderInvariance, PTL

\* Results with metadata reach the framework in frame order, whatever is
\* flushed in between.
THEOREM MetadataOrder == Spec => []ResultsInOrder
<1>1. OInv => ResultsInOrder
  BY DEF OInv
<1> QED
  BY <1>1, OrderInvariance, PTL

\* configureStreams frees buffers only when no request uses any.
THEOREM ConfigureSafe == Spec => []ConfigureIdle
<1>1. OInv => ConfigureIdle
  BY DEF OInv, Inflight, ConfigureIdle
<1> QED
  BY <1>1, OrderInvariance, PTL
=============================================================================
