--------------------------- MODULE Recorder_proofs ---------------------------
(***************************************************************************)
(* Proofs about the recording half of the application, for any number of   *)
(* recordings, frames, presses and spurious wake-ups, and a user who waits *)
(* until a press of the button has taken effect.                           *)
(***************************************************************************)
EXTENDS Recorder, FiniteSetTheorems, TLAPS

USE DEF ui, gl, handler, owner, vars

-----------------------------------------------------------------------------
(* The handler's messages.                                                 *)

\* The order in which the messages of one recording are posted.
Rank(m) == IF m = "start" THEN 1 ELSE IF m = "stop" THEN 2 ELSE 3

\* The messages that are waiting, and that they wait in order; frames may come at any time.
Mail(q)    == {q[i] : i \in DOMAIN q} \ {"frame"}
Ordered(q) == \A i, j \in DOMAIN q : i < j /\ q[i] # "frame" /\ q[j] # "frame" => Rank(q[i]) < Rank(q[j])

-----------------------------------------------------------------------------
(* The life of a recording, when presses of the button wait for the last one to take effect. *)

\* The handler thread and what it publishes of itself.
Threads ==
    /\ mRunning <=> hpc # "none"
    /\ mHandler <=> hpc \notin {"none", "starting"}
    /\ mReady <=> hpc \notin {"none", "starting"}

\* Only the encoder of the muxer at hand takes frames.
Encoders == \A k \in Recordings : Accepts(k) => k = mMuxer

Closed  == session = "none" /\ ~surface /\ mMuxer = 0
Open    == session = "open" /\ surface /\ mMuxer = n /\ n # 0
Started == gpc \notin {"start", "wait", "send"}

Down      == hpc = "none" /\ upc = "idle" /\ Closed /\ gpc \notin {"wait", "send"} /\ (gpc = "start" => status)
Starting  == /\ hpc \in {"starting", "loop"} /\ gpc = "wait" /\ status /\ upc = "idle" /\ Closed
             /\ hpc = "loop" => Mail(queue) = {}
Sending   == hpc = "loop" /\ gpc = "send" /\ status /\ upc = "idle" /\ Closed /\ Mail(queue) = {}
Asked     == hpc = "loop" /\ Started /\ status /\ upc = "idle" /\ Closed /\ Mail(queue) = {"start"}
Creating  == /\ hpc = "create" /\ Started /\ status /\ upc = "idle" /\ Mail(queue) = {}
             /\ session = "none" /\ surface /\ mMuxer = 0 /\ n # 0
Recording == /\ hpc = "loop" /\ Started /\ Open /\ Mail(queue) = {}
             /\ (status /\ upc = "idle") \/ (~status /\ upc \in {"remove", "stop"})
Stopping  == /\ hpc = "loop" /\ Started /\ Open /\ ~status
             /\ (upc = "quit" /\ Mail(queue) = {"stop"}) \/ (upc = "idle" /\ Mail(queue) = {"stop", "quit"})
Closing   == /\ hpc \in {"destroy", "destroyed", "release", "loop"} /\ Started /\ mMuxer = 0 /\ ~status
             /\ (upc = "quit" /\ Mail(queue) = {}) \/ (upc = "idle" /\ Mail(queue) = {"quit"})
             /\ hpc \in {"release", "loop"} => session = "none"
             /\ hpc = "loop" => ~surface
Quitting  == hpc = "quit" /\ Started /\ upc = "idle" /\ Closed /\ ~status
Failed    == crash = "prepare" /\ hpc = "loop"

Life == \/ Down \/ Starting \/ Sending \/ Asked \/ Creating \/ Recording
        \/ Stopping \/ Closing \/ Quitting \/ Failed

RInv == TypeOK /\ Threads /\ Encoders /\ Ordered(queue) /\ Life /\ crash \notin {"session exists", "ui: no handler"}

LEMMA MailEmpty == <<>> \in Seq(Messages) /\ Mail(<<>>) = {} /\ Ordered(<<>>)
BY DEF Mail, Ordered

LEMMA MailAppend ==
    ASSUME NEW q \in Seq(Messages), NEW m \in Messages, Ordered(q),
           m = "frame" \/ \A x \in Mail(q) : Rank(x) < Rank(m)
    PROVE  /\ Append(q, m) \in Seq(Messages) /\ Ordered(Append(q, m))
           /\ Mail(Append(q, m)) = Mail(q) \cup ({m} \ {"frame"})
<1>1. /\ Append(q, m) \in Seq(Messages) /\ Len(q) + 1 \in DOMAIN Append(q, m)
      /\ Append(q, m)[Len(q) + 1] = m
      /\ \A i \in DOMAIN q : i \in DOMAIN Append(q, m) /\ Append(q, m)[i] = q[i]
      /\ \A i \in DOMAIN Append(q, m) : i \in DOMAIN q \/ i = Len(q) + 1
      /\ \A i \in DOMAIN Append(q, m) : ~(Len(q) + 1 < i)
  OBVIOUS
<1>2. Mail(Append(q, m)) = Mail(q) \cup ({m} \ {"frame"})
  <2>1. \A x \in Mail(Append(q, m)) : x \in Mail(q) \cup ({m} \ {"frame"})
    BY <1>1 DEF Mail
  <2>2. \A x \in Mail(q) : x \in Mail(Append(q, m))
    BY <1>1 DEF Mail
  <2>3. m # "frame" => m \in Mail(Append(q, m))
    BY <1>1 DEF Mail
  <2> QED
    BY <2>1, <2>2, <2>3
<1>3. Ordered(Append(q, m))
  <2> SUFFICES ASSUME NEW i \in DOMAIN Append(q, m), NEW j \in DOMAIN Append(q, m), i < j,
                      Append(q, m)[i] # "frame", Append(q, m)[j] # "frame"
               PROVE  Rank(Append(q, m)[i]) < Rank(Append(q, m)[j])
    BY DEF Ordered
  <2>1. i \in DOMAIN q
    BY <1>1
  <2>2. CASE j \in DOMAIN q
    BY <1>1, <2>1, <2>2 DEF Ordered
  <2>3. CASE j = Len(q) + 1
    <3>1. q[i] \in Mail(q) /\ Append(q, m)[i] = q[i] /\ Append(q, m)[j] = m
      BY <1>1, <2>1, <2>3 DEF Mail
    <3> QED
      BY <3>1
  <2> QED
    BY <1>1, <2>2, <2>3
<1> QED
  BY <1>1, <1>2, <1>3

LEMMA MailTail ==
    ASSUME NEW q \in Seq(Messages), q # <<>>, Ordered(q)
    PROVE  /\ Tail(q) \in Seq(Messages) /\ Ordered(Tail(q))
           /\ Head(q) = "frame" \/ Head(q) \in Mail(q)
           /\ Mail(Tail(q)) = Mail(q) \ {Head(q)}
           /\ Head(q) # "frame" => \A x \in Mail(q) : x # Head(q) => Rank(Head(q)) < Rank(x)
<1>1. /\ 1 \in DOMAIN q /\ Head(q) = q[1] /\ Tail(q) \in Seq(Messages)
      /\ \A i \in DOMAIN Tail(q) : i \in Nat /\ 1 < i + 1 /\ i + 1 \in DOMAIN q /\ Tail(q)[i] = q[i + 1]
      /\ \A i \in DOMAIN q : i = 1 \/ (i - 1 \in DOMAIN Tail(q) /\ Tail(q)[i - 1] = q[i])
      /\ \A i \in DOMAIN q : q[i] \in Messages /\ (i = 1 \/ 1 < i)
  OBVIOUS
<1>2. Ordered(Tail(q))
  BY <1>1 DEF Ordered
<1>3. Head(q) = "frame" \/ Head(q) \in Mail(q)
  BY <1>1 DEF Mail
<1>4. \A m \in Messages : ~(Rank(m) < Rank(m))
  BY DEF Rank, Messages
<1>5. Head(q) # "frame" => \A i \in DOMAIN q : i # 1 /\ q[i] # "frame" => Rank(Head(q)) < Rank(q[i])
  BY <1>1 DEF Ordered
<1>6. Head(q) # "frame" => \A x \in Mail(q) : x # Head(q) => Rank(Head(q)) < Rank(x)
  BY <1>1, <1>5 DEF Mail
<1>7. Mail(Tail(q)) = Mail(q) \ {Head(q)}
  <2>1. \A x \in Mail(Tail(q)) : x \in Mail(q)
    BY <1>1 DEF Mail
  <2>2. \A x \in Mail(Tail(q)) : x # Head(q)
    <3> SUFFICES ASSUME NEW i \in DOMAIN Tail(q), Tail(q)[i] # "frame", Tail(q)[i] = Head(q) PROVE FALSE
      BY DEF Mail
    <3>1. PICK j \in DOMAIN q : j # 1 /\ q[j] = Head(q)
      BY <1>1
    <3>3. Head(q) # "frame" /\ Head(q) \in Messages
      BY <1>1
    <3>2. Rank(Head(q)) < Rank(Head(q))
      BY <1>5, <3>1, <3>3
    <3> QED
      BY <1>4, <3>2, <3>3
  <2>3. \A x \in Mail(q) : x = Head(q) \/ x \in Mail(Tail(q))
    <3> SUFFICES ASSUME NEW i \in DOMAIN q, q[i] # "frame", q[i] # Head(q)
                 PROVE  \E j \in DOMAIN Tail(q) : Tail(q)[j] = q[i]
      BY DEF Mail
    <3> QED
      BY <1>1
  <2> QED
    BY <2>1, <2>2, <2>3
<1> QED
  BY <1>1, <1>2, <1>3, <1>6, <1>7

\* When only frames wait, removing them leaves nothing.
LEMMA NothingButFrames == ASSUME NEW q \in Seq(Messages), Mail(q) = {} PROVE RemoveFrames(q) = <<>>
<1> DEFINE keep == {i \in DOMAIN q : q[i] # "frame"}
           F == [j \in 1 .. Cardinality(keep) |-> q[CHOOSE i \in keep : Cardinality({h \in keep : h < i}) = j - 1]]
<1>1. keep = {}
  BY DEF Mail
<1>2. Cardinality(keep) = 0
  BY <1>1, FS_EmptySet
<1>3. RemoveFrames(q) = F
  BY DEF RemoveFrames
<1>4. DOMAIN F = 1 .. Cardinality(keep)
  OBVIOUS
<1>5. DOMAIN F = {}
  <2> HIDE DEF keep, F
  <2> QED
    BY <1>2, <1>4
<1>6. F = [j \in {} |-> 0]
  BY <1>5, <1>4
<1>7. <<>> = [j \in {} |-> 0]
  OBVIOUS
<1> QED
  BY <1>3, <1>6, <1>7

-----------------------------------------------------------------------------
(* A step of the recorder keeps the invariant.                             *)

\* One encoder changes, and does not begin to take frames.
LEMMA OneEncoder ==
    ASSUME EncoderType, NEW k \in Recordings, NEW r \in Encoder, enc' = [enc EXCEPT ![k] = r],
           r.mIsCapturing /\ ~r.mRequestStop => Accepts(k)
    PROVE  EncoderType' /\ \A j \in Recordings : Accepts(j)' => Accepts(j)
<1>1. \A j \in Recordings : enc'[j] = IF j = k THEN r ELSE enc[j]
  BY DEF EncoderType
<1>2. EncoderType'
  BY DEF EncoderType
<1> QED
  BY <1>1, <1>2 DEF Accepts

\* An encoder's steps are between it and its recording.
LEMMA EncoderOnly ==
    ASSUME TypeOK, NEW k \in Recordings, EncoderThread(k) \/ SpuriousWakeup(k)
    PROVE  /\ UNCHANGED <<ui, gl, handler, owner, session, crash>>
           /\ wakeups' \in Nat /\ EncoderType'
           /\ \A j \in Recordings : Accepts(j)' => Accepts(j)
<1>0. UNCHANGED <<ui, gl, handler, owner, session, crash>> /\ wakeups' \in Nat
  BY DEF EncoderThread, ReadFlags, Wait, FormatChanged, WriteSampleData, SendReturns, DrainReturns,
     SignalEndOfInputStream, Release, SpuriousWakeup, EncoderStep, TypeOK, CountType
<1>e. PICK e \in Encoder : e = enc[k]
  BY DEF TypeOK, EncoderType
<1>a. enc \in [Recordings -> Encoder] /\ EncoderType /\ (Accepts(k) <=> e.mIsCapturing /\ ~e.mRequestStop)
  BY <1>e DEF TypeOK, EncoderType, Accepts
<1>r. ASSUME NEW r \in Encoder, enc' = [enc EXCEPT ![k] = r],
             r.mIsCapturing /\ ~r.mRequestStop => e.mIsCapturing /\ ~e.mRequestStop
      PROVE  EncoderType' /\ \A j \in Recordings : Accepts(j)' => Accepts(j)
  BY <1>a, <1>r, OneEncoder
<1>1. CASE ReadFlags(k)
  <2>0. enc' = [enc EXCEPT ![k] =
                  IF e.mRequestStop THEN [e EXCEPT !.pc = "drain1"]
                  ELSE IF e.mRequestDrain > 0 THEN [e EXCEPT !.pc = "drain", !.mRequestDrain = e.mRequestDrain - 1]
                  ELSE [e EXCEPT !.pc = "gap"]]
    BY <1>1, <1>e, <1>a DEF ReadFlags
  <2>1. CASE e.mRequestStop
    <3>1. enc' = [enc EXCEPT ![k] = [e EXCEPT !.pc = "drain1"]]
      BY <2>0, <2>1
    <3> QED
      BY <1>0, <1>r, <3>1 DEF Encoder
  <2>2. CASE ~e.mRequestStop /\ e.mRequestDrain > 0
    <3>1. enc' = [enc EXCEPT ![k] = [e EXCEPT !.pc = "drain", !.mRequestDrain = e.mRequestDrain - 1]]
      BY <2>0, <2>2
    <3>2. e.mRequestDrain - 1 \in Nat
      BY <2>2 DEF Encoder
    <3> QED
      BY <1>0, <1>r, <3>1, <3>2 DEF Encoder
  <2>3. CASE ~e.mRequestStop /\ ~(e.mRequestDrain > 0)
    <3>1. enc' = [enc EXCEPT ![k] = [e EXCEPT !.pc = "gap"]]
      BY <2>0, <2>3
    <3> QED
      BY <1>0, <1>r, <3>1 DEF Encoder
  <2> QED
    BY <2>1, <2>2, <2>3
<1>2. CASE Wait(k)
  <2>1. enc' = [enc EXCEPT ![k] = [e EXCEPT !.pc = "waiting"]]
    BY <1>2, <1>e, <1>a DEF Wait
  <2> QED
    BY <1>0, <1>r, <2>1 DEF Encoder
<1>3. CASE FormatChanged(k)
  <2>1. enc' = [enc EXCEPT ![k] = [e EXCEPT !.mMuxerStarted = TRUE]]
    BY <1>3, <1>e, <1>a DEF FormatChanged
  <2> QED
    BY <1>0, <1>r, <2>1 DEF Encoder
<1>4. CASE WriteSampleData(k)
  <2>1. enc' = [enc EXCEPT ![k] = [e EXCEPT !.codec = e.codec - 1, !.sending = (session # "none")]] /\ e.codec > 0
    BY <1>4, <1>e, <1>a DEF WriteSampleData
  <2>2. e.codec - 1 \in Nat
    BY <2>1 DEF Encoder
  <2>3. [e EXCEPT !.codec = e.codec - 1, !.sending = (session # "none")] \in Encoder
    BY <2>2 DEF Encoder
  <2> QED
    BY <1>0, <1>r, <2>1, <2>3 DEF Encoder
<1>5. CASE SendReturns(k)
  <2>1. enc' = [enc EXCEPT ![k] = [e EXCEPT !.sending = FALSE]]
    BY <1>5, <1>e, <1>a DEF SendReturns
  <2> QED
    BY <1>0, <1>r, <2>1 DEF Encoder
<1>6. CASE DrainReturns(k)
  <2>1. PICK p \in {"loop", "signal", "release"} : enc' = [enc EXCEPT ![k] = [e EXCEPT !.pc = p]]
    BY <1>6, <1>e, <1>a DEF DrainReturns, Draining
  <2> QED
    BY <1>0, <1>r, <2>1 DEF Encoder
<1>7. CASE SignalEndOfInputStream(k)
  <2>1. PICK b \in BOOLEAN : enc' = [enc EXCEPT ![k] = [e EXCEPT !.pc = "drain2", !.mIsEOS = b]]
    <3>1. enc' = [enc EXCEPT ![k] = [e EXCEPT !.pc = "drain2",
                                              !.mIsEOS = (e.mIsEOS \/ (e.mIsCapturing /\ EncodeSendsEOS(0)))]]
      BY <1>7, <1>e, <1>a DEF SignalEndOfInputStream
    <3> QED
      BY <3>1
  <2> QED
    BY <1>0, <1>r, <2>1 DEF Encoder
<1>8. CASE Release(k)
  <2>1. enc' = [enc EXCEPT ![k] = [e EXCEPT !.pc = "ended", !.mIsCapturing = FALSE, !.mRequestStop = TRUE,
                                            !.codec = 0]]
    BY <1>8, <1>e, <1>a DEF Release
  <2>2. [e EXCEPT !.pc = "ended", !.mIsCapturing = FALSE, !.mRequestStop = TRUE, !.codec = 0] \in Encoder
    BY DEF Encoder
  <2> QED
    BY <1>0, <1>r, <2>1, <2>2 DEF Encoder
<1>9. CASE SpuriousWakeup(k)
  <2>1. enc' = [enc EXCEPT ![k] = [e EXCEPT !.pc = "loop"]]
    BY <1>9, <1>e, <1>a DEF SpuriousWakeup
  <2> QED
    BY <1>0, <1>r, <2>1 DEF Encoder
<1> QED
  BY <1>0, <1>1, <1>2, <1>3, <1>4, <1>5, <1>6, <1>7, <1>8, <1>9 DEF EncoderThread

\* The steps that are not an encoder's.
Others == StartRecord \/ StopRecord \/ UI \/ Renderer \/ HandlerThread \/ PrepareFails

LEMMA NextFlags == ASSUME TypeOK, crash = "no", Others PROVE FlagType'
<1>0. FlagType
  BY DEF TypeOK
<1> USE DEF FlagType
<1>1. CASE StartRecord
  BY <1>0, <1>1 DEF StartRecord, MayClick
<1>2. CASE StopRecord
  BY <1>0, <1>2 DEF StopRecord, MayClick
<1>3. CASE OnDrawFrame
  BY <1>0, <1>3 DEF OnDrawFrame
<1>4. CASE StartThread
  BY <1>0, <1>4 DEF StartThread
<1>5. CASE Ready
  BY <1>0, <1>5 DEF Ready
<1>6. CASE HandleStart
  BY <1>0, <1>6 DEF HandleStart
<1>7. CASE ReleaseSurface
  BY <1>0, <1>7 DEF ReleaseSurface
<1>8. CASE ThreadExit
  BY <1>0, <1>8 DEF ThreadExit
<1>9. ASSUME ~(StartRecord \/ StopRecord \/ OnDrawFrame \/ StartThread \/ Ready \/ HandleStart \/ ReleaseSurface
                 \/ ThreadExit)
      PROVE  UNCHANGED <<status, enabled, patient, mRunning, mReady, mHandler, surface>>
  BY <1>9 DEF Others, UI, Renderer, HandlerThread, StopRecording, WaitReady, SendStart, FrameAvailable, PostFrame,
     PrepareFails, CreateSendSession, HandleFrame, HandleStop, Dismantle, Destroyed, HandleQuit
<1> QED
  BY <1>0, <1>1, <1>2, <1>3, <1>4, <1>5, <1>6, <1>7, <1>8, <1>9

LEMMA NextPlaces == ASSUME TypeOK, crash = "no", Others PROVE PlaceType'
<1>0. PlaceType
  BY DEF TypeOK
<1> USE DEF PlaceType
<1>1. CASE StartRecord
  BY <1>0, <1>1 DEF StartRecord
<1>2. CASE StopRecord
  BY <1>0, <1>2 DEF StopRecord
<1>3. CASE StopRecording
  <2>1. UNCHANGED <<gpc, hpc, session>> /\ upc' \in {"stop", "quit", "idle"}
    BY <1>3 DEF StopRecording
  <2>2. crash' = crash \/ crash' = "ui: no handler"
    BY <1>3 DEF StopRecording, Post
  <2> QED
    BY <1>0, <2>1, <2>2
<1>4. CASE OnDrawFrame
  BY <1>0, <1>4 DEF OnDrawFrame
<1>5. CASE StartThread
  BY <1>0, <1>5 DEF StartThread
<1>6. CASE WaitReady
  BY <1>0, <1>6 DEF WaitReady
<1>7. CASE SendStart
  <2>1. crash' = crash \/ crash' = "gl: no handler"
    BY <1>7 DEF SendStart, Post
  <2> QED
    BY <1>0, <1>7, <2>1 DEF SendStart
<1>8. CASE FrameAvailable
  BY <1>0, <1>8 DEF FrameAvailable
<1>9. CASE PostFrame
  <2>1. crash' = crash \/ crash' = "gl: no handler"
    BY <1>9 DEF PostFrame, Post
  <2> QED
    BY <1>0, <1>9, <2>1 DEF PostFrame
<1>10. CASE Ready
  BY <1>0, <1>10 DEF Ready
<1>11. CASE HandleStart
  BY <1>0, <1>11 DEF HandleStart
<1>12. CASE PrepareFails
  BY <1>0, <1>12 DEF PrepareFails
<1>13. CASE CreateSendSession
  BY <1>0, <1>13 DEF CreateSendSession
<1>14. CASE HandleFrame
  BY <1>0, <1>14 DEF HandleFrame
<1>15. CASE HandleStop
  BY <1>0, <1>15 DEF HandleStop
<1>16. CASE Dismantle \/ Destroyed \/ ReleaseSurface \/ HandleQuit \/ ThreadExit
  BY <1>0, <1>16 DEF Dismantle, Destroyed, ReleaseSurface, HandleQuit, ThreadExit
<1> QED
  BY <1>1, <1>2, <1>3, <1>4, <1>5, <1>6, <1>7, <1>8, <1>9, <1>10, <1>11, <1>12, <1>13, <1>14, <1>15, <1>16
     DEF Others, UI, Renderer, HandlerThread

LEMMA NextCounts == ASSUME TypeOK, crash = "no", Others PROVE CountType'
<1>0. CountType /\ MaxRecordings \in Nat /\ n \in Nat
  BY RecorderBounds DEF TypeOK, CountType
<1>1. CASE StartRecord \/ StopRecord
  <2>1. clicks' = clicks + 1 /\ UNCHANGED <<n, mMuxer, frames, wakeups>>
    BY <1>1 DEF StartRecord, StopRecord, MayClick
  <2> QED
    BY <1>0, <2>1 DEF CountType
<1>2. CASE PostFrame
  <2>1. frames' = frames + 1 /\ UNCHANGED <<n, mMuxer, clicks, wakeups>>
    BY <1>2 DEF PostFrame
  <2> QED
    BY <1>0, <2>1 DEF CountType
<1>3. CASE HandleStart
  <2>1. n' = n + 1 /\ n < MaxRecordings /\ UNCHANGED <<mMuxer, clicks, frames, wakeups>>
    BY <1>3 DEF HandleStart
  <2> QED
    BY <1>0, <2>1 DEF CountType
<1>4. CASE CreateSendSession
  <2>1. mMuxer' \in {mMuxer, n} /\ UNCHANGED <<n, clicks, frames, wakeups>>
    BY <1>4 DEF CreateSendSession
  <2>2. CASE mMuxer' = mMuxer
    BY <1>0, <2>1, <2>2 DEF CountType
  <2>3. CASE mMuxer' = n
    BY <1>0, <2>1, <2>3 DEF CountType
  <2> QED
    BY <2>1, <2>2, <2>3
<1>5. CASE HandleStop
  <2>1. mMuxer' = 0 /\ UNCHANGED <<n, clicks, frames, wakeups>>
    BY <1>5 DEF HandleStop
  <2> QED
    BY <1>0, <2>1 DEF CountType
<1>6. ASSUME ~(StartRecord \/ StopRecord \/ PostFrame \/ HandleStart \/ CreateSendSession \/ HandleStop)
      PROVE  UNCHANGED <<n, mMuxer, clicks, frames, wakeups>>
  BY <1>6 DEF Others, UI, Renderer, HandlerThread, StopRecording, OnDrawFrame, StartThread, WaitReady, SendStart,
     FrameAvailable, Ready, PrepareFails, HandleFrame, Dismantle, Destroyed, ReleaseSurface, HandleQuit, ThreadExit
<1> QED
  BY <1>0, <1>1, <1>2, <1>3, <1>4, <1>5, <1>6 DEF CountType

LEMMA NextThreads == ASSUME TypeOK, Threads, crash = "no", Others PROVE Threads'
<1> USE DEF TypeOK, FlagType, Threads
<1>1. CASE StartThread
  BY <1>1 DEF StartThread
<1>2. CASE Ready
  BY <1>2 DEF Ready
<1>3. CASE HandleStart \/ PrepareFails \/ HandleFrame \/ HandleStop
  BY <1>3 DEF HandleStart, PrepareFails, HandleFrame, HandleStop, Take
<1>4. CASE CreateSendSession \/ Dismantle \/ Destroyed \/ ReleaseSurface \/ HandleQuit
  BY <1>4 DEF CreateSendSession, Dismantle, Destroyed, ReleaseSurface, HandleQuit
<1>5. CASE ThreadExit
  BY <1>5 DEF ThreadExit
<1>6. CASE StartRecord \/ StopRecord \/ StopRecording \/ OnDrawFrame \/ WaitReady \/ SendStart
             \/ FrameAvailable \/ PostFrame
  <2>1. UNCHANGED <<mRunning, mReady, mHandler, hpc>>
    BY <1>6 DEF StartRecord, StopRecord, StopRecording, OnDrawFrame, WaitReady, SendStart, FrameAvailable, PostFrame
  <2> QED
    BY <2>1
<1> QED
  BY <1>1, <1>2, <1>3, <1>4, <1>5, <1>6 DEF Others, UI, Renderer, HandlerThread

\* Only the muxer at hand is told to start and to stop.
LEMMA NextEncoders ==
    ASSUME TypeOK, Encoders, crash = "no", Others, hpc = "create" => mMuxer = 0
    PROVE  EncoderType' /\ Encoders'
<1>0. enc \in [Recordings -> Encoder] /\ n \in Nat /\ MaxRecordings \in Nat /\ mMuxer \in 0 .. n /\ n <= MaxRecordings
  BY RecorderBounds DEF TypeOK, EncoderType, CountType
<1>1. ASSUME UNCHANGED <<enc, mMuxer>> PROVE EncoderType' /\ Encoders'
  BY <1>0, <1>1 DEF Encoders, EncoderType, Accepts
<1>2. CASE HandleStart
  <2>1. n' \in Recordings /\ enc' = [enc EXCEPT ![n'].pc = "loop"] /\ mMuxer' = mMuxer
    BY <1>0, <1>2 DEF HandleStart, Take, Recordings
  <2>2. PICK k \in Recordings : enc' = [enc EXCEPT ![k] = [enc[k] EXCEPT !.pc = "loop"]]
    BY <2>1
  <2>3. [enc[k] EXCEPT !.pc = "loop"] \in Encoder
    BY <1>0 DEF Encoder
  <2>4. EncoderType' /\ \A j \in Recordings : Accepts(j)' => Accepts(j)
    <3>1. EncoderType /\ enc[k] \in Encoder
      BY <1>0 DEF EncoderType
    <3>2. PICK r \in Encoder : r = [enc[k] EXCEPT !.pc = "loop"]
      BY <2>3
    <3>3. r.mIsCapturing /\ ~r.mRequestStop => Accepts(k)
      BY <3>1, <3>2 DEF Accepts, Encoder
    <3> QED
      BY <2>2, <3>1, <3>2, <3>3, OneEncoder
  <2> QED
    BY <2>1, <2>4 DEF Encoders
<1>3. CASE CreateSendSession
  <2>1. CASE session # "none"
    BY <1>1, <1>3, <2>1 DEF CreateSendSession
  <2>2. CASE session = "none"
    <3>1. /\ mMuxer' = n /\ hpc = "create"
          /\ enc' = [enc EXCEPT ![n].mIsCapturing = TRUE, ![n].mRequestStop = FALSE,
                                ![n].pc = IF @ = "waiting" THEN "loop" ELSE @]
      BY <1>3, <2>2 DEF CreateSendSession
    <3>2. \A j \in Recordings : j # n => enc'[j] = enc[j]
      BY <1>0, <3>1
    <3>3. n \in Recordings => enc'[n] \in Encoder
      BY <1>0, <3>1 DEF Encoder
    <3>4. EncoderType'
      BY <1>0, <3>1, <3>2, <3>3 DEF EncoderType
    <3>5. \A j \in Recordings : j # n => ~Accepts(j)
      BY <3>1 DEF Encoders, Recordings
    <3> QED
      BY <3>1, <3>2, <3>4, <3>5 DEF Encoders, Accepts
  <2> QED
    BY <2>1, <2>2
<1>4. CASE HandleFrame
  <2>0. mMuxer' = mMuxer
    BY <1>4 DEF HandleFrame
  <2>1. CASE ~surface
    BY <1>1, <1>4, <2>0, <2>1 DEF HandleFrame
  <2>2. CASE surface
    <3>1. enc' = [enc EXCEPT ![n].codec = @ + 1,
                             ![n].mRequestDrain = IF Accepts(n) THEN @ + 1 ELSE @,
                             ![n].pc = IF Accepts(n) /\ @ = "waiting" THEN "loop" ELSE @]
      BY <1>4, <2>2 DEF HandleFrame
    <3>2. \A j \in Recordings : j # n => enc'[j] = enc[j]
      BY <1>0, <3>1
    <3>3. n \in Recordings => enc'[n] \in Encoder /\ enc'[n].mIsCapturing = enc[n].mIsCapturing
                              /\ enc'[n].mRequestStop = enc[n].mRequestStop
      <4> SUFFICES ASSUME n \in Recordings
                   PROVE  /\ enc'[n] \in Encoder /\ enc'[n].mIsCapturing = enc[n].mIsCapturing
                          /\ enc'[n].mRequestStop = enc[n].mRequestStop
        OBVIOUS
      <4>1. PICK e \in Encoder : e = enc[n]
        BY <1>0
      <4>2. e.codec + 1 \in Nat /\ e.mRequestDrain + 1 \in Nat /\ e.mRequestDrain \in Nat
        BY DEF Encoder
      <4>3. enc'[n] = [e EXCEPT !.codec = e.codec + 1,
                                !.mRequestDrain = IF Accepts(n) THEN e.mRequestDrain + 1 ELSE e.mRequestDrain,
                                !.pc = IF Accepts(n) /\ e.pc = "waiting" THEN "loop" ELSE e.pc]
        BY <1>0, <3>1, <4>1 DEF Encoder
      <4>4. PICK d \in Nat, p \in {e.pc, "loop"} : enc'[n] = [e EXCEPT !.codec = e.codec + 1, !.mRequestDrain = d, !.pc = p]
        BY <4>2, <4>3
      <4> QED
        BY <4>1, <4>2, <4>4 DEF Encoder
    <3>4. EncoderType'
      BY <1>0, <3>1, <3>2, <3>3 DEF EncoderType
    <3> QED
      BY <2>0, <3>2, <3>3, <3>4 DEF Encoders, Accepts
  <2> QED
    BY <2>1, <2>2
<1>5. CASE HandleStop
  <2>0. mMuxer' = 0
    BY <1>5 DEF HandleStop
  <2>1. CASE mMuxer = 0 \/ ~Accepts(mMuxer)
    <3>1. enc' = enc
      BY <1>5, <2>1 DEF HandleStop
    <3>2. \A k \in Recordings : ~Accepts(k)
      BY <1>0, <2>1 DEF Encoders, Recordings
    <3> QED
      BY <1>0, <3>1, <3>2 DEF EncoderType, Encoders, Accepts
  <2>2. CASE mMuxer # 0 /\ Accepts(mMuxer)
    <3>1. enc' = [enc EXCEPT ![mMuxer].mRequestStop = TRUE,
                             ![mMuxer].pc = IF @ = "waiting" THEN "loop" ELSE @]
      BY <1>5, <2>2 DEF HandleStop
    <3>2. \A j \in Recordings : j # mMuxer => enc'[j] = enc[j]
      BY <1>0, <3>1
    <3>3. mMuxer \in Recordings => enc'[mMuxer] \in Encoder /\ enc'[mMuxer].mRequestStop
      BY <1>0, <3>1 DEF Encoder
    <3>4. EncoderType'
      BY <1>0, <3>1, <3>2, <3>3 DEF EncoderType
    <3>5. \A k \in Recordings : ~Accepts(k)'
      BY <3>2, <3>3 DEF Encoders, Accepts
    <3> QED
      BY <3>4, <3>5 DEF Encoders
  <2> QED
    BY <2>1, <2>2
<1>6. CASE Ready \/ PrepareFails \/ Dismantle \/ Destroyed \/ ReleaseSurface \/ HandleQuit \/ ThreadExit
  BY <1>1, <1>6 DEF Ready, PrepareFails, Dismantle, Destroyed, ReleaseSurface, HandleQuit, ThreadExit
<1>7. CASE StartRecord \/ StopRecord \/ StopRecording \/ OnDrawFrame \/ StartThread \/ WaitReady \/ SendStart
             \/ FrameAvailable \/ PostFrame
  BY <1>1, <1>7 DEF StartRecord, StopRecord, StopRecording, OnDrawFrame, StartThread, WaitReady, SendStart,
     FrameAvailable, PostFrame
<1> QED
  BY <1>2, <1>3, <1>4, <1>5, <1>6, <1>7 DEF Others, UI, Renderer, HandlerThread

-----------------------------------------------------------------------------
(* Each step leads from a phase of the recording to the same or the next one. *)

Phases == Down \/ Starting \/ Sending \/ Asked \/ Creating \/ Recording \/ Stopping \/ Closing \/ Quitting

\* What a step must establish.
Onward == QueueType' /\ Ordered(queue)' /\ Life' /\ crash' \notin {"session exists", "ui: no handler"}

LEMMA Quiet ==
    ASSUME RInv, crash = "no", UNCHANGED <<queue, crash>>, Life'
    PROVE  Onward
BY DEF Onward, RInv, TypeOK, QueueType, Ordered

\* The button: a patient user starts a recording when none is on, and stops one that is.
LEMMA UserLife == ASSUME RInv, patient, crash = "no", StartRecord \/ StopRecord PROVE Onward
<1>0. Phases /\ Threads
  BY DEF RInv, Life, Phases, Failed
<1>1. CASE StartRecord
  <2>1. ~mRunning /\ upc = "idle" /\ ~status /\ status'
        /\ UNCHANGED <<upc, gpc, hpc, queue, session, surface, mMuxer, n, crash>>
    BY <1>1 DEF StartRecord, MayClick, Settled
  <2>2. Down'
    BY <1>0, <2>1 DEF Phases, Threads, Down, Starting, Sending, Asked, Creating, Recording, Stopping, Closing, Quitting,
       Closed
  <2> QED
    BY <2>1, <2>2, Quiet DEF Life
<1>2. CASE StopRecord
  <2>1. status /\ upc = "idle" /\ mMuxer # 0 /\ hpc = "loop"
        /\ UNCHANGED <<gpc, hpc, queue, session, surface, mMuxer, n, crash>>
    BY <1>2 DEF StopRecord, MayClick, Settled
  <2>2. Recording
    BY <1>0, <2>1 DEF Phases, Down, Starting, Sending, Asked, Creating, Stopping, Closing, Quitting, Closed
  <2>3. mRunning
    BY <1>0, <2>1 DEF Threads
  <2>4. ~status' /\ upc' = "remove"
    BY <1>2, <2>3 DEF StopRecord
  <2>5. Recording'
    BY <2>1, <2>2, <2>4 DEF Recording, Started, Open
  <2> QED
    BY <2>1, <2>5, Quiet DEF Life
<1> QED
  BY <1>1, <1>2

\* stopRecording finds the handler, whose queue holds nothing but frames.
LEMMA StopLife == ASSUME RInv, crash = "no", StopRecording PROVE Onward
<1>0. Phases /\ Threads /\ queue \in Seq(Messages) /\ Ordered(queue)
  BY DEF RInv, Life, Phases, Failed, TypeOK, QueueType
<1>1. UNCHANGED <<status, gpc, hpc, session, surface, mMuxer, n>> /\ upc \in {"remove", "stop", "quit"}
  BY DEF StopRecording
<1>2. (Recording /\ upc \in {"remove", "stop"}) \/ ((Stopping \/ Closing) /\ upc = "quit")
  BY <1>0, <1>1 DEF Phases, Down, Starting, Sending, Asked, Creating, Recording, Stopping, Closing, Quitting
<1>3. mHandler /\ hpc # "quit"
  BY <1>0, <1>2 DEF Threads, Recording, Stopping, Closing
<1>4. CASE upc = "remove"
  <2>1. queue' = RemoveFrames(queue) /\ crash' = crash /\ upc' = "stop"
    BY <1>3, <1>4 DEF StopRecording, Post
  <2>2. Recording /\ Mail(queue) = {}
    BY <1>2, <1>4 DEF Recording
  <2>3. queue' = <<>>
    BY <1>0, <2>1, <2>2, NothingButFrames
  <2>4. Mail(queue') = {} /\ Ordered(queue') /\ queue' \in Seq(Messages)
    BY <2>3, MailEmpty
  <2>5. Recording'
    BY <1>1, <1>4, <2>1, <2>2, <2>4 DEF Recording, Started, Open
  <2> QED
    BY <2>1, <2>4, <2>5 DEF Onward, Life, QueueType
<1>5. CASE upc = "stop"
  <2>1. queue' = Append(queue, "stop") /\ crash' = crash /\ upc' = "quit"
    BY <1>3, <1>5 DEF StopRecording, Post
  <2>2. Recording /\ Mail(queue) = {}
    BY <1>2, <1>5 DEF Recording
  <2>3. Mail(queue') = {"stop"} /\ Ordered(queue') /\ queue' \in Seq(Messages)
    BY <1>0, <2>1, <2>2, MailAppend DEF Messages
  <2>4. Stopping'
    BY <1>1, <1>5, <2>1, <2>2, <2>3 DEF Recording, Stopping, Started, Open
  <2> QED
    BY <2>1, <2>3, <2>4 DEF Onward, Life, QueueType
<1>6. CASE upc = "quit"
  <2>1. queue' = Append(queue, "quit") /\ crash' = crash /\ upc' = "idle"
    BY <1>3, <1>6 DEF StopRecording, Post
  <2>2. (Stopping /\ Mail(queue) = {"stop"}) \/ (Closing /\ Mail(queue) = {})
    BY <1>2, <1>6 DEF Stopping, Closing
  <2>3. Mail(queue') = Mail(queue) \cup {"quit"} /\ Ordered(queue') /\ queue' \in Seq(Messages)
    <3>1. \A x \in Mail(queue) : Rank(x) < Rank("quit")
      BY <2>2 DEF Rank
    <3> QED
      BY <1>0, <2>1, <3>1, MailAppend DEF Messages
  <2>4. CASE Stopping /\ Mail(queue) = {"stop"}
    <3>1. Mail(queue') = {"stop", "quit"}
      BY <2>3, <2>4
    <3>2. Stopping'
      BY <1>1, <2>1, <2>4, <3>1 DEF Stopping, Started, Open
    <3> QED
      BY <2>1, <2>3, <3>2 DEF Onward, Life, QueueType
  <2>5. CASE Closing /\ Mail(queue) = {}
    <3>1. Mail(queue') = {"quit"}
      BY <2>3, <2>5
    <3>2. Closing'
      BY <1>1, <2>1, <2>5, <3>1 DEF Closing, Started
    <3> QED
      BY <2>1, <2>3, <3>2 DEF Onward, Life, QueueType
  <2> QED
    BY <2>2, <2>4, <2>5
<1> QED
  BY <1>1, <1>4, <1>5, <1>6

\* A frame may be posted at any time, and changes nothing else.
LEMMA FrameLife ==
    ASSUME RInv, crash = "no", gpc = "post", gpc' = "idle",
           UNCHANGED <<status, upc, hpc, session, surface, mMuxer, n>>,
           Post(Append(queue, "frame"), "gl: no handler")
    PROVE  Onward
<1>0. Phases /\ queue \in Seq(Messages) /\ Ordered(queue)
  BY DEF RInv, Life, Phases, Failed, TypeOK, QueueType
<1>1. crash' \in {"no", "gl: no handler"} /\ queue' \in {queue, Append(queue, "frame")}
  BY DEF Post
<1>2. queue' \in Seq(Messages) /\ Ordered(queue') /\ Mail(queue') = Mail(queue)
  BY <1>0, <1>1, MailAppend DEF Messages
<1>3. Phases'
  BY <1>0, <1>2 DEF Phases, Down, Starting, Sending, Asked, Creating, Recording, Stopping, Closing, Quitting,
     Started, Closed, Open
<1> QED
  BY <1>1, <1>2, <1>3 DEF Onward, Phases, Life, QueueType

\* The renderer begins a recording only from Down: it is the only one that clears
\* the way from "start" over "wait" and "send" to the message.
LEMMA RendererLife == ASSUME RInv, crash = "no", Renderer PROVE Onward
<1>0. Phases /\ Threads /\ queue \in Seq(Messages) /\ Ordered(queue) /\ mRunning \in BOOLEAN
  BY DEF RInv, Life, Phases, Failed, TypeOK, QueueType, FlagType
<1>1. CASE OnDrawFrame
  <2>1. gpc = "idle" /\ UNCHANGED <<status, upc, hpc, queue, session, surface, mMuxer, n, crash>>
        /\ (mRunning => gpc' = "check") /\ (~mRunning => status /\ gpc' = "start")
    BY <1>1 DEF OnDrawFrame
  <2>2. CASE mRunning
    <3>1. Phases'
      BY <1>0, <2>1, <2>2 DEF Phases, Down, Starting, Sending, Asked, Creating, Recording, Stopping, Closing, Quitting,
         Started, Closed, Open
    <3> QED
      BY <2>1, <3>1, Quiet DEF Life, Phases
  <2>3. CASE ~mRunning
    <3>1. Down
      BY <1>0, <2>3 DEF Threads, Phases, Starting, Sending, Asked, Creating, Recording, Stopping, Closing, Quitting
    <3>2. Down'
      BY <2>1, <2>3, <3>1 DEF Down, Closed
    <3> QED
      BY <2>1, <3>2, Quiet DEF Life
  <2> QED
    BY <2>2, <2>3
<1>2. CASE StartThread
  <2>1. gpc = "start" /\ UNCHANGED <<status, upc, queue, session, surface, mMuxer, n, crash>>
    BY <1>2 DEF StartThread
  <2>2. Down /\ status
    BY <1>0, <2>1 DEF Phases, Starting, Sending, Asked, Creating, Recording, Stopping, Closing, Quitting, Started, Down
  <2>3. gpc' = "wait" /\ hpc' = "starting"
    BY <1>0, <1>2, <2>2 DEF StartThread, Threads, Down
  <2>4. Starting'
    BY <2>1, <2>2, <2>3 DEF Down, Starting, Closed
  <2> QED
    BY <2>1, <2>4, Quiet DEF Life
<1>3. CASE WaitReady
  <2>1. gpc = "wait" /\ mReady /\ gpc' = "send"
        /\ UNCHANGED <<status, upc, hpc, queue, session, surface, mMuxer, n, crash>>
    BY <1>3 DEF WaitReady
  <2>2. Starting /\ hpc = "loop"
    BY <1>0, <2>1 DEF Phases, Down, Starting, Sending, Asked, Creating, Recording, Stopping, Closing, Quitting, Started,
       Threads
  <2>3. Sending'
    BY <2>1, <2>2 DEF Starting, Sending, Closed
  <2> QED
    BY <2>1, <2>3, Quiet DEF Life
<1>4. CASE SendStart
  <2>1. gpc = "send" /\ gpc' = "check" /\ UNCHANGED <<status, upc, hpc, session, surface, mMuxer, n>>
    BY <1>4 DEF SendStart
  <2>2. Sending /\ mHandler /\ hpc = "loop" /\ Mail(queue) = {}
    BY <1>0, <2>1 DEF Phases, Down, Starting, Sending, Asked, Creating, Recording, Stopping, Closing, Quitting, Started,
       Threads
  <2>3. queue' = Append(queue, "start") /\ crash' = crash
    BY <1>4, <2>2 DEF SendStart, Post
  <2>4. queue' \in Seq(Messages) /\ Ordered(queue') /\ Mail(queue') = {"start"}
    BY <1>0, <2>2, <2>3, MailAppend DEF Messages
  <2>5. Asked'
    BY <2>1, <2>2, <2>4 DEF Sending, Asked, Started, Closed
  <2> QED
    BY <2>3, <2>4, <2>5 DEF Onward, Life, QueueType
<1>5. CASE FrameAvailable
  <2>1. gpc = "check" /\ gpc' \in {"post", "idle"}
        /\ UNCHANGED <<status, upc, hpc, queue, session, surface, mMuxer, n, crash>>
    BY <1>5 DEF FrameAvailable
  <2>2. Phases'
    BY <1>0, <2>1 DEF Phases, Down, Starting, Sending, Asked, Creating, Recording, Stopping, Closing, Quitting,
       Started, Closed, Open
  <2> QED
    BY <2>1, <2>2, Quiet DEF Life, Phases
<1>6. CASE PostFrame
  BY <1>6, FrameLife DEF PostFrame
<1> QED
  BY <1>1, <1>2, <1>3, <1>4, <1>5, <1>6 DEF Renderer

\* Taking a message from the queue.
LEMMA Taken ==
    ASSUME RInv, NEW m \in Messages, Take(m)
    PROVE  /\ hpc = "loop" /\ queue' \in Seq(Messages) /\ Ordered(queue')
           /\ Mail(queue') = Mail(queue) \ {m}
           /\ m # "frame" => m \in Mail(queue) /\ \A x \in Mail(queue) : x # m => Rank(m) < Rank(x)
<1>1. queue \in Seq(Messages) /\ Ordered(queue) /\ queue # <<>> /\ Head(queue) = m /\ queue' = Tail(queue) /\ hpc = "loop"
  BY DEF RInv, TypeOK, QueueType, Take
<1> QED
  BY <1>1, MailTail

LEMMA MessageLife == ASSUME RInv, crash = "no", HandleStart \/ PrepareFails \/ HandleFrame \/ HandleStop PROVE Onward
<1>0. Phases /\ Threads /\ n \in Nat
  BY RecorderBounds DEF RInv, Life, Phases, Failed, TypeOK, CountType
<1>1. CASE HandleStart
  <2>1. /\ n' = n + 1 /\ surface' /\ hpc' = "create" /\ Take("start")
        /\ UNCHANGED <<status, upc, gpc, session, mMuxer, crash>>
    BY <1>1 DEF HandleStart
  <2>2. hpc = "loop" /\ queue' \in Seq(Messages) /\ Ordered(queue') /\ Mail(queue') = Mail(queue) \ {"start"}
        /\ "start" \in Mail(queue)
    BY <2>1, Taken DEF Messages
  <2>3. Asked /\ Mail(queue') = {}
    BY <1>0, <2>2 DEF Phases, Down, Starting, Sending, Asked, Creating, Recording, Stopping, Closing, Quitting
  <2>4. n' # 0
    BY <1>0, <2>1
  <2>5. Creating'
    BY <2>1, <2>3, <2>4 DEF Asked, Creating, Started, Closed
  <2> QED
    BY <2>1, <2>2, <2>5 DEF Onward, Life, QueueType
<1>2. CASE PrepareFails
  <2>1. Take("start") /\ crash' = "prepare" /\ hpc' = hpc
    BY <1>2 DEF PrepareFails
  <2>2. hpc = "loop" /\ queue' \in Seq(Messages) /\ Ordered(queue')
    BY <2>1, Taken DEF Messages
  <2> QED
    BY <2>1, <2>2 DEF Onward, Life, Failed, QueueType
<1>3. CASE HandleFrame
  <2>1. Take("frame") /\ crash' \in {"no", "frame without surface"}
        /\ UNCHANGED <<status, upc, gpc, hpc, session, surface, mMuxer, n>>
    BY <1>3 DEF HandleFrame
  <2>2. queue' \in Seq(Messages) /\ Ordered(queue') /\ Mail(queue') = Mail(queue) \ {"frame"}
    BY <2>1, Taken DEF Messages
  <2>3. Mail(queue') = Mail(queue)
    BY <2>2 DEF Mail
  <2>4. Phases'
    BY <1>0, <2>1, <2>3 DEF Phases, Down, Starting, Sending, Asked, Creating, Recording, Stopping, Closing, Quitting,
       Started, Closed, Open
  <2> QED
    BY <2>1, <2>2, <2>4 DEF Onward, Phases, Life, QueueType
<1>4. CASE HandleStop
  <2>1. Take("stop") /\ UNCHANGED <<status, upc, gpc, session, surface, n, crash>> /\ mMuxer' = 0
        /\ (mMuxer # 0 => hpc' = "destroy")
    BY <1>4 DEF HandleStop
  <2>2. hpc = "loop" /\ queue' \in Seq(Messages) /\ Ordered(queue') /\ Mail(queue') = Mail(queue) \ {"stop"}
        /\ "stop" \in Mail(queue)
    BY <2>1, Taken DEF Messages
  <2>3. Stopping
    BY <1>0, <2>2 DEF Phases, Down, Starting, Sending, Asked, Creating, Recording, Closing, Quitting
  <2>4. hpc' = "destroy"
    BY <2>1, <2>3 DEF Stopping, Open
  <2>5. (upc' = "quit" /\ Mail(queue') = {}) \/ (upc' = "idle" /\ Mail(queue') = {"quit"})
    BY <2>1, <2>2, <2>3 DEF Stopping
  <2>6. Closing'
    BY <2>1, <2>3, <2>4, <2>5 DEF Stopping, Closing, Started
  <2> QED
    BY <2>1, <2>2, <2>6 DEF Onward, Life, QueueType
<1> QED
  BY <1>1, <1>2, <1>3, <1>4

\* The rest of the handler thread: QUIT comes after STOP, so it finds everything closed.
LEMMA HandlerLife ==
    ASSUME RInv, crash = "no",
           \/ Ready \/ CreateSendSession \/ Dismantle \/ Destroyed \/ ReleaseSurface \/ HandleQuit \/ ThreadExit
    PROVE  Onward
<1>0. Phases /\ Threads /\ queue \in Seq(Messages) /\ Ordered(queue)
  BY DEF RInv, Life, Phases, Failed, TypeOK, QueueType
<1>1. CASE Ready
  <2>1. hpc = "starting" /\ queue' = <<>> /\ hpc' = "loop"
        /\ UNCHANGED <<status, upc, gpc, session, surface, mMuxer, n, crash>>
    BY <1>1 DEF Ready
  <2>2. queue' \in Seq(Messages) /\ Ordered(queue') /\ Mail(queue') = {}
    BY <2>1, MailEmpty
  <2>3. Starting
    BY <1>0, <2>1 DEF Phases, Down, Sending, Asked, Creating, Recording, Stopping, Closing, Quitting
  <2>4. Starting'
    BY <2>1, <2>2, <2>3 DEF Starting, Closed
  <2> QED
    BY <2>1, <2>2, <2>4 DEF Onward, Life, QueueType
<1>2. CASE CreateSendSession
  <2>1. hpc = "create" /\ UNCHANGED <<status, upc, gpc, queue, surface, n>>
    BY <1>2 DEF CreateSendSession
  <2>2. Creating
    BY <1>0, <2>1 DEF Phases, Down, Starting, Sending, Asked, Recording, Stopping, Closing, Quitting
  <2>3. session' = "open" /\ crash' = crash /\ mMuxer' = n /\ hpc' = "loop"
    BY <1>2, <2>2 DEF CreateSendSession, Creating
  <2>4. Recording'
    BY <2>1, <2>2, <2>3 DEF Creating, Recording, Started, Open
  <2> QED
    BY <2>1, <2>3, <2>4, Quiet DEF Life
<1>3. CASE Dismantle
  <2>1. hpc = "destroy" /\ hpc' = "destroyed" /\ UNCHANGED <<status, upc, gpc, queue, surface, mMuxer, n, crash>>
    BY <1>3 DEF Dismantle
  <2>2. Closing'
    BY <1>0, <2>1 DEF Phases, Down, Starting, Sending, Asked, Creating, Recording, Stopping, Closing, Quitting, Started
  <2> QED
    BY <2>1, <2>2, Quiet DEF Life
<1>4. CASE Destroyed
  <2>1. hpc = "destroyed" /\ hpc' = "release" /\ session' = "none"
        /\ UNCHANGED <<status, upc, gpc, queue, surface, mMuxer, n, crash>>
    BY <1>4 DEF Destroyed
  <2>2. Closing'
    BY <1>0, <2>1 DEF Phases, Down, Starting, Sending, Asked, Creating, Recording, Stopping, Closing, Quitting, Started
  <2> QED
    BY <2>1, <2>2, Quiet DEF Life
<1>5. CASE ReleaseSurface
  <2>1. hpc = "release" /\ hpc' = "loop" /\ ~surface'
        /\ UNCHANGED <<status, upc, gpc, queue, session, mMuxer, n, crash>>
    BY <1>5 DEF ReleaseSurface
  <2>2. Closing'
    BY <1>0, <2>1 DEF Phases, Down, Starting, Sending, Asked, Creating, Recording, Stopping, Closing, Quitting, Started
  <2> QED
    BY <2>1, <2>2, Quiet DEF Life
<1>6. CASE HandleQuit
  <2>1. hpc = "loop" /\ queue # <<>> /\ Head(queue) = "quit" /\ queue' = <<>> /\ hpc' = "quit"
        /\ UNCHANGED <<status, upc, gpc, session, surface, mMuxer, n, crash>>
    BY <1>6 DEF HandleQuit
  <2>2. "quit" \in Mail(queue) /\ \A x \in Mail(queue) : x # "quit" => Rank("quit") < Rank(x)
    BY <1>0, <2>1, MailTail
  <2>3. "stop" \notin Mail(queue)
    BY <2>2 DEF Rank
  <2>4. Closing
    BY <1>0, <2>1, <2>2, <2>3 DEF Phases, Down, Starting, Sending, Asked, Creating, Recording, Stopping, Quitting
  <2>5. Quitting'
    BY <2>1, <2>2, <2>4 DEF Closing, Quitting, Started, Closed
  <2>6. queue' \in Seq(Messages) /\ Ordered(queue')
    BY <2>1, MailEmpty
  <2> QED
    BY <2>1, <2>5, <2>6 DEF Onward, Life, QueueType
<1>7. CASE ThreadExit
  <2>1. hpc = "quit" /\ hpc' = "none" /\ UNCHANGED <<status, upc, gpc, queue, session, surface, mMuxer, n, crash>>
    BY <1>7 DEF ThreadExit
  <2>2. Down'
    BY <1>0, <2>1 DEF Phases, Down, Starting, Sending, Asked, Creating, Recording, Stopping, Closing, Quitting, Started,
       Closed
  <2> QED
    BY <2>1, <2>2, Quiet DEF Life
<1> QED
  BY <1>1, <1>2, <1>3, <1>4, <1>5, <1>6, <1>7

-----------------------------------------------------------------------------
(* The theorems.                                                           *)

LEMMA Begin == Init => TypeOK /\ Threads /\ Encoders /\ Ordered(queue) /\ Life /\ crash = "no"
<1> SUFFICES ASSUME Init PROVE TypeOK /\ Threads /\ Encoders /\ Ordered(queue) /\ Life /\ crash = "no"
  OBVIOUS
<1>1. FlagType
  <2>1. patient \in BOOLEAN
    BY RecorderBounds DEF Init
  <2> QED
    BY <2>1 DEF Init, FlagType
<1>2. PlaceType
  BY DEF Init, PlaceType
<1>3. CountType
  BY RecorderBounds DEF Init, CountType
<1>4. QueueType /\ Ordered(queue)
  BY MailEmpty DEF Init, QueueType
<1>5. NoEncoder \in Encoder
  BY DEF NoEncoder, Encoder
<1>6. EncoderType
  BY <1>5 DEF Init, EncoderType
<1>7. Encoders
  BY DEF Init, Encoders, Accepts, NoEncoder
<1>8. Threads
  BY DEF Init, Threads
<1>9. Down
  BY DEF Init, Down, Closed
<1> QED
  BY <1>1, <1>2, <1>3, <1>4, <1>6, <1>7, <1>8, <1>9 DEF TypeOK, Life, Init

\* Nobody becomes patient, or loses patience.
LEMMA NextPatient == ASSUME Next \/ UNCHANGED vars PROVE patient' = patient
<1>1. CASE StartRecord \/ StopRecord \/ UI
  BY <1>1 DEF StartRecord, StopRecord, MayClick, UI, StopRecording
<1>2. CASE Renderer
  BY <1>2 DEF Renderer, OnDrawFrame, StartThread, WaitReady, SendStart, FrameAvailable, PostFrame
<1>3. CASE HandlerThread \/ PrepareFails
  BY <1>3 DEF HandlerThread, PrepareFails, Ready, HandleStart, CreateSendSession, HandleFrame, HandleStop, Dismantle,
     Destroyed, ReleaseSurface, HandleQuit, ThreadExit
<1>4. ASSUME NEW k \in Recordings, EncoderThread(k) \/ SpuriousWakeup(k) PROVE patient' = patient
  BY <1>4 DEF EncoderThread, ReadFlags, Wait, FormatChanged, WriteSampleData, SendReturns, DrainReturns,
     SignalEndOfInputStream, Release, SpuriousWakeup, EncoderStep
<1>5. CASE UNCHANGED vars
  BY <1>5
<1> QED
  BY <1>1, <1>2, <1>3, <1>4, <1>5 DEF Next

LEMMA NextOthers == ASSUME RInv, patient, crash = "no", Others PROVE RInv'
<1>0. TypeOK /\ Threads /\ Encoders
  BY DEF RInv
<1>1. hpc = "create" => mMuxer = 0
  BY DEF RInv, Life, Down, Starting, Sending, Asked, Creating, Recording, Stopping, Closing, Quitting, Failed
<1>2. Onward
  BY UserLife, StopLife, RendererLife, MessageLife, HandlerLife DEF Others, UI, HandlerThread
<1>3. FlagType' /\ PlaceType' /\ CountType' /\ Threads'
  BY <1>0, NextFlags, NextPlaces, NextCounts, NextThreads
<1>4. EncoderType' /\ Encoders'
  BY <1>0, <1>1, NextEncoders
<1> QED
  BY <1>2, <1>3, <1>4 DEF Onward, RInv, TypeOK

\* An encoder's steps are its own affair.
LEMMA Kept ==
    ASSUME RInv, UNCHANGED <<ui, gl, handler, owner, session, crash>>, wakeups' \in Nat, EncoderType',
           \A j \in Recordings : Accepts(j)' => Accepts(j)
    PROVE  RInv'
<1>1. FlagType'
  BY DEF RInv, TypeOK, FlagType
<1>2. PlaceType' /\ QueueType'
  BY DEF RInv, TypeOK, PlaceType, QueueType
<1>3. CountType'
  BY DEF RInv, TypeOK, CountType
<1>4. Threads' /\ Ordered(queue')
  BY DEF RInv, Threads
<1>5. Encoders'
  BY DEF RInv, Encoders
<1>6. Life'
  BY DEF RInv, Life, Down, Starting, Sending, Asked, Creating, Recording, Stopping, Closing, Quitting, Failed,
     Started, Closed, Open
<1> QED
  BY <1>1, <1>2, <1>3, <1>4, <1>5, <1>6 DEF RInv, TypeOK

LEMMA RecorderInvariance == Spec => [](patient => RInv)
<1>1. Init => (patient => RInv)
  BY Begin DEF RInv
<1>2. (patient => RInv) /\ [Next]_vars => (patient => RInv)'
  <2> SUFFICES ASSUME patient => RInv, [Next]_vars, patient' PROVE RInv'
    OBVIOUS
  <2>1. patient /\ RInv
    BY NextPatient
  <2>2. CASE UNCHANGED vars
    BY <2>1, <2>2, Kept DEF RInv, TypeOK, CountType, EncoderType, Accepts
  <2>3. CASE crash = "no" /\ Others
    BY <2>1, <2>3, NextOthers
  <2>4. ASSUME NEW k \in Recordings, EncoderThread(k) \/ SpuriousWakeup(k) PROVE RInv'
    BY <2>1, <2>4, EncoderOnly, Kept DEF RInv
  <2> QED
    BY <2>2, <2>3, <2>4 DEF Next, Others
<1> QED
  BY <1>1, <1>2, PTL DEF Spec

\* The types of all flags, places, queues and counters of the four threads, as long as presses
\* of the button wait for the last one to take effect: whatever the threads of
\* MediaEncoderHandler, MediaEncoder and the renderer do, in every order.
THEOREM TypeCorrectness == Spec => [](patient => TypeOK)
<1>1. (patient => RInv) => (patient => TypeOK)
  BY DEF RInv
<1> QED
  BY <1>1, RecorderInvariance, PTL

\* createSendSession never meets the session of the recording before, and stopRecording never
\* a handler that is gone: QUIT, which ends the handler, is handled after STOP, which
\* destroys the session, and no press comes in between.
THEOREM SessionsOneByOne == Spec => []ReopenedAfterClose
<1>1. (patient => RInv) => ReopenedAfterClose
  BY DEF RInv, ReopenedAfterClose
<1> QED
  BY <1>1, RecorderInvariance, PTL

\* When MediaEncoderHandler's thread is gone, the session, the input surface and every
\* encoder of earlier recordings are closed to new frames.
THEOREM RecordingClosed == Spec => []NothingLeftOpen
<1>1. ASSUME patient => RInv PROVE NothingLeftOpen
  <2> SUFFICES ASSUME RInv, ~mRunning PROVE session = "none" /\ ~surface /\ \A k \in Recordings : ~Accepts(k)
    BY <1>1 DEF NothingLeftOpen
  <2>1. hpc = "none"
    BY DEF RInv, Threads
  <2>2. Closed
    BY <2>1 DEF RInv, Life, Down, Starting, Sending, Asked, Creating, Recording, Stopping, Closing, Quitting, Failed
  <2>3. \A k \in Recordings : k # 0
    BY RecorderBounds DEF Recordings
  <2> QED
    BY <2>2, <2>3 DEF RInv, Closed, Encoders
<1> QED
  BY <1>1, RecorderInvariance, PTL
=============================================================================
