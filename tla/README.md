# A TLA+ model of android-virtualcamera

The repository gives an Android cloud phone (RK3588) a camera whose pictures
come from another phone. This directory models the parts of it that run
concurrently or can fail half-way, checks them with TLC on small instances, and
proves the central invariants with TLAPS for every instance.

Every definition is a translation of the source; `PROJECT.json` maps each one to
its lines. Line numbers below refer to the same commit.

## 1. The system

```
 phone                          cloud phone
 VirtualCamera-App              VirtualCamera (native service)      libcameraservice
 camera -> encoder -> slices => RTP poll thread -> receive thread   Camera2Client
           (MediaEncoder,  UDP   (JRTPLIB)         -> ring          | binder calls
            SendPacketAfterSlice)                  -> decode thread |
                                                   -> 2 surfaces <--+
                                camera_vir (HAL provider)
                                framework -> request lists of two threads -> V4L2 buffers
```

| part | state | operations | meets | hard because |
|---|---|---|---|---|
| `VirtualCamera/AnsyncDecoder` | ring of 240 nodes, `need_read` per node, two positions | Create, ReceiveData, Destroy; decode thread | called by the receive thread, calls back into the service | two threads, one plain `int` per node, no lock or barrier |
| `VirtualCamera/VirtualCameraService.cpp` | `msRecvThread`, `msRecvQuit`, `msDecoder`, two windows, the RTP session | seven binder calls under `mInputMutex`; receive thread | clients by binder, JRTPLIB, decoder callback | callback without the mutex; joins with the mutex held; session torn down before its reader is stopped |
| `VirtualCamera/JRTPLIB` (vendored, with `SendPacketAfterSlice` added) and reassembly | sequence numbers, probation, packet list, one reassembly buffer | send, poll, receive | app and service | UDP loss, repetition, reordering; 16-bit wrap |
| `camera_vir/device/VirtualCameraDeviceSession.cpp` | V4L2 pool and count, in-flight set, two request lists, thread states | processCaptureRequest, configureStreams, flush, close; FormatConvertThread, OutputThread | camera framework (calls and callbacks), V4L2 driver | five locks, two condition variables with timeouts, failures at every ioctl, answers from two threads |
| `libcameraservice/api1/Camera2Client.cpp`, `CallbackProcessor.cpp` (changed parts) | preview state, current surface, callback window | connect, setPreviewTarget, setPreviewCallbackTarget, setPreviewCallbackFlag, startPreview, stopPreview, disconnect, destructor | native service, by binder calls | each operation is several calls that other clients and the decode thread may interrupt |
| `camera_vir/provider`, `VirtualCameraDevice.cpp`, with `CameraProviderManager` and `CameraService` | camera table; one ProviderInfo per registration; camera states and clients | start, register, die, add a camera; onRegistration, removeProvider, status callbacks; connect, disconnect | two processes, hwservicemanager, five threads | death and restart of the process; each camera is reported on up to four ways |
| `VirtualCamera-App` recording (`MediaEncoderHandler`, `MediaEncoder`, `MediaMuxerWrapper`, `CameraGLSurfaceView`) | button and renderer flags, handler queue, one encoder per recording, the shared RTP session | start and stop, frames, drain loop | camera, JNI sender | four threads; wait and notify in two blocks; a recording that stops while the next begins |
| `VirtualCamera-App` camera (`Camera2BasicFragment`) | `Semaphore(1)`, device and session fields | open, close, callbacks | Android camera | one thread takes the permit and another returns it |
| conversion, OpenGL, gralloc, ffmpeg, bit-stream parsing | data | data | - | not concurrent |

What makes each part correct:

* **decoder**: the codec gets every accepted frame whole, once, in order; the
  threads never share a node; Destroy returns and frees nothing in use.
* **service**: nothing of a session survives `destroySession`; a released
  surface is not written to; `destroySession` returns.
* **transport**: a frame that arrives is the frame that was sent; frames are not
  mixed; order survives the wrap.
* **HAL session**: V4L2 buffers are conserved; each request is answered exactly
  once, in order; nothing is freed under a request; calls return; nothing happens
  after close.
* **camera client**: a session exists exactly while a client previews, with the
  surfaces it asked for; the decode thread never writes to a surface that was
  given up.
* **provider, manager and camera service**: a live provider's cameras are present; a dead
  one's cameras and clients are gone.
* **app**: a recording that ends leaves no session, surface or thread; leaving the
  screen leaves no camera open; nobody waits for ever.

`PROJECT.json` lists every component and, under `hazards`, what is hard to test
at the line where it bites.

## 2. Modules

| module | models | kind |
|---|---|---|
| `FrameQueue` | what the decoder promises: a bounded FIFO | abstract specification |
| `AnsyncDecoder` | the ring and its two threads | component, refines `FrameQueue` |
| `AnsyncDecoder_proofs` | | 8 theorems, the refinement among them |
| `VirtualCameraService` | binder calls, receive thread, decode callback, RTP session flags | component |
| `VirtualCameraService_proofs` | | 4 theorems |
| `CaptureSession` | the HAL's request pipeline | component |
| `CaptureSession_proofs` | | 5 theorems on buffers and threads, 4 on the order of requests |
| `Camera2Client` | the camera service's client, extending `VirtualCameraService` | composition of client and service |
| `Camera2Client_proofs` | extends `VirtualCameraService_proofs` | 4 theorems |
| `CameraProviders` | provider process, provider manager, camera states, clients | composition across two processes |
| `CameraProviders_proofs` | | 3 theorems |
| `Recorder` | button, renderer, handler thread, encoder threads, sending session | composition of the app's four threads |
| `Recorder_proofs` | | 3 theorems |
| `CameraFragment` | main, GL and background thread around the camera | component |
| `CameraFragment_proofs` | | 3 theorems |
| `VideoTransport`, `MCVideoTransport` | sender, network, packet list, reassembly | end-to-end composition of the app's and the service's halves |
| `VideoTransport_proofs` | | 4 theorems |

### AnsyncDecoder

State: `need_read` and `buffer` per node, `node_write` of the owner, `node` of
the decode thread, `cnt_rcv`/`cnt_dec`, and a program counter per thread (`opc`,
`dpc`). Actions follow the code: `ReceiveData` up to the wait loop, `WaitNode`
(one `usleep`), `GiveUp`, `NodeFree`, `Fill`, `Publish`; `ThreadStart`,
`DecodeNode`, `ReleaseNode`, `ThreadExit`; `Create`, `CreateFails`, `Destroy`,
`Free`.

`need_read` is a plain `int`; nothing orders its store (line 468) after the
`memcpy` into the node. `StoresInOrder = FALSE` lets the decode thread see the
flag first, which the ARM targets of the build allow; the frame it then decodes
is whatever the node holds. The properties are stated for both orders. In
either, the positions, the counters and progress are right, and the ring is a
FIFO of nodes: every accepted frame has its node decoded once, in order
(`handed` records the accepted frame of each decoded node). What the order
decides is the contents: with `TRUE` the codec gets what was accepted
(`decoded = handed`) and the threads never meet in a node; with `FALSE` it may
get what the node held before, and `SlotExclusive` leaves exactly that case open,
the stores that line 468 was seen before.

### VirtualCameraService

A binder call is one step, because it runs from start to end under
`mInputMutex`; only `destroySession` takes several (`pc`), as it waits for
threads. The receive thread's place is `rpc`, the decode thread's `dec`; `using`
is the window the callback writes to at the moment, read without the mutex.
`freed` remembers whether a window's last reference was dropped with or without
a session. The decoder is reduced to the number of frames in its ring; its own
module justifies that.

### CaptureSession

One step per critical section or ioctl. `pc` is the framework's call in progress;
`mInterfaceLock` keeps it the only one. `step[t]` is the place of
`processCaptureResult` or `processCaptureRequestError` as run by `t`, which is
OutputThread (`"output"`) or the caller of flush (`"call"`). A V4L2 buffer is with
the driver (`queued`), counted (`mNumDequeuedV4l2Buffers`), or neither
(`leaked`): forgotten after an implausible frame, or not queued when setting up
the stream broke off. A buffer whose QBUF failed stays counted. Whether the driver streams
(`driverOn`) and whether the session believes it does (`mV4l2Streaming`) are two
variables, as a failure between the two parts them.

With `IoctlsFail` every ioctl may fail on its own at any time. A failure ends the
function there, and what had been done stays: STREAMOFF, or REQBUFS(0) after it
(`StreamOffFailed`); S_FMT or REQBUFS, before the count is set (`StreamNotSet`);
QUERYBUF, QBUF or STREAMON after line 3399 set it, with any number of the buffers queued,
and DQBUF or QBUF in the loop that swallows the first frames, with the driver streaming and
perhaps one buffer out (`StreamHalfSet`). After the last of these `mV4l2Streaming` is
false, so `v4l2StreamOffLocked` returns OK without asking the driver, and every later
REQBUFS meets a driver that streams, until the device is closed; since the request goes
on (the result is ignored, line 820), DQBUF may still succeed and be counted. A
driver that grants more buffers than asked for is an instance with larger constants.
Other failures that are modelled: a stream that cannot be stopped for frames still out,
import failure, implausible frames, `onDeviceError`, `return -EINVAL` from the thread
loop, timeouts of all three timed waits, and a spurious wake-up.

What is abstracted: buffer contents and formats, fences, metadata, and the two
target frame rates (at least `kDefaultFps`, or less), which select the pool
size. Requests rejected by their checks change nothing and are left out. The
branch of OutputThread for an unsupported fourcc cannot be taken, as
`VirtualCameraDevice` only lists formats that it handles. `EventThread` is never
started (its `run` is commented out). The model is of a main device; a
sub-device, which gets its frames from the main one, is not modelled.

### VideoTransport

`SendPacket` is one packet of `SendPacketAfterSlice`; `Lose` and `Repeat` are the
network, which with `Overtake` may also deliver in any order; `Poll` is
`RTPSourceStats::ProcessPacket` and `RTPInternalSourceData::ProcessRTPPacket`
(probation, extension of the sequence number, sorted insertion);
`ProcessSDESItem` is a CNAME that ends probation early; `ReceivePacket` is one
packet of `sReceiveVideoPacket`. Bytes are pairs of frame and offset, so that a
wrong join shows. `early` and `received` are history variables, and so are the
fields `id` and `part` of a packet (its number in the stream; its frame and slice):
no guard reads them.

### Camera2Client

It EXTENDS `VirtualCameraService`, so the service's binder calls are the very
actions that are proved about. An operation of the client changes its own fields
at once (they are under its locks) and leaves in `calls[c]` the calls that it has
yet to make to the service; `Call(c)` makes them one by one, and everything else may run
between two of them. Clients are connected one after the other; an evicted
one's destructor runs later. History variables name the situations in which
the code is known not to keep its surfaces or its session (section 3).

### CameraProviders

The lifecycle thread (`lpc`) stands for `onRegistration` and `removeProvider`,
which hold `mProviderLifecycleLock` to their end; the first
`enumerateProviders` is its first job (in the code it holds `mServiceLock`
instead, and a registration may overlap its last reports: that overlap is left
out). `Connect` is `validateConnectLocked` and `startCameraOps`, which makes the camera
NOT_AVAILABLE before the device is opened; between the two only `ReportAbsent` could
change its state, and it gives the same one in either order. A client whose open
fails (`OpenSession` with life 0) is destroyed and gives the camera back. A round of the
hot-plug thread may add no camera, when `/dev` cannot be opened or the sensor's name
is found; `CamerasReported` is about the cameras in the provider's table.
`exec` holds the runs of `onDeviceStatusChanged` with PRESENT, one per
thread that can make one, in the steps between which the status of the camera may
change: look, ask for the cost, insert, update. `life` numbers the provider's
processes, `info[i]` is the i-th ProviderInfo. `setCallback` walks the table of
cameras without `mLock`: an insertion during the walk is a data race, and the
walk may then miss entries. `Working` is the disjunction of the guards of the
actions that threads take by themselves, written out because the prover has no
`ENABLED`; TLC compared the two.

### Recorder

One step per message, `synchronized` block or native call. `crash` ends the
process, as an uncaught exception or `CHECK_ERROR_JRTPLIB` does. Users are
patient (they wait until a press of the button has taken effect) or hasty; the
safety properties are promises to the patient ones, the liveness properties to
both.

### CameraFragment

`permits` is the semaphore. `main`, `gl` and `bg` are the places of the three
threads, `queue` the messages of the background thread, `device[d]` the d-th
device the application opened. A device may be disconnected or fail at any time;
`tryAcquire` may time out.

## 3. Runs

| run | specification | bounds | distinct states | checks |
|---|---|---|---|---|
| `decoder_ordered` | `FairSpec` | 2 nodes, 1 wait, sizes 1 and 4, 4 calls | 32,804 | `TypeOK`, `RingOccupancy`, `UnreadCount`, `SlotExclusive`, `VideoSlack`, `NoUseAfterFree`, `FrameDecoded`, `DestroyReturns`, `ImplementsFrameQueue` |
| `decoder_racy` | `FairSpec` | 3 nodes, either store order | 146,692 | `FrameDecoded` |
| `client` | `FairClientSpec` | 2 clients, 3 operations, 2 sessions, 4 windows, 1 frame | 467,796 | `TypeOK`, `NoOrphan`, `ReleaseAfterDestroy`, `SurfaceSafe`, `SessionMatchesState`, `PreviewServed`, `DestroyReturns` |
| `capture` | `FairSpec` | 2+1 buffers, 3 requests, 1 spurious wake-up, timeouts, failing ioctls | 390,432 | `TypeOK`, `BufferConservation`, `FramesHeld`, `ConfigureIdle`, `AnsweredOnce`, `ResultsInOrder`, `QuietAfterClose`, `CallsReturn`, `RequestAnswered` |
| `transport_lossy` | `Spec` | 3 frames, 5 packets, 2 lost, 1 repeated, any order, numbers modulo 4 | 223,495 | `WholeFrameIntact`, `StartsAtStart` |
| `transport_inorder` | `FairSpec` | 5 frames, 9 packets, 2 lost, numbers modulo 8 from five starting points | 66,571 | `ReceivedInOrder`, `EverythingArrives` |
| `recorder` | `FairSpec` | 2 recordings, 4 presses, 1 frame, 1 spurious wake-up | 128,686 | `ReopenedAfterClose`, `NothingLeftOpen`, `QuitEndsThread`, `StopHeard` |
| `fragment` | `FairSpec` | 2 visits, 1 new GL surface, 1 fault, 1 switch | 81,793 | `PermitAccount`, `PausedClosed`, `CloseReturns` |
| `providers` | `Spec` | 2 processes, 1 camera, 1 rescan, 2 connects | 4,986,183 | `CamerasReported`, `NoGhostCamera`, `ClientLetGo` |
| `service_unlock`, `capture_shutter`, `providers_deferred` | | | | violated, see section 5 |

Why the bounds are enough for what is asked: two nodes make a ring that is full,
empty and wrapped within four calls; two sessions show what the first leaves to
the second, and four surfaces let each of the two be replaced while another is in use;
two buffers against three requests make a dequeue wait, one still buffer makes
the pool change size at a rate change, and three requests fill each of the three
places (FormatConvertThread, OutputThread, flush) at once; slices of two bytes
with frames of 1 to 5 bytes meet a short frame, a full slice, one byte over, a
multiple, and a middle slice; a cycle of 8 with two losses keeps gaps below half
a cycle, as a cycle of 65,536 does in practice; two clients with three operations
between them reach a change of surface, a stop and a new start in mid-session, and
a destructor under the next client; two recordings with four presses let the
first one's encoder drain while the second starts; two visits with a switch make
three opens and three closes; two provider processes give three registrations
(the list of services counts as one) and so a removal with and without a successor,
and a callback, a report or a connect of the first process that arrives in the
second's time. Cameras of a provider do not depend on each other, so one is
enough there.

Deadlock is not checked: every one of these systems may stop (no more calls, a
closed session, a bound reached). That calls return is a liveness property
instead.

**Fairness.** Weak fairness per thread: a thread that can take its next step
takes one. That is what the kernel's scheduler gives a runnable thread, and the
waits in the code are polls or timed waits. Clients are not fair: they may never
call again. In `CaptureSession` the running call is fair (`CallProgress`), what
the framework calls next is not; a timed wait may run out but need not, and
an ioctl may fail but need not, but for DQBUF on a driver that does not stream, which
must. In `VideoTransport` the app, the poll thread
and the receiver are fair, the network is not required to lose or repeat. In
`Camera2Client` a client that began an operation finishes it. In `Recorder` and
`CameraFragment` the threads are fair while the process lives; presses, frames,
faults and timeouts are not required. In `CameraProviders` a process that
started registers; it need not start again, and nobody has to die. The
`providers` run checks invariants of the form "while something is wrong, a thread
still has a step to take" (`Working`): every such step uses up a notification, a
report or a bound, so the threads come to rest, and what they rest in is right.

**Premises of the properties**, each a case the model reaches in which
the code really does not do what the property says:

* `VirtualCameraService!DestroyReturns` starts when `msRecvQuit` is set after the
  receive thread has cleared it: that thread sets it to 0 when it starts (line
  457), so a `destroySession` that comes first waits for ever with `mInputMutex`
  held. It also excludes a source table left locked by an earlier session (finding 1).
* `StopHeard` leaves out a stop requested between the encoder thread's two
  `synchronized` blocks (`MediaEncoder.java:130`), or while it waits with the
  notification already spent: `frameAvailableSoon` refuses frames from then on and
  nothing wakes the thread.
* `CloseReturns` leaves out an open that threw after it took the permit, or whose
  callback the quitting background thread no longer takes.
* `CallsReturn` leaves out a streaming driver with a buffer that nobody will queue
  again (`BufferGone`): one forgotten after an implausible frame or a broken set-up, or
  one still counted that no request holds (its QBUF failed, or the request was dropped). DQBUF
  may then wait for ever. A callback that is lost is no excuse.
* `RequestAnswered` excludes requests dropped by OutputThread, or left in its list when
  `onDeviceError` ended it.
* `ReceivedInOrder` is about a network that keeps the order and repeats nothing, and
  asks that no gap can be half a cycle (`2 * (losses + 1) < SeqCycle`): beyond that a
  16-bit number no longer says in which cycle it is.
* `ReceivedInOrder` and `EverythingArrives` exclude `WrappedOnProbation`: packets
  that arrive before the source is accepted keep their 16-bit numbers, so a
  stream that starts within two packets of the wrap begins in the wrong order.
* The client's properties leave out a call that arrives while `disconnect` joins its
  threads (`late`: it starts a session that nobody ends), the destructor of
  an earlier client (`intruder`: it tears down its successor's session), an
  application that sets a callback surface itself (`targeted`: it is replaced under
  a running session, `Camera2Client.cpp:843`), a preview started again with the
  surface of an earlier one (`reused`: `stopPreviewL` released it, line 1170) and
  a callback window that outlived its surface (`dulled`). That `late` must be left
  out for the callback surface too came out of the proof: a stop and a start while
  `disconnect` joins its threads leave a session with a callback surface behind,
  and the next client's `startPreview` releases that surface in mid-session. It
  takes five operations, more than the run's three; TLC confirms it with
  `MaxOps = 5`.
* `PausedClosed` leaves out a device whose `onOpened` a close overtook between
  `release()` and the assignment, one pushed out of `mCameraDevice` by a second open
  (`stray`), an open whose callback never comes, and the permit a disconnected
  device gives back twice.
* `ReopenedAfterClose` and `NothingLeftOpen` hold for patient users; a hasty one
  can start a recording between STOP and QUIT.
* The provider's properties leave out: an insertion during `setCallback`'s walk
  (`torn`), a waiting instance that is not initialized at its turn (`orphan`, finding 3),
  a death notice that finds its name used again (`misdirected`), a report
  of presence inside `addStates` while the camera is removed (`crossed`), and, for
  ghost cameras and clients, a removal that found a successor waiting (`handed`), of which
  the camera service is told nothing.

## 4. What is proved

All theorems hold for every value of the constants that satisfies the named
assumptions (`CountAssumption`, `BoundAssumption`, `ServiceBounds`,
`ClientBounds`, `SessionBounds`, `RecorderBounds`, `FragmentBounds`,
`ProviderBounds`, `TransportBounds`: the bounds are natural numbers, there is at
least one node, buffer, client, recording, camera or process, frames and slices are
not empty, and a source is on probation for at least two packets). Each follows from an inductive invariant, shown initially true and kept by every
action; TLC checked it on a small instance first.

| module | theorem | states |
|---|---|---|
| `AnsyncDecoder_proofs` | `TypeCorrectness`, `Occupancy`, `Exclusion`, `SlackKept`, `FreedAfterEnd`, `Conservation` | `TypeOK`, `RingOccupancy`, `SlotExclusive`, `VideoSlack`, `NoUseAfterFree`, `UnreadCount` |
| | `Refinement` | `ImplementsFrameQueue` |
| `VirtualCameraService_proofs` | `TypeCorrectness`, `NothingLeft`, `SafeRelease` | `TypeOK`, `NoOrphan`, `ReleaseAfterDestroy` |
| `Camera2Client_proofs` | `ClientsUseService` | `ClientSpec => Spec`: the composition is a behaviour of the service |
| | `NeverWritesToReleased`, `NoSessionLeftOrLost`, `SurfacesServed` | `SurfaceSafe`, `SessionMatchesState`, `PreviewServed` |
| `CaptureSession_proofs` | `TypeCorrectness`, `Held`, `Conservation`, `ClosedIsQuiet` | `TypeOK`, `FramesHeld`, `BufferConservation`, `QuietAfterClose` |
| | `NoDoubleAnswer`, `MetadataOrder`, `ConfigureSafe` | `AnsweredOnce`, `ResultsInOrder`, `ConfigureIdle` |
| `Recorder_proofs` | `TypeCorrectness`, `SessionsOneByOne`, `RecordingClosed` | `TypeOK` for patient users, `ReopenedAfterClose`, `NothingLeftOpen` |
| `CameraFragment_proofs` | `TypeCorrectness`, `PermitsKept`, `NothingOpenWhenPaused` | `TypeOK`, `PermitAccount`, `PausedClosed` |
| `VideoTransport_proofs` | `TypeCorrectness`, `StartsClean`, `FramesIntact`, `InOrder` | `TypeOK`, `StartsAtStart`, `WholeFrameIntact`, `ReceivedInOrder` |
| `CameraProviders_proofs` | `AllReported`, `GhostsGone`, `ClientsGone` | `CamerasReported`, `NoGhostCamera`, `ClientLetGo` |

* **Decoder.** `RingOccupancy` is almost inductive: the lemmas on `Between` say
  how the stretch from reader to writer grows and shrinks around the ring. It
  needs `Control`, which ties the two program counters to the node each has in
  hand (an owner filling a node has seen it read; a reader decoding one has seen
  it published, or is decoding ahead of the stores). No theorem assumes a memory
  order: `SlotExclusive` itself says what each one gives.
* **Refinement of the queue.** The queue is the contents of the stretch, read from
  the reader's node on. `Stretch` adds to the invariant how many nodes that is,
  `Content` that the node about to be published holds what was received. `Publish`
  lengthens the stretch by one at its end, `DecodeNode` and `ReleaseNode` take one from
  its front, every other action leaves it alone. A node whose flag was seen before its
  contents counts as the frame that is still being stored (`Accepted`), so the
  queue is right in both memory orders; that the codec gets the same frames is a
  conjunct of its own, for stores seen in order.
* **Service.** `Nesting` says which thread exists when: the receive thread within
  the session, the decoder within the receive thread, the callback within the
  decoder. `Held` says that the windows in use are distinct and not given up.
  Together they make `ReleaseAfterDestroy` inductive: without a session there is
  no callback, so what is given up then is not in use.
* **Clients and service.** `ClientsUseService` carries the service's invariant over.
  Every operation makes its calls in one order (`Lined`: destroy, release, set,
  create), and as long as no destructor meets another client only one of them has
  calls open (`Solo`, `InTurn`). The properties are
  about moments between operations, so the invariant looks ahead:
  `RunForecast` says whether there will be a session when the open calls are made,
  `ShowForecast` and `CallForecast` which surfaces the service will have, and
  `DestroyFirst` that surfaces are only touched when the session is gone.
  `Windowed` says that previewing with callbacks has a window, `Aimed` that the decode
  thread writes to the surface the service holds. The steps are handled in the few classes of `Kinds`, by which calls
  they leave behind.
* **Capture session.** `FramesHeld` and `BufferConservation` need each other: a
  pool is replaced when the count is zero, and only `Covered` (the count covers every
  frame in use) then rules out an answerer between QBUF and the decrement. `Covered`
  also keeps the count, a `size_t`, from going below zero. `Streaming` says that
  frames are counted only while the driver streams, which `mV4l2Streaming` does not
  say once a set-up has broken off. The lemma `SetsUp` sums up every way in which
  setting up or stopping the stream can end, so that each failure is looked at
  once. `Threads` says who is where after the joins
  of close.
* **Order of requests.** The lists and hands a request passes through form a
  pipeline: what OutputThread or flush has is older than OutputThread's list,
  that is older than what FormatConvertThread converts, and so on to the latest
  request. No list holds a request twice. flush and OutputThread may overtake
  each other, so between them only disjointness holds (`Apart`), which is enough for
  `AnsweredOnce`; `ResultsInOrder` holds because flushed requests carry no
  metadata; `ConfigureIdle` because `mInflightFrames` names every request still in
  the pipeline (`Inflight`).
* **Recorder.** For a patient user a recording is always in one of ten phases
  (`Life`): down, starting, sending START, asked, creating, recording, stopping,
  closing, quitting, or the codec could not be prepared. A phase fixes the places
  of UI, renderer and handler, what exists, and which messages wait. Frames may wait anywhere, so
  the queue is seen as the set of its other messages (`Mail`) and their order
  (`Ordered`): QUIT is behind STOP, so the thread ends only when all is closed.
  Each lemma of the last part takes one thread's steps from a phase to the same or the next
  one. `Encoders` says that of all encoders, also those still draining, only the
  one of the muxer at hand takes frames.
* **Camera fragment.** The account of the semaphore is not inductive: nothing in
  it says that a callback is the first for its device. `Messages` says so
  from the queue and the state of each device. `PausedClosed` further needs
  `Lifecycle` (the background thread lives from onResume to the end of onPause), `Tracked`
  (every open device is in `mCameraDevice`, in a callback, or an exception) and
  `Overtaken` (what a close in progress has left behind).
* **Transport.** `DataInv` says that every packet, on its way or kept, is `Genuine`
  (its flag and payload are those of the slice it names) and that no buffer has a first
  byte behind others (`Clean`); `StartsAtStart` is part of it. `Partial` says that
  when the last packets received are the first slices of a frame in order, the
  buffer holds exactly that beginning of the frame, so the end slice completes it
  (`FramesIntact`). No induction over the slices is needed: the invariant advances
  one slice per step. `InOrder` rests on `OrderInv`, for behaviours that are
  `Orderly`: the network holds the latest packets in a row (`Lined`), list and
  received packets rise (`Sorted`), and the highest number seen is the number of the
  last packet taken, extended by the cycles the code counted (`Highest`). The
  lemmas on `%` and `\div` show that `ProcessPacket`'s test for a wrap is right
  as long as fewer than half a cycle of packets are missing. That `Max` of the
  places before which `Insert` puts a packet exists comes from `Least`, the
  well-foundedness of the natural numbers.
* **Providers.** `Counted` (in `TypeInv`) bounds the instances by the registrations.
  `Structure` says that only the first of `mProviders` is in use and the others are
  untouched (`Listed`, `Unused`), which instance the lifecycle thread has in hand
  (`Places1`), and that a linked instance is up or its death is on its way (`Linked`).
  For `GhostsGone`: a camera the service has is with an instance or with the removal
  under way (`Ghosts`), and a half-made state has a run that finishes it
  (`HalfPresent`). For `ClientsGone`: a client's session is of an instance that
  has the camera, or the camera waits for its removal (`Held`); that the removal
  then finds the client needs the camera's status to be good until it gets there
  (`InUse`, `Leaving`, `Once`). For `AllReported` a camera is followed from the
  table: the process calls the instance that serves it (`Caller`), an instance
  will serve it if it is registered (`Served`), each camera of the table is
  noted by that instance or in a callback (`Cached`), and each of an
  instance's cameras is present, to be notified or in a run that will make it so
  (`Reported`). The last steps show that in a state where no thread can step
  (`Resting`, `RestUnlocked`) nothing is on its way any more. While an instance is
  being initialized no other is (`LockedAlone`).

Only model-checked, and why:

* liveness (`FrameDecoded`, `DestroyReturns`, `CallsReturn`, `RequestAnswered`,
  `EverythingArrives`, `QuitEndsThread`, `StopHeard`, `CloseReturns`): the prover has
  no rule for fairness. For the same reason that the provider's threads do come to
  rest is argued (section 3) and not proved; what they rest in is;
* `TypeOK` of the recorder under hasty users: that `RemoveFrames` returns a
  sequence of messages whatever waits needs an induction over the queue. (With a
  patient user only frames wait when it is called.)

## 5. Findings

1. `service_unlock`: `BYEDestroy` clears `created` before the receive thread is
   told to stop (`VirtualCameraService.cpp:483`); its `EndDataAccess` then returns
   early and the source table stays locked, against `rtpsession.h:279`. The
   session object is reused, so the next receive thread blocks.
2. `capture_shutter`: `OutputThread::flush` answers the list it took while
   OutputThread answers later requests that FormatConvertThread passes on, so
   shutter notifications may go out of order, which
   `Camera3OutputUtils.cpp:1005` treats as a device error.
3. `providers_deferred`: a registration that was deferred "will get initialized
   immediately after the currently present instance is removed"
   (`CameraProviderManager.cpp:1285`). `removeProvider` tries once; when the provider is
   not registered at that moment the instance stays in `mProviders` with no interface
   and no death link, and every later process waits behind it for ever.

Other cases in which the models show the code to fall short are the premises of
section 3. Two that earlier versions of this project stated as properties:
`sources.Clear()` may delete the table that the receive thread is walking, by
the same order of steps as in finding 1, and `flush` returns with requests still in
FormatConvertThread.

## 6. Not modelled

* In modelled components: `produceFrame`'s buffer handling on a surface, the
  hand-off from a main to a sub-device, `dumpState`, the cache of imported buffer
  handles, several RTP sources at once, source timeouts; in the camera service
  everything but camera states, clients' places in the list and the provider's
  instances (no torch, offline sessions, listeners, permissions); in the app
  a lost EGL context, and the audio and byte-buffer encoders, which
  nothing creates.
* Pixel conversion, gralloc, RGA, OpenGL, bit-stream parsing, ffmpeg: data
  transformations without control that the properties depend on.
* `EventLoop.c`: in no build target. `deviceRemoved` of the provider: no caller.
* AOSP's `Camera3Device` and the rest of `libcameraservice`, the ffmpeg headers and sources,
  and the rest of JRTPLIB: more than nine tenths of the repository's lines, vendored
  and unchanged; where the project's own code depends on them, the part it uses is
  modelled from their source.

## 7. Plan

Done, in this order: (1) decoder and its abstract queue, (2) native service,
(3) capture session, (4) transport, (5) recorder, (6) camera fragment, (7) client
composed with the service, (8) provider, manager and camera service.

Left to model: the hand-off from main to sub-device and `dumpState` in the capture
session; the buffer handle cache and `VirtualCameraMemManager`; the surface's
buffer queue under `produceFrame`.

Proved, in this order: decoder, service, capture session (buffers), refinement of
`FrameQueue`, order of requests, camera fragment, client composition, recorder,
transport, providers. Every invariant that a run checks is now also a theorem.

Next, proofs: that the properties' history variables are exhaustive, by giving each
premise of section 3 a lemma that names the step which sets it; the invariants of the
parts left to model.
