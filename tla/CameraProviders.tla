-------------------------- MODULE CameraProviders --------------------------
(***************************************************************************)
(* How a camera gets from the provider process to the camera service, and  *)
(* how it goes again when that process dies.  VirtualCameraProviderImpl    *)
(* keeps a table of cameras, filled by its hot-plug thread; in cameraserver *)
(* CameraProviderManager keeps one ProviderInfo per registration of the    *)
(* provider, and CameraService one CameraState per camera and the clients. *)
(*                                                                         *)
(* onRegistration and removeProvider hold mProviderLifecycleLock to their  *)
(* end, so one "lifecycle" thread stands for both; CameraService's first   *)
(* enumerateProviders is its first job.  onDeviceStatusChanged runs in the *)
(* lifecycle thread, in the handler of a provider's callback and in the    *)
(* std::async thread that each ProviderInfo starts.  The HAL is not lazy   *)
(* (ro.camera.enableLazyHal is false by default).                          *)
(***************************************************************************)
EXTENDS Naturals, Sequences, SequencesExt

CONSTANTS
    NumCameras,   \* the cameras threadLoop adds ("0" and "1" in the code)
    MaxLives,     \* times the provider process starts
    MaxRescans,   \* times threadLoop starts again because inotify failed
    MaxConnects   \* times a client connects

ASSUME ProviderBounds ==
    /\ NumCameras \in Nat \ {0} /\ MaxLives \in Nat \ {0}
    /\ MaxRescans \in Nat /\ MaxConnects \in Nat

VARIABLES
    life, alive, registered,        \* the provider process and its entry in hwservicemanager
    mCameraStatusMap, mCallbacks,   \* its table and the ProviderInfo it calls (0 for null)
    hot, calling,                   \* the camera its hot-plug thread adds next; it is inside a callback
    walk,                           \* what setCallback's loop over the table has yet to visit
    rescans,
    subscribed, regs, deaths,       \* notifications on their way: registrations (preexisting?), deaths
    info, mProviders, n,            \* the ProviderInfos, those in mProviders, mProviderInstanceId
    lpc, why, cur, todo,            \* the lifecycle thread: place, job, ProviderInfo in hand, cameras to report
    call, exec, initial,            \* callbacks to be handled; runs of onDeviceStatusChanged; cachedStatus
    mCameraStates, client,          \* CameraService: the status of a camera, the life its client's session is in
    connecting, connects,
    flaws, handed                   \* history: races that lose a camera; lives replaced without a report

provider == <<life, alive, registered, mCameraStatusMap, mCallbacks, hot, calling, walk, rescans>>
notices  == <<subscribed, regs, deaths>>
manager  == <<info, mProviders, n>>
thread   == <<lpc, why, cur, todo>>
runs     == <<call, exec, initial>>
service  == <<mCameraStates, client, connecting, connects>>
history  == <<flaws, handed>>
vars     == <<provider, notices, manager, thread, runs, service, history>>

Cameras   == 1 .. NumCameras
Lives     == 1 .. MaxLives
Instances == 1 .. MaxLives + 1   \* one per registration and one for the list of services
Lifecycle == <<"lifecycle", 0>>
Runners   == {Lifecycle} \cup ({"callback"} \X Lives) \cup ({"initial"} \X Instances)
Idle      == [pc |-> "idle", id |-> 0]
NoCall    == [i |-> 0, c |-> 0]
NoClient  == [pc |-> "none", id |-> 0, life |-> 0]

Init ==
    /\ life = 0 /\ alive = FALSE /\ registered = FALSE /\ mCameraStatusMap = {}
    /\ mCallbacks = 0 /\ hot = 1 /\ calling = FALSE /\ walk = {} /\ rescans = 0
    /\ subscribed = FALSE /\ regs = <<>> /\ deaths = {}
    /\ info = [i \in Instances |-> [life |-> 0, mInitialized |-> FALSE, mCachedStatus |-> {},
                                    mDevices |-> {}, linked |-> FALSE]]
    /\ mProviders = <<>> /\ n = 0
    /\ lpc = "boot" /\ why = "boot" /\ cur = 0 /\ todo = {}
    /\ call = [l \in Lives |-> NoCall] /\ exec = [e \in Runners |-> Idle]
    /\ initial = [i \in Instances |-> {}]
    /\ mCameraStates = [c \in Cameras |-> "none"] /\ client = [c \in Cameras |-> 0]
    /\ connecting = NoClient /\ connects = 0 /\ flaws = {} /\ handed = {}

InManager(i)   == \E k \in DOMAIN mProviders : mProviders[k] = i
KnownDevices   == UNION {info[i].mDevices : i \in {j \in Instances : InManager(j)}}
\* A call to the process that ProviderInfo i talks to is answered.
Up(i) == alive /\ info[i].life = life
\* mInterfaceMutex is held from addProviderLocked to the end of ProviderInfo::initialize.
InterfaceLocked == lpc \in {"setCallback", "walk", "link", "finish"}

-----------------------------------------------------------------------------
(* The provider process.                                                   *)

\* The constructor runs the hot-plug thread, which adds the cameras, or none when /dev
\* cannot be opened or a sensor's name is found; main registers the service later.
Start ==
    /\ ~alive /\ life < MaxLives
    /\ life' = life + 1 /\ alive' = TRUE /\ registered' = FALSE
    /\ mCameraStatusMap' = {} /\ mCallbacks' = 0 /\ hot' \in {1, NumCameras + 1} /\ calling' = FALSE /\ walk' = {}
    /\ UNCHANGED <<rescans, notices, manager, thread, runs, service, history>>

Register ==
    /\ alive /\ ~registered /\ registered' = TRUE
    /\ regs' = IF subscribed THEN Append(regs, FALSE) ELSE regs
    /\ UNCHANGED <<life, alive, mCameraStatusMap, mCallbacks, hot, calling, walk, rescans,
                   subscribed, deaths, manager, thread, runs, service, history>>

\* The death of the process.  A callback it sent may or may not reach its handler, and
\* those that linked to the process are to be told.
Die ==
    /\ alive /\ alive' = FALSE /\ registered' = FALSE
    /\ mCameraStatusMap' = {} /\ mCallbacks' = 0 /\ calling' = FALSE /\ walk' = {}
    /\ call' \in {call, [call EXCEPT ![life] = NoCall]}
    /\ deaths' = deaths \cup {i \in Instances : info[i].linked /\ info[i].life = life}
    /\ UNCHANGED <<life, hot, rescans, subscribed, regs, manager, thread, exec, initial, service, history>>

\* deviceAdded and addCamera.  Making the device cannot fail: it depends on nothing but
\* the configuration.  setCallback walks the table without mLock, so an insertion during
\* the walk is a data race: the walk may meet the new entry or not, and may lose others.
DeviceAdded ==
    /\ alive /\ hot <= NumCameras /\ ~calling
    /\ mCameraStatusMap' = mCameraStatusMap \cup {hot}
    /\ \E w \in IF lpc = "walk" /\ Up(cur) /\ hot \notin mCameraStatusMap
                THEN SUBSET (walk \cup {hot}) ELSE {walk} :
         walk' = w /\ flaws' = IF walk \subseteq w THEN flaws ELSE flaws \cup {"torn"}
    /\ IF mCallbacks = 0 THEN hot' = hot + 1 /\ UNCHANGED <<calling, call>>
       ELSE /\ calling' = TRUE /\ hot' = hot
            /\ call' = [call EXCEPT ![life] = [i |-> mCallbacks, c |-> hot]]
    /\ UNCHANGED <<life, alive, registered, mCallbacks, rescans, notices, manager, thread,
                   exec, initial, service, handed>>

\* cameraDeviceStatusChange is a two-way call; addCamera holds mLock until it returns.
CallbackReturns ==
    /\ alive /\ calling /\ call[life] = NoCall /\ exec[<<"callback", life>>] = Idle
    /\ calling' = FALSE /\ hot' = hot + 1
    /\ UNCHANGED <<life, alive, registered, mCameraStatusMap, mCallbacks, walk, rescans,
                   notices, manager, thread, runs, service, history>>

\* threadLoop returns true when inotify fails, and is called again; a round that adds no
\* camera changes nothing.
Rescan ==
    /\ alive /\ hot > NumCameras /\ rescans < MaxRescans
    /\ hot' = 1 /\ rescans' = rescans + 1
    /\ UNCHANGED <<life, alive, registered, mCameraStatusMap, mCallbacks, calling, walk,
                   notices, manager, thread, runs, service, history>>

-----------------------------------------------------------------------------
(* CameraService::onDeviceStatusChanged with PRESENT, by runner e.         *)

Present(e, c) ==
    exec' = [exec EXCEPT ![e] =
        IF mCameraStates[c] = "none" THEN [pc |-> "query", id |-> c]
        ELSE IF mCameraStates[c] = "PRESENT" THEN Idle
        ELSE [pc |-> "update", id |-> c]]

\* addStates: the resource cost and the kind, read under mInterfaceMutex.  Without them no
\* state is made, and updateStatus is called all the same.
QueryCost(e) ==
    /\ exec[e].pc = "query" /\ ~InterfaceLocked
    /\ exec' = [exec EXCEPT ![e].pc = IF exec[e].id \in KnownDevices THEN "insert" ELSE "update"]
    /\ UNCHANGED <<provider, notices, manager, thread, call, initial, service, history>>

InsertState(e) ==
    /\ exec[e].pc = "insert"
    /\ mCameraStates' = [mCameraStates EXCEPT ![exec[e].id] = IF @ = "none" THEN "NOT_PRESENT" ELSE @]
    /\ exec' = [exec EXCEPT ![e].pc = "update"]
    /\ UNCHANGED <<provider, notices, manager, thread, call, initial, client, connecting, connects, history>>

UpdateStatus(e) ==
    /\ exec[e].pc = "update"
    /\ mCameraStates' = [mCameraStates EXCEPT ![exec[e].id] = IF @ = "none" THEN @ ELSE "PRESENT"]
    /\ exec' = [exec EXCEPT ![e] = Idle]
    /\ UNCHANGED <<provider, notices, manager, thread, call, initial, client, connecting, connects, history>>

\* notifyInitialStatusChange, in the thread that initialize started.
NotifyInitial(i) ==
    /\ exec[<<"initial", i>>] = Idle
    /\ \E c \in initial[i] :
         initial' = [initial EXCEPT ![i] = @ \ {c}] /\ Present(<<"initial", i>>, c)
    /\ UNCHANGED <<provider, notices, manager, thread, call, service, history>>

\* addDevice: the id is not in use and the process hands out an interface.
CanAdd(i, c) == c \notin KnownDevices /\ Up(i) /\ c \in mCameraStatusMap

\* ProviderInfo::cameraDeviceStatusChange.  When addDevice fails the listener is told of
\* the id "", which addStates refuses.
StatusChange(l) ==
    LET i == call[l].i  c == call[l].c IN
    /\ call[l] # NoCall /\ call' = [call EXCEPT ![l] = NoCall]
    /\ IF ~info[i].mInitialized
       THEN info' = [info EXCEPT ![i].mCachedStatus = @ \cup {c}] /\ exec' = exec
       ELSE IF c \in info[i].mDevices \/ CanAdd(i, c)
       THEN info' = [info EXCEPT ![i].mDevices = @ \cup {c}] /\ Present(<<"callback", l>>, c)
       ELSE UNCHANGED <<info, exec>>
    /\ UNCHANGED <<provider, notices, mProviders, n, thread, initial, service, history>>

-----------------------------------------------------------------------------
(* CameraProviderManager: the lifecycle thread.                            *)

\* CameraProviderManager::initialize: services known already are announced as preexisting.
Subscribe ==
    /\ lpc = "boot" /\ lpc' = "list" /\ subscribed' = TRUE
    /\ regs' = IF registered THEN <<TRUE>> ELSE <<>>
    /\ UNCHANGED <<provider, deaths, manager, why, cur, todo, runs, service, history>>

\* Where the job ends without an instance to enumerate.
GivenUp == IF why' = "boot" THEN "enumerate" ELSE "idle"

\* tryToInitializeProviderLocked: the service that is registered now, whichever it is.
TryGetService(i) ==
    IF registered
    THEN cur' = i /\ lpc' = "setCallback" /\ info' = [info EXCEPT ![i].life = life]
    ELSE lpc' = GivenUp /\ UNCHANGED <<cur, info>>

\* addProviderLocked.  All registrations are of the one provider name.
AddProviderLocked(preexisting) ==
    IF mProviders = <<>> THEN TryGetService(n + 1) /\ UNCHANGED <<mProviders, n>>
    ELSE /\ IF preexisting THEN lpc' = GivenUp /\ UNCHANGED <<mProviders, n>>
            ELSE mProviders' = Append(mProviders, n + 1) /\ n' = n + 1 /\ lpc' = "enumerate"
         /\ UNCHANGED <<cur, info>>

ListServices ==
    /\ lpc = "list" /\ why' = why /\ AddProviderLocked(FALSE)
    /\ UNCHANGED <<provider, notices, todo, runs, service, history>>

OnRegistration ==
    /\ lpc = "idle" /\ regs # <<>> /\ regs' = Tail(regs)
    /\ why' = "register" /\ AddProviderLocked(Head(regs))
    /\ UNCHANGED <<provider, subscribed, deaths, todo, runs, service, history>>

\* initialize returned an error.  An instance that was waiting in mProviders stays there;
\* a new one is destroyed, and its death is heard of only if that was already under way.
Fails ==
    /\ InterfaceLocked /\ ~Up(cur)
    /\ why' = why /\ lpc' = GivenUp
    /\ IF why = "remove"
       THEN /\ flaws' = IF info[cur].linked THEN flaws ELSE flaws \cup {"orphan"}
            /\ UNCHANGED <<info, deaths>>
       ELSE /\ info' = [info EXCEPT ![cur].linked = FALSE, ![cur].mCachedStatus = {}]
            /\ deaths' \in {deaths, deaths \ {cur}} /\ flaws' = flaws
    /\ UNCHANGED <<provider, subscribed, regs, mProviders, n, cur, todo, runs, service, handed>>

\* Mutant: the callback is stored, and what is in the table not reported.
SetCallbackWithoutReport ==
    /\ lpc = "setCallback" /\ Up(cur) /\ ~calling
    /\ mCallbacks' = cur /\ walk' = {} /\ lpc' = "walk"
    /\ UNCHANGED <<life, alive, registered, mCameraStatusMap, hot, calling, rescans,
                   manager, notices, why, cur, todo, runs, service, history>>

\* VirtualCameraProviderImpl_2_4::setCallback: the callback is stored under mLock ...
SetCallback ==
    /\ lpc = "setCallback" /\ Up(cur) /\ ~calling
    /\ mCallbacks' = cur /\ walk' = mCameraStatusMap /\ lpc' = "walk"
    /\ UNCHANGED <<life, alive, registered, mCameraStatusMap, hot, calling, rescans,
                   manager, notices, why, cur, todo, runs, service, history>>

\* ... and every camera of the table reported; the instance is not initialized yet.
VisitCamera ==
    /\ lpc = "walk" /\ Up(cur)
    /\ \E c \in walk : walk' = walk \ {c} /\ info' = [info EXCEPT ![cur].mCachedStatus = @ \cup {c}]
    /\ UNCHANGED <<life, alive, registered, mCameraStatusMap, mCallbacks, hot, calling, rescans,
                   mProviders, n, notices, thread, runs, service, history>>

SetCallbackReturns ==
    /\ lpc = "walk" /\ Up(cur) /\ walk = {}
    /\ lpc' = "link"
    /\ UNCHANGED <<provider, notices, manager, why, cur, todo, runs, service, history>>

LinkToDeath ==
    /\ lpc = "link" /\ Up(cur)
    /\ info' = [info EXCEPT ![cur].linked = TRUE] /\ lpc' = "finish"
    /\ UNCHANGED <<provider, notices, mProviders, n, why, cur, todo, runs, service, history>>

\* The rest of initialize (getCameraIdList is empty; the cached statuses, under
\* mInitLock), and addProviderLocked's push_back.  A process that dies after the last
\* call that initialize checks makes every addDevice fail, and initialize succeed.
Initialized ==
    LET added == {c \in info[cur].mCachedStatus : CanAdd(cur, c)} IN
    /\ lpc = "finish"
    /\ info' = [info EXCEPT ![cur].mDevices = added, ![cur].mCachedStatus = {}, ![cur].mInitialized = TRUE]
    /\ initial' = [initial EXCEPT ![cur] = added]
    /\ IF why = "remove" THEN lpc' = "idle" /\ UNCHANGED <<mProviders, n>>
       ELSE lpc' = "enumerate" /\ mProviders' = Append(mProviders, cur) /\ n' = cur
    /\ UNCHANGED <<provider, notices, why, cur, todo, call, exec, service, history>>

\* CameraService::enumerateProviders: the ids, under mServiceLock ...
EnumerateProviders ==
    /\ lpc = "enumerate" /\ connecting = NoClient
    /\ todo' = KnownDevices /\ lpc' = "present"
    /\ UNCHANGED <<provider, notices, manager, why, cur, runs, service, history>>

\* ... and a report for each that has no state.
ReportPresent ==
    /\ lpc = "present" /\ exec[Lifecycle] = Idle
    /\ \/ \E c \in todo : /\ todo' = todo \ {c} /\ lpc' = lpc /\ why' = why
                          /\ IF mCameraStates[c] = "none" THEN Present(Lifecycle, c) ELSE exec' = exec
       \/ todo = {} /\ todo' = todo /\ lpc' = "idle" /\ why' = "none" /\ exec' = exec
    /\ UNCHANGED <<provider, notices, manager, cur, call, initial, service, history>>

\* Mutant: the service is not told of the devices.
RemoveProviderSilently(i) ==
    /\ lpc = "idle" /\ i \in deaths /\ deaths' = deaths \ {i}
    /\ \/ ~InManager(i) /\ mProviders' = mProviders
       \/ \E k \in DOMAIN mProviders : mProviders[k] = i /\ mProviders' = RemoveAt(mProviders, k)
    /\ UNCHANGED <<provider, subscribed, regs, info, n, thread, runs, service, history>>

\* serviceDied and removeProvider: a newer instance is initialized in its place, and only
\* when there is none is the service told.  The instance is found by its name, which a
\* failed initialize leaves to be used again.  A run of addStates that has asked for the
\* cost of one of its cameras and not yet set its status crosses the removal.
RemoveProvider(i) ==
    /\ lpc = "idle" /\ i \in deaths /\ deaths' = deaths \ {i}
    /\ \/ ~InManager(i) /\ UNCHANGED <<mProviders, info, thread, history>>
       \/ \E k \in DOMAIN mProviders : LET rest == RemoveAt(mProviders, k) IN
            /\ mProviders[k] = i /\ mProviders' = rest /\ why' = "remove"
            /\ flaws' = flaws \cup (IF Up(i) THEN {"misdirected"} ELSE {})
                              \cup (IF rest # <<>> /\ ~registered THEN {"orphan"} ELSE {})
                              \cup (IF \E e \in Runners : /\ exec[e].pc \in {"insert", "update"}
                                                         /\ exec[e].id \in info[i].mDevices
                                    THEN {"crossed"} ELSE {})
            /\ IF rest # <<>>
               THEN TryGetService(Head(rest)) /\ handed' = handed \cup {info[i].life} /\ todo' = todo
               ELSE lpc' = "absent" /\ todo' = info[i].mDevices /\ UNCHANGED <<cur, info, handed>>
    /\ UNCHANGED <<provider, subscribed, regs, n, runs, service>>

\* onDeviceStatusChanged with NOT_PRESENT.
ReportAbsent ==
    /\ lpc = "absent" /\ exec[Lifecycle] = Idle
    /\ \/ \E c \in todo :
            /\ todo' = todo \ {c} /\ lpc' = lpc
            /\ IF mCameraStates[c] \in {"none", "NOT_PRESENT"}
               THEN UNCHANGED <<mCameraStates, exec>>
               ELSE /\ mCameraStates' = [mCameraStates EXCEPT ![c] = "NOT_PRESENT"]
                    /\ exec' = [exec EXCEPT ![Lifecycle] = [pc |-> "evict", id |-> c]]
       \/ todo = {} /\ todo' = todo /\ lpc' = "idle" /\ UNCHANGED <<mCameraStates, exec>>
    /\ UNCHANGED <<provider, notices, manager, why, cur, call, initial, client, connecting, connects, history>>

\* finishCameraOps: the camera is available again, unless its status says otherwise.
Freed(s) == IF s = "NOT_AVAILABLE" THEN "PRESENT" ELSE s

\* Mutant: the client is looked up without mServiceLock.
EvictUnlocked ==
    LET c == exec[Lifecycle].id IN
    /\ exec[Lifecycle].pc = "evict"
    /\ client' = [client EXCEPT ![c] = 0] /\ exec' = [exec EXCEPT ![Lifecycle].pc = "erase"]
    /\ UNCHANGED <<provider, notices, manager, thread, call, initial, mCameraStates, connecting, connects, history>>

\* Under mServiceLock the client leaves the list; it is then disconnected.
Evict ==
    LET c == exec[Lifecycle].id IN
    /\ exec[Lifecycle].pc = "evict" /\ connecting = NoClient
    /\ client' = [client EXCEPT ![c] = 0]
    /\ mCameraStates' = IF client[c] = 0 THEN mCameraStates ELSE [mCameraStates EXCEPT ![c] = Freed(@)]
    /\ exec' = [exec EXCEPT ![Lifecycle].pc = "erase"]
    /\ UNCHANGED <<provider, notices, manager, thread, call, initial, connecting, connects, history>>

RemoveStates ==
    /\ exec[Lifecycle].pc = "erase"
    /\ mCameraStates' = [mCameraStates EXCEPT ![exec[Lifecycle].id] = "none"]
    /\ exec' = [exec EXCEPT ![Lifecycle] = Idle]
    /\ UNCHANGED <<provider, notices, manager, thread, call, initial, client, connecting, connects, history>>

-----------------------------------------------------------------------------
(* Clients.  mServiceLock is held from Connect to FinishConnect.           *)

\* connectHelper after enumerateProviders: validateConnectLocked, and startCameraOps for
\* the new client, before its device is opened.  A camera in use is first taken from its
\* client (Disconnect).
Connect ==
    /\ why # "boot" /\ connecting = NoClient /\ connects < MaxConnects
    /\ \E c \in Cameras :
         /\ client[c] = 0 /\ mCameraStates[c] \in {"PRESENT", "NOT_AVAILABLE"}
         /\ connecting' = [pc |-> "open", id |-> c, life |-> 0]
         /\ mCameraStates' = [mCameraStates EXCEPT ![c] = "NOT_AVAILABLE"]
    /\ connects' = connects + 1
    /\ UNCHANGED <<provider, notices, manager, thread, runs, client, history>>

\* CameraProviderManager::openSession and VirtualCameraDevice::open, in life 0 if it fails.
OpenSession ==
    /\ connecting.pc = "open" /\ ~InterfaceLocked
    /\ connecting' = [connecting EXCEPT !.pc = "finish", !.life =
           IF \E i \in Instances : InManager(i) /\ connecting.id \in info[i].mDevices /\ Up(i)
           THEN life ELSE 0]
    /\ UNCHANGED <<provider, notices, manager, thread, runs, mCameraStates, client, connects, history>>

\* finishConnectLocked; or the client that could not open its device is destroyed, and
\* its disconnect calls finishCameraOps.
FinishConnect ==
    LET c == connecting.id IN
    /\ connecting.pc = "finish" /\ connecting' = NoClient
    /\ client' = [client EXCEPT ![c] = connecting.life]
    /\ mCameraStates' = [mCameraStates EXCEPT ![c] = IF connecting.life = 0 THEN Freed(@) ELSE @]
    /\ UNCHANGED <<provider, notices, manager, thread, runs, connects, history>>

Disconnect(c) ==
    /\ client[c] # 0 /\ connecting = NoClient
    /\ client' = [client EXCEPT ![c] = 0]
    /\ mCameraStates' = [mCameraStates EXCEPT ![c] = Freed(@)]
    /\ UNCHANGED <<provider, notices, manager, thread, runs, connecting, connects, history>>

-----------------------------------------------------------------------------

HotPlug == DeviceAdded \/ CallbackReturns
RunStep(e) == QueryCost(e) \/ InsertState(e) \/ UpdateStatus(e)
LifecycleThread ==
    \/ Subscribe \/ ListServices \/ OnRegistration \/ Fails \/ SetCallback \/ VisitCamera
    \/ SetCallbackReturns \/ LinkToDeath \/ Initialized \/ EnumerateProviders \/ ReportPresent
    \/ (\E i \in Instances : RemoveProvider(i)) \/ ReportAbsent \/ Evict \/ RemoveStates
ConnectSteps == OpenSession \/ FinishConnect

Reports ==
    \/ \E e \in Runners : RunStep(e)
    \/ \E i \in Instances : NotifyInitial(i)
    \/ \E l \in Lives : StatusChange(l)

Next ==
    \/ Start \/ Register \/ Die \/ HotPlug \/ Rescan \/ LifecycleThread \/ Reports
    \/ Connect \/ ConnectSteps \/ \E c \in Cameras : Disconnect(c)

Spec == Init /\ [][Next]_vars

\* Every thread runs on and a process that started registers; whether it starts again,
\* dies or has clients is open.
FairSpec ==
    /\ Spec
    /\ WF_vars(Register) /\ WF_vars(HotPlug) /\ WF_vars(LifecycleThread) /\ WF_vars(ConnectSteps)
    /\ \A e \in Runners : WF_vars(RunStep(e))
    /\ \A i \in Instances : WF_vars(NotifyInitial(i))
    /\ \A l \in Lives : WF_vars(StatusChange(l))

-----------------------------------------------------------------------------
(* Properties.  Each says that something wrong is not there for good: while it is, a      *)
(* thread that runs by itself still has a step to take.  Every such step brings the       *)
(* threads nearer to rest, so a state in which none can step is always reached.           *)

LifecycleWorks ==
    \/ lpc \in {"boot", "list"}
    \/ lpc = "idle" /\ (regs # <<>> \/ deaths # {})
    \/ InterfaceLocked /\ (~Up(cur) \/ lpc # "setCallback" \/ ~calling)
    \/ lpc = "enumerate" /\ connecting = NoClient
    \/ lpc \in {"present", "absent"} /\ exec[Lifecycle] = Idle
    \/ exec[Lifecycle].pc = "evict" /\ connecting = NoClient
    \/ exec[Lifecycle].pc = "erase"

ReportsWork ==
    \/ \E e \in Runners : exec[e].pc \in {"insert", "update"} \/ (exec[e].pc = "query" /\ ~InterfaceLocked)
    \/ \E i \in Instances : exec[<<"initial", i>>] = Idle /\ initial[i] # {}
    \/ \E l \in Lives : call[l] # NoCall

\* One of the threads can take a step: Register, HotPlug, LifecycleThread, Reports or
\* ConnectSteps is enabled.
Working ==
    \/ alive /\ ~registered
    \/ alive /\ hot <= NumCameras /\ ~calling
    \/ alive /\ calling /\ call[life] = NoCall /\ exec[<<"callback", life>>] = Idle
    \/ LifecycleWorks \/ ReportsWork
    \/ connecting.pc = "finish" \/ (connecting.pc = "open" /\ ~InterfaceLocked)

(* A provider process that stays up ends with every camera of its table known to the      *)
(* manager and present in the service, whichever of the hot-plug thread, setCallback,     *)
(* initialize, the asynchronous report and enumerateProviders sees it first, and however  *)
(* many processes died before.  Left out are the three races that flaws names first.      *)
CamerasReported ==
    /\ alive /\ flaws \cap {"torn", "orphan", "misdirected"} = {}
    /\ \E c \in mCameraStatusMap :
         \/ ~\E i \in Instances : InManager(i) /\ Up(i) /\ c \in info[i].mDevices
         \/ mCameraStates[c] \notin {"PRESENT", "NOT_AVAILABLE"}
    => Working

(* The service does not keep a camera that no provider has: a removal reports every       *)
(* device, and no report of presence is applied after it, unless it crossed the removal   *)
(* inside addStates.  Left out is a removal that found a newer instance waiting: the      *)
(* service is told nothing, and when that instance dies before it has the same cameras    *)
(* nobody ever reports them absent.                                                       *)
NoGhostCamera ==
    /\ "crossed" \notin flaws /\ handed = {}
    /\ \E c \in Cameras : mCameraStates[c] # "none" /\ c \notin KnownDevices
    => Working

(* No client keeps a session of a process that died, also when it connected while the     *)
(* removal ran.  Left out are clients of a process whose removal found a newer instance   *)
(* waiting, of which the service hears nothing, and a report that crossed the removal.    *)
ClientLetGo ==
    /\ "crossed" \notin flaws
    /\ \E c \in Cameras : /\ client[c] # 0 /\ client[c] \notin handed
                          /\ ~(alive /\ client[c] = life)
    => Working

(* What the manager logs when it defers an instance: it is initialized once the one that *)
(* is present is removed.  A process that stays up is so served by some instance.          *)
DeferredInitialized ==
    \A i \in Instances :
        <>[](InManager(i) /\ alive /\ registered) =>
            <>[](\E j \in Instances : InManager(j) /\ Up(j) /\ info[j].mInitialized)
=============================================================================
