---------------------- MODULE CameraProviders_proofs -----------------------
(***************************************************************************)
(* Proofs about CameraProviders, for every number of cameras, of processes *)
(* and of clients.  The invariant has three layers.  Structure says that   *)
(* only the first of mProviders is in use, that the others wait untouched  *)
(* and that a linked instance is up or its death on its way.  ServiceInv   *)
(* says where a camera that the service has, or a client, is accounted     *)
(* for: with an instance, or with the removal that is under way.           *)
(* ReportInv follows a camera the other way, from the table of the process *)
(* to the instance that the process calls and from there to the service.   *)
(***************************************************************************)
EXTENDS CameraProviders, SequenceTheorems, TLAPS

USE DEF provider, notices, manager, thread, runs, service, history, vars


-----------------------------------------------------------------------------
(* The inductive invariant.                                                *)

InfoType == [life : 0 .. MaxLives, mInitialized : BOOLEAN, mCachedStatus : SUBSET Cameras,
             mDevices : SUBSET Cameras, linked : BOOLEAN]
CallType == [i : 0 .. MaxLives + 1, c : 0 .. NumCameras]
ExecType == [pc : {"idle", "query", "insert", "update", "evict", "erase"}, id : 0 .. NumCameras]
Statuses == {"none", "NOT_PRESENT", "PRESENT", "NOT_AVAILABLE"}
Places   == {"boot", "list", "idle", "setCallback", "walk", "link", "finish", "enumerate", "present", "absent"}

Booleans == alive \in BOOLEAN /\ registered \in BOOLEAN /\ calling \in BOOLEAN /\ subscribed \in BOOLEAN

ProviderType ==
    /\ life \in 0 .. MaxLives /\ mCameraStatusMap \in SUBSET Cameras /\ mCallbacks \in 0 .. MaxLives + 1
    /\ hot \in 1 .. NumCameras + 1 /\ walk \in SUBSET Cameras /\ rescans \in Nat
    /\ (registered => alive) /\ (alive => life # 0) /\ (calling => hot # NumCameras + 1)

ManagerType ==
    /\ regs \in Seq(BOOLEAN) /\ deaths \in SUBSET Instances
    /\ info \in [Instances -> InfoType] /\ mProviders \in Seq(Instances) /\ n \in 0 .. MaxLives + 1
    /\ lpc \in Places /\ why \in {"boot", "register", "remove", "none"}
    /\ cur \in 0 .. MaxLives + 1 /\ todo \in SUBSET Cameras
    /\ InterfaceLocked => cur \in Instances

Proper(r) == IF r.pc = "idle" THEN r = Idle ELSE r.id \in Cameras
RunsType ==
    /\ call \in [Lives -> CallType] /\ exec \in [Runners -> ExecType]
    /\ initial \in [Instances -> SUBSET Cameras]
    /\ \A l \in Lives : call[l] # NoCall => call[l].i \in Instances /\ call[l].c \in Cameras
    /\ \A e \in Runners : Proper(exec[e])

ServiceType ==
    /\ mCameraStates \in [Cameras -> Statuses] /\ client \in [Cameras -> 0 .. MaxLives]
    /\ connecting \in [pc : {"none", "open", "finish"}, id : 0 .. NumCameras, life : 0 .. MaxLives]
    /\ IF connecting.pc = "none" THEN connecting = NoClient ELSE connecting.id \in Cameras
    /\ connects \in Nat /\ flaws \in SUBSET {"torn", "orphan", "misdirected", "crossed"}
    /\ handed \in SUBSET (0 .. MaxLives)

\* Every instance goes back to a registration, or to the list of services.
Counted ==
    n + Len(regs) + (IF lpc \in {"boot", "list"} \/ (InterfaceLocked /\ why # "remove") THEN 1 ELSE 0)
      + (IF alive /\ ~registered THEN 1 ELSE 0) <= life + 1

TypeInv == Booleans /\ ProviderType /\ ManagerType /\ RunsType /\ ServiceType /\ Counted

\* An instance that nothing was done with.
Pristine(i) ==
    /\ info[i].life = 0 /\ ~info[i].mInitialized /\ info[i].mDevices = {} /\ ~info[i].linked
    /\ i \notin deaths

\* Only the first of mProviders is in use; the others wait.
Places1 ==
    /\ lpc # "boot" => subscribed
    /\ lpc \in {"boot", "list"} => why = "boot" /\ mProviders = <<>> /\ n = 0
    /\ InterfaceLocked /\ why # "remove" => mProviders = <<>> /\ cur = n + 1
    /\ InterfaceLocked /\ why = "remove" => mProviders # <<>> /\ cur = mProviders[1]
    /\ lpc = "absent" => mProviders = <<>>
Listed ==
    /\ \A k \in DOMAIN mProviders : mProviders[k] <= n /\ (k # 1 => Pristine(mProviders[k]))
    /\ \A j, k \in DOMAIN mProviders : mProviders[j] = mProviders[k] => j = k
Unused ==
    /\ \A i \in Instances : i > n + 1 \/ (i = n + 1 /\ mProviders # <<>>) => Pristine(i)
    /\ \A i \in Instances : i > n \/ (InterfaceLocked /\ i = cur) => ~info[i].mInitialized /\ info[i].mDevices = {}
Linked ==
    /\ \A i \in Instances : info[i].life <= life
    /\ \A i \in Instances : (InManager(i) \/ (InterfaceLocked /\ i = cur)) /\ info[i].linked
                               => Up(i) \/ i \in deaths
    /\ \A i \in Instances : InManager(i) /\ info[i].mInitialized => info[i].linked
    /\ lpc = "finish" => info[cur].linked
Runs1 ==
    /\ exec[Lifecycle].pc \in {"query", "insert", "update"} => lpc = "present"
    /\ exec[Lifecycle].pc \in {"evict", "erase"} => lpc = "absent"
    /\ \A e \in Runners : exec[e].pc \in {"evict", "erase"} => e = Lifecycle
Structure == Places1 /\ Listed /\ Unused /\ Linked /\ Runs1

Good(c) == mCameraStates[c] \in {"PRESENT", "NOT_AVAILABLE"}
Going(c) == exec[Lifecycle].pc = "evict" /\ exec[Lifecycle].id = c

\* A client, or one about to be, of camera c in a session of life l.
Holds(c, l) == l # 0 /\ (client[c] = l \/ (connecting.id = c /\ connecting.life = l))

Held ==
    "crossed" \notin flaws => \A c \in Cameras : \A l \in Lives :
        Holds(c, l) /\ l \notin handed =>
            \/ \E i \in Instances : InManager(i) /\ info[i].mInitialized /\ info[i].life = l /\ c \in info[i].mDevices
            \/ lpc = "absent" /\ c \in todo
            \/ Going(c)

\* An instance has cameras only once it is initialized; the camera that is being removed
\* waits no more, and has no client once that was evicted.
Equipped == \A i \in Instances : ~info[i].mInitialized => info[i].mDevices = {}
Once ==
    /\ exec[Lifecycle].pc \in {"evict", "erase"} => exec[Lifecycle].id \notin todo
    /\ exec[Lifecycle].pc = "erase" =>
          client[exec[Lifecycle].id] = 0 /\ ~(connecting.life # 0 /\ connecting.id = exec[Lifecycle].id)

\* Camera c is in use, or is about to be.
Used(c) == client[c] # 0 \/ (connecting.pc # "none" /\ connecting.id = c)
Taken(c) == client[c] # 0 \/ (connecting.life # 0 /\ connecting.id = c)

\* A report that makes camera c present is under way.
Coming(c) ==
    \E e \in Runners :
        /\ exec[e].id = c
        /\ exec[e].pc = "insert" \/ (exec[e].pc = "update" /\ mCameraStates[c] = "NOT_PRESENT")

\* The status of a camera that is in use.
InUse ==
    "crossed" \notin flaws => \A c \in Cameras : Used(c) =>
        \/ Good(c) \/ Going(c) \/ Coming(c)
        \/ lpc = "enumerate" /\ (Taken(c) => c \in KnownDevices)
        \/ /\ lpc = "present" /\ c \in KnownDevices
           /\ c \in todo \/ (exec[Lifecycle].id = c /\ exec[Lifecycle].pc = "query")
        \/ ~Taken(c) /\ mProviders = <<>>
Leaving ==
    "crossed" \notin flaws => \A c \in Cameras :
        lpc = "absent" /\ c \in todo /\ Taken(c) => Good(c)

HalfPresent ==
    \A c \in Cameras : mCameraStates[c] = "NOT_PRESENT" =>
        \E e \in Runners : exec[e].id = c /\ exec[e].pc \in {"update", "evict", "erase"}
Ghosts ==
    "crossed" \notin flaws /\ handed = {} =>
        /\ \A c \in Cameras : mCameraStates[c] # "none" =>
              \/ c \in KnownDevices \/ (lpc = "absent" /\ c \in todo)
              \/ exec[Lifecycle].id = c /\ exec[Lifecycle].pc \in {"evict", "erase"}
        /\ \A e \in Runners : exec[e].pc = "insert" => exec[e].id \in KnownDevices
        /\ \A c \in Cameras : lpc = "absent" /\ c \in todo => mCameraStates[c] # "NOT_PRESENT"

\* None of the races that CamerasReported leaves out.
Fine == flaws \cap {"torn", "orphan", "misdirected"} = {}
New  == \E k \in DOMAIN regs : ~regs[k]
Calls ==
    /\ \A l \in Lives : l > life => call[l] = NoCall /\ exec[<<"callback", l>>] = Idle
    /\ \A l \in Lives : call[l] # NoCall => exec[<<"callback", l>>] = Idle
    /\ alive /\ ~calling => call[life] = NoCall /\ exec[<<"callback", life>>] = Idle
    /\ calling => alive /\ mCallbacks # 0 /\ hot \in mCameraStatusMap
    /\ alive /\ call[life] # NoCall => call[life].i = mCallbacks /\ call[life].c = hot
    /\ ~alive => mCallbacks = 0
Caller ==
    Fine => /\ mCallbacks # 0 =>
                 /\ info[mCallbacks].life = life
                 /\ \/ lpc \in {"walk", "link", "finish"} /\ cur = mCallbacks
                    \/ InManager(mCallbacks) /\ info[mCallbacks].mInitialized
            /\ \A i \in Instances : Up(i) /\ InManager(i) /\ info[i].mInitialized => mCallbacks = i
            /\ lpc \in {"walk", "link", "finish"} /\ Up(cur) => mCallbacks = cur
            /\ \A i \in Instances : InManager(i) /\ Up(i) => info[i].mInitialized \/ (InterfaceLocked /\ cur = i)
Served ==
    Fine => /\ mProviders # <<>> => info[mProviders[1]].linked \/ (InterfaceLocked /\ why = "remove")
            /\ registered => \/ lpc \in {"boot", "list"} \/ New \/ mProviders # <<>>
                             \/ InterfaceLocked /\ Up(cur)
            /\ registered /\ Len(mProviders) = 1 /\ info[mProviders[1]].life # life => New
            /\ registered /\ InterfaceLocked /\ why # "remove" /\ info[cur].life # life => New
\* Camera c of the table is with the instance that is being initialized, or on its way ...
Noted(c) ==
    lpc \in {"walk", "link", "finish"} /\ Up(cur) =>
        c \in info[cur].mCachedStatus \/ call[life] = [i |-> cur, c |-> c] \/ (lpc = "walk" /\ c \in walk)
\* ... and so with the one that serves the process.
Owned(c) ==
    \A i \in Instances : InManager(i) /\ Up(i) /\ info[i].mInitialized =>
        c \in info[i].mDevices \/ call[life] = [i |-> i, c |-> c]
Cached == Fine /\ alive => \A c \in mCameraStatusMap : Noted(c) /\ Owned(c)
\* A report that camera c is there will be applied.
Underway(c) ==
    \E e \in Runners :
        /\ exec[e].id = c
        /\ exec[e].pc \in {"query", "insert"} \/ (exec[e].pc = "update" /\ mCameraStates[c] # "none")
Reported ==
    \A i \in Instances : InManager(i) =>
        \A c \in info[i].mDevices : Good(c) \/ c \in initial[i] \/ Underway(c)

-----------------------------------------------------------------------------
(* Changing one entry of info, exec or mCameraStates.                      *)

LEMMA Constants1 ==
    /\ NumCameras \in Nat \ {0} /\ MaxLives \in Nat \ {0} /\ MaxRescans \in Nat /\ MaxConnects \in Nat
BY ProviderBounds

LEMMA RunnerNames ==
    /\ Lifecycle \in Runners
    /\ \A l \in Lives : <<"callback", l>> \in Runners /\ <<"callback", l>> # Lifecycle
    /\ \A i \in Instances : <<"initial", i>> \in Runners /\ <<"initial", i>> # Lifecycle
    /\ \A i \in Instances, l \in Lives : <<"initial", i>> # <<"callback", l>>
BY DEF Runners, Lifecycle

LEMMA RunTypes ==
    ASSUME NEW p \in {"idle", "query", "insert", "update", "evict", "erase"}, NEW c \in Cameras
    PROVE  /\ [pc |-> p, id |-> c] \in ExecType /\ Idle \in ExecType
           /\ [pc |-> p, id |-> c].pc = p /\ [pc |-> p, id |-> c].id = c
           /\ Idle.pc = "idle" /\ Idle.id = 0
BY Constants1 DEF ExecType, Cameras, Idle

LEMMA ExecChange ==
    ASSUME exec \in [Runners -> ExecType], NEW e \in Runners, NEW r \in ExecType,
           exec' = [exec EXCEPT ![e] = r]
    PROVE  exec' \in [Runners -> ExecType] /\ exec'[e] = r /\ \A g \in Runners : g # e => exec'[g] = exec[g]
OBVIOUS

LEMMA ExecMove ==
    ASSUME exec \in [Runners -> ExecType], NEW e \in Runners, exec[e].id \in Cameras,
           NEW p \in {"idle", "query", "insert", "update", "evict", "erase"},
           exec' = [exec EXCEPT ![e].pc = p]
    PROVE  /\ exec' \in [Runners -> ExecType] /\ exec'[e] = [pc |-> p, id |-> exec[e].id]
           /\ \A g \in Runners : g # e => exec'[g] = exec[g]
<1>1. exec[e] \in ExecType
  OBVIOUS
<1>2. exec' = [exec EXCEPT ![e] = [exec[e] EXCEPT !.pc = p]]
  OBVIOUS
<1>3. [exec[e] EXCEPT !.pc = p] = [pc |-> p, id |-> exec[e].id]
  BY <1>1 DEF ExecType
<1>4. [pc |-> p, id |-> exec[e].id] \in ExecType
  BY RunTypes
<1> QED
  BY <1>2, <1>3, <1>4, ExecChange

\* A run of onDeviceStatusChanged begins.
LEMMA PresentStarts ==
    ASSUME exec \in [Runners -> ExecType], NEW e \in Runners, NEW c \in Cameras, Present(e, c)
    PROVE  /\ exec' \in [Runners -> ExecType] /\ \A g \in Runners : g # e => exec'[g] = exec[g]
           /\ mCameraStates[c] = "none" => exec'[e] = [pc |-> "query", id |-> c]
           /\ mCameraStates[c] = "PRESENT" => exec'[e] = Idle
           /\ mCameraStates[c] \notin {"none", "PRESENT"} => exec'[e] = [pc |-> "update", id |-> c]
<1>1. CASE mCameraStates[c] = "none"
  <2>1. exec' = [exec EXCEPT ![e] = [pc |-> "query", id |-> c]]
    BY <1>1 DEF Present
  <2> QED
    BY <1>1, <2>1, ExecChange, RunTypes
<1>2. CASE mCameraStates[c] = "PRESENT"
  <2>1. exec' = [exec EXCEPT ![e] = Idle]
    BY <1>2 DEF Present
  <2> QED
    BY <1>2, <2>1, ExecChange, RunTypes
<1>3. CASE mCameraStates[c] \notin {"none", "PRESENT"}
  <2>1. exec' = [exec EXCEPT ![e] = [pc |-> "update", id |-> c]]
    BY <1>3 DEF Present
  <2> QED
    BY <1>3, <2>1, ExecChange, RunTypes
<1> QED
  BY <1>1, <1>2, <1>3

LEMMA StateChange ==
    ASSUME mCameraStates \in [Cameras -> Statuses], NEW c \in Cameras, NEW s \in Statuses,
           mCameraStates' = [mCameraStates EXCEPT ![c] = s]
    PROVE  /\ mCameraStates' \in [Cameras -> Statuses] /\ mCameraStates'[c] = s
           /\ \A d \in Cameras : d # c => mCameraStates'[d] = mCameraStates[d]
OBVIOUS

LEMMA ClientChange ==
    ASSUME client \in [Cameras -> 0 .. MaxLives], NEW c \in Cameras, NEW l \in 0 .. MaxLives,
           client' = [client EXCEPT ![c] = l]
    PROVE  /\ client' \in [Cameras -> 0 .. MaxLives] /\ client'[c] = l
           /\ \A d \in Cameras : d # c => client'[d] = client[d]
OBVIOUS

\* One more camera is known to instance i, or the cached status of one.
LEMMA InfoCached ==
    ASSUME info \in [Instances -> InfoType], NEW i \in Instances, NEW c \in Cameras,
           info' = [info EXCEPT ![i].mCachedStatus = @ \cup {c}]
    PROVE  /\ info' \in [Instances -> InfoType] /\ \A j \in Instances : j # i => info'[j] = info[j]
           /\ info'[i] = [life |-> info[i].life, mInitialized |-> info[i].mInitialized,
                          mCachedStatus |-> info[i].mCachedStatus \cup {c},
                          mDevices |-> info[i].mDevices, linked |-> info[i].linked]
BY DEF InfoType

LEMMA InfoDevice ==
    ASSUME info \in [Instances -> InfoType], NEW i \in Instances, NEW c \in Cameras,
           info' = [info EXCEPT ![i].mDevices = @ \cup {c}]
    PROVE  /\ info' \in [Instances -> InfoType] /\ \A j \in Instances : j # i => info'[j] = info[j]
           /\ info'[i] = [life |-> info[i].life, mInitialized |-> info[i].mInitialized,
                          mCachedStatus |-> info[i].mCachedStatus,
                          mDevices |-> info[i].mDevices \cup {c}, linked |-> info[i].linked]
BY DEF InfoType

LEMMA InfoLife ==
    ASSUME info \in [Instances -> InfoType], NEW i \in Instances, life \in 0 .. MaxLives,
           info' = [info EXCEPT ![i].life = life]
    PROVE  /\ info' \in [Instances -> InfoType] /\ \A j \in Instances : j # i => info'[j] = info[j]
           /\ info'[i] = [life |-> life, mInitialized |-> info[i].mInitialized,
                          mCachedStatus |-> info[i].mCachedStatus,
                          mDevices |-> info[i].mDevices, linked |-> info[i].linked]
BY DEF InfoType

LEMMA InfoLink ==
    ASSUME info \in [Instances -> InfoType], NEW i \in Instances, info' = [info EXCEPT ![i].linked = TRUE]
    PROVE  /\ info' \in [Instances -> InfoType] /\ \A j \in Instances : j # i => info'[j] = info[j]
           /\ info'[i] = [life |-> info[i].life, mInitialized |-> info[i].mInitialized,
                          mCachedStatus |-> info[i].mCachedStatus,
                          mDevices |-> info[i].mDevices, linked |-> TRUE]
BY DEF InfoType

LEMMA InfoDropped ==
    ASSUME info \in [Instances -> InfoType], NEW i \in Instances,
           info' = [info EXCEPT ![i].linked = FALSE, ![i].mCachedStatus = {}]
    PROVE  /\ info' \in [Instances -> InfoType] /\ \A j \in Instances : j # i => info'[j] = info[j]
           /\ info'[i] = [life |-> info[i].life, mInitialized |-> info[i].mInitialized,
                          mCachedStatus |-> {}, mDevices |-> info[i].mDevices, linked |-> FALSE]
BY DEF InfoType

LEMMA InfoReady ==
    ASSUME info \in [Instances -> InfoType], NEW i \in Instances, NEW added \in SUBSET Cameras,
           info' = [info EXCEPT ![i].mDevices = added, ![i].mCachedStatus = {}, ![i].mInitialized = TRUE]
    PROVE  /\ info' \in [Instances -> InfoType] /\ \A j \in Instances : j # i => info'[j] = info[j]
           /\ info'[i] = [life |-> info[i].life, mInitialized |-> TRUE,
                          mCachedStatus |-> {}, mDevices |-> added, linked |-> info[i].linked]
BY DEF InfoType

-----------------------------------------------------------------------------
(* Types.                                                                  *)

LEMMA TypeInit == Init => TypeInv
<1> SUFFICES ASSUME Init PROVE TypeInv
  OBVIOUS
<1> USE Constants1
<1>0. Booleans
  BY DEF Init, Booleans
<1>1. ProviderType
  BY DEF Init, ProviderType
<1>2. ManagerType
  <2>1. \A i \in Instances : info[i] = [life |-> 0, mInitialized |-> FALSE, mCachedStatus |-> {},
                                       mDevices |-> {}, linked |-> FALSE]
    BY DEF Init
  <2>2. info \in [Instances -> InfoType]
    BY <2>1 DEF Init, InfoType
  <2>3. regs = <<>> /\ regs \in Seq(BOOLEAN) /\ mProviders = <<>> /\ mProviders \in Seq(Instances)
    BY DEF Init
  <2> QED
    BY <2>2, <2>3 DEF Init, ManagerType, Places, InterfaceLocked
<1>3. RunsType
  BY DEF Init, RunsType, Proper, CallType, ExecType, Lives, Instances, Cameras, Runners, Lifecycle, NoCall, Idle
<1>4. ServiceType
  BY DEF Init, ServiceType, Statuses, Cameras, NoClient
<1>5. Counted
  BY DEF Init, Counted, InterfaceLocked
<1> QED
  BY <1>0, <1>1, <1>2, <1>3, <1>4, <1>5 DEF TypeInv

\* The steps of the processes, each of which changes few of the variables.
LEMMA BooleansStep == TypeInv /\ [Next]_vars => Booleans'
<1> SUFFICES ASSUME TypeInv, [Next]_vars PROVE Booleans'
  OBVIOUS
<1> USE DEF Booleans
<1>0. Booleans
  BY DEF TypeInv
<1>1. CASE Start
  BY <1>0, <1>1, Zenon DEF Start
<1>2. CASE Register
  BY <1>0, <1>2, Zenon DEF Register
<1>3. CASE Die
  BY <1>0, <1>3, Zenon DEF Die
<1>4. CASE DeviceAdded
  BY <1>0, <1>4, Zenon DEF DeviceAdded
<1>5. CASE CallbackReturns
  BY <1>0, <1>5, Zenon DEF CallbackReturns
<1>6. CASE Subscribe
  BY <1>0, <1>6, Zenon DEF Subscribe
<1>7. CASE ~(Start \/ Register \/ Die \/ HotPlug \/ Subscribe)
  <2>1. UNCHANGED <<alive, registered, calling, subscribed>>
    BY <1>7 DEF Next, LifecycleThread, Reports, RunStep, ConnectSteps, HotPlug, Rescan,
       QueryCost, InsertState, UpdateStatus, NotifyInitial, StatusChange, ListServices, OnRegistration,
       Fails, SetCallback, VisitCamera, SetCallbackReturns, LinkToDeath, Initialized, EnumerateProviders,
       ReportPresent, RemoveProvider, ReportAbsent, Evict, RemoveStates, Connect, OpenSession, FinishConnect,
       Disconnect
  <2> QED
    BY <1>0, <2>1
<1> QED
  BY <1>1, <1>2, <1>3, <1>4, <1>5, <1>6, <1>7 DEF HotPlug

LEMMA ProviderTypeStep == TypeInv /\ [Next]_vars => ProviderType'
<1> SUFFICES ASSUME TypeInv, [Next]_vars PROVE ProviderType'
  OBVIOUS
<1> USE Constants1 DEF ProviderType
<1>0. ProviderType
  BY DEF TypeInv
<1>1. CASE Start
  <2>1. life' \in 0 .. MaxLives /\ life' # 0
    BY <1>0, <1>1 DEF Start
  <2>2. /\ ~registered' /\ mCameraStatusMap' = {} /\ mCallbacks' = 0
        /\ ~calling' /\ walk' = {} /\ rescans' = rescans /\ hot' \in 1 .. NumCameras + 1
    BY <1>1 DEF Start
  <2> QED
    BY <1>0, <2>1, <2>2
<1>2. CASE Register
  BY <1>0, <1>2 DEF Register
<1>3. CASE Die
  <2>1. /\ ~alive' /\ ~registered' /\ mCameraStatusMap' = {} /\ mCallbacks' = 0
        /\ ~calling' /\ walk' = {} /\ UNCHANGED <<life, hot, rescans>>
    BY <1>3 DEF Die
  <2> QED
    BY <1>0, <2>1
<1>4. CASE DeviceAdded
  <2>1. hot \in Cameras /\ mCameraStatusMap' \in SUBSET Cameras
    BY <1>0, <1>4 DEF DeviceAdded, Cameras
  <2>2. walk' \in SUBSET Cameras
    BY <1>0, <1>4, <2>1 DEF DeviceAdded
  <2>3. /\ UNCHANGED <<life, alive, registered, mCallbacks, rescans>>
        /\ (hot' = hot + 1 /\ ~calling') \/ (hot' = hot)
    BY <1>0, <1>4 DEF DeviceAdded
  <2>4. hot \in 1 .. NumCameras
    BY <2>1 DEF Cameras
  <2>5. hot' \in 1 .. NumCameras + 1 /\ (calling' => hot' # NumCameras + 1)
    BY <2>3, <2>4
  <2> QED
    BY <1>0, <2>1, <2>2, <2>3, <2>5
<1>5. CASE CallbackReturns
  <2>1. hot' = hot + 1 /\ ~calling' /\ hot # NumCameras + 1
    BY <1>0, <1>5 DEF CallbackReturns
  <2>2. UNCHANGED <<life, alive, registered, mCameraStatusMap, mCallbacks, walk, rescans>>
    BY <1>5 DEF CallbackReturns
  <2> QED
    BY <1>0, <2>1, <2>2
<1>6. CASE Rescan
  BY <1>0, <1>6 DEF Rescan
<1>7. CASE SetCallback
  BY <1>0, <1>7 DEF SetCallback, TypeInv, ManagerType
<1>8. CASE VisitCamera
  BY <1>0, <1>8 DEF VisitCamera
<1>9. CASE ~(Start \/ Register \/ Die \/ HotPlug \/ Rescan \/ SetCallback \/ VisitCamera)
  <2>1. UNCHANGED provider
    BY <1>9 DEF Next, LifecycleThread, Reports, RunStep, ConnectSteps, HotPlug,
       QueryCost, InsertState, UpdateStatus, NotifyInitial, StatusChange, Subscribe, ListServices, OnRegistration,
       Fails, SetCallbackReturns, LinkToDeath, Initialized, EnumerateProviders, ReportPresent, RemoveProvider,
       ReportAbsent, Evict, RemoveStates, Connect, OpenSession, FinishConnect, Disconnect
  <2> QED
    BY <1>0, <2>1
<1> QED
  BY <1>1, <1>2, <1>3, <1>4, <1>5, <1>6, <1>7, <1>8, <1>9 DEF HotPlug

-----------------------------------------------------------------------------
(* What the jobs of the lifecycle thread do to mProviders.                 *)

\* Instance i has an interface, and is to be initialized.
Gets(i) == registered /\ cur' = i /\ lpc' = "setCallback" /\ info' = [info EXCEPT ![i].life = life]
Leaves  == lpc' = GivenUp /\ UNCHANGED <<cur, info>>

\* addProviderLocked: an instance that is tried at once, or that waits.
Tries     == mProviders = <<>> /\ Gets(n + 1) /\ UNCHANGED <<mProviders, n>>
NoService == mProviders = <<>> /\ ~registered /\ Leaves /\ UNCHANGED <<mProviders, n>>
Known     == mProviders # <<>> /\ Leaves /\ UNCHANGED <<mProviders, n>>
Waits     == /\ mProviders # <<>> /\ mProviders' = Append(mProviders, n + 1) /\ n' = n + 1
             /\ lpc' = "enumerate" /\ UNCHANGED <<cur, info>>

LEMMA Adding ==
    ASSUME NEW p, AddProviderLocked(p)
    PROVE  Tries \/ NoService \/ (p /\ Known) \/ (~p /\ Waits)
BY DEF AddProviderLocked, TryGetService, Tries, NoService, Known, Waits, Gets, Leaves

\* There is an instance left to be given, and it was not used before.
LEMMA Numbered ==
    ASSUME TypeInv, lpc = "list" \/ (lpc = "idle" /\ regs # <<>>)
    PROVE  n + 1 \in Instances /\ n \in 0 .. MaxLives
<1>1. regs # <<>> => Len(regs) >= 1
  BY DEF TypeInv, ManagerType
<1>2. Len(regs) \in Nat
  BY DEF TypeInv, ManagerType
<1>3. n \in Nat /\ life \in 0 .. MaxLives
  BY DEF TypeInv, ManagerType, ProviderType
<1>4. n + 1 <= life + 1
  BY <1>1, <1>2, <1>3 DEF TypeInv, Counted, InterfaceLocked
<1> QED
  BY <1>3, <1>4, Constants1 DEF Instances

\* removeProvider: the instance that died is the first, as the others have no interface.
Removes(i) ==
    /\ mProviders # <<>> /\ mProviders[1] = i /\ mProviders' = Tail(mProviders) /\ why' = "remove"
    /\ flaws' = flaws \cup (IF Up(i) THEN {"misdirected"} ELSE {})
                      \cup (IF Tail(mProviders) # <<>> /\ ~registered THEN {"orphan"} ELSE {})
                      \cup (IF \E e \in Runners : /\ exec[e].pc \in {"insert", "update"}
                                                 /\ exec[e].id \in info[i].mDevices
                            THEN {"crossed"} ELSE {})
Sole(i)      == Tail(mProviders) = <<>> /\ lpc' = "absent" /\ todo' = info[i].mDevices /\ UNCHANGED <<cur, info, handed>>
Successor(i) == Tail(mProviders) # <<>> /\ handed' = handed \cup {info[i].life} /\ todo' = todo

LEMMA First ==
    ASSUME NEW S, NEW s \in Seq(S), s # <<>>
    PROVE  /\ 1 \in DOMAIN s /\ RemoveAt(s, 1) = Tail(s) /\ Tail(s) \in Seq(S) /\ s[1] \in S
           /\ DOMAIN Tail(s) = 1 .. Len(s) - 1 /\ Len(Tail(s)) = Len(s) - 1 /\ Len(s) \in Nat \ {0}
           /\ \A k \in DOMAIN Tail(s) : Tail(s)[k] = s[k + 1] /\ k + 1 \in DOMAIN s /\ k + 1 # 1
           /\ Tail(s) = <<>> <=> Len(s) = 1
<1>1. Len(s) \in Nat \ {0} /\ DOMAIN s = 1 .. Len(s)
  OBVIOUS
<1>2. SubSeq(s, 1, 0) = <<>> /\ SubSeq(s, 2, Len(s)) = Tail(s)
  BY <1>1
<1>3. RemoveAt(s, 1) = Tail(s)
  BY <1>1, <1>2 DEF RemoveAt
<1>4. /\ Tail(s) \in Seq(S) /\ Len(Tail(s)) = Len(s) - 1 /\ DOMAIN Tail(s) = 1 .. Len(s) - 1
      /\ \A k \in 1 .. Len(s) - 1 : Tail(s)[k] = s[k + 1]
  BY <1>1
<1>5. Tail(s) = <<>> <=> Len(s) = 1
  BY <1>1, <1>4
<1> QED
  BY <1>1, <1>3, <1>4, <1>5

LEMMA Removal ==
    ASSUME TypeInv, Structure, NEW i \in Instances, RemoveProvider(i)
    PROVE  /\ lpc = "idle" /\ i \in deaths /\ deaths' = deaths \ {i}
           /\ UNCHANGED <<provider, subscribed, regs, n, runs, service>>
           /\ \/ ~InManager(i) /\ UNCHANGED <<mProviders, info, thread, history>>
              \/ Removes(i) /\ Sole(i)
              \/ Removes(i) /\ Successor(i) /\ Gets(mProviders[2])
              \/ Removes(i) /\ Successor(i) /\ ~registered /\ lpc' = "idle" /\ UNCHANGED <<cur, info>>
<1>1. /\ lpc = "idle" /\ i \in deaths /\ deaths' = deaths \ {i}
      /\ UNCHANGED <<provider, subscribed, regs, n, runs, service>>
  BY DEF RemoveProvider
<1>2. CASE ~InManager(i) /\ UNCHANGED <<mProviders, info, thread, history>>
  BY <1>1, <1>2
<1>3. CASE ~(~InManager(i) /\ UNCHANGED <<mProviders, info, thread, history>>)
  <2>1. PICK k \in DOMAIN mProviders : LET rest == RemoveAt(mProviders, k) IN
            /\ mProviders[k] = i /\ mProviders' = rest /\ why' = "remove"
            /\ flaws' = flaws \cup (IF Up(i) THEN {"misdirected"} ELSE {})
                              \cup (IF rest # <<>> /\ ~registered THEN {"orphan"} ELSE {})
                              \cup (IF \E e \in Runners : /\ exec[e].pc \in {"insert", "update"}
                                                         /\ exec[e].id \in info[i].mDevices
                                    THEN {"crossed"} ELSE {})
            /\ IF rest # <<>>
               THEN TryGetService(Head(rest)) /\ handed' = handed \cup {info[i].life} /\ todo' = todo
               ELSE lpc' = "absent" /\ todo' = info[i].mDevices /\ UNCHANGED <<cur, info, handed>>
    BY <1>3 DEF RemoveProvider
  <2>2. k = 1
    BY <1>1, <2>1 DEF Structure, Listed, Pristine
  <2>3. mProviders \in Seq(Instances) /\ mProviders # <<>>
    BY <2>1 DEF TypeInv, ManagerType
  <2>4. RemoveAt(mProviders, k) = Tail(mProviders)
    BY <2>2, <2>3, First
  <2>5. Removes(i)
    BY <2>1, <2>2, <2>3, <2>4 DEF Removes
  <2>6. CASE Tail(mProviders) = <<>>
    BY <1>1, <2>1, <2>4, <2>5, <2>6 DEF Sole
  <2>7. CASE Tail(mProviders) # <<>>
    <3>1. Head(Tail(mProviders)) = mProviders[2]
      BY <2>3, <2>7
    <3>2. Successor(i) /\ TryGetService(mProviders[2]) /\ why' = "remove"
      BY <2>1, <2>4, <2>7, <3>1 DEF Successor
    <3> QED
      BY <1>1, <2>5, <3>2 DEF TryGetService, Gets, GivenUp
  <2> QED
    BY <2>6, <2>7
<1> QED
  BY <1>2, <1>3

LEMMA Second ==
    ASSUME TypeInv, mProviders # <<>>, Tail(mProviders) # <<>>
    PROVE  2 \in DOMAIN mProviders /\ mProviders[2] \in Instances /\ Tail(mProviders)[1] = mProviders[2]
<1>1. mProviders \in Seq(Instances)
  BY DEF TypeInv, ManagerType
<1>2. Len(mProviders) \in Nat \ {0, 1}
  BY <1>1, First
<1> QED
  BY <1>1, <1>2

LEMMA Appended == ASSUME NEW q \in Seq(BOOLEAN) PROVE Append(q, FALSE) \in Seq(BOOLEAN) /\ <<TRUE>> \in Seq(BOOLEAN) /\ <<>> \in Seq(BOOLEAN)
<1>1. FALSE \in BOOLEAN /\ TRUE \in BOOLEAN
  BY Zenon
<1>2. \A S : \A s \in Seq(S) : \A e \in S : Append(s, e) \in Seq(S)
  OBVIOUS
<1>3. Append(q, FALSE) \in Seq(BOOLEAN)
  BY <1>1, <1>2, Zenon
<1>4. \A S : \A e \in S : <<e>> \in Seq(S)
  OBVIOUS
<1>5. <<>> \in Seq(BOOLEAN)
  OBVIOUS
<1> QED
  BY <1>1, <1>3, <1>4, <1>5, Zenon

LEMMA ManagerTypeStep == TypeInv /\ Structure /\ [Next]_vars => ManagerType'
<1> SUFFICES ASSUME TypeInv, Structure, [Next]_vars PROVE ManagerType'
  OBVIOUS
<1> USE Constants1
<1>0. ManagerType /\ ProviderType /\ RunsType
  BY DEF TypeInv
<1>a. /\ regs \in Seq(BOOLEAN) /\ deaths \in SUBSET Instances
      /\ info \in [Instances -> InfoType] /\ mProviders \in Seq(Instances) /\ n \in 0 .. MaxLives + 1
      /\ lpc \in Places /\ why \in {"boot", "register", "remove", "none"}
      /\ cur \in 0 .. MaxLives + 1 /\ todo \in SUBSET Cameras
      /\ InterfaceLocked => cur \in Instances
  BY <1>0 DEF ManagerType
<1>1. CASE Register
  <2>1. UNCHANGED <<deaths, info, mProviders, n, lpc, why, cur, todo>>
    BY <1>1 DEF Register
  <2>2. regs' = regs \/ regs' = Append(regs, FALSE)
    BY <1>1 DEF Register
  <2>3. regs' \in Seq(BOOLEAN)
    BY <1>a, <2>2, Appended
  <2> QED
    BY <1>a, <2>1, <2>3 DEF ManagerType, InterfaceLocked
<1>2. CASE Die
  <2>1. UNCHANGED <<regs, info, mProviders, n, lpc, why, cur, todo>>
    BY <1>2 DEF Die
  <2>2. deaths' \in SUBSET Instances
    BY <1>a, <1>2 DEF Die
  <2> QED
    BY <1>a, <2>1, <2>2 DEF ManagerType, InterfaceLocked
<1>3. ASSUME NEW l \in Lives, StatusChange(l) PROVE ManagerType'
  <2>1. UNCHANGED <<regs, deaths, mProviders, n, lpc, why, cur, todo>>
    BY <1>3 DEF StatusChange
  <2>2. call[l].i \in Instances /\ call[l].c \in Cameras
    BY <1>0, <1>3 DEF StatusChange, RunsType
  <2>3. \/ info' = info
        \/ info' = [info EXCEPT ![call[l].i].mCachedStatus = @ \cup {call[l].c}]
        \/ info' = [info EXCEPT ![call[l].i].mDevices = @ \cup {call[l].c}]
    BY <1>3 DEF StatusChange
  <2>4. info' \in [Instances -> InfoType]
    BY <1>a, <2>2, <2>3, InfoCached, InfoDevice
  <2> QED
    BY <1>a, <2>1, <2>4 DEF ManagerType, InterfaceLocked
<1>4. CASE Subscribe
  <2>1. UNCHANGED <<deaths, info, mProviders, n, why, cur, todo>> /\ lpc' = "list"
    BY <1>4 DEF Subscribe
  <2>2. regs' = <<TRUE>> \/ regs' = <<>>
    BY <1>4 DEF Subscribe
  <2>3. regs' \in Seq(BOOLEAN)
    BY <1>a, <2>2, Appended
  <2> QED
    BY <1>a, <2>1, <2>3 DEF ManagerType, InterfaceLocked, Places
<1>5. CASE ListServices \/ OnRegistration
  <2>1. deaths' = deaths /\ todo' = todo /\ why' \in {why, "register"}
    BY <1>5 DEF ListServices, OnRegistration
  <2>2. regs' \in Seq(BOOLEAN)
    <3>1. regs' = regs \/ (regs # <<>> /\ regs' = Tail(regs))
      BY <1>5 DEF ListServices, OnRegistration
    <3> QED
      BY <1>a, <3>1
  <2>3. Tries \/ NoService \/ Known \/ Waits
    BY <1>5, Adding DEF ListServices, OnRegistration
  <2>4. n + 1 \in Instances /\ n + 1 \in 0 .. MaxLives + 1
    <3>1. lpc = "list" \/ (lpc = "idle" /\ regs # <<>>)
      BY <1>5 DEF ListServices, OnRegistration
    <3>2. n + 1 \in Instances
      BY <3>1, Numbered
    <3> QED
      BY <3>2 DEF Instances
  <2>5. CASE Tries
    <3>1. info' \in [Instances -> InfoType]
      BY <1>0, <1>a, <2>4, <2>5, InfoLife DEF Tries, Gets, ProviderType
    <3> QED
      BY <1>a, <2>1, <2>2, <2>4, <2>5, <3>1 DEF ManagerType, Tries, Gets, Places
  <2>6. CASE NoService \/ Known
    <3>1. lpc' \in {"enumerate", "idle"} /\ UNCHANGED <<cur, info, mProviders, n>>
      BY <2>6 DEF NoService, Known, Leaves, GivenUp
    <3> QED
      BY <1>a, <2>1, <2>2, <3>1 DEF ManagerType, InterfaceLocked, Places
  <2>7. CASE Waits
    <3>1. mProviders' \in Seq(Instances)
      BY <1>a, <2>4, <2>7 DEF Waits
    <3> QED
      BY <1>a, <2>1, <2>2, <2>4, <2>7, <3>1 DEF ManagerType, Waits, InterfaceLocked, Places
  <2> QED
    BY <2>3, <2>5, <2>6, <2>7
<1>6. CASE Fails
  <2>1. UNCHANGED <<regs, mProviders, n, why, cur, todo>> /\ lpc' \in {"enumerate", "idle"} /\ cur \in Instances
    BY <1>a, <1>6 DEF Fails, GivenUp
  <2>2. deaths' \in SUBSET Instances
    BY <1>a, <1>6 DEF Fails
  <2>3. info' = info \/ info' = [info EXCEPT ![cur].linked = FALSE, ![cur].mCachedStatus = {}]
    BY <1>6 DEF Fails
  <2>4. info' \in [Instances -> InfoType]
    BY <1>a, <2>1, <2>3, InfoDropped
  <2> QED
    BY <1>a, <2>1, <2>2, <2>4 DEF ManagerType, InterfaceLocked, Places
<1>7. CASE SetCallback \/ SetCallbackReturns
  <2>1. /\ UNCHANGED <<regs, deaths, info, mProviders, n, why, cur, todo>> /\ lpc' \in {"walk", "link"}
        /\ InterfaceLocked
    BY <1>7 DEF SetCallback, SetCallbackReturns, InterfaceLocked
  <2> QED
    BY <1>a, <2>1 DEF ManagerType, Places
<1>8. CASE VisitCamera
  <2>1. UNCHANGED <<regs, deaths, mProviders, n, lpc, why, cur, todo>> /\ lpc = "walk"
    BY <1>8 DEF VisitCamera
  <2>2. cur \in Instances
    BY <1>a, <2>1 DEF InterfaceLocked
  <2>3. PICK c \in walk : info' = [info EXCEPT ![cur].mCachedStatus = @ \cup {c}]
    BY <1>8 DEF VisitCamera
  <2>4. c \in Cameras
    BY <1>0, <2>3 DEF ProviderType
  <2>5. info' \in [Instances -> InfoType]
    BY <1>a, <2>2, <2>3, <2>4, InfoCached
  <2> QED
    BY <1>a, <2>1, <2>2, <2>5 DEF ManagerType, InterfaceLocked
<1>9. CASE LinkToDeath
  <2>1. UNCHANGED <<regs, deaths, mProviders, n, why, cur, todo>> /\ lpc' = "finish" /\ lpc = "link"
    BY <1>9 DEF LinkToDeath
  <2>2. cur \in Instances
    BY <1>a, <2>1 DEF InterfaceLocked
  <2>3. info' \in [Instances -> InfoType]
    BY <1>a, <1>9, <2>2, InfoLink DEF LinkToDeath
  <2> QED
    BY <1>a, <2>1, <2>2, <2>3 DEF ManagerType, Places
<1>10. CASE Initialized
  <2> DEFINE added == {c \in info[cur].mCachedStatus : CanAdd(cur, c)}
  <2>1. UNCHANGED <<regs, deaths, why, cur, todo>> /\ lpc' \in {"idle", "enumerate"} /\ lpc = "finish"
    BY <1>10 DEF Initialized
  <2>2. cur \in Instances
    BY <1>a, <2>1 DEF InterfaceLocked
  <2>3. added \in SUBSET Cameras
    BY <1>a, <2>2 DEF InfoType
  <2>4. info' = [info EXCEPT ![cur].mDevices = added, ![cur].mCachedStatus = {}, ![cur].mInitialized = TRUE]
    BY <1>10 DEF Initialized
  <2>5. info' \in [Instances -> InfoType]
    <3> HIDE DEF added
    <3> QED
      BY <1>a, <2>2, <2>3, <2>4, InfoReady
  <2>6. (UNCHANGED <<mProviders, n>>) \/ (mProviders' = Append(mProviders, cur) /\ n' = cur)
    BY <1>10 DEF Initialized
  <2>7. mProviders' \in Seq(Instances) /\ n' \in 0 .. MaxLives + 1
    <3>1. cur \in 0 .. MaxLives + 1
      BY <1>a
    <3>2. Append(mProviders, cur) \in Seq(Instances)
      BY <1>a, <2>2
    <3> QED
      BY <1>a, <2>6, <3>1, <3>2
  <2> QED
    BY <1>a, <2>1, <2>5, <2>7 DEF ManagerType, InterfaceLocked, Places
<1>11. CASE EnumerateProviders
  <2>1. UNCHANGED <<regs, deaths, info, mProviders, n, why, cur>> /\ lpc' = "present" /\ todo' = KnownDevices
    BY <1>11 DEF EnumerateProviders
  <2>2. KnownDevices \in SUBSET Cameras
    BY <1>a DEF KnownDevices, InfoType
  <2> QED
    BY <1>a, <2>1, <2>2 DEF ManagerType, InterfaceLocked, Places
<1>12. CASE ReportPresent
  <2>1. UNCHANGED <<regs, deaths, info, mProviders, n, cur>> /\ lpc' \in {"present", "idle"} /\ why' \in {why, "none"}
    BY <1>12 DEF ReportPresent
  <2>2. todo' \in SUBSET Cameras
    BY <1>a, <1>12 DEF ReportPresent
  <2> QED
    BY <1>a, <2>1, <2>2 DEF ManagerType, InterfaceLocked, Places
<1>13. CASE ReportAbsent
  <2>1. UNCHANGED <<regs, deaths, info, mProviders, n, cur, why>> /\ lpc' \in {"absent", "idle"}
    BY <1>13 DEF ReportAbsent
  <2>2. todo' \in SUBSET Cameras
    BY <1>a, <1>13 DEF ReportAbsent
  <2> QED
    BY <1>a, <2>1, <2>2 DEF ManagerType, InterfaceLocked, Places
<1>14. ASSUME NEW i \in Instances, RemoveProvider(i) PROVE ManagerType'
  <2>1. deaths' \in SUBSET Instances /\ regs' = regs /\ n' = n
    BY <1>a, <1>14, Removal
  <2>2. CASE ~InManager(i) /\ UNCHANGED <<mProviders, info, thread, history>>
    BY <1>a, <2>1, <2>2 DEF ManagerType, InterfaceLocked
  <2>3. CASE Removes(i)
    <3>1. mProviders' \in Seq(Instances) /\ why' = "remove"
      BY <1>a, <2>3, First DEF Removes
    <3>2. CASE Sole(i)
      <4>1. todo' \in SUBSET Cameras
        BY <1>a, <3>2 DEF Sole, InfoType
      <4> QED
        BY <1>a, <2>1, <3>1, <3>2, <4>1 DEF ManagerType, InterfaceLocked, Places, Sole
    <3>3. CASE Successor(i) /\ Gets(mProviders[2])
      <4>1. mProviders[2] \in Instances
        BY <2>3, <3>3, Second DEF Removes, Successor
      <4>2. info' \in [Instances -> InfoType]
        BY <1>0, <1>a, <3>3, <4>1, InfoLife DEF Gets, ProviderType
      <4>3. mProviders[2] \in 0 .. MaxLives + 1
        BY <4>1 DEF Instances
      <4> QED
        BY <1>a, <2>1, <3>1, <3>3, <4>1, <4>2, <4>3 DEF ManagerType, Places, Successor, Gets
    <3>4. CASE Successor(i) /\ lpc' = "idle" /\ UNCHANGED <<cur, info>>
      BY <1>a, <2>1, <3>1, <3>4 DEF ManagerType, InterfaceLocked, Places, Successor
    <3> QED
      BY <1>14, <2>3, <3>2, <3>3, <3>4, Removal DEF Removes, InManager
  <2> QED
    BY <1>14, <2>2, <2>3, Removal
<1>15. CASE ~(Register \/ Die \/ (\E l \in Lives : StatusChange(l)) \/ (LifecycleThread /\ ~Evict /\ ~RemoveStates))
  <2>1. UNCHANGED <<regs, deaths, info, mProviders, n, lpc, why, cur, todo>>
    BY <1>15 DEF Next, LifecycleThread, Reports, RunStep, ConnectSteps, HotPlug, Start, DeviceAdded,
       CallbackReturns, Rescan, QueryCost, InsertState, UpdateStatus, NotifyInitial, Evict, RemoveStates,
       Connect, OpenSession, FinishConnect, Disconnect
  <2> QED
    BY <1>a, <2>1 DEF ManagerType, InterfaceLocked
<1> QED
  BY <1>1, <1>2, <1>3, <1>4, <1>5, <1>6, <1>7, <1>8, <1>9, <1>10, <1>11, <1>12, <1>13, <1>14, <1>15
     DEF LifecycleThread

LEMMA RunnerMoves ==
    ASSUME TypeInv, NEW e \in Runners
    PROVE  /\ exec \in [Runners -> ExecType] /\ exec[e] \in ExecType
           /\ exec[e].pc # "idle" => exec[e].id \in Cameras
           /\ exec[e].pc = "idle" <=> exec[e] = Idle
           /\ QueryCost(e) => /\ exec' \in [Runners -> ExecType]
                              /\ exec'[e].pc = (IF exec[e].id \in KnownDevices THEN "insert" ELSE "update")
                              /\ exec'[e].id = exec[e].id
                              /\ \A g \in Runners : g # e => exec'[g] = exec[g]
           /\ InsertState(e) => /\ exec' \in [Runners -> ExecType]
                                /\ exec'[e].pc = "update" /\ exec'[e].id = exec[e].id
                                /\ \A g \in Runners : g # e => exec'[g] = exec[g]
           /\ UpdateStatus(e) => /\ exec' \in [Runners -> ExecType] /\ exec'[e] = Idle
                                 /\ \A g \in Runners : g # e => exec'[g] = exec[g]
<1>1. exec \in [Runners -> ExecType] /\ exec[e] \in ExecType /\ Proper(exec[e])
  BY DEF TypeInv, RunsType
<1>2. (exec[e].pc # "idle" => exec[e].id \in Cameras) /\ (exec[e].pc = "idle" <=> exec[e] = Idle)
  BY <1>1 DEF Proper, Idle
<1>3. ASSUME QueryCost(e)
      PROVE  /\ exec' \in [Runners -> ExecType]
             /\ exec'[e].pc = (IF exec[e].id \in KnownDevices THEN "insert" ELSE "update")
             /\ exec'[e].id = exec[e].id /\ \A g \in Runners : g # e => exec'[g] = exec[g]
  <2>1. exec[e].id \in Cameras
    BY <1>2, <1>3 DEF QueryCost
  <2>2. PICK p \in {"insert", "update"} : /\ exec' = [exec EXCEPT ![e].pc = p]
                                          /\ p = IF exec[e].id \in KnownDevices THEN "insert" ELSE "update"
    BY <1>3 DEF QueryCost
  <2>3. /\ exec' \in [Runners -> ExecType] /\ exec'[e] = [pc |-> p, id |-> exec[e].id]
        /\ \A g \in Runners : g # e => exec'[g] = exec[g]
    BY <1>1, <2>1, <2>2, ExecMove
  <2> QED
    BY <2>2, <2>3
<1>4. ASSUME InsertState(e)
      PROVE  /\ exec' \in [Runners -> ExecType] /\ exec'[e].pc = "update" /\ exec'[e].id = exec[e].id
             /\ \A g \in Runners : g # e => exec'[g] = exec[g]
  <2>1. exec[e].id \in Cameras
    BY <1>2, <1>4 DEF InsertState
  <2>2. exec' = [exec EXCEPT ![e].pc = "update"]
    BY <1>4 DEF InsertState
  <2>3. /\ exec' \in [Runners -> ExecType] /\ exec'[e] = [pc |-> "update", id |-> exec[e].id]
        /\ \A g \in Runners : g # e => exec'[g] = exec[g]
    BY <1>1, <2>1, <2>2, ExecMove
  <2> QED
    BY <2>3
<1>5. ASSUME UpdateStatus(e)
      PROVE  exec' \in [Runners -> ExecType] /\ exec'[e] = Idle /\ \A g \in Runners : g # e => exec'[g] = exec[g]
  <2>1. exec[e].id \in Cameras
    BY <1>2, <1>5 DEF UpdateStatus
  <2> QED
    BY <1>1, <1>5, <2>1, ExecChange, RunTypes DEF UpdateStatus
<1> QED
  BY <1>1, <1>2, <1>3, <1>4, <1>5

\* The steps of the lifecycle thread's own reports.
LEMMA LifecycleMoves ==
    ASSUME TypeInv
    PROVE  /\ Lifecycle \in Runners
           /\ ReportPresent =>
                /\ exec[Lifecycle] = Idle /\ exec' \in [Runners -> ExecType]
                /\ \A g \in Runners : g # Lifecycle => exec'[g] = exec[g]
                /\ \/ exec' = exec
                   \/ \E c \in todo : /\ todo' = todo \ {c} /\ mCameraStates[c] = "none"
                                      /\ exec'[Lifecycle].pc = "query" /\ exec'[Lifecycle].id = c
           /\ ReportAbsent =>
                /\ exec[Lifecycle] = Idle /\ exec' \in [Runners -> ExecType]
                /\ \A g \in Runners : g # Lifecycle => exec'[g] = exec[g]
                /\ \/ exec' = exec /\ mCameraStates' = mCameraStates
                   \/ \E c \in todo : /\ todo' = todo \ {c} /\ mCameraStates[c] \notin {"none", "NOT_PRESENT"}
                                      /\ mCameraStates' = [mCameraStates EXCEPT ![c] = "NOT_PRESENT"]
                                      /\ exec'[Lifecycle].pc = "evict" /\ exec'[Lifecycle].id = c
           /\ Evict =>
                /\ exec[Lifecycle].pc = "evict" /\ exec' \in [Runners -> ExecType]
                /\ exec[Lifecycle].id \in Cameras
                /\ exec'[Lifecycle].pc = "erase" /\ exec'[Lifecycle].id = exec[Lifecycle].id
                /\ \A g \in Runners : g # Lifecycle => exec'[g] = exec[g]
           /\ RemoveStates =>
                /\ exec[Lifecycle].pc = "erase" /\ exec' \in [Runners -> ExecType]
                /\ exec[Lifecycle].id \in Cameras
                /\ exec'[Lifecycle] = Idle
                /\ \A g \in Runners : g # Lifecycle => exec'[g] = exec[g]
<1>0. Lifecycle \in Runners /\ exec \in [Runners -> ExecType] /\ todo \in SUBSET Cameras
  BY RunnerNames DEF TypeInv, RunsType, ManagerType
<1>1. ASSUME ReportPresent
      PROVE  /\ exec[Lifecycle] = Idle /\ exec' \in [Runners -> ExecType]
             /\ \A g \in Runners : g # Lifecycle => exec'[g] = exec[g]
             /\ \/ exec' = exec
                \/ \E c \in todo : /\ todo' = todo \ {c} /\ mCameraStates[c] = "none"
                                   /\ exec'[Lifecycle].pc = "query" /\ exec'[Lifecycle].id = c
  <2>1. CASE exec' = exec
    BY <1>0, <1>1, <2>1 DEF ReportPresent
  <2>2. CASE exec' # exec
    <3>1. PICK c \in todo : todo' = todo \ {c} /\ mCameraStates[c] = "none" /\ Present(Lifecycle, c)
      BY <1>1, <2>2 DEF ReportPresent
    <3>2. c \in Cameras
      BY <1>0
    <3>3. exec' \in [Runners -> ExecType] /\ (\A g \in Runners : g # Lifecycle => exec'[g] = exec[g])
          /\ exec'[Lifecycle] = [pc |-> "query", id |-> c]
      BY <1>0, <3>1, <3>2, PresentStarts
    <3> QED
      BY <1>1, <3>1, <3>3 DEF ReportPresent
  <2> QED
    BY <2>1, <2>2
<1>2. ASSUME ReportAbsent
      PROVE  /\ exec[Lifecycle] = Idle /\ exec' \in [Runners -> ExecType]
             /\ \A g \in Runners : g # Lifecycle => exec'[g] = exec[g]
             /\ \/ exec' = exec /\ mCameraStates' = mCameraStates
                \/ \E c \in todo : /\ todo' = todo \ {c} /\ mCameraStates[c] \notin {"none", "NOT_PRESENT"}
                                   /\ mCameraStates' = [mCameraStates EXCEPT ![c] = "NOT_PRESENT"]
                                   /\ exec'[Lifecycle].pc = "evict" /\ exec'[Lifecycle].id = c
  <2>1. CASE exec' = exec /\ mCameraStates' = mCameraStates
    BY <1>0, <1>2, <2>1 DEF ReportAbsent
  <2>2. CASE ~(exec' = exec /\ mCameraStates' = mCameraStates)
    <3>1. PICK c \in todo : /\ todo' = todo \ {c} /\ mCameraStates[c] \notin {"none", "NOT_PRESENT"}
                            /\ mCameraStates' = [mCameraStates EXCEPT ![c] = "NOT_PRESENT"]
                            /\ exec' = [exec EXCEPT ![Lifecycle] = [pc |-> "evict", id |-> c]]
      BY <1>2, <2>2 DEF ReportAbsent
    <3>2. c \in Cameras
      BY <1>0
    <3>3. exec' \in [Runners -> ExecType] /\ (\A g \in Runners : g # Lifecycle => exec'[g] = exec[g])
          /\ exec'[Lifecycle] = [pc |-> "evict", id |-> c]
      BY <1>0, <3>1, <3>2, ExecChange, RunTypes
    <3>4. exec'[Lifecycle].pc = "evict" /\ exec'[Lifecycle].id = c
      BY <3>3
    <3>5. exec[Lifecycle] = Idle
      BY <1>2 DEF ReportAbsent
    <3> QED
      BY <3>1, <3>3, <3>4, <3>5, Zenon
  <2> QED
    BY <2>1, <2>2
<1>3. ASSUME Evict
      PROVE  /\ exec[Lifecycle].pc = "evict" /\ exec' \in [Runners -> ExecType] /\ exec[Lifecycle].id \in Cameras
             /\ exec'[Lifecycle].pc = "erase" /\ exec'[Lifecycle].id = exec[Lifecycle].id
             /\ \A g \in Runners : g # Lifecycle => exec'[g] = exec[g]
  <2>1. exec[Lifecycle].pc = "evict" /\ exec[Lifecycle].id \in Cameras
    BY <1>0, <1>3, RunnerMoves DEF Evict
  <2>2. exec' = [exec EXCEPT ![Lifecycle].pc = "erase"]
    BY <1>3 DEF Evict
  <2>3. /\ exec' \in [Runners -> ExecType] /\ exec'[Lifecycle] = [pc |-> "erase", id |-> exec[Lifecycle].id]
        /\ \A g \in Runners : g # Lifecycle => exec'[g] = exec[g]
    BY <1>0, <2>1, <2>2, ExecMove
  <2> QED
    BY <2>1, <2>3
<1>4. ASSUME RemoveStates
      PROVE  /\ exec[Lifecycle].pc = "erase" /\ exec' \in [Runners -> ExecType] /\ exec[Lifecycle].id \in Cameras
             /\ exec'[Lifecycle] = Idle /\ \A g \in Runners : g # Lifecycle => exec'[g] = exec[g]
  <2>1. exec[Lifecycle].pc = "erase" /\ exec[Lifecycle].id \in Cameras
    BY <1>0, <1>4, RunnerMoves DEF RemoveStates
  <2> QED
    BY <1>0, <1>4, <2>1, ExecChange, RunTypes DEF RemoveStates
<1> QED
  BY <1>0, <1>1, <1>2, <1>3, <1>4

LEMMA CallChange ==
    ASSUME call \in [Lives -> CallType], NEW l \in Lives, NEW r \in CallType, call' = [call EXCEPT ![l] = r]
    PROVE  call' \in [Lives -> CallType] /\ call'[l] = r /\ \A m \in Lives : m # l => call'[m] = call[m]
OBVIOUS

\* What a callback does.
Caches(l)  == /\ ~info[call[l].i].mInitialized /\ exec' = exec
              /\ info' = [info EXCEPT ![call[l].i].mCachedStatus = @ \cup {call[l].c}]
Learns(l)  == /\ info[call[l].i].mInitialized /\ Present(<<"callback", l>>, call[l].c)
              /\ call[l].c \in info[call[l].i].mDevices \/ CanAdd(call[l].i, call[l].c)
              /\ info' = [info EXCEPT ![call[l].i].mDevices = @ \cup {call[l].c}]
Refuses(l) == /\ info[call[l].i].mInitialized /\ UNCHANGED <<info, exec>>
              /\ ~(call[l].c \in info[call[l].i].mDevices \/ CanAdd(call[l].i, call[l].c))

LEMMA StatusMoves ==
    ASSUME TypeInv, NEW l \in Lives, StatusChange(l)
    PROVE  /\ call[l].i \in Instances /\ call[l].c \in Cameras /\ call[l] # NoCall
           /\ call' \in [Lives -> CallType] /\ call'[l] = NoCall /\ \A m \in Lives : m # l => call'[m] = call[m]
           /\ Caches(l) \/ Learns(l) \/ Refuses(l)
           /\ UNCHANGED <<provider, notices, mProviders, n, thread, initial, service, history>>
<1>1. call[l].i \in Instances /\ call[l].c \in Cameras /\ call[l] # NoCall /\ call \in [Lives -> CallType]
  BY DEF TypeInv, RunsType, StatusChange
<1>2. NoCall \in CallType
  BY Constants1 DEF NoCall, CallType
<1>3. call' = [call EXCEPT ![l] = NoCall]
  BY DEF StatusChange
<1>4. call' \in [Lives -> CallType] /\ call'[l] = NoCall /\ \A m \in Lives : m # l => call'[m] = call[m]
  BY <1>1, <1>2, <1>3, CallChange
<1>5. Caches(l) \/ Learns(l) \/ Refuses(l)
  BY DEF StatusChange, Caches, Learns, Refuses
<1>6. UNCHANGED <<provider, notices, mProviders, n, thread, initial, service, history>>
  BY DEF StatusChange
<1> QED
  BY <1>1, <1>4, <1>5, <1>6

LEMMA DeviceMoves ==
    ASSUME TypeInv, DeviceAdded
    PROVE  /\ alive /\ ~calling /\ life \in Lives /\ hot \in Cameras /\ mCameraStatusMap' = mCameraStatusMap \cup {hot}
           /\ \/ mCallbacks = 0 /\ hot' = hot + 1 /\ ~calling' /\ call' = call
              \/ /\ mCallbacks \in Instances /\ calling' /\ hot' = hot /\ call' \in [Lives -> CallType]
                 /\ call'[life] = [i |-> mCallbacks, c |-> hot] /\ \A m \in Lives : m # life => call'[m] = call[m]
           /\ IF lpc = "walk" /\ Up(cur) /\ hot \notin mCameraStatusMap
              THEN walk' \in SUBSET (walk \cup {hot}) /\ (walk \subseteq walk' \/ "torn" \in flaws')
              ELSE walk' = walk
           /\ flaws' \in {flaws, flaws \cup {"torn"}}
           /\ UNCHANGED <<life, alive, registered, mCallbacks, rescans, notices, manager, thread,
                          exec, initial, service, handed>>
<1>1. alive /\ ~calling /\ mCameraStatusMap' = mCameraStatusMap \cup {hot}
      /\ UNCHANGED <<life, alive, registered, mCallbacks, rescans, notices, manager, thread, exec, initial, service, handed>>
  BY DEF DeviceAdded
<1>2. life \in Lives /\ hot \in Cameras
  BY <1>1, Constants1 DEF DeviceAdded, TypeInv, ProviderType, Lives, Cameras
<1>3. flaws' \in {flaws, flaws \cup {"torn"}}
  BY DEF DeviceAdded
<1>4. IF lpc = "walk" /\ Up(cur) /\ hot \notin mCameraStatusMap
      THEN walk' \in SUBSET (walk \cup {hot}) /\ (walk \subseteq walk' \/ "torn" \in flaws')
      ELSE walk' = walk
  BY DEF DeviceAdded
<1>5. CASE mCallbacks = 0
  <2>1. hot' = hot + 1 /\ ~calling' /\ call' = call
    BY <1>1, <1>5 DEF DeviceAdded
  <2> QED
    BY <1>1, <1>2, <1>3, <1>4, <1>5, <2>1
<1>6. CASE mCallbacks # 0
  <2>1. mCallbacks \in Instances
    BY <1>6, Constants1 DEF TypeInv, ProviderType, Instances
  <2>2. calling' /\ hot' = hot /\ call' = [call EXCEPT ![life] = [i |-> mCallbacks, c |-> hot]]
    BY <1>6 DEF DeviceAdded
  <2>3. [i |-> mCallbacks, c |-> hot] \in CallType
    BY <1>2, <2>1, Constants1 DEF CallType, Instances, Cameras
  <2>4. /\ call' \in [Lives -> CallType] /\ call'[life] = [i |-> mCallbacks, c |-> hot]
        /\ \A m \in Lives : m # life => call'[m] = call[m]
    BY <1>2, <2>2, <2>3, CallChange DEF TypeInv, RunsType
  <2> QED
    BY <1>1, <1>2, <1>3, <1>4, <2>1, <2>2, <2>4
<1> QED
  BY <1>5, <1>6

LEMMA DeathMoves ==
    ASSUME TypeInv, Die
    PROVE  /\ life \in Lives /\ alive /\ ~alive' /\ ~registered' /\ mCameraStatusMap' = {} /\ mCallbacks' = 0
           /\ ~calling' /\ walk' = {} /\ call' \in [Lives -> CallType]
           /\ \A m \in Lives : call'[m] = call[m] \/ (m = life /\ call'[m] = NoCall)
           /\ deaths' = deaths \cup {i \in Instances : info[i].linked /\ info[i].life = life}
           /\ UNCHANGED <<life, hot, rescans, subscribed, regs, manager, thread, exec, initial, service, history>>
<1>1. life \in Lives
  BY Constants1 DEF Die, TypeInv, ProviderType, Lives
<1>2. NoCall \in CallType
  BY Constants1 DEF NoCall, CallType
<1>3. call \in [Lives -> CallType]
  BY DEF TypeInv, RunsType
<1>4. call' = call \/ call' = [call EXCEPT ![life] = NoCall]
  BY DEF Die
<1>5. call' \in [Lives -> CallType] /\ \A m \in Lives : call'[m] = call[m] \/ (m = life /\ call'[m] = NoCall)
  BY <1>1, <1>2, <1>3, <1>4
<1> QED
  BY <1>1, <1>5 DEF Die

LEMMA NotifyMoves ==
    ASSUME TypeInv, NEW i \in Instances, NotifyInitial(i)
    PROVE  /\ exec[<<"initial", i>>] = Idle
           /\ \E c \in initial[i] : /\ c \in Cameras /\ Present(<<"initial", i>>, c)
                                    /\ initial' \in [Instances -> SUBSET Cameras]
                                    /\ initial'[i] = initial[i] \ {c}
                                    /\ \A j \in Instances : j # i => initial'[j] = initial[j]
           /\ UNCHANGED <<provider, notices, manager, thread, call, service, history>>
<1>1. initial \in [Instances -> SUBSET Cameras]
  BY DEF TypeInv, RunsType
<1>2. PICK c \in initial[i] : initial' = [initial EXCEPT ![i] = @ \ {c}] /\ Present(<<"initial", i>>, c)
  BY DEF NotifyInitial
<1>3. /\ c \in Cameras /\ initial' \in [Instances -> SUBSET Cameras] /\ initial'[i] = initial[i] \ {c}
      /\ \A j \in Instances : j # i => initial'[j] = initial[j]
  BY <1>1, <1>2
<1>4. exec[<<"initial", i>>] = Idle /\ UNCHANGED <<provider, notices, manager, thread, call, service, history>>
  BY DEF NotifyInitial
<1> QED
  BY <1>2, <1>3, <1>4, Zenon

LEMMA FinishMoves ==
    ASSUME TypeInv, Initialized
    PROVE  LET added == {c \in info[cur].mCachedStatus : CanAdd(cur, c)} IN
           /\ lpc = "finish" /\ cur \in Instances /\ added \in SUBSET Cameras
           /\ info' \in [Instances -> InfoType] /\ \A j \in Instances : j # cur => info'[j] = info[j]
           /\ info'[cur] = [life |-> info[cur].life, mInitialized |-> TRUE,
                            mCachedStatus |-> {}, mDevices |-> added, linked |-> info[cur].linked]
           /\ initial' \in [Instances -> SUBSET Cameras] /\ initial'[cur] = added
           /\ \A j \in Instances : j # cur => initial'[j] = initial[j]
           /\ \/ why = "remove" /\ lpc' = "idle" /\ UNCHANGED <<mProviders, n>>
              \/ why # "remove" /\ lpc' = "enumerate" /\ mProviders' = Append(mProviders, cur) /\ n' = cur
           /\ UNCHANGED <<provider, notices, why, cur, todo, call, exec, service, history>>
<1> DEFINE added == {c \in info[cur].mCachedStatus : CanAdd(cur, c)}
<1>1. info \in [Instances -> InfoType] /\ initial \in [Instances -> SUBSET Cameras]
  BY DEF TypeInv, ManagerType, RunsType
<1>2. lpc = "finish" /\ cur \in Instances
  BY DEF Initialized, TypeInv, ManagerType, InterfaceLocked
<1>3. added \in SUBSET Cameras
  BY <1>1, <1>2 DEF InfoType
<1>4. /\ info' = [info EXCEPT ![cur].mDevices = added, ![cur].mCachedStatus = {}, ![cur].mInitialized = TRUE]
      /\ initial' = [initial EXCEPT ![cur] = added]
  BY DEF Initialized
<1>5. /\ \/ why = "remove" /\ lpc' = "idle" /\ UNCHANGED <<mProviders, n>>
         \/ why # "remove" /\ lpc' = "enumerate" /\ mProviders' = Append(mProviders, cur) /\ n' = cur
      /\ UNCHANGED <<provider, notices, why, cur, todo, call, exec, service, history>>
  BY DEF Initialized
<1> HIDE DEF added
<1>6. /\ info' \in [Instances -> InfoType] /\ \A j \in Instances : j # cur => info'[j] = info[j]
      /\ info'[cur] = [life |-> info[cur].life, mInitialized |-> TRUE,
                       mCachedStatus |-> {}, mDevices |-> added, linked |-> info[cur].linked]
  BY <1>1, <1>2, <1>3, <1>4, InfoReady
<1>7. /\ initial' \in [Instances -> SUBSET Cameras] /\ initial'[cur] = added
      /\ \A j \in Instances : j # cur => initial'[j] = initial[j]
  BY <1>1, <1>2, <1>3, <1>4
<1> QED
  BY <1>2, <1>3, <1>5, <1>6, <1>7, Zenon DEF added

LEMMA Properly ==
    ASSUME TypeInv, NEW e \in Runners, exec' \in [Runners -> ExecType], Proper(exec[e]'),
           \A g \in Runners : g # e => exec'[g] = exec[g]
    PROVE  \A g \in Runners : Proper(exec[g]')
BY DEF TypeInv, RunsType, Proper, Idle

LEMMA RunsTypeStep == TypeInv /\ [Next]_vars => RunsType'
<1> SUFFICES ASSUME TypeInv, [Next]_vars PROVE RunsType'
  OBVIOUS
<1>a. /\ call \in [Lives -> CallType] /\ exec \in [Runners -> ExecType]
      /\ initial \in [Instances -> SUBSET Cameras]
      /\ \A l \in Lives : call[l] # NoCall => call[l].i \in Instances /\ call[l].c \in Cameras
      /\ \A e \in Runners : Proper(exec[e])
  BY DEF TypeInv, RunsType
<1>b. ASSUME UNCHANGED <<call, initial>>, exec' \in [Runners -> ExecType], \A e \in Runners : Proper(exec[e]')
      PROVE  RunsType'
  BY <1>a, <1>b DEF RunsType
<1>c. ASSUME NEW e \in Runners, NEW c \in Cameras, exec[e] = Idle, Present(e, c)
      PROVE  exec' \in [Runners -> ExecType] /\ \A g \in Runners : Proper(exec[g]')
  <2>1. exec' \in [Runners -> ExecType] /\ \A g \in Runners : g # e => exec'[g] = exec[g]
    BY <1>a, <1>c, PresentStarts
  <2>2. exec'[e] \in {Idle, [pc |-> "query", id |-> c], [pc |-> "update", id |-> c]}
    BY <1>a, <1>c, PresentStarts
  <2>3. Proper(exec[e]')
    BY <1>c, <2>2 DEF Proper, Idle
  <2> QED
    BY <2>1, <2>3, Properly
<1>1. CASE Die
  <2>1. call' \in [Lives -> CallType] /\ (\A m \in Lives : call'[m] = call[m] \/ call'[m] = NoCall) /\ UNCHANGED <<exec, initial>>
    BY <1>1, DeathMoves
  <2>2. \A l \in Lives : call'[l] # NoCall => call'[l].i \in Instances /\ call'[l].c \in Cameras
    BY <1>a, <2>1
  <2> QED
    BY <1>a, <2>1, <2>2 DEF RunsType
<1>2. CASE DeviceAdded
  <2>1. UNCHANGED <<exec, initial>> /\ life \in Lives /\ hot \in Cameras
    BY <1>2, DeviceMoves
  <2>2. CASE call' = call
    BY <1>a, <2>1, <2>2 DEF RunsType
  <2>3. CASE call' # call
    <3>1. mCallbacks \in Instances /\ call' \in [Lives -> CallType]
          /\ call'[life] = [i |-> mCallbacks, c |-> hot] /\ \A m \in Lives : m # life => call'[m] = call[m]
      BY <1>2, <2>3, DeviceMoves
    <3>2. \A l \in Lives : call'[l] # NoCall => call'[l].i \in Instances /\ call'[l].c \in Cameras
      BY <1>a, <2>1, <3>1
    <3> QED
      BY <1>a, <2>1, <3>1, <3>2 DEF RunsType
  <2> QED
    BY <2>2, <2>3
<1>3. ASSUME NEW e \in Runners, RunStep(e) PROVE RunsType'
  <2>1. /\ exec' \in [Runners -> ExecType] /\ \A g \in Runners : g # e => exec'[g] = exec[g]
        /\ exec'[e] = Idle \/ (exec'[e].pc \in {"insert", "update"} /\ exec'[e].id = exec[e].id)
        /\ exec[e].id \in Cameras /\ UNCHANGED <<call, initial>>
    BY <1>3, RunnerMoves DEF RunStep, QueryCost, InsertState, UpdateStatus
  <2>2. Proper(exec[e]')
    BY <1>3, <2>1 DEF Proper, Idle
  <2> QED
    BY <1>b, <1>3, <2>1, <2>2, Properly
<1>4. ASSUME NEW i \in Instances, NotifyInitial(i) PROVE RunsType'
  <2>1. PICK c \in Cameras : /\ Present(<<"initial", i>>, c) /\ initial' \in [Instances -> SUBSET Cameras]
                             /\ call' = call /\ exec[<<"initial", i>>] = Idle
    BY <1>4, NotifyMoves
  <2>2. <<"initial", i>> \in Runners
    BY <1>4, RunnerNames
  <2>3. exec' \in [Runners -> ExecType] /\ \A g \in Runners : Proper(exec[g]')
    BY <1>c, <2>1, <2>2
  <2> QED
    BY <1>a, <2>1, <2>3 DEF RunsType
<1>5. ASSUME NEW l \in Lives, StatusChange(l) PROVE RunsType'
  <2>1. /\ call[l].i \in Instances /\ call[l].c \in Cameras /\ initial' = initial
        /\ call' \in [Lives -> CallType] /\ call'[l] = NoCall /\ \A m \in Lives : m # l => call'[m] = call[m]
    BY <1>5, StatusMoves
  <2>2. <<"callback", l>> \in Runners
    BY <1>5, RunnerNames
  <2>3. exec' \in [Runners -> ExecType] /\ \A g \in Runners : Proper(exec[g]')
    <3>1. CASE exec' = exec
      BY <1>a, <3>1
    <3>2. CASE Learns(l)
      <4>1. Present(<<"callback", l>>, call[l].c)
        BY <3>2 DEF Learns
      <4>2. exec' \in [Runners -> ExecType] /\ \A g \in Runners : g # <<"callback", l>> => exec'[g] = exec[g]
        BY <1>a, <2>1, <2>2, <4>1, PresentStarts
      <4>3. exec'[<<"callback", l>>] \in {Idle, [pc |-> "query", id |-> call[l].c], [pc |-> "update", id |-> call[l].c]}
        BY <1>a, <2>1, <2>2, <4>1, PresentStarts
      <4>4. Proper(exec[<<"callback", l>>]')
        BY <2>1, <4>3 DEF Proper, Idle
      <4> QED
        BY <2>2, <4>2, <4>4, Properly
    <3> QED
      BY <1>5, <3>1, <3>2, StatusMoves DEF Caches, Refuses
  <2>4. \A m \in Lives : call'[m] # NoCall => call'[m].i \in Instances /\ call'[m].c \in Cameras
    BY <1>a, <2>1
  <2> QED
    BY <1>a, <2>1, <2>3, <2>4 DEF RunsType
<1>6. CASE Initialized
  <2>1. UNCHANGED <<call, exec>> /\ initial' \in [Instances -> SUBSET Cameras]
    BY <1>6, FinishMoves
  <2> QED
    BY <1>a, <2>1 DEF RunsType
<1>7. CASE ReportPresent \/ ReportAbsent \/ Evict \/ RemoveStates
  <2>0. todo \in SUBSET Cameras /\ UNCHANGED <<call, initial>>
    BY <1>7 DEF TypeInv, ManagerType, ReportPresent, ReportAbsent, Evict, RemoveStates
  <2>1. /\ exec' \in [Runners -> ExecType] /\ \A g \in Runners : g # Lifecycle => exec'[g] = exec[g]
        /\ Lifecycle \in Runners
    BY <1>7, LifecycleMoves
  <2>2. exec' = exec \/ exec'[Lifecycle] = Idle \/ (exec'[Lifecycle].pc # "idle" /\ exec'[Lifecycle].id \in Cameras)
    BY <1>7, <2>0, LifecycleMoves
  <2>3. Proper(exec[Lifecycle]')
    BY <1>a, <2>1, <2>2 DEF Proper, Idle
  <2> QED
    BY <1>b, <2>0, <2>1, <2>3, Properly
<1>8. CASE ~(Die \/ HotPlug \/ Reports \/ Initialized \/ ReportPresent \/ ReportAbsent \/ Evict \/ RemoveStates)
  <2>1. UNCHANGED runs
    BY <1>8 DEF Next, LifecycleThread, ConnectSteps, HotPlug, Start, Register, Rescan, Subscribe, ListServices,
       OnRegistration, Fails, SetCallback, VisitCamera, SetCallbackReturns, LinkToDeath, EnumerateProviders,
       RemoveProvider, Connect, OpenSession, FinishConnect, Disconnect
  <2> QED
    BY <1>a, <2>1 DEF RunsType
<1>9. CASE CallbackReturns
  BY <1>a, <1>9 DEF CallbackReturns, RunsType
<1> QED
  BY <1>1, <1>2, <1>3, <1>4, <1>5, <1>6, <1>7, <1>8, <1>9 DEF HotPlug, Reports

LEMMA StatusValues ==
    ASSUME NEW s \in Statuses
    PROVE  /\ (IF s = "none" THEN "NOT_PRESENT" ELSE s) \in Statuses /\ (IF s = "none" THEN s ELSE "PRESENT") \in Statuses
           /\ "NOT_AVAILABLE" \in Statuses /\ Freed(s) \in Statuses
           /\ "none" \in Statuses /\ "NOT_PRESENT" \in Statuses
BY DEF Statuses, Freed

\* What each step does to the status of a camera.
LEMMA StateMoves ==
    ASSUME TypeInv
    PROVE  /\ \A e \in Runners : InsertState(e) =>
                /\ mCameraStates' \in [Cameras -> Statuses] /\ exec[e].id \in Cameras
                /\ mCameraStates'[exec[e].id] =
                      IF mCameraStates[exec[e].id] = "none" THEN "NOT_PRESENT" ELSE mCameraStates[exec[e].id]
                /\ \A d \in Cameras : d # exec[e].id => mCameraStates'[d] = mCameraStates[d]
           /\ \A e \in Runners : UpdateStatus(e) =>
                /\ mCameraStates' \in [Cameras -> Statuses] /\ exec[e].id \in Cameras
                /\ mCameraStates'[exec[e].id] =
                      IF mCameraStates[exec[e].id] = "none" THEN mCameraStates[exec[e].id] ELSE "PRESENT"
                /\ \A d \in Cameras : d # exec[e].id => mCameraStates'[d] = mCameraStates[d]
           /\ Evict =>
                /\ mCameraStates' \in [Cameras -> Statuses] /\ client' \in [Cameras -> 0 .. MaxLives]
                /\ client'[exec[Lifecycle].id] = 0
                /\ \/ mCameraStates' = mCameraStates
                   \/ /\ client[exec[Lifecycle].id] # 0
                      /\ mCameraStates'[exec[Lifecycle].id] = Freed(mCameraStates[exec[Lifecycle].id])
                /\ \A d \in Cameras : d # exec[Lifecycle].id => mCameraStates'[d] = mCameraStates[d] /\ client'[d] = client[d]
           /\ RemoveStates =>
                /\ mCameraStates' \in [Cameras -> Statuses] /\ mCameraStates'[exec[Lifecycle].id] = "none"
                /\ \A d \in Cameras : d # exec[Lifecycle].id => mCameraStates'[d] = mCameraStates[d]
           /\ \A c \in Cameras : Disconnect(c) =>
                /\ mCameraStates' \in [Cameras -> Statuses] /\ client' \in [Cameras -> 0 .. MaxLives]
                /\ client'[c] = 0 /\ mCameraStates'[c] = Freed(mCameraStates[c])
                /\ \A d \in Cameras : d # c => mCameraStates'[d] = mCameraStates[d] /\ client'[d] = client[d]
           /\ FinishConnect =>
                /\ mCameraStates' \in [Cameras -> Statuses] /\ client' \in [Cameras -> 0 .. MaxLives]
                /\ connecting.id \in Cameras /\ client'[connecting.id] = connecting.life
                /\ mCameraStates'[connecting.id] \in {mCameraStates[connecting.id], Freed(mCameraStates[connecting.id])}
                /\ \A d \in Cameras : d # connecting.id => mCameraStates'[d] = mCameraStates[d] /\ client'[d] = client[d]
<1>a. /\ mCameraStates \in [Cameras -> Statuses] /\ client \in [Cameras -> 0 .. MaxLives]
      /\ 0 \in 0 .. MaxLives
  BY Constants1 DEF TypeInv, ServiceType
<1>1. ASSUME NEW e \in Runners, InsertState(e)
      PROVE  /\ mCameraStates' \in [Cameras -> Statuses] /\ exec[e].id \in Cameras
             /\ mCameraStates'[exec[e].id] =
                   IF mCameraStates[exec[e].id] = "none" THEN "NOT_PRESENT" ELSE mCameraStates[exec[e].id]
             /\ \A d \in Cameras : d # exec[e].id => mCameraStates'[d] = mCameraStates[d]
  <2>1. exec[e].id \in Cameras
    BY <1>1, RunnerMoves DEF InsertState
  <2> DEFINE c == exec[e].id
             s == IF mCameraStates[c] = "none" THEN "NOT_PRESENT" ELSE mCameraStates[c]
  <2>2. mCameraStates' = [mCameraStates EXCEPT ![c] = s] /\ s \in Statuses
    BY <1>a, <1>1, <2>1, StatusValues DEF InsertState
  <2> HIDE DEF s
  <2>3. mCameraStates' \in [Cameras -> Statuses] /\ mCameraStates'[c] = s /\ \A d \in Cameras : d # c => mCameraStates'[d] = mCameraStates[d]
    BY <1>a, <2>1, <2>2, StateChange
  <2> QED
    BY <2>1, <2>3, Zenon DEF s
<1>2. ASSUME NEW e \in Runners, UpdateStatus(e)
      PROVE  /\ mCameraStates' \in [Cameras -> Statuses] /\ exec[e].id \in Cameras
             /\ mCameraStates'[exec[e].id] =
                   IF mCameraStates[exec[e].id] = "none" THEN mCameraStates[exec[e].id] ELSE "PRESENT"
             /\ \A d \in Cameras : d # exec[e].id => mCameraStates'[d] = mCameraStates[d]
  <2>1. exec[e].id \in Cameras
    BY <1>2, RunnerMoves DEF UpdateStatus
  <2> DEFINE c == exec[e].id
             s == IF mCameraStates[c] = "none" THEN mCameraStates[c] ELSE "PRESENT"
  <2>2. mCameraStates' = [mCameraStates EXCEPT ![c] = s] /\ s \in Statuses
    BY <1>a, <1>2, <2>1, StatusValues DEF UpdateStatus
  <2> HIDE DEF s
  <2>3. mCameraStates' \in [Cameras -> Statuses] /\ mCameraStates'[c] = s /\ \A d \in Cameras : d # c => mCameraStates'[d] = mCameraStates[d]
    BY <1>a, <2>1, <2>2, StateChange
  <2> QED
    BY <2>1, <2>3, Zenon DEF s
<1>3. ASSUME Evict
      PROVE  /\ mCameraStates' \in [Cameras -> Statuses] /\ client' \in [Cameras -> 0 .. MaxLives]
             /\ client'[exec[Lifecycle].id] = 0
             /\ \/ mCameraStates' = mCameraStates
                \/ /\ client[exec[Lifecycle].id] # 0
                   /\ mCameraStates'[exec[Lifecycle].id] = Freed(mCameraStates[exec[Lifecycle].id])
             /\ \A d \in Cameras : d # exec[Lifecycle].id => mCameraStates'[d] = mCameraStates[d] /\ client'[d] = client[d]
  <2> DEFINE c == exec[Lifecycle].id
             s == Freed(mCameraStates[c])
  <2>1. c \in Cameras
    BY <1>3, LifecycleMoves
  <2>2. s \in Statuses
    BY <1>a, <2>1, StatusValues
  <2>3. client' = [client EXCEPT ![c] = 0]
    BY <1>3 DEF Evict
  <2>4. client' \in [Cameras -> 0 .. MaxLives] /\ client'[c] = 0 /\ \A d \in Cameras : d # c => client'[d] = client[d]
    BY <1>a, <2>1, <2>3, ClientChange
  <2>5. mCameraStates' = mCameraStates \/ (client[c] # 0 /\ mCameraStates' = [mCameraStates EXCEPT ![c] = s])
    BY <1>3 DEF Evict
  <2> HIDE DEF s
  <2>6. /\ mCameraStates' \in [Cameras -> Statuses]
        /\ mCameraStates' = mCameraStates \/ (client[c] # 0 /\ mCameraStates'[c] = s)
        /\ \A d \in Cameras : d # c => mCameraStates'[d] = mCameraStates[d]
    BY <1>a, <2>1, <2>2, <2>5, StateChange
  <2> QED
    BY <2>4, <2>6, Zenon DEF s
<1>4. ASSUME RemoveStates
      PROVE  /\ mCameraStates' \in [Cameras -> Statuses] /\ mCameraStates'[exec[Lifecycle].id] = "none"
             /\ \A d \in Cameras : d # exec[Lifecycle].id => mCameraStates'[d] = mCameraStates[d]
  <2>1. exec[Lifecycle].id \in Cameras /\ mCameraStates' = [mCameraStates EXCEPT ![exec[Lifecycle].id] = "none"]
    BY <1>4, LifecycleMoves DEF RemoveStates
  <2> QED
    BY <1>a, <2>1, StateChange, StatusValues
<1>5. ASSUME NEW c \in Cameras, Disconnect(c)
      PROVE  /\ mCameraStates' \in [Cameras -> Statuses] /\ client' \in [Cameras -> 0 .. MaxLives]
             /\ client'[c] = 0 /\ mCameraStates'[c] = Freed(mCameraStates[c])
             /\ \A d \in Cameras : d # c => mCameraStates'[d] = mCameraStates[d] /\ client'[d] = client[d]
  <2> DEFINE s == Freed(mCameraStates[c])
  <2>2. s \in Statuses
    BY <1>a, StatusValues
  <2>3. client' = [client EXCEPT ![c] = 0] /\ mCameraStates' = [mCameraStates EXCEPT ![c] = s]
    BY <1>5 DEF Disconnect
  <2> HIDE DEF s
  <2>4. client' \in [Cameras -> 0 .. MaxLives] /\ client'[c] = 0 /\ \A d \in Cameras : d # c => client'[d] = client[d]
    BY <1>a, <2>3, ClientChange
  <2>6. mCameraStates' \in [Cameras -> Statuses] /\ mCameraStates'[c] = s /\ \A d \in Cameras : d # c => mCameraStates'[d] = mCameraStates[d]
    BY <1>a, <2>2, <2>3, StateChange
  <2> QED
    BY <2>4, <2>6, Zenon DEF s
<1>6. ASSUME FinishConnect
      PROVE  /\ mCameraStates' \in [Cameras -> Statuses] /\ client' \in [Cameras -> 0 .. MaxLives]
             /\ connecting.id \in Cameras /\ client'[connecting.id] = connecting.life
             /\ mCameraStates'[connecting.id] \in {mCameraStates[connecting.id], Freed(mCameraStates[connecting.id])}
             /\ \A d \in Cameras : d # connecting.id => mCameraStates'[d] = mCameraStates[d] /\ client'[d] = client[d]
  <2> DEFINE c == connecting.id
             s == IF connecting.life = 0 THEN Freed(mCameraStates[c]) ELSE mCameraStates[c]
  <2>1. c \in Cameras /\ connecting.life \in 0 .. MaxLives
    BY <1>6 DEF FinishConnect, TypeInv, ServiceType
  <2>2. s \in Statuses
    BY <1>a, <2>1, StatusValues
  <2>3. client' = [client EXCEPT ![c] = connecting.life] /\ mCameraStates' = [mCameraStates EXCEPT ![c] = s]
    BY <1>6 DEF FinishConnect
  <2> HIDE DEF s
  <2>4. client' \in [Cameras -> 0 .. MaxLives] /\ client'[c] = connecting.life /\ \A d \in Cameras : d # c => client'[d] = client[d]
    BY <1>a, <2>1, <2>3, ClientChange
  <2>6. mCameraStates' \in [Cameras -> Statuses] /\ mCameraStates'[c] = s /\ \A d \in Cameras : d # c => mCameraStates'[d] = mCameraStates[d]
    BY <1>a, <2>1, <2>2, <2>3, StateChange
  <2> QED
    BY <2>1, <2>4, <2>6, Zenon DEF s
<1> QED
  BY <1>1, <1>2, <1>3, <1>4, <1>5, <1>6

\* What connecting does: the client waits for a session, has one, or was refused.
LEMMA ConnectMoves ==
    ASSUME TypeInv
    PROVE  /\ Connect =>
                /\ connecting = NoClient /\ why # "boot"
                /\ \E c \in Cameras : /\ client[c] = 0 /\ Good(c)
                                      /\ connecting'.pc = "open" /\ connecting'.id = c
                                      /\ connecting' = [pc |-> "open", id |-> c, life |-> 0] /\ connecting'.life = 0
                                      /\ mCameraStates' \in [Cameras -> Statuses] /\ mCameraStates'[c] = "NOT_AVAILABLE"
                                      /\ \A d \in Cameras : d # c => mCameraStates'[d] = mCameraStates[d]
                /\ UNCHANGED <<provider, notices, manager, thread, runs, client, history>>
           /\ OpenSession =>
                /\ connecting.pc = "open" /\ ~InterfaceLocked /\ connecting.id \in Cameras
                /\ connecting'.pc = "finish" /\ connecting'.id = connecting.id
                /\ \/ connecting'.life = 0
                   \/ /\ \E i \in Instances : InManager(i) /\ connecting.id \in info[i].mDevices /\ Up(i)
                      /\ connecting'.life = life
                /\ connecting' \in [pc : {"none", "open", "finish"}, id : 0 .. NumCameras, life : 0 .. MaxLives]
                /\ UNCHANGED <<provider, notices, manager, thread, runs, mCameraStates, client, history>>
<1>a. /\ connecting \in [pc : {"none", "open", "finish"}, id : 0 .. NumCameras, life : 0 .. MaxLives]
      /\ connecting.pc # "none" => connecting.id \in Cameras
  BY DEF TypeInv, ServiceType
<1>1. ASSUME Connect
      PROVE  /\ connecting = NoClient /\ why # "boot"
             /\ \E c \in Cameras : /\ client[c] = 0 /\ Good(c)
                                   /\ connecting'.pc = "open" /\ connecting'.id = c
                                   /\ connecting' = [pc |-> "open", id |-> c, life |-> 0] /\ connecting'.life = 0
                                   /\ mCameraStates' \in [Cameras -> Statuses] /\ mCameraStates'[c] = "NOT_AVAILABLE"
                                   /\ \A d \in Cameras : d # c => mCameraStates'[d] = mCameraStates[d]
             /\ UNCHANGED <<provider, notices, manager, thread, runs, client, history>>
  <2>1. PICK c \in Cameras : /\ client[c] = 0 /\ mCameraStates[c] \in {"PRESENT", "NOT_AVAILABLE"}
                             /\ connecting' = [pc |-> "open", id |-> c, life |-> 0]
                             /\ mCameraStates' = [mCameraStates EXCEPT ![c] = "NOT_AVAILABLE"]
    BY <1>1 DEF Connect
  <2>2. connecting'.pc = "open" /\ connecting'.id = c /\ connecting'.life = 0
    BY <2>1
  <2>3. connecting = NoClient /\ why # "boot" /\ UNCHANGED <<provider, notices, manager, thread, runs, client, history>>
    BY <1>1 DEF Connect
  <2>4. mCameraStates \in [Cameras -> Statuses] /\ "NOT_AVAILABLE" \in Statuses
    BY DEF TypeInv, ServiceType, Statuses
  <2>5. /\ mCameraStates' \in [Cameras -> Statuses] /\ mCameraStates'[c] = "NOT_AVAILABLE"
        /\ \A d \in Cameras : d # c => mCameraStates'[d] = mCameraStates[d]
    BY <2>1, <2>4, StateChange
  <2> QED
    BY <2>1, <2>2, <2>3, <2>5, Zenon DEF Good
<1>2. ASSUME OpenSession
      PROVE  /\ connecting.pc = "open" /\ ~InterfaceLocked /\ connecting.id \in Cameras
             /\ connecting'.pc = "finish" /\ connecting'.id = connecting.id
             /\ \/ connecting'.life = 0
                \/ /\ \E i \in Instances : InManager(i) /\ connecting.id \in info[i].mDevices /\ Up(i)
                   /\ connecting'.life = life
             /\ connecting' \in [pc : {"none", "open", "finish"}, id : 0 .. NumCameras, life : 0 .. MaxLives]
             /\ UNCHANGED <<provider, notices, manager, thread, runs, mCameraStates, client, history>>
  <2>2. connecting.pc = "open" /\ ~InterfaceLocked /\ connecting.id \in Cameras
    BY <1>a, <1>2 DEF OpenSession
  <2>3. UNCHANGED <<provider, notices, manager, thread, runs, mCameraStates, client, history>>
    BY <1>2 DEF OpenSession
  <2>4. PICK l \in {life, 0} :
              /\ connecting' = [connecting EXCEPT !.pc = "finish", !.life = l]
              /\ l = 0 \/ \E i \in Instances : InManager(i) /\ connecting.id \in info[i].mDevices /\ Up(i)
    BY <1>2 DEF OpenSession
  <2>5. l \in 0 .. MaxLives
    BY <2>4, Constants1 DEF TypeInv, ProviderType
  <2>6. /\ connecting' \in [pc : {"none", "open", "finish"}, id : 0 .. NumCameras, life : 0 .. MaxLives]
        /\ connecting'.pc = "finish" /\ connecting'.id = connecting.id /\ connecting'.life = l
    BY <1>a, <2>4, <2>5
  <2> QED
    BY <2>2, <2>3, <2>4, <2>6, Zenon
<1> QED
  BY <1>1, <1>2

LEMMA ServiceTypeStep == TypeInv /\ Structure /\ [Next]_vars => ServiceType'
<1> SUFFICES ASSUME TypeInv, Structure, [Next]_vars PROVE ServiceType'
  OBVIOUS
<1>a. /\ mCameraStates \in [Cameras -> Statuses] /\ client \in [Cameras -> 0 .. MaxLives]
      /\ connecting \in [pc : {"none", "open", "finish"}, id : 0 .. NumCameras, life : 0 .. MaxLives]
      /\ IF connecting.pc = "none" THEN connecting = NoClient ELSE connecting.id \in Cameras
      /\ connects \in Nat /\ flaws \in SUBSET {"torn", "orphan", "misdirected", "crossed"}
      /\ handed \in SUBSET (0 .. MaxLives)
  BY DEF TypeInv, ServiceType
<1>b. NoClient \in [pc : {"none", "open", "finish"}, id : 0 .. NumCameras, life : 0 .. MaxLives] /\ NoClient.pc = "none"
  BY Constants1 DEF NoClient
<1>1. CASE (\E e \in Runners : InsertState(e) \/ UpdateStatus(e)) \/ RemoveStates
  <2>1. mCameraStates' \in [Cameras -> Statuses]
    BY <1>1, StateMoves
  <2>2. UNCHANGED <<client, connecting, connects, history>>
    BY <1>1 DEF InsertState, UpdateStatus, RemoveStates
  <2> QED
    BY <1>a, <2>1, <2>2 DEF ServiceType
<1>2. CASE Evict \/ \E c \in Cameras : Disconnect(c)
  <2>1. mCameraStates' \in [Cameras -> Statuses] /\ client' \in [Cameras -> 0 .. MaxLives]
    BY <1>2, StateMoves
  <2>2. UNCHANGED <<connecting, connects, history>>
    BY <1>2 DEF Evict, Disconnect
  <2> QED
    BY <1>a, <2>1, <2>2 DEF ServiceType
<1>3. CASE FinishConnect
  <2>1. mCameraStates' \in [Cameras -> Statuses] /\ client' \in [Cameras -> 0 .. MaxLives]
    BY <1>3, StateMoves
  <2>2. UNCHANGED <<connects, history>> /\ connecting' = NoClient
    BY <1>3 DEF FinishConnect
  <2> QED
    BY <1>a, <1>b, <2>1, <2>2 DEF ServiceType
<1>4. CASE ReportAbsent
  <2>1. mCameraStates' = mCameraStates \/ \E c \in Cameras : mCameraStates' = [mCameraStates EXCEPT ![c] = "NOT_PRESENT"]
    BY <1>4 DEF ReportAbsent, TypeInv, ManagerType
  <2>2. mCameraStates' \in [Cameras -> Statuses]
    BY <1>a, <2>1, StateChange DEF Statuses
  <2>3. UNCHANGED <<client, connecting, connects, history>>
    BY <1>4 DEF ReportAbsent
  <2> QED
    BY <1>a, <2>2, <2>3 DEF ServiceType
<1>5. CASE Connect
  <2>1. PICK c \in Cameras : connecting' = [pc |-> "open", id |-> c, life |-> 0]
    BY <1>5 DEF Connect
  <2>2. /\ connecting' \in [pc : {"none", "open", "finish"}, id : 0 .. NumCameras, life : 0 .. MaxLives]
        /\ IF connecting'.pc = "none" THEN connecting' = NoClient ELSE connecting'.id \in Cameras
    BY <2>1, Constants1 DEF Cameras
  <2>3. UNCHANGED <<client, history>> /\ connects' \in Nat
    BY <1>a, <1>5 DEF Connect
  <2>4. mCameraStates' \in [Cameras -> Statuses]
    BY <1>5, ConnectMoves
  <2> QED
    BY <1>a, <2>2, <2>3, <2>4 DEF ServiceType
<1>6. CASE OpenSession
  <2>3. /\ connecting' \in [pc : {"none", "open", "finish"}, id : 0 .. NumCameras, life : 0 .. MaxLives]
        /\ IF connecting'.pc = "none" THEN connecting' = NoClient ELSE connecting'.id \in Cameras
    BY <1>6, ConnectMoves
  <2>4. UNCHANGED <<mCameraStates, client, connects, history>>
    BY <1>6 DEF OpenSession
  <2> QED
    BY <1>a, <2>3, <2>4 DEF ServiceType
<1>7. CASE DeviceAdded \/ Fails
  <2>1. UNCHANGED <<service, handed>> /\ flaws' \in SUBSET {"torn", "orphan", "misdirected", "crossed"}
    BY <1>a, <1>7, DeviceMoves DEF Fails
  <2> QED
    BY <1>a, <2>1 DEF ServiceType
<1>8. ASSUME NEW i \in Instances, RemoveProvider(i) PROVE ServiceType'
  <2>1. UNCHANGED service
    BY <1>8, Removal
  <2>2. flaws' \in SUBSET {"torn", "orphan", "misdirected", "crossed"}
    BY <1>a, <1>8, Removal DEF Removes
  <2>3. info[i].life \in 0 .. MaxLives
    BY <1>8 DEF TypeInv, ManagerType, InfoType
  <2>4. handed' \in SUBSET (0 .. MaxLives)
    BY <1>a, <1>8, <2>3, Removal DEF Successor, Sole
  <2> QED
    BY <1>a, <2>1, <2>2, <2>4 DEF ServiceType
<1>9. CASE ~(DeviceAdded \/ Fails \/ (\E e \in Runners : InsertState(e) \/ UpdateStatus(e)) \/ ReportAbsent \/ Evict
             \/ RemoveStates \/ (\E i \in Instances : RemoveProvider(i)) \/ Connect \/ ConnectSteps
             \/ \E c \in Cameras : Disconnect(c))
  <2>1. UNCHANGED <<service, history>>
    BY <1>9 DEF Next, HotPlug, LifecycleThread, Reports, RunStep, ConnectSteps, Start, Register, Die, Rescan,
       CallbackReturns, QueryCost, NotifyInitial, StatusChange, Subscribe, ListServices, OnRegistration, SetCallback,
       VisitCamera, SetCallbackReturns, LinkToDeath, Initialized, EnumerateProviders, ReportPresent
  <2> QED
    BY <1>a, <2>1 DEF ServiceType
<1> QED
  BY <1>1, <1>2, <1>3, <1>4, <1>5, <1>6, <1>7, <1>8, <1>9 DEF ConnectSteps

LEMMA CountedStep == TypeInv /\ Structure /\ [Next]_vars => Counted'
<1> SUFFICES ASSUME TypeInv, Structure, [Next]_vars PROVE Counted'
  OBVIOUS
<1>a. Counted /\ n \in Nat /\ Len(regs) \in Nat /\ life \in Nat /\ regs \in Seq(BOOLEAN)
  BY Constants1 DEF TypeInv, ManagerType, ProviderType
<1> USE DEF Counted, InterfaceLocked
<1>1. CASE Start
  BY <1>a, <1>1 DEF Start, TypeInv, ProviderType
<1>2. CASE Register
  <2>1. Len(regs') \in {Len(regs), Len(regs) + 1}
    BY <1>a, <1>2 DEF Register
  <2>2. alive /\ ~registered /\ registered' /\ UNCHANGED <<n, lpc, why, life>>
    BY <1>2 DEF Register
  <2> QED
    BY <1>a, <2>1, <2>2
<1>3. CASE Die
  BY <1>a, <1>3 DEF Die
<1>4. CASE Subscribe
  <2>1. n = 0 /\ why = "boot"
    BY <1>4 DEF Structure, Places1, Subscribe
  <2>2. Len(regs') = IF registered THEN 1 ELSE 0
    BY <1>4 DEF Subscribe
  <2>3. UNCHANGED <<n, why, life, alive, registered>> /\ lpc' = "list" /\ lpc = "boot"
    BY <1>4 DEF Subscribe
  <2>4. registered => life >= 1
    BY <1>a DEF TypeInv, ProviderType
  <2> QED
    BY <1>a, <2>1, <2>2, <2>3, <2>4
<1>5. CASE ListServices \/ OnRegistration
  <2>1. /\ UNCHANGED <<life, alive, registered>> /\ why' \in {"boot", "register"}
        /\ Len(regs') \in Nat
        /\ (lpc = "list" /\ Len(regs') = Len(regs)) \/ (lpc = "idle" /\ Len(regs') = Len(regs) - 1)
    <3>1. CASE ListServices
      BY <1>a, <3>1 DEF ListServices, Structure, Places1
    <3>2. CASE OnRegistration
      <4>1. regs # <<>> /\ regs' = Tail(regs)
        BY <3>2 DEF OnRegistration
      <4>2. Len(regs') = Len(regs) - 1 /\ Len(regs') \in Nat
        BY <1>a, <4>1
      <4> QED
        BY <3>2, <4>2 DEF OnRegistration
    <3> QED
      BY <1>5, <3>1, <3>2
  <2>2. Tries \/ NoService \/ Known \/ Waits
    BY <1>5, Adding DEF ListServices, OnRegistration
  <2>3. (lpc' = "setCallback" /\ n' = n) \/ (lpc' \in {"idle", "enumerate"} /\ n' \in {n, n + 1})
    BY <2>2 DEF Tries, NoService, Known, Waits, Gets, Leaves, GivenUp
  <2> QED
    BY <1>a, <2>1, <2>3
<1>6. CASE Fails
  BY <1>a, <1>6 DEF Fails, GivenUp
<1>7. CASE Initialized
  <2>1. UNCHANGED <<life, alive, registered, regs, why>> /\ lpc = "finish" /\ lpc' \in {"idle", "enumerate"}
        /\ \/ why = "remove" /\ n' = n
           \/ why # "remove" /\ n' = cur
    BY <1>7, FinishMoves
  <2>2. why # "remove" => n' = n + 1
    BY <2>1 DEF Structure, Places1
  <2> QED
    BY <1>a, <2>1, <2>2
<1>8. ASSUME NEW i \in Instances, RemoveProvider(i) PROVE Counted'
  <2>1. UNCHANGED <<life, alive, registered, regs, n>> /\ lpc = "idle"
        /\ (lpc' = lpc \/ (why' = "remove" /\ lpc' \in {"absent", "idle", "setCallback"}))
    BY <1>8, Removal DEF Removes, Sole, Gets
  <2> QED
    BY <1>a, <2>1
<1>9. CASE ~(Start \/ Register \/ Die \/ Subscribe \/ ListServices \/ OnRegistration \/ Fails \/ Initialized
             \/ \E i \in Instances : RemoveProvider(i))
  <2>1. /\ UNCHANGED <<n, regs, life, alive, registered>> /\ (lpc' \in {"boot", "list"} <=> lpc \in {"boot", "list"})
        /\ lpc' \in {"setCallback", "walk", "link", "finish"} <=> lpc \in {"setCallback", "walk", "link", "finish"}
        /\ lpc \in {"setCallback", "walk", "link", "finish"} => why' = why
    BY <1>9 DEF Next, HotPlug, LifecycleThread, Reports, RunStep, ConnectSteps, Rescan, DeviceAdded,
       CallbackReturns, QueryCost, NotifyInitial, StatusChange, SetCallback, InsertState, UpdateStatus,
       VisitCamera, SetCallbackReturns, LinkToDeath, EnumerateProviders, ReportPresent, ReportAbsent,
       Evict, RemoveStates, Connect, OpenSession, FinishConnect, Disconnect
  <2> QED
    BY <1>a, <2>1
<1> QED
  BY <1>1, <1>2, <1>3, <1>4, <1>5, <1>6, <1>7, <1>8, <1>9

LEMMA TypeStep == TypeInv /\ Structure /\ [Next]_vars => TypeInv'
BY BooleansStep, ProviderTypeStep, ManagerTypeStep, RunsTypeStep, ServiceTypeStep, CountedStep DEF TypeInv

-----------------------------------------------------------------------------
(* The places of the instances.                                            *)

Shape == Places1 /\ Listed /\ Unused /\ Linked

\* Of instance i only the cached statuses may have changed.
Same(i) == /\ info'[i].life = info[i].life /\ info'[i].mInitialized = info[i].mInitialized
           /\ info'[i].mDevices = info[i].mDevices /\ info'[i].linked = info[i].linked

LEMMA ManagerAppend ==
    ASSUME mProviders \in Seq(Instances), NEW x, mProviders' = Append(mProviders, x)
    PROVE  /\ \A j : InManager(j)' <=> InManager(j) \/ j = x
           /\ DOMAIN mProviders = 1 .. Len(mProviders) /\ Len(mProviders) \in Nat
           /\ DOMAIN mProviders' = 1 .. Len(mProviders) + 1 /\ mProviders' # <<>>
           /\ mProviders'[Len(mProviders) + 1] = x /\ \A k \in DOMAIN mProviders : mProviders'[k] = mProviders[k]
<1>1. /\ DOMAIN mProviders = 1 .. Len(mProviders) /\ Len(mProviders) \in Nat
      /\ DOMAIN mProviders' = 1 .. Len(mProviders) + 1
      /\ mProviders'[Len(mProviders) + 1] = x /\ \A k \in DOMAIN mProviders : mProviders'[k] = mProviders[k]
  OBVIOUS
<1>2. ASSUME NEW j PROVE InManager(j)' <=> InManager(j) \/ j = x
  BY <1>1 DEF InManager
<1>3. mProviders' # <<>>
  BY <1>1
<1> QED
  BY <1>1, <1>2, <1>3

LEMMA ManagerTail ==
    ASSUME TypeInv, Listed, mProviders # <<>>, mProviders' = Tail(mProviders)
    PROVE  /\ \A j : InManager(j)' <=> InManager(j) /\ j # mProviders[1]
           /\ \A k \in DOMAIN mProviders' : k + 1 \in DOMAIN mProviders /\ k + 1 # 1 /\ mProviders'[k] = mProviders[k + 1]
           /\ DOMAIN mProviders' \subseteq Nat \ {0}
<1>1. mProviders \in Seq(Instances)
  BY DEF TypeInv, ManagerType
<1>2. /\ \A k \in DOMAIN mProviders' : k + 1 \in DOMAIN mProviders /\ k + 1 # 1 /\ mProviders'[k] = mProviders[k + 1]
      /\ DOMAIN mProviders' = 1 .. Len(mProviders) - 1 /\ Len(mProviders) \in Nat \ {0} /\ DOMAIN mProviders = 1 .. Len(mProviders)
  BY <1>1, First
<1>3. ASSUME NEW j PROVE InManager(j)' <=> InManager(j) /\ j # mProviders[1]
  <2>1. ASSUME NEW k \in DOMAIN mProviders', mProviders'[k] = j PROVE InManager(j) /\ j # mProviders[1]
    <3>1. k + 1 \in DOMAIN mProviders /\ k + 1 # 1 /\ mProviders[k + 1] = j /\ 1 \in DOMAIN mProviders
      BY <1>2, <2>1
    <3> QED
      BY <3>1 DEF Listed, InManager
  <2>2. ASSUME NEW k \in DOMAIN mProviders, mProviders[k] = j, j # mProviders[1] PROVE InManager(j)'
    <3>1. k - 1 \in DOMAIN mProviders' /\ (k - 1) + 1 = k
      BY <1>2, <2>2
    <3>2. mProviders'[k - 1] = j
      BY <1>2, <2>2, <3>1
    <3> QED
      BY <3>1, <3>2 DEF InManager
  <2> QED
    BY <2>1, <2>2 DEF InManager
<1> QED
  BY <1>2, <1>3

\* An instance that anything was done with is the first.
LEMMA OnlyFirst ==
    ASSUME TypeInv, Listed, NEW i \in Instances, InManager(i), ~Pristine(i)
    PROVE  mProviders # <<>> /\ i = mProviders[1]
<1>1. PICK k \in DOMAIN mProviders : mProviders[k] = i
  BY DEF InManager
<1>2. k = 1
  BY <1>1 DEF Listed
<1> QED
  BY <1>1, <1>2

LEMMA ShapeKept ==
    ASSUME TypeInv, Shape, UNCHANGED <<subscribed, mProviders, n, cur>>, \A i \in Instances : Same(i),
           \A i \in Instances : i \in deaths' => i \in deaths \/ info[i].linked,
           InterfaceLocked => (InterfaceLocked' /\ why' = why) \/ ~InterfaceLocked',
           InterfaceLocked' => InterfaceLocked,
           lpc' \notin {"boot", "list"} \/ (lpc' = lpc /\ why' = why), lpc' = "boot" \/ subscribed',
           lpc' = "absent" => lpc = "absent", lpc' = "finish" => info[cur].linked,
           life' >= life, life' \in Nat,
           \A i \in Instances : info[i].linked /\ (Up(i) \/ i \in deaths) => Up(i)' \/ i \in deaths'
    PROVE  Shape'
<1>0. InterfaceLocked => cur \in Instances
  BY DEF TypeInv, ManagerType
<1>a. lpc = "finish" => InterfaceLocked
  BY DEF InterfaceLocked
<1>1. Places1'
  BY DEF Shape, Places1, InterfaceLocked
<1>2. \A i \in Instances : Pristine(i) => Pristine(i)'
  BY DEF Pristine, Same
<1>3. Listed'
  <2>1. mProviders \in Seq(Instances)
    BY DEF TypeInv, ManagerType
  <2>2. \A k \in DOMAIN mProviders : mProviders[k] \in Instances
    BY <2>1
  <2> QED
    BY <1>2, <2>2 DEF Shape, Listed
<1>4. Unused'
  BY <1>2 DEF Shape, Unused, Same
<1>5. Linked'
  <2>1. \A i \in Instances : info'[i].life <= life'
    <3>1. \A i \in Instances : info[i].life \in Nat /\ info[i].life <= life
      BY DEF Shape, Linked, TypeInv, ManagerType, InfoType
    <3>2. life \in Nat
      BY DEF TypeInv, ProviderType
    <3> QED
      BY <3>1, <3>2 DEF Same
  <2>2. \A i \in Instances : InManager(i)' <=> InManager(i)
    BY DEF InManager
  <2>3. \A i \in Instances : (InManager(i)' \/ (InterfaceLocked' /\ i = cur')) /\ info'[i].linked => Up(i)' \/ i \in deaths'
    BY <2>2 DEF Shape, Linked, Same
  <2>4. \A i \in Instances : InManager(i)' /\ info'[i].mInitialized => info'[i].linked
    BY <2>2 DEF Shape, Linked, Same
  <2>5. lpc' = "finish" => info'[cur'].linked
    <3>1. lpc' = "finish" => cur \in Instances
      BY <1>0 DEF InterfaceLocked
    <3> QED
      BY <3>1 DEF Same
  <2> QED
    BY <2>1, <2>3, <2>4, <2>5 DEF Linked
<1> QED
  BY <1>1, <1>3, <1>4, <1>5 DEF Shape

LEMMA ShapeProvider ==
    ASSUME TypeInv, Shape, Start \/ Register \/ Die \/ HotPlug \/ Rescan
    PROVE  Shape'
<1>a. life \in Nat /\ (alive => life # 0) /\ info \in [Instances -> InfoType]
  BY DEF TypeInv, ProviderType, ManagerType
<1>b. UNCHANGED <<subscribed, mProviders, n, cur, lpc, why, info>>
  BY DEF Start, Register, Die, HotPlug, DeviceAdded, CallbackReturns, Rescan
<1>c. life' >= life /\ life' \in Nat
  <2>1. life' = life \/ life' = life + 1
    BY DEF Start, Register, Die, HotPlug, DeviceAdded, CallbackReturns, Rescan
  <2> QED
    BY <1>a, <2>1
<1>d. /\ \A i \in Instances : i \in deaths' => i \in deaths \/ info[i].linked
      /\ \A i \in Instances : info[i].linked /\ (Up(i) \/ i \in deaths) => Up(i)' \/ i \in deaths'
  <2>1. CASE Start
    BY <1>b, <2>1 DEF Start, Up
  <2>2. CASE Register \/ HotPlug \/ Rescan
    <3>1. UNCHANGED <<life, alive, deaths>>
      BY <2>2 DEF Register, HotPlug, DeviceAdded, CallbackReturns, Rescan
    <3> QED
      BY <1>b, <3>1 DEF Up
  <2>3. CASE Die
    BY <1>b, <2>3 DEF Die, Up
  <2> QED
    BY <2>1, <2>2, <2>3
<1>e. lpc' = "finish" => info[cur].linked
  BY <1>b DEF Shape, Linked
<1>f. lpc' = "boot" \/ subscribed'
  BY <1>b DEF Shape, Places1
<1>g. \A i \in Instances : Same(i)
  BY <1>b DEF Same
<1>h. InterfaceLocked' <=> InterfaceLocked
  BY <1>b DEF InterfaceLocked
<1> QED
  BY <1>b, <1>c, <1>d, <1>e, <1>f, <1>g, <1>h, ShapeKept

\* The steps of other threads, and those of the lifecycle thread that move no instance.
LEMMA ShapeOthers ==
    ASSUME TypeInv, Shape,
           \/ UNCHANGED vars
           \/ \E e \in Runners : RunStep(e)
           \/ \E i \in Instances : NotifyInitial(i)
           \/ \E l \in Lives : StatusChange(l) /\ ~Learns(l)
           \/ SetCallback \/ VisitCamera \/ SetCallbackReturns \/ EnumerateProviders \/ ReportPresent \/ ReportAbsent
           \/ Evict \/ RemoveStates \/ Connect \/ ConnectSteps \/ \E c \in Cameras : Disconnect(c)
           \/ Fails /\ why = "remove"
    PROVE  Shape'
<1>a. life \in Nat /\ info \in [Instances -> InfoType]
  BY DEF TypeInv, ProviderType, ManagerType
<1>b. UNCHANGED <<subscribed, mProviders, n, cur, deaths, life, alive>>
  BY DEF RunStep, QueryCost, InsertState, UpdateStatus, NotifyInitial, StatusChange, SetCallback, VisitCamera,
     SetCallbackReturns, EnumerateProviders, ReportPresent, ReportAbsent, Evict, RemoveStates, Connect, ConnectSteps,
     OpenSession, FinishConnect, Disconnect, Fails
<1>c. \A i \in Instances : Same(i)
  <2>1. CASE VisitCamera
    <3>1. PICK c \in walk : info' = [info EXCEPT ![cur].mCachedStatus = @ \cup {c}]
      BY <2>1 DEF VisitCamera
    <3>2. c \in Cameras /\ cur \in Instances
      BY <2>1, <3>1 DEF VisitCamera, TypeInv, ProviderType, ManagerType, InterfaceLocked
    <3>3. /\ \A j \in Instances : j # cur => info'[j] = info[j]
          /\ info'[cur] = [life |-> info[cur].life, mInitialized |-> info[cur].mInitialized,
                           mCachedStatus |-> info[cur].mCachedStatus \cup {c},
                           mDevices |-> info[cur].mDevices, linked |-> info[cur].linked]
      BY <1>a, <3>1, <3>2, InfoCached
    <3> QED
      BY <3>2, <3>3 DEF Same
  <2>2. ASSUME NEW l \in Lives, StatusChange(l), ~Learns(l) PROVE \A i \in Instances : Same(i)
    <3>1. call[l].i \in Instances /\ call[l].c \in Cameras /\ (Caches(l) \/ Refuses(l))
      BY <2>2, StatusMoves
    <3>2. CASE Refuses(l)
      BY <3>2 DEF Refuses, Same
    <3>3. CASE Caches(l)
      <4>1. /\ \A j \in Instances : j # call[l].i => info'[j] = info[j]
            /\ info'[call[l].i] = [life |-> info[call[l].i].life, mInitialized |-> info[call[l].i].mInitialized,
                             mCachedStatus |-> info[call[l].i].mCachedStatus \cup {call[l].c},
                             mDevices |-> info[call[l].i].mDevices, linked |-> info[call[l].i].linked]
        BY <1>a, <3>1, <3>3, InfoCached DEF Caches
      <4> QED
        BY <3>1, <4>1 DEF Same
    <3> QED
      BY <3>1, <3>2, <3>3
  <2>3. CASE ~VisitCamera /\ ~\E l \in Lives : StatusChange(l) /\ ~Learns(l)
    <3>1. info' = info
      BY <2>3 DEF RunStep, QueryCost, InsertState, UpdateStatus, NotifyInitial, SetCallback,
         SetCallbackReturns, EnumerateProviders, ReportPresent, ReportAbsent, Evict, RemoveStates, Connect, ConnectSteps,
         OpenSession, FinishConnect, Disconnect, Fails
    <3> QED
      BY <3>1 DEF Same
  <2> QED
    BY <2>1, <2>2, <2>3
<1>d. \/ lpc' = lpc /\ why' = why
      \/ lpc = "setCallback" /\ lpc' = "walk" /\ why' = why
      \/ lpc = "walk" /\ lpc' = "link" /\ why' = why
      \/ lpc = "enumerate" /\ lpc' = "present"
      \/ lpc \in {"present", "absent"} /\ lpc' = "idle"
      \/ InterfaceLocked /\ lpc' = "idle"
  BY DEF RunStep, QueryCost, InsertState, UpdateStatus, NotifyInitial, StatusChange, SetCallback, VisitCamera,
     SetCallbackReturns, EnumerateProviders, ReportPresent, ReportAbsent, Evict, RemoveStates, Connect, ConnectSteps,
     OpenSession, FinishConnect, Disconnect, Fails, GivenUp
<1>e. lpc' = "finish" => info[cur].linked
  BY <1>d DEF Shape, Linked
<1>f. lpc' = "boot" \/ subscribed'
  BY <1>b, <1>d DEF Shape, Places1, InterfaceLocked
<1>g. \A i \in Instances : info[i].linked /\ (Up(i) \/ i \in deaths) => Up(i)' \/ i \in deaths'
  BY <1>b, <1>c DEF Up, Same
<1>h. /\ InterfaceLocked => (InterfaceLocked' /\ why' = why) \/ ~InterfaceLocked'
      /\ InterfaceLocked' => InterfaceLocked
      /\ lpc' \notin {"boot", "list"} \/ (lpc' = lpc /\ why' = why)
      /\ lpc' = "absent" => lpc = "absent"
  BY <1>d DEF InterfaceLocked
<1> QED
  BY <1>a, <1>b, <1>c, <1>e, <1>f, <1>g, <1>h, ShapeKept

LEMMA ShapeLearns ==
    ASSUME TypeInv, Shape, NEW l \in Lives, StatusChange(l), Learns(l)
    PROVE  Shape'
<1> DEFINE i == call[l].i
<1>1. /\ i \in Instances /\ call[l].c \in Cameras /\ UNCHANGED <<provider, notices, mProviders, n, thread>>
      /\ info[i].mInitialized /\ info' = [info EXCEPT ![i].mDevices = @ \cup {call[l].c}]
  BY StatusMoves DEF Learns
<1>2. info \in [Instances -> InfoType] /\ mProviders \in Seq(Instances) /\ (InterfaceLocked => cur \in Instances)
  BY DEF TypeInv, ManagerType
<1> HIDE DEF i
<1>3. /\ \A j \in Instances : j # i => info'[j] = info[j]
      /\ info'[i] = [life |-> info[i].life, mInitialized |-> info[i].mInitialized,
                     mCachedStatus |-> info[i].mCachedStatus,
                     mDevices |-> info[i].mDevices \cup {call[l].c}, linked |-> info[i].linked]
  BY <1>1, <1>2, InfoDevice
<1>4. ~Pristine(i) /\ \A j \in Instances : Pristine(j) => Pristine(j)'
  BY <1>1, <1>3 DEF Pristine
<1>5. Places1'
  BY <1>1 DEF Shape, Places1, InterfaceLocked
<1>6. Listed'
  <2>1. \A k \in DOMAIN mProviders : mProviders[k] \in Instances
    BY <1>2
  <2> QED
    BY <1>1, <1>4, <2>1 DEF Shape, Listed
<1>7. Unused'
  <2>1. \A j \in Instances : j > n + 1 \/ (j = n + 1 /\ mProviders # <<>>) => Pristine(j)'
    BY <1>4 DEF Shape, Unused
  <2>2. ASSUME NEW j \in Instances, j > n \/ (InterfaceLocked /\ j = cur)
        PROVE  ~info'[j].mInitialized /\ info'[j].mDevices = {}
    BY <1>1, <1>3, <2>2 DEF Shape, Unused
  <2> QED
    BY <1>1, <2>1, <2>2 DEF Unused, InterfaceLocked
<1>8. Linked'
  <2>1. \A j \in Instances : /\ info'[j].life = info[j].life /\ info'[j].mInitialized = info[j].mInitialized
                             /\ info'[j].linked = info[j].linked
    BY <1>3
  <2> QED
    BY <1>1, <1>2, <2>1 DEF Shape, Linked, InManager, Up, InterfaceLocked
<1> QED
  BY <1>5, <1>6, <1>7, <1>8 DEF Shape

LEMMA ShapeSubscribe ==
    ASSUME TypeInv, Shape, Subscribe
    PROVE  Shape'
<1>1. UNCHANGED <<deaths, mProviders, n, cur, info, why, life, alive>> /\ lpc = "boot" /\ lpc' = "list" /\ subscribed'
  BY DEF Subscribe
<1>2. Places1' /\ Listed' /\ Unused' /\ Linked'
  BY <1>1 DEF Shape, Places1, Listed, Unused, Linked, Pristine, InManager, Up, InterfaceLocked
<1> QED
  BY <1>2 DEF Shape

LEMMA ShapeAdding ==
    ASSUME TypeInv, Shape, ListServices \/ OnRegistration
    PROVE  Shape'
<1>a. /\ info \in [Instances -> InfoType] /\ mProviders \in Seq(Instances) /\ n \in Nat /\ life \in 0 .. MaxLives
      /\ registered => alive
  BY Constants1 DEF TypeInv, ManagerType, ProviderType
<1>b. /\ UNCHANGED <<provider, subscribed, deaths>> /\ why' \in {"boot", "register"} /\ subscribed
      /\ lpc \in {"list", "idle"} /\ (lpc = "idle" => why' = "register")
  BY DEF ListServices, OnRegistration, Shape, Places1
<1>c. n + 1 \in Instances
  BY Numbered DEF ListServices, OnRegistration
<1>d. Tries \/ NoService \/ Known \/ Waits
  BY Adding DEF ListServices, OnRegistration
<1>1. CASE Tries
  <2>1. /\ mProviders = <<>> /\ UNCHANGED <<mProviders, n>> /\ cur' = n + 1 /\ lpc' = "setCallback" /\ registered
        /\ info' = [info EXCEPT ![n + 1].life = life]
    BY <1>1 DEF Tries, Gets
  <2>2. /\ \A j \in Instances : j # n + 1 => info'[j] = info[j]
        /\ info'[n + 1] = [life |-> life, mInitialized |-> info[n + 1].mInitialized,
                           mCachedStatus |-> info[n + 1].mCachedStatus,
                           mDevices |-> info[n + 1].mDevices, linked |-> info[n + 1].linked]
    BY <1>a, <1>c, <2>1, InfoLife
  <2>3. Places1'
    BY <1>b, <2>1 DEF Places1, InterfaceLocked
  <2>4. Listed'
    BY <2>1 DEF Listed
  <2>5. Unused'
    <3>1. \A j \in Instances : j > n + 1 => Pristine(j)'
      BY <1>a, <1>b, <2>2 DEF Shape, Unused, Pristine
    <3>2. \A j \in Instances : j > n => ~info'[j].mInitialized /\ info'[j].mDevices = {}
      BY <1>c, <2>2 DEF Shape, Unused
    <3> QED
      BY <1>a, <2>1, <3>1, <3>2 DEF Unused, InterfaceLocked
  <2>6. Linked'
    <3>1. \A j \in Instances : info'[j].life <= life'
      BY <1>a, <1>b, <2>2 DEF Shape, Linked
    <3>2. ~\E j : InManager(j)'
      BY <2>1 DEF InManager
    <3>3. Up(n + 1)'
      BY <1>a, <1>b, <2>1, <2>2 DEF Up
    <3> QED
      BY <2>1, <3>1, <3>2, <3>3 DEF Linked
  <2> QED
    BY <2>3, <2>4, <2>5, <2>6 DEF Shape
<1>2. CASE NoService \/ Known
  <2>1. lpc' \in {"enumerate", "idle"} /\ UNCHANGED <<mProviders, n, cur, info>>
    BY <1>2 DEF NoService, Known, Leaves, GivenUp
  <2>2. Places1' /\ Listed' /\ Unused' /\ Linked'
    BY <1>b, <2>1 DEF Shape, Places1, Listed, Unused, Linked, Pristine, InManager, Up, InterfaceLocked
  <2> QED
    BY <2>2 DEF Shape
<1>3. CASE Waits
  <2>1. /\ mProviders # <<>> /\ mProviders' = Append(mProviders, n + 1) /\ n' = n + 1
        /\ lpc' = "enumerate" /\ UNCHANGED <<cur, info>>
    BY <1>3 DEF Waits
  <2>2. Pristine(n + 1)
    BY <1>c, <2>1 DEF Shape, Unused
  <2>3. \A j \in Instances : Pristine(j)' <=> Pristine(j)
    BY <1>b, <2>1 DEF Pristine
  <2>4. Places1'
    BY <1>b, <2>1 DEF Places1, InterfaceLocked
  <2>5. Listed'
    <3>1. \A k \in DOMAIN mProviders : mProviders[k] \in Instances /\ mProviders[k] <= n
      BY <1>a DEF Shape, Listed
    <3>2. ASSUME NEW k \in DOMAIN mProviders' PROVE mProviders'[k] <= n' /\ (k # 1 => Pristine(mProviders[k])')
      <4>1. CASE k \in DOMAIN mProviders
        <5>1. mProviders'[k] = mProviders[k]
          BY <1>a, <2>1, <4>1, ManagerAppend
        <5>2. mProviders[k] \in Instances /\ mProviders[k] <= n /\ mProviders[k] \in Nat
          BY <3>1, <4>1 DEF Instances
        <5>3. k # 1 => Pristine(mProviders[k])
          BY <4>1 DEF Shape, Listed
        <5>4. mProviders'[k] <= n'
          BY <1>a, <2>1, <5>1, <5>2
        <5>5. k # 1 => Pristine(mProviders[k])'
          BY <1>b, <2>1, <5>1, <5>3 DEF Pristine
        <5> QED
          BY <5>1, <5>4, <5>5
      <4>2. CASE k \notin DOMAIN mProviders
        <5>1. mProviders'[k] = n + 1
          BY <1>a, <2>1, <4>2, <3>2, ManagerAppend
        <5>2. Pristine(mProviders[k])'
          BY <1>b, <2>1, <2>2, <5>1 DEF Pristine
        <5> QED
          BY <1>a, <2>1, <5>1, <5>2
      <4> QED
        BY <4>1, <4>2
    <3>3. ASSUME NEW j \in DOMAIN mProviders', NEW k \in DOMAIN mProviders', mProviders'[j] = mProviders'[k] PROVE j = k
      <4>1. \A m \in DOMAIN mProviders' : \/ m \in DOMAIN mProviders /\ mProviders'[m] = mProviders[m] /\ mProviders'[m] # n + 1
                                          \/ m = Len(mProviders) + 1 /\ mProviders'[m] = n + 1
        BY <1>a, <2>1, <3>1, ManagerAppend DEF Instances
      <4> QED
        BY <3>3, <4>1 DEF Shape, Listed
    <3> QED
      BY <3>2, <3>3 DEF Listed
  <2>6. Unused'
    <3>1. \A j \in Instances : j >= n + 1 => Pristine(j) /\ j \in Nat
      BY <1>a, <2>1 DEF Shape, Unused, Instances
    <3>2. \A j \in Instances : j >= n' => Pristine(j)'
      BY <2>1, <2>3, <3>1
    <3>3. \A j \in Instances : Pristine(j)' => ~info'[j].mInitialized /\ info'[j].mDevices = {}
      BY DEF Pristine
    <3> QED
      BY <1>a, <2>1, <3>2, <3>3 DEF Unused, InterfaceLocked, Instances
  <2>7. Linked'
    <3>1. \A j : InManager(j)' <=> InManager(j) \/ j = n + 1
      BY <1>a, <2>1, ManagerAppend
    <3>2. ~info[n + 1].linked /\ ~info[n + 1].mInitialized
      BY <2>2 DEF Pristine
    <3>3. \A j \in Instances : info'[j].life <= life'
      BY <1>b, <2>1 DEF Shape, Linked
    <3>4. \A j \in Instances : InManager(j)' /\ info'[j].linked => Up(j)' \/ j \in deaths'
      BY <1>b, <2>1, <3>1, <3>2 DEF Shape, Linked, Up
    <3>5. \A j \in Instances : InManager(j)' /\ info'[j].mInitialized => info'[j].linked
      BY <2>1, <3>1, <3>2 DEF Shape, Linked
    <3> QED
      BY <2>1, <3>3, <3>4, <3>5 DEF Linked, InterfaceLocked
  <2> QED
    BY <2>4, <2>5, <2>6, <2>7 DEF Shape
<1> QED
  BY <1>d, <1>1, <1>2, <1>3

LEMMA ShapeFails ==
    ASSUME TypeInv, Shape, Fails, why # "remove"
    PROVE  Shape'
<1>1. /\ UNCHANGED <<provider, subscribed, mProviders, n, cur>> /\ lpc' \in {"enumerate", "idle"} /\ InterfaceLocked
      /\ info' = [info EXCEPT ![cur].linked = FALSE, ![cur].mCachedStatus = {}] /\ deaths' \subseteq deaths
  BY DEF Fails, GivenUp
<1>2. cur \in Instances /\ mProviders = <<>> /\ cur = n + 1 /\ info \in [Instances -> InfoType] /\ n \in Nat
  BY <1>1, Constants1 DEF TypeInv, ManagerType, Shape, Places1
<1>3. /\ \A j \in Instances : j # cur => info'[j] = info[j]
      /\ info'[cur] = [life |-> info[cur].life, mInitialized |-> info[cur].mInitialized,
                       mCachedStatus |-> {}, mDevices |-> info[cur].mDevices, linked |-> FALSE]
  BY <1>1, <1>2, InfoDropped
<1>4. Places1'
  BY <1>1 DEF Shape, Places1, InterfaceLocked
<1>5. Listed'
  BY <1>1, <1>2 DEF Listed
<1>6. Unused'
  <2>1. \A j \in Instances : j > n + 1 => Pristine(j)'
    BY <1>1, <1>2, <1>3 DEF Shape, Unused, Pristine
  <2>2. \A j \in Instances : j > n => ~info'[j].mInitialized /\ info'[j].mDevices = {}
    BY <1>2, <1>3 DEF Shape, Unused
  <2> QED
    BY <1>1, <1>2, <2>1, <2>2 DEF Unused, InterfaceLocked
<1>7. Linked'
  <2>1. \A j \in Instances : info'[j].life <= life'
    BY <1>1, <1>2, <1>3 DEF Shape, Linked
  <2>2. ~\E j : InManager(j)'
    BY <1>1, <1>2 DEF InManager
  <2> QED
    BY <1>1, <2>1, <2>2 DEF Linked, InterfaceLocked
<1> QED
  BY <1>4, <1>5, <1>6, <1>7 DEF Shape

LEMMA ShapeLink ==
    ASSUME TypeInv, Shape, LinkToDeath
    PROVE  Shape'
<1>1. /\ UNCHANGED <<provider, notices, mProviders, n, why, cur>> /\ lpc = "link" /\ lpc' = "finish" /\ Up(cur)
      /\ info' = [info EXCEPT ![cur].linked = TRUE]
  BY DEF LinkToDeath
<1>2. /\ cur \in Instances /\ info \in [Instances -> InfoType] /\ mProviders \in Seq(Instances) /\ n \in Nat
      /\ InterfaceLocked /\ InterfaceLocked'
  BY <1>1, Constants1 DEF TypeInv, ManagerType, InterfaceLocked
<1>3. /\ \A j \in Instances : j # cur => info'[j] = info[j]
      /\ info'[cur] = [life |-> info[cur].life, mInitialized |-> info[cur].mInitialized,
                       mCachedStatus |-> info[cur].mCachedStatus,
                       mDevices |-> info[cur].mDevices, linked |-> TRUE]
  BY <1>1, <1>2, InfoLink
<1>4. \A j \in Instances : j # cur => (Pristine(j)' <=> Pristine(j))
  BY <1>1, <1>3 DEF Pristine
<1>5. Places1'
  BY <1>1, <1>2 DEF Shape, Places1, InterfaceLocked
<1>6. mProviders = <<>> \/ (mProviders # <<>> /\ cur = mProviders[1] /\ cur <= n)
  <2>1. mProviders # <<>> => 1 \in DOMAIN mProviders
    BY <1>2
  <2> QED
    BY <1>2, <2>1 DEF Shape, Places1, Listed
<1>7. Listed'
  <2>1. \A k \in DOMAIN mProviders : mProviders[k] \in Instances
    BY <1>2
  <2>2. ASSUME NEW k \in DOMAIN mProviders, k # 1 PROVE Pristine(mProviders[k])'
    <3>1. Pristine(mProviders[k]) /\ mProviders[k] # cur
      BY <1>2, <1>6, <2>2 DEF Shape, Listed
    <3>2. Pristine(mProviders[k])' <=> Pristine(mProviders[k])
      BY <1>1, <1>3, <2>1, <3>1 DEF Pristine
    <3> QED
      BY <3>1, <3>2
  <2> QED
    BY <1>1, <2>2 DEF Shape, Listed
<1>8. Unused'
  <2>1. \A j \in Instances : j > n + 1 \/ (j = n + 1 /\ mProviders # <<>>) => Pristine(j) /\ j # cur
    BY <1>2, <1>6 DEF Shape, Unused, Places1, Instances
  <2>2. \A j \in Instances : info'[j].mInitialized = info[j].mInitialized /\ info'[j].mDevices = info[j].mDevices
    BY <1>3
  <2>3. \A j \in Instances : j > n \/ j = cur => ~info[j].mInitialized /\ info[j].mDevices = {}
    BY <1>2 DEF Shape, Unused
  <2>4. \A j \in Instances : j > n' + 1 \/ (j = n' + 1 /\ mProviders' # <<>>) => Pristine(j)'
    BY <1>1, <1>4, <2>1
  <2>5. \A j \in Instances : j > n' \/ (InterfaceLocked' /\ j = cur') => ~info'[j].mInitialized /\ info'[j].mDevices = {}
    BY <1>1, <2>2, <2>3
  <2> QED
    BY <2>4, <2>5 DEF Unused
<1>9. Linked'
  <2>1. \A j \in Instances : info'[j].life = info[j].life /\ info'[j].mInitialized = info[j].mInitialized
    BY <1>3
  <2>2. \A j \in Instances : info'[j].life <= life'
    BY <1>1, <2>1 DEF Shape, Linked
  <2>3. \A j : InManager(j)' <=> InManager(j)
    BY <1>1 DEF InManager
  <2>4. \A j \in Instances : Up(j)' <=> Up(j)
    BY <1>1, <2>1 DEF Up
  <2>5. \A j \in Instances : (InManager(j)' \/ (InterfaceLocked' /\ j = cur')) /\ info'[j].linked => Up(j)' \/ j \in deaths'
    BY <1>1, <1>2, <1>3, <2>3, <2>4 DEF Shape, Linked
  <2>6. \A j \in Instances : InManager(j)' /\ info'[j].mInitialized => info'[j].linked
    BY <1>3, <2>1, <2>3 DEF Shape, Linked
  <2> QED
    BY <1>1, <1>2, <1>3, <2>2, <2>5, <2>6 DEF Linked
<1> QED
  BY <1>5, <1>7, <1>8, <1>9 DEF Shape

LEMMA ShapeInitialized ==
    ASSUME TypeInv, Shape, Initialized
    PROVE  Shape'
<1> DEFINE added == {c \in info[cur].mCachedStatus : CanAdd(cur, c)}
<1>1. /\ UNCHANGED <<provider, notices, why, cur>> /\ lpc = "finish" /\ lpc' \in {"idle", "enumerate"}
      /\ \/ why = "remove" /\ UNCHANGED <<mProviders, n>>
         \/ why # "remove" /\ mProviders' = Append(mProviders, cur) /\ n' = cur
  BY FinishMoves
<1>2. /\ cur \in Instances /\ info \in [Instances -> InfoType] /\ mProviders \in Seq(Instances) /\ n \in Nat
      /\ InterfaceLocked /\ ~InterfaceLocked' /\ info[cur].linked
  BY <1>1, Constants1 DEF TypeInv, ManagerType, InterfaceLocked, Shape, Linked
<1>3. /\ \A j \in Instances : j # cur => info'[j] = info[j]
      /\ info'[cur] = [life |-> info[cur].life, mInitialized |-> TRUE,
                       mCachedStatus |-> {}, mDevices |-> added, linked |-> info[cur].linked]
  BY FinishMoves
<1> HIDE DEF added
<1>4. \A j \in Instances : j # cur => (Pristine(j)' <=> Pristine(j))
  BY <1>1, <1>3 DEF Pristine
<1>5. \A j \in Instances : info'[j].life = info[j].life /\ info'[j].linked = info[j].linked
  BY <1>3
<1>6. \A j \in Instances : Up(j)' <=> Up(j)
  BY <1>1, <1>5 DEF Up
<1>7. Places1'
  BY <1>1, <1>2 DEF Shape, Places1, InterfaceLocked
<1>8. \A j \in Instances : info'[j].life <= life'
  BY <1>1, <1>5 DEF Shape, Linked
<1>9. CASE why = "remove"
  <2>1. mProviders # <<>> /\ cur = mProviders[1] /\ cur <= n /\ UNCHANGED <<mProviders, n>> /\ 1 \in DOMAIN mProviders
    BY <1>1, <1>2, <1>9 DEF Shape, Places1, Listed
  <2>2. Listed'
    <3>1. \A k \in DOMAIN mProviders : mProviders[k] \in Instances
      BY <1>2
    <3>2. ASSUME NEW k \in DOMAIN mProviders, k # 1 PROVE Pristine(mProviders[k])'
      <4>1. Pristine(mProviders[k]) /\ mProviders[k] # cur
        BY <2>1, <3>2 DEF Shape, Listed
      <4>2. Pristine(mProviders[k])' <=> Pristine(mProviders[k])
        BY <1>1, <1>3, <2>1, <3>1, <4>1 DEF Pristine
      <4> QED
        BY <4>1, <4>2
    <3> QED
      BY <2>1, <3>2 DEF Shape, Listed
  <2>3. Unused'
    <3>1. \A j \in Instances : j > n + 1 \/ (j = n + 1 /\ mProviders # <<>>) => Pristine(j) /\ j # cur
      BY <1>2, <2>1 DEF Shape, Unused, Instances
    <3>2. \A j \in Instances : j > n => j # cur /\ ~info[j].mInitialized /\ info[j].mDevices = {}
      BY <1>2, <2>1 DEF Shape, Unused, Instances
    <3>3. \A j \in Instances : j > n' + 1 \/ (j = n' + 1 /\ mProviders' # <<>>) => Pristine(j)'
      BY <1>4, <2>1, <3>1
    <3>4. \A j \in Instances : j > n' => ~info'[j].mInitialized /\ info'[j].mDevices = {}
      BY <1>3, <2>1, <3>2
    <3> QED
      BY <1>2, <3>3, <3>4 DEF Unused
  <2>4. Linked'
    <3>1. \A j : InManager(j)' <=> InManager(j)
      BY <2>1 DEF InManager
    <3>2. \A j \in Instances : InManager(j)' /\ info'[j].linked => Up(j)' \/ j \in deaths'
      BY <1>1, <1>5, <1>6, <3>1 DEF Shape, Linked
    <3>3. \A j \in Instances : InManager(j)' /\ info'[j].mInitialized => info'[j].linked
      BY <1>2, <1>3, <3>1 DEF Shape, Linked
    <3> QED
      BY <1>1, <1>2, <1>8, <3>2, <3>3 DEF Linked
  <2> QED
    BY <1>7, <2>2, <2>3, <2>4 DEF Shape
<1>10. CASE why # "remove"
  <2>1. mProviders = <<>> /\ cur = n + 1 /\ mProviders' = Append(mProviders, cur) /\ n' = n + 1
    BY <1>1, <1>2, <1>10 DEF Shape, Places1
  <2>2. DOMAIN mProviders' = {1} /\ mProviders'[1] = cur
    BY <2>1
  <2>3. Listed'
    BY <1>1, <1>2, <1>10, <2>2 DEF Listed, Instances
  <2>4. Unused'
    <3>1. \A j \in Instances : j > n' => j > n + 1 /\ j # cur /\ j > n
      BY <1>2, <2>1 DEF Instances
    <3>2. \A j \in Instances : j > n' + 1 \/ (j = n' + 1 /\ mProviders' # <<>>) => j > n + 1 /\ j # cur
      BY <1>2, <2>1 DEF Instances
    <3>3. \A j \in Instances : j > n' + 1 \/ (j = n' + 1 /\ mProviders' # <<>>) => Pristine(j)'
      BY <1>4, <3>2 DEF Shape, Unused
    <3>4. \A j \in Instances : j > n' => ~info'[j].mInitialized /\ info'[j].mDevices = {}
      BY <1>3, <3>1 DEF Shape, Unused
    <3> QED
      BY <1>2, <3>3, <3>4 DEF Unused
  <2>5. Linked'
    <3>1. \A j : InManager(j)' => j = cur
      BY <2>2 DEF InManager
    <3>2. Up(cur) \/ cur \in deaths
      BY <1>2 DEF Shape, Linked
    <3>3. Up(cur)' \/ cur \in deaths'
      BY <1>1, <1>2, <1>5, <3>2 DEF Up
    <3>4. info'[cur].linked
      BY <1>2, <1>5
    <3>5. \A j \in Instances : InManager(j)' => Up(j)' \/ j \in deaths'
      BY <1>1, <3>1, <3>3
    <3> QED
      BY <1>1, <1>2, <1>8, <3>1, <3>4, <3>5 DEF Linked
  <2> QED
    BY <1>7, <2>3, <2>4, <2>5 DEF Shape
<1> QED
  BY <1>9, <1>10

LEMMA ShapeRemove ==
    ASSUME TypeInv, Structure, NEW i \in Instances, RemoveProvider(i)
    PROVE  Shape'
<1>0. Shape
  BY DEF Structure, Shape
<1>a. /\ info \in [Instances -> InfoType] /\ mProviders \in Seq(Instances) /\ n \in Nat /\ life \in 0 .. MaxLives
      /\ registered => alive
  BY Constants1 DEF TypeInv, ManagerType, ProviderType
<1>1. lpc = "idle" /\ deaths' = deaths \ {i} /\ UNCHANGED <<provider, subscribed, regs, n>> /\ subscribed
  BY <1>0, Removal DEF Shape, Places1
<1>2. CASE ~InManager(i) /\ UNCHANGED <<mProviders, info, thread, history>>
  <2>1. Places1' /\ Listed' /\ Unused'
    BY <1>0, <1>1, <1>2 DEF Shape, Places1, Listed, Unused, Pristine, InterfaceLocked
  <2>2. Linked'
    BY <1>0, <1>1, <1>2 DEF Shape, Linked, InManager, Up, InterfaceLocked
  <2> QED
    BY <2>1, <2>2 DEF Shape
<1>3. CASE Removes(i)
  <2>0. mProviders # <<>> /\ i = mProviders[1] /\ mProviders' = Tail(mProviders) /\ why' = "remove"
    BY <1>3 DEF Removes
  <2>1. /\ \A j : InManager(j)' <=> InManager(j) /\ j # i
        /\ \A k \in DOMAIN mProviders' : k + 1 \in DOMAIN mProviders /\ k + 1 # 1 /\ mProviders'[k] = mProviders[k + 1]
        /\ DOMAIN mProviders' \subseteq Nat \ {0}
    BY <1>0, <2>0, ManagerTail DEF Shape
  <2>2. \A k \in DOMAIN mProviders' : mProviders'[k] <= n /\ Pristine(mProviders'[k]) /\ mProviders'[k] \in Instances
    BY <1>0, <1>a, <2>1 DEF Shape, Listed
  <2>3. \A j, k \in DOMAIN mProviders' : mProviders'[j] = mProviders'[k] => j = k
    <3> SUFFICES ASSUME NEW j \in DOMAIN mProviders', NEW k \in DOMAIN mProviders', mProviders'[j] = mProviders'[k]
                 PROVE  j = k
      OBVIOUS
    <3>1. j + 1 = k + 1
      BY <1>0, <2>1 DEF Shape, Listed
    <3> QED
      BY <2>1, <3>1
  <2>4. CASE UNCHANGED info /\ lpc' \in {"absent", "idle"} /\ (lpc' = "absent" => Tail(mProviders) = <<>>)
    <3>1. Places1'
      BY <1>1, <2>0, <2>4 DEF Places1, InterfaceLocked
    <3>2. \A j \in Instances : Pristine(j) => Pristine(j)'
      BY <1>1, <2>4 DEF Pristine
    <3>3. Listed'
      <4>1. \A k \in DOMAIN mProviders' : Pristine(mProviders[k])'
        BY <1>1, <2>2, <2>4 DEF Pristine
      <4> QED
        BY <1>1, <2>2, <2>3, <4>1 DEF Listed
    <3>4. Unused'
      BY <1>0, <1>1, <2>0, <2>4, <3>2 DEF Shape, Unused, InterfaceLocked
    <3>5. Linked'
      <4>1. \A j \in Instances : Up(j)' <=> Up(j)
        BY <1>1, <2>4 DEF Up
      <4> QED
        BY <1>0, <1>1, <2>1, <2>4, <4>1 DEF Shape, Linked, InterfaceLocked
    <3> QED
      BY <3>1, <3>3, <3>4, <3>5 DEF Shape
  <2>5. CASE Tail(mProviders) # <<>> /\ Gets(mProviders[2])
    <3> DEFINE s == mProviders[2]
    <3>1. 2 \in DOMAIN mProviders /\ s \in Instances /\ mProviders'[1] = s /\ 1 \in DOMAIN mProviders'
      <4>1. Tail(mProviders) \in Seq(Instances)
        BY <1>a, <2>0, First
      <4>2. 1 \in DOMAIN Tail(mProviders)
        BY <2>5, <4>1, First
      <4> QED
        BY <2>0, <2>5, <4>2, Second
    <3>2. registered /\ cur' = s /\ lpc' = "setCallback" /\ info' = [info EXCEPT ![s].life = life]
      BY <2>5 DEF Gets
    <3>a. Pristine(s) /\ s <= n
      BY <2>2, <3>1
    <3> HIDE DEF s
    <3>3. /\ \A j \in Instances : j # s => info'[j] = info[j]
          /\ info'[s] = [life |-> life, mInitialized |-> info[s].mInitialized,
                         mCachedStatus |-> info[s].mCachedStatus,
                         mDevices |-> info[s].mDevices, linked |-> info[s].linked]
      BY <1>a, <3>1, <3>2, InfoLife
    <3>4. \A j \in Instances : j # s /\ Pristine(j) => Pristine(j)'
      BY <1>1, <3>3 DEF Pristine
    <3>5. Places1'
      BY <1>1, <2>0, <2>5, <3>1, <3>2 DEF Places1, InterfaceLocked
    <3>6. Listed'
      <4>1. ASSUME NEW k \in DOMAIN mProviders', k # 1 PROVE Pristine(mProviders[k])'
        <5>1. mProviders'[k] # s
          BY <2>3, <3>1, <4>1
        <5>2. Pristine(mProviders'[k]) /\ mProviders'[k] \in Instances
          BY <2>2, <4>1
        <5> QED
          BY <1>1, <3>3, <5>1, <5>2 DEF Pristine
      <4> QED
        BY <1>1, <2>2, <2>3, <4>1 DEF Listed
    <3>7. Unused'
      <4>1. \A j \in Instances : j > n => j # s
        BY <1>a, <3>a DEF Instances
      <4>2. \A j \in Instances : j > n + 1 \/ (j = n + 1 /\ mProviders # <<>>) => Pristine(j) /\ j # s
        BY <1>0, <1>a, <4>1 DEF Shape, Unused, Instances
      <4>3. \A j \in Instances : j > n' + 1 \/ (j = n' + 1 /\ mProviders' # <<>>) => Pristine(j)'
        BY <1>1, <2>0, <3>4, <4>2
      <4>4. \A j \in Instances : info'[j].mInitialized = info[j].mInitialized /\ info'[j].mDevices = info[j].mDevices
        BY <3>3
      <4>5. \A j \in Instances : j > n \/ j = s => ~info[j].mInitialized /\ info[j].mDevices = {}
        BY <1>0, <3>a DEF Shape, Unused, Pristine
      <4> QED
        BY <1>1, <3>2, <4>3, <4>4, <4>5 DEF Unused
    <3>8. Linked'
      <4>1. \A j \in Instances : info'[j].life <= life'
        BY <1>0, <1>1, <1>a, <3>3 DEF Shape, Linked
      <4>2. alive' /\ info'[s].life = life'
        BY <1>1, <1>a, <3>1, <3>2, <3>3
      <4>3. \A j \in Instances : j # s => (Up(j)' <=> Up(j))
        BY <1>1, <3>3 DEF Up
      <4>4. ASSUME NEW j \in Instances, InManager(j)' \/ (InterfaceLocked' /\ j = cur'), info'[j].linked
            PROVE  Up(j)' \/ j \in deaths'
        <5>1. CASE j = s
          BY <4>2, <5>1 DEF Up
        <5>2. CASE j # s
          BY <1>0, <1>1, <2>1, <3>2, <3>3, <4>3, <4>4, <5>2 DEF Shape, Linked
        <5> QED
          BY <5>1, <5>2
      <4>5. \A j \in Instances : InManager(j)' /\ info'[j].mInitialized => info'[j].linked
        BY <1>0, <2>1, <3>3 DEF Shape, Linked
      <4> QED
        BY <3>2, <4>1, <4>4, <4>5 DEF Linked
    <3> QED
      BY <3>5, <3>6, <3>7, <3>8 DEF Shape
  <2> QED
    BY <1>3, <2>4, <2>5, Removal DEF Removes, InManager, Sole, Successor
<1> QED
  BY <1>2, <1>3, Removal

\* The lifecycle thread reports only at its own places.
LEMMA RunsKept ==
    ASSUME TypeInv, Runs1, NEW e \in Runners, e # Lifecycle, lpc' = lpc,
           \A g \in Runners : g # e => exec'[g] = exec[g], exec'[e].pc \notin {"evict", "erase"}
    PROVE  Runs1'
BY RunnerNames DEF Runs1

LEMMA Runs1Step == TypeInv /\ Structure /\ [Next]_vars => Runs1'
<1> SUFFICES ASSUME TypeInv, Structure, [Next]_vars PROVE Runs1'
  OBVIOUS
<1>0. Runs1 /\ Lifecycle \in Runners
  BY RunnerNames DEF Structure
<1>a. \A e \in Runners : exec[e].pc = "idle" <=> exec[e] = Idle
  BY RunnerMoves
<1>b. Idle.pc = "idle"
  BY DEF Idle
<1>1. ASSUME NEW e \in Runners, RunStep(e) PROVE Runs1'
  <2>1. /\ exec[e].pc \in {"query", "insert", "update"} /\ lpc' = lpc
        /\ exec'[e].pc \in {"idle", "insert", "update"} /\ \A g \in Runners : g # e => exec'[g] = exec[g]
    BY <1>1, <1>b, RunnerMoves DEF RunStep, QueryCost, InsertState, UpdateStatus
  <2> QED
    BY <1>0, <2>1 DEF Runs1
<1>2. ASSUME NEW i \in Instances, NotifyInitial(i) PROVE Runs1'
  <2>1. PICK c \in Cameras : Present(<<"initial", i>>, c)
    BY <1>2, NotifyMoves
  <2>2. <<"initial", i>> \in Runners /\ <<"initial", i>> # Lifecycle /\ lpc' = lpc
    BY <1>2, RunnerNames, NotifyMoves
  <2>3. /\ \A g \in Runners : g # <<"initial", i>> => exec'[g] = exec[g]
        /\ exec'[<<"initial", i>>] \in {Idle, [pc |-> "query", id |-> c], [pc |-> "update", id |-> c]}
    BY <2>1, <2>2, PresentStarts DEF TypeInv, RunsType
  <2>4. exec'[<<"initial", i>>].pc \notin {"evict", "erase"}
    BY <1>b, <2>3
  <2> QED
    BY <1>0, <2>2, <2>3, <2>4, RunsKept
<1>3. ASSUME NEW l \in Lives, StatusChange(l) PROVE Runs1'
  <2>1. call[l].c \in Cameras /\ lpc' = lpc /\ <<"callback", l>> \in Runners /\ <<"callback", l>> # Lifecycle
    BY <1>3, StatusMoves, RunnerNames
  <2>2. CASE exec' = exec
    BY <1>0, <2>1, <2>2 DEF Runs1
  <2>3. CASE Learns(l)
    <3>1. /\ \A g \in Runners : g # <<"callback", l>> => exec'[g] = exec[g]
          /\ exec'[<<"callback", l>>] \in {Idle, [pc |-> "query", id |-> call[l].c], [pc |-> "update", id |-> call[l].c]}
      BY <2>1, <2>3, PresentStarts DEF TypeInv, RunsType, Learns
    <3>2. exec'[<<"callback", l>>].pc \notin {"evict", "erase"}
      BY <1>b, <3>1
    <3> QED
      BY <1>0, <2>1, <3>1, <3>2, RunsKept
  <2> QED
    BY <1>3, <2>2, <2>3, StatusMoves DEF Caches, Refuses
<1>4. CASE ReportPresent
  <2>1. /\ \A g \in Runners : g # Lifecycle => exec'[g] = exec[g]
        /\ exec'[Lifecycle] = Idle \/ (exec'[Lifecycle].pc = "query" /\ lpc' = "present")
    BY <1>4, LifecycleMoves DEF ReportPresent, TypeInv, ManagerType
  <2> QED
    BY <1>0, <1>b, <2>1 DEF Runs1
<1>5. CASE ReportAbsent
  <2>1. /\ \A g \in Runners : g # Lifecycle => exec'[g] = exec[g]
        /\ exec'[Lifecycle] = Idle \/ (exec'[Lifecycle].pc = "evict" /\ lpc' = "absent")
    BY <1>5, LifecycleMoves DEF ReportAbsent, TypeInv, ManagerType
  <2> QED
    BY <1>0, <1>b, <2>1 DEF Runs1
<1>6. CASE Evict \/ RemoveStates
  <2>1. /\ \A g \in Runners : g # Lifecycle => exec'[g] = exec[g]
        /\ exec[Lifecycle].pc \in {"evict", "erase"} /\ lpc' = lpc
        /\ exec'[Lifecycle] = Idle \/ exec'[Lifecycle].pc = "erase"
    BY <1>6, LifecycleMoves DEF Evict, RemoveStates
  <2> QED
    BY <1>0, <1>b, <2>1 DEF Runs1
<1>7. CASE ~(Reports \/ ReportPresent \/ ReportAbsent \/ Evict \/ RemoveStates)
  <2>1. exec' = exec /\ (lpc' = lpc \/ lpc \notin {"present", "absent"})
    BY <1>7 DEF Next, HotPlug, LifecycleThread, ConnectSteps, Start, Register, Die, Rescan, DeviceAdded, CallbackReturns,
       Subscribe, ListServices, OnRegistration, Fails, InterfaceLocked, SetCallback, VisitCamera, SetCallbackReturns,
       LinkToDeath, Initialized, EnumerateProviders, RemoveProvider, Connect, OpenSession, FinishConnect, Disconnect
  <2> QED
    BY <1>0, <2>1 DEF Runs1
<1> QED
  BY <1>1, <1>2, <1>3, <1>4, <1>5, <1>6, <1>7 DEF Reports

LEMMA StructureInit == Init => Structure
<1> SUFFICES ASSUME Init PROVE Structure
  OBVIOUS
<1>1. \A i \in Instances : Pristine(i)
  BY DEF Init, Pristine
<1>2. Places1 /\ Listed /\ Unused
  BY <1>1 DEF Init, Places1, Listed, Unused, Pristine, InterfaceLocked
<1>3. Linked
  BY DEF Init, Linked, InManager, InterfaceLocked
<1>4. Runs1
  BY RunnerNames DEF Init, Runs1, Idle
<1> QED
  BY <1>2, <1>3, <1>4 DEF Structure

LEMMA StructureStep == TypeInv /\ Structure /\ [Next]_vars => Structure'
<1> SUFFICES ASSUME TypeInv, Structure, [Next]_vars PROVE Structure'
  OBVIOUS
<1>0. Shape
  BY DEF Structure, Shape
<1>1. Runs1'
  BY Runs1Step
<1>2. CASE Start \/ Register \/ Die \/ HotPlug \/ Rescan
  BY <1>0, <1>1, <1>2, ShapeProvider DEF Shape, Structure
<1>3. CASE Subscribe \/ ListServices \/ OnRegistration
  BY <1>0, <1>1, <1>3, ShapeSubscribe, ShapeAdding DEF Shape, Structure
<1>4. CASE Fails
  BY <1>0, <1>1, <1>4, ShapeFails, ShapeOthers DEF Shape, Structure
<1>5. CASE LinkToDeath \/ Initialized
  BY <1>0, <1>1, <1>5, ShapeLink, ShapeInitialized DEF Shape, Structure
<1>6. CASE \E i \in Instances : RemoveProvider(i)
  BY <1>1, <1>6, ShapeRemove DEF Shape, Structure
<1>7. CASE \E l \in Lives : StatusChange(l)
  BY <1>0, <1>1, <1>7, ShapeLearns, ShapeOthers DEF Shape, Structure
<1>8. CASE ~(Start \/ Register \/ Die \/ HotPlug \/ Rescan \/ Subscribe \/ ListServices \/ OnRegistration \/ Fails
             \/ LinkToDeath \/ Initialized \/ (\E i \in Instances : RemoveProvider(i)) \/ \E l \in Lives : StatusChange(l))
  BY <1>0, <1>1, <1>8, ShapeOthers DEF Shape, Structure, Next, LifecycleThread, Reports
<1> QED
  BY <1>2, <1>3, <1>4, <1>5, <1>6, <1>7, <1>8

-----------------------------------------------------------------------------
(* The cameras of the instances.                                           *)

\* Every instance keeps its place, its process and its cameras.
Kept == \A i \in Instances :
    /\ InManager(i) => InManager(i)'
    /\ info[i].mInitialized => info'[i].mInitialized /\ info'[i].life = info[i].life
    /\ info[i].mDevices \subseteq info'[i].mDevices
    /\ ~info'[i].mInitialized => info'[i].mDevices \subseteq info[i].mDevices

LEMMA KeptSame ==
    ASSUME TypeInv, UNCHANGED <<info, mProviders>>
    PROVE  Kept
BY DEF Kept, InManager

LEMMA Keeps ==
    ASSUME TypeInv, Structure, [Next]_vars, ~\E i \in Instances : RemoveProvider(i)
    PROVE  Kept /\ handed' = handed /\ flaws \subseteq flaws'
<1>a. info \in [Instances -> InfoType] /\ mProviders \in Seq(Instances) /\ life \in 0 .. MaxLives
  BY DEF TypeInv, ManagerType, ProviderType
<1>b. Unused
  BY DEF Structure
<1>1. ASSUME NEW l \in Lives, StatusChange(l) PROVE Kept /\ UNCHANGED history
  <2>1. call[l].i \in Instances /\ call[l].c \in Cameras /\ UNCHANGED <<mProviders, history>>
        /\ (Caches(l) \/ Learns(l) \/ Refuses(l))
    BY <1>1, StatusMoves
  <2>2. CASE Refuses(l)
    BY <2>1, <2>2, KeptSame DEF Refuses
  <2> DEFINE i == call[l].i
             c == call[l].c
  <2> HIDE DEF i, c
  <2>3. CASE Caches(l)
    <3>0. info' = [info EXCEPT ![i].mCachedStatus = @ \cup {c}] /\ i \in Instances /\ c \in Cameras
      BY <2>1, <2>3 DEF i, c, Caches
    <3>1. /\ \A j \in Instances : j # i => info'[j] = info[j]
          /\ info'[i] = [life |-> info[i].life, mInitialized |-> info[i].mInitialized,
                             mCachedStatus |-> info[i].mCachedStatus \cup {c},
                             mDevices |-> info[i].mDevices, linked |-> info[i].linked]
      BY <1>a, <3>0, InfoCached
    <3> QED
      BY <2>1, <3>1 DEF Kept, InManager
  <2>4. CASE Learns(l)
    <3>0. info' = [info EXCEPT ![i].mDevices = @ \cup {c}] /\ i \in Instances /\ c \in Cameras /\ info[i].mInitialized
      BY <2>1, <2>4 DEF i, c, Learns
    <3>1. /\ \A j \in Instances : j # i => info'[j] = info[j]
          /\ info'[i] = [life |-> info[i].life, mInitialized |-> info[i].mInitialized,
                             mCachedStatus |-> info[i].mCachedStatus,
                             mDevices |-> info[i].mDevices \cup {c}, linked |-> info[i].linked]
      BY <1>a, <3>0, InfoDevice
    <3> QED
      BY <2>1, <3>0, <3>1 DEF Kept, InManager
  <2> QED
    BY <2>1, <2>2, <2>3, <2>4
<1>2. CASE ListServices \/ OnRegistration
  <2>1. UNCHANGED history
    BY <1>2 DEF ListServices, OnRegistration
  <2>2. Tries \/ NoService \/ Known \/ Waits
    BY <1>2, Adding DEF ListServices, OnRegistration
  <2>3. n + 1 \in Instances
    BY <1>2, Numbered DEF ListServices, OnRegistration
  <2>4. CASE Tries
    <3>1. mProviders' = mProviders /\ info' = [info EXCEPT ![n + 1].life = life]
      BY <2>4 DEF Tries, Gets
    <3>2. /\ \A j \in Instances : j # n + 1 => info'[j] = info[j]
          /\ info'[n + 1] = [life |-> life, mInitialized |-> info[n + 1].mInitialized,
                             mCachedStatus |-> info[n + 1].mCachedStatus,
                             mDevices |-> info[n + 1].mDevices, linked |-> info[n + 1].linked]
      BY <1>a, <2>3, <3>1, InfoLife
    <3>3. ~info[n + 1].mInitialized
      BY <1>b, <2>3 DEF Unused, Instances, TypeInv, ManagerType
    <3> QED
      BY <2>1, <3>1, <3>2, <3>3 DEF Kept, InManager
  <2>5. CASE NoService \/ Known
    BY <2>1, <2>5, KeptSame DEF NoService, Known, Leaves
  <2>6. CASE Waits
    <3>1. info' = info /\ mProviders' = Append(mProviders, n + 1)
      BY <2>6 DEF Waits
    <3>2. \A j : InManager(j) => InManager(j)'
      BY <1>a, <3>1, ManagerAppend
    <3> QED
      BY <2>1, <3>1, <3>2 DEF Kept
  <2> QED
    BY <2>1, <2>2, <2>4, <2>5, <2>6
<1>3. CASE Fails
  <2>1. mProviders' = mProviders /\ handed' = handed /\ flaws \subseteq flaws' /\ cur \in Instances
        /\ (info' = info \/ info' = [info EXCEPT ![cur].linked = FALSE, ![cur].mCachedStatus = {}])
    BY <1>3 DEF Fails, TypeInv, ManagerType
  <2>2. CASE info' = info
    BY <2>1, <2>2, KeptSame
  <2>3. CASE info' = [info EXCEPT ![cur].linked = FALSE, ![cur].mCachedStatus = {}]
    <3>1. /\ \A j \in Instances : j # cur => info'[j] = info[j]
          /\ info'[cur] = [life |-> info[cur].life, mInitialized |-> info[cur].mInitialized,
                         mCachedStatus |-> {}, mDevices |-> info[cur].mDevices, linked |-> FALSE]
      BY <1>a, <2>1, <2>3, InfoDropped
    <3> QED
      BY <2>1, <3>1 DEF Kept, InManager
  <2> QED
    BY <2>1, <2>2, <2>3
<1>4. CASE VisitCamera
  <2>1. PICK c \in walk : info' = [info EXCEPT ![cur].mCachedStatus = @ \cup {c}]
    BY <1>4 DEF VisitCamera
  <2>2. c \in Cameras /\ cur \in Instances /\ UNCHANGED <<mProviders, history>>
    BY <1>4, <2>1 DEF VisitCamera, TypeInv, ProviderType, ManagerType, InterfaceLocked
  <2>3. /\ \A j \in Instances : j # cur => info'[j] = info[j]
        /\ info'[cur] = [life |-> info[cur].life, mInitialized |-> info[cur].mInitialized,
                         mCachedStatus |-> info[cur].mCachedStatus \cup {c},
                         mDevices |-> info[cur].mDevices, linked |-> info[cur].linked]
    BY <1>a, <2>1, <2>2, InfoCached
  <2> QED
    BY <2>2, <2>3 DEF Kept, InManager
<1>5. CASE LinkToDeath
  <2>1. cur \in Instances /\ UNCHANGED <<mProviders, history>> /\ info' = [info EXCEPT ![cur].linked = TRUE]
    BY <1>5 DEF LinkToDeath, TypeInv, ManagerType, InterfaceLocked
  <2>2. /\ \A j \in Instances : j # cur => info'[j] = info[j]
        /\ info'[cur] = [life |-> info[cur].life, mInitialized |-> info[cur].mInitialized,
                         mCachedStatus |-> info[cur].mCachedStatus,
                         mDevices |-> info[cur].mDevices, linked |-> TRUE]
    BY <1>a, <2>1, InfoLink
  <2> QED
    BY <2>1, <2>2 DEF Kept, InManager
<1>6. CASE Initialized
  <2> DEFINE added == {c \in info[cur].mCachedStatus : CanAdd(cur, c)}
  <2>1. /\ lpc = "finish" /\ cur \in Instances /\ \A j \in Instances : j # cur => info'[j] = info[j]
        /\ info'[cur] = [life |-> info[cur].life, mInitialized |-> TRUE,
                         mCachedStatus |-> {}, mDevices |-> added, linked |-> info[cur].linked]
        /\ mProviders' = mProviders \/ mProviders' = Append(mProviders, cur)
        /\ UNCHANGED history
    BY <1>6, FinishMoves
  <2> HIDE DEF added
  <2>2. \A j : InManager(j) => InManager(j)'
    BY <1>a, <2>1, ManagerAppend DEF InManager
  <2>3. info[cur].mDevices = {}
    BY <1>b, <2>1 DEF Unused, InterfaceLocked
  <2> QED
    BY <2>1, <2>2, <2>3 DEF Kept
<1>7. CASE DeviceAdded
  BY <1>7, DeviceMoves, KeptSame
<1>8. CASE ~(DeviceAdded \/ Initialized \/ LinkToDeath \/ VisitCamera \/ Fails \/ ListServices \/ OnRegistration
             \/ \E l \in Lives : StatusChange(l))
  <2>1. UNCHANGED <<info, mProviders, history>>
    BY <1>8 DEF Next, HotPlug, LifecycleThread, Reports, RunStep, ConnectSteps, Start, Register, Die, Rescan,
       CallbackReturns, QueryCost, InsertState, UpdateStatus, NotifyInitial, Subscribe, SetCallback,
       SetCallbackReturns, EnumerateProviders, ReportPresent, ReportAbsent,
       Evict, RemoveStates, Connect, OpenSession, FinishConnect, Disconnect
  <2> QED
    BY <2>1, KeptSame
<1> QED
  BY <1>1, <1>2, <1>3, <1>4, <1>5, <1>6, <1>7, <1>8

LEMMA KnownKept ==
    ASSUME Kept
    PROVE  \A c \in KnownDevices : c \in KnownDevices'
BY DEF Kept, KnownDevices

\* A removal makes an instance leave and gives another one a process; the cameras stay theirs.
LEMMA RemovalKeeps ==
    ASSUME TypeInv, Structure, NEW i \in Instances, RemoveProvider(i)
    PROVE  /\ \A j \in Instances : /\ info'[j].mInitialized = info[j].mInitialized /\ info'[j].mDevices = info[j].mDevices
                                   /\ info[j].mInitialized => info'[j].life = info[j].life
           /\ handed \subseteq handed' /\ flaws \subseteq flaws'
           /\ \A j \in Instances : InManager(j) /\ ~InManager(j)' => j = i /\ Removes(i)
<1>a. info \in [Instances -> InfoType] /\ mProviders \in Seq(Instances) /\ life \in 0 .. MaxLives /\ Listed
  BY DEF TypeInv, ManagerType, ProviderType, Structure
<1>1. CASE ~InManager(i) /\ UNCHANGED <<mProviders, info, thread, history>>
  BY <1>1 DEF InManager
<1>2. CASE Removes(i)
  <2>1. mProviders # <<>> /\ i = mProviders[1] /\ mProviders' = Tail(mProviders) /\ flaws \subseteq flaws'
    BY <1>2 DEF Removes
  <2>2. \A j : InManager(j)' <=> InManager(j) /\ j # i
    BY <1>a, <2>1, ManagerTail
  <2>3. handed \subseteq handed'
    BY <1>2, Removal DEF Sole, Successor, Removes, InManager
  <2>4. CASE info' = info
    BY <1>2, <2>1, <2>2, <2>3, <2>4
  <2>5. CASE Tail(mProviders) # <<>> /\ Gets(mProviders[2])
    <3> DEFINE s == mProviders[2]
    <3>1. s \in Instances /\ 2 \in DOMAIN mProviders
      BY <2>1, <2>5, Second
    <3>2. Pristine(s) /\ info' = [info EXCEPT ![s].life = life]
      BY <1>a, <2>5, <3>1 DEF Gets, Listed
    <3> HIDE DEF s
    <3>3. /\ \A j \in Instances : j # s => info'[j] = info[j]
          /\ info'[s] = [life |-> life, mInitialized |-> info[s].mInitialized,
                         mCachedStatus |-> info[s].mCachedStatus,
                         mDevices |-> info[s].mDevices, linked |-> info[s].linked]
      BY <1>a, <3>1, <3>2, InfoLife
    <3> QED
      BY <1>2, <2>1, <2>2, <2>3, <3>2, <3>3 DEF Pristine
  <2> QED
    BY <1>2, <2>4, <2>5, Removal DEF Removes, InManager, Sole, Successor
<1> QED
  BY <1>1, <1>2, Removal

LEMMA EquippedStep == TypeInv /\ Structure /\ Equipped /\ [Next]_vars => Equipped'
<1> SUFFICES ASSUME TypeInv, Structure, Equipped, [Next]_vars PROVE Equipped'
  OBVIOUS
<1>1. CASE \E i \in Instances : RemoveProvider(i)
  BY <1>1, RemovalKeeps DEF Equipped
<1>2. CASE ~\E i \in Instances : RemoveProvider(i)
  BY <1>2, Keeps DEF Equipped, Kept
<1> QED
  BY <1>1, <1>2

-----------------------------------------------------------------------------
(* The callbacks of the provider.                                          *)

\* Only the handler of a callback makes its own run busy.
LEMMA CallbackIdle ==
    ASSUME TypeInv, [Next]_vars, NEW l \in Lives, exec[<<"callback", l>>] = Idle, exec'[<<"callback", l>>] # Idle
    PROVE  StatusChange(l)
<1> SUFFICES ASSUME ~StatusChange(l) PROVE FALSE
  OBVIOUS
<1> DEFINE e == <<"callback", l>>
<1>0. /\ e \in Runners /\ e # Lifecycle /\ (\A i \in Instances : <<"initial", i>> # e /\ <<"initial", i>> \in Runners)
      /\ \A m \in Lives : m # l => <<"callback", m>> # e /\ <<"callback", m>> \in Runners
  BY RunnerNames
<1>a. e \in Runners /\ exec[e] = Idle /\ exec'[e] # Idle /\ Idle.pc = "idle" /\ exec \in [Runners -> ExecType]
  BY <1>0 DEF Idle, TypeInv, RunsType
<1> HIDE DEF e
<1>1. ASSUME NEW g \in Runners, RunStep(g) PROVE FALSE
  <2>1. exec[g].pc # "idle"
    BY <1>1 DEF RunStep, QueryCost, InsertState, UpdateStatus
  <2>2. g # e
    BY <1>a, <2>1
  <2> QED
    BY <1>1, <1>a, <2>2, RunnerMoves DEF RunStep
<1>2. ASSUME NEW i \in Instances, NotifyInitial(i) PROVE FALSE
  <2>1. PICK c \in Cameras : Present(<<"initial", i>>, c)
    BY <1>2, NotifyMoves
  <2> QED
    BY <1>0, <1>a, <2>1, PresentStarts
<1>3. ASSUME NEW m \in Lives, StatusChange(m) PROVE FALSE
  <2>1. m # l /\ call[m].c \in Cameras /\ (Caches(m) \/ Learns(m) \/ Refuses(m))
    BY <1>3, StatusMoves
  <2>2. exec' = exec \/ Present(<<"callback", m>>, call[m].c)
    BY <2>1 DEF Caches, Learns, Refuses
  <2> QED
    BY <1>0, <1>a, <2>1, <2>2, PresentStarts
<1>4. CASE ReportPresent \/ ReportAbsent \/ Evict \/ RemoveStates
  BY <1>0, <1>a, <1>4, LifecycleMoves
<1>5. CASE ~(Reports \/ ReportPresent \/ ReportAbsent \/ Evict \/ RemoveStates)
  <2>1. exec' = exec
    BY <1>5 DEF Next, HotPlug, LifecycleThread, ConnectSteps, Start, Register, Die, Rescan, DeviceAdded, CallbackReturns,
       Subscribe, ListServices, OnRegistration, Fails, SetCallback, VisitCamera, SetCallbackReturns,
       LinkToDeath, Initialized, EnumerateProviders, RemoveProvider, Connect, OpenSession, FinishConnect, Disconnect
  <2> QED
    BY <1>a, <2>1
<1> QED
  BY <1>1, <1>2, <1>3, <1>4, <1>5 DEF Reports

LEMMA CallsInit == Init => Calls
BY Constants1, RunnerNames DEF Init, Calls, Lives, Cameras

LEMMA CallsStep == TypeInv /\ Structure /\ Calls /\ [Next]_vars => Calls'
<1> SUFFICES ASSUME TypeInv, Structure, Calls, [Next]_vars PROVE Calls'
  OBVIOUS
<1>a. /\ \A l \in Lives : l > life => call[l] = NoCall /\ exec[<<"callback", l>>] = Idle
      /\ \A l \in Lives : call[l] # NoCall => exec[<<"callback", l>>] = Idle
      /\ alive /\ ~calling => call[life] = NoCall /\ exec[<<"callback", life>>] = Idle
      /\ calling => alive /\ mCallbacks # 0 /\ hot \in mCameraStatusMap
      /\ alive /\ call[life] # NoCall => call[life].i = mCallbacks /\ call[life].c = hot
      /\ ~alive => mCallbacks = 0
  BY DEF Calls
<1>b. /\ life \in 0 .. MaxLives /\ hot \in Nat /\ (alive => life \in Lives) /\ life \in Nat
      /\ (calling => hot \in Cameras) /\ hot \in 1 .. NumCameras + 1
  BY Constants1 DEF TypeInv, ProviderType, Lives, Cameras
<1>c. Lives \subseteq Nat /\ Cameras \subseteq Nat
  BY DEF Lives, Cameras
<1>1. CASE Start
  <2>1. life' = life + 1 /\ life' \in Lives /\ alive' /\ ~calling' /\ UNCHANGED <<call, exec>> /\ life' > life
    BY <1>1, <1>b, Constants1 DEF Start, Lives
  <2>2. \A l \in Lives : l > life' => l > life
    BY <1>b, <1>c, <2>1
  <2> QED
    BY <1>a, <2>1, <2>2 DEF Calls
<1>2. CASE Die
  <2>1. /\ ~alive' /\ ~calling' /\ mCallbacks' = 0 /\ life' = life /\ exec' = exec
        /\ \A m \in Lives : call'[m] = call[m] \/ call'[m] = NoCall
    BY <1>2, DeathMoves
  <2> QED
    BY <1>a, <2>1 DEF Calls
<1>3. CASE DeviceAdded
  <2>1. /\ alive /\ ~calling /\ life \in Lives /\ hot \in Cameras /\ mCameraStatusMap' = mCameraStatusMap \cup {hot}
        /\ \/ mCallbacks = 0 /\ hot' = hot + 1 /\ ~calling' /\ call' = call
           \/ /\ mCallbacks # 0 /\ calling' /\ hot' = hot
              /\ call'[life] = [i |-> mCallbacks, c |-> hot] /\ \A m \in Lives : m # life => call'[m] = call[m]
        /\ UNCHANGED <<life, alive, mCallbacks, exec>>
    BY <1>3, DeviceMoves DEF Instances
  <2>3. call'[life] # NoCall => call'[life].i = mCallbacks /\ call'[life].c = hot /\ calling'
    BY <1>a, <2>1
  <2>4. \A l \in Lives : l > life => call'[l] = NoCall /\ exec[<<"callback", l>>] = Idle
    <3>1. \A l \in Lives : l > life => l # life
      BY <1>b, <1>c
    <3> QED
      BY <1>a, <2>1, <3>1
  <2>5. \A l \in Lives : call'[l] # NoCall => exec[<<"callback", l>>] = Idle
    BY <1>a, <2>1
  <2>6. calling' => hot' \in mCameraStatusMap' /\ mCallbacks # 0
    BY <2>1
  <2>7. ~calling' => call'[life] = NoCall /\ exec[<<"callback", life>>] = Idle
    BY <1>a, <2>1
  <2>8. call'[life] # NoCall => call'[life].i = mCallbacks /\ call'[life].c = hot'
    BY <2>1, <2>3
  <2> QED
    BY <2>1, <2>4, <2>5, <2>6, <2>7, <2>8 DEF Calls
<1>4. CASE CallbackReturns
  <2>1. /\ alive /\ calling /\ call[life] = NoCall /\ exec[<<"callback", life>>] = Idle
        /\ ~calling' /\ hot' = hot + 1 /\ UNCHANGED <<life, alive, mCallbacks, mCameraStatusMap, call, exec>>
    BY <1>4 DEF CallbackReturns
  <2> QED
    BY <1>a, <2>1 DEF Calls
<1>5. CASE Rescan
  <2>1. /\ alive /\ hot > NumCameras /\ hot' = 1
        /\ UNCHANGED <<life, alive, calling, mCallbacks, mCameraStatusMap, call, exec>>
    BY <1>5 DEF Rescan
  <2>2. ~calling
    BY <1>b, <2>1, Constants1 DEF Cameras
  <2> QED
    BY <1>a, <2>1, <2>2 DEF Calls
<1>6. CASE SetCallback
  <2>1. /\ alive /\ ~calling /\ cur \in Instances /\ mCallbacks' = cur
        /\ UNCHANGED <<life, alive, calling, hot, mCameraStatusMap, call, exec>>
    BY <1>6 DEF SetCallback, Up, TypeInv, ManagerType, InterfaceLocked
  <2> QED
    BY <1>a, <2>1 DEF Calls, Instances
<1>7. ASSUME NEW l \in Lives, StatusChange(l) PROVE Calls'
  <2>1. /\ call[l] # NoCall /\ call'[l] = NoCall /\ (\A m \in Lives : m # l => call'[m] = call[m])
        /\ UNCHANGED <<life, alive, calling, hot, mCallbacks, mCameraStatusMap>>
    BY <1>7, StatusMoves
  <2>2. \A m \in Lives : m # l /\ exec[<<"callback", m>>] = Idle => exec'[<<"callback", m>>] = Idle
    <3> SUFFICES ASSUME NEW m \in Lives, m # l, exec[<<"callback", m>>] = Idle, exec'[<<"callback", m>>] # Idle PROVE FALSE
      OBVIOUS
    <3>1. StatusChange(m)
      BY CallbackIdle
    <3>2. call'[m] = NoCall /\ call[m] # NoCall
      BY <3>1, StatusMoves
    <3> QED
      BY <2>1, <3>2
  <2>3. ~(l > life) /\ (alive /\ ~calling => l # life)
    BY <1>a, <2>1
  <2>4. alive => life \in Lives
    BY <1>b
  <2> QED
    BY <1>a, <2>1, <2>2, <2>3, <2>4 DEF Calls
<1>8. CASE ~(Start \/ Die \/ DeviceAdded \/ CallbackReturns \/ Rescan \/ SetCallback \/ \E l \in Lives : StatusChange(l))
  <2>1. UNCHANGED <<life, alive, calling, hot, mCallbacks, mCameraStatusMap, call>>
    BY <1>8 DEF Next, HotPlug, LifecycleThread, Reports, RunStep, ConnectSteps, Register,
       QueryCost, InsertState, UpdateStatus, NotifyInitial, Subscribe, ListServices, OnRegistration, Fails,
       VisitCamera, SetCallbackReturns, LinkToDeath, Initialized, EnumerateProviders, ReportPresent, ReportAbsent,
       RemoveProvider, Evict, RemoveStates, Connect, OpenSession, FinishConnect, Disconnect
  <2>2. \A m \in Lives : exec[<<"callback", m>>] = Idle => exec'[<<"callback", m>>] = Idle
    BY <1>8, CallbackIdle
  <2> QED
    BY <1>a, <1>b, <2>1, <2>2 DEF Calls
<1> QED
  BY <1>1, <1>2, <1>3, <1>4, <1>5, <1>6, <1>7, <1>8

-----------------------------------------------------------------------------
(* The runs of onDeviceStatusChanged and the status of the cameras.        *)

Others(e) == \A g \in Runners : g # e => exec'[g] = exec[g]
SameStates == \A c \in Cameras : mCameraStates'[c] = mCameraStates[c]
SameButFor(d) == \A c \in Cameras : c # d => mCameraStates'[c] = mCameraStates[c]

Stays == exec' = exec /\ \A c \in Cameras : mCameraStates'[c] = mCameraStates[c] \/ (Good(c) /\ Good(c)')
Begins(e, c) ==
    /\ exec[e].pc = "idle" /\ Others(e) /\ SameStates
    /\ mCameraStates[c] = "none" => exec'[e].pc = "query" /\ exec'[e].id = c
    /\ mCameraStates[c] = "PRESENT" => exec'[e].pc = "idle"
    /\ mCameraStates[c] \notin {"none", "PRESENT"} => exec'[e].pc = "update" /\ exec'[e].id = c
Queries(e) ==
    /\ exec[e].pc = "query" /\ Others(e) /\ SameStates /\ exec'[e].id = exec[e].id
    /\ exec'[e].pc = (IF exec[e].id \in KnownDevices THEN "insert" ELSE "update")
Inserts(e) ==
    /\ exec[e].pc = "insert" /\ Others(e) /\ SameButFor(exec[e].id) /\ exec[e].id \in Cameras
    /\ exec'[e].pc = "update" /\ exec'[e].id = exec[e].id
    /\ mCameraStates'[exec[e].id] = IF mCameraStates[exec[e].id] = "none" THEN "NOT_PRESENT" ELSE mCameraStates[exec[e].id]
Updates(e) ==
    /\ exec[e].pc = "update" /\ Others(e) /\ SameButFor(exec[e].id) /\ exec[e].id \in Cameras
    /\ exec'[e].pc = "idle"
    /\ mCameraStates'[exec[e].id] = IF mCameraStates[exec[e].id] = "none" THEN "none" ELSE "PRESENT"
Absents(c) ==
    /\ exec[Lifecycle].pc = "idle" /\ Others(Lifecycle) /\ SameButFor(c) /\ Good(c)
    /\ exec'[Lifecycle].pc = "evict" /\ exec'[Lifecycle].id = c /\ mCameraStates'[c] = "NOT_PRESENT"
Evicts ==
    /\ exec[Lifecycle].pc = "evict" /\ Others(Lifecycle) /\ SameButFor(exec[Lifecycle].id)
    /\ exec'[Lifecycle].pc = "erase" /\ exec'[Lifecycle].id = exec[Lifecycle].id /\ exec[Lifecycle].id \in Cameras
    /\ mCameraStates'[exec[Lifecycle].id] \in {mCameraStates[exec[Lifecycle].id], Freed(mCameraStates[exec[Lifecycle].id])}
Erases ==
    /\ exec[Lifecycle].pc = "erase" /\ Others(Lifecycle) /\ SameButFor(exec[Lifecycle].id) /\ exec[Lifecycle].id \in Cameras
    /\ exec'[Lifecycle].pc = "idle" /\ mCameraStates'[exec[Lifecycle].id] = "none"

LEMMA PresentBegins ==
    ASSUME TypeInv, NEW e \in Runners, NEW c \in Cameras, exec[e] = Idle, Present(e, c), UNCHANGED mCameraStates
    PROVE  Begins(e, c)
<1>1. /\ exec' \in [Runners -> ExecType] /\ \A g \in Runners : g # e => exec'[g] = exec[g]
      /\ mCameraStates[c] = "none" => exec'[e] = [pc |-> "query", id |-> c]
      /\ mCameraStates[c] = "PRESENT" => exec'[e] = Idle
      /\ mCameraStates[c] \notin {"none", "PRESENT"} => exec'[e] = [pc |-> "update", id |-> c]
  BY PresentStarts DEF TypeInv, RunsType
<1>2. Idle.pc = "idle"
  BY DEF Idle
<1> QED
  BY <1>1, <1>2 DEF Begins, Others, SameStates

\* What each action does to the runs and to the statuses.
LEMMA RunMoves ==
    ASSUME TypeInv, Structure, Calls
    PROVE  /\ \A e \in Runners : /\ QueryCost(e) => Queries(e)
                                 /\ InsertState(e) => Inserts(e)
                                 /\ UpdateStatus(e) => Updates(e)
           /\ \A i \in Instances : NotifyInitial(i) => \E c \in initial[i] : c \in Cameras /\ Begins(<<"initial", i>>, c)
           /\ \A l \in Lives : StatusChange(l) => (Learns(l) /\ Begins(<<"callback", l>>, call[l].c)) \/ Stays
           /\ ReportPresent => Stays \/ \E c \in todo : Begins(Lifecycle, c) /\ mCameraStates[c] = "none" /\ todo' = todo \ {c}
           /\ ReportAbsent => Stays \/ \E c \in todo : Absents(c) /\ todo' = todo \ {c}
           /\ Evict => Evicts
           /\ RemoveStates => Erases
           /\ Connect \/ ConnectSteps \/ (\E c \in Cameras : Disconnect(c)) => Stays
<1>a. mCameraStates \in [Cameras -> Statuses] /\ todo \in SUBSET Cameras /\ Idle.pc = "idle"
  BY DEF TypeInv, ServiceType, ManagerType, Idle
<1>1. ASSUME NEW e \in Runners
      PROVE  (QueryCost(e) => Queries(e)) /\ (InsertState(e) => Inserts(e)) /\ (UpdateStatus(e) => Updates(e))
  <2>1. ASSUME QueryCost(e) PROVE Queries(e)
    <3>1. /\ exec'[e].pc = (IF exec[e].id \in KnownDevices THEN "insert" ELSE "update")
          /\ exec'[e].id = exec[e].id /\ \A g \in Runners : g # e => exec'[g] = exec[g]
      BY <2>1, RunnerMoves
    <3>2. exec[e].pc = "query" /\ UNCHANGED mCameraStates
      BY <2>1 DEF QueryCost
    <3> QED
      BY <3>1, <3>2 DEF Queries, Others, SameStates
  <2>2. ASSUME InsertState(e) PROVE Inserts(e)
    <3>1. exec'[e].pc = "update" /\ exec'[e].id = exec[e].id /\ \A g \in Runners : g # e => exec'[g] = exec[g]
      BY <2>2, RunnerMoves
    <3>2. exec[e].pc = "insert"
      BY <2>2 DEF InsertState
    <3> QED
      BY <2>2, <3>1, <3>2, StateMoves DEF Inserts, Others, SameButFor
  <2>3. ASSUME UpdateStatus(e) PROVE Updates(e)
    <3>1. exec'[e].pc = "idle" /\ \A g \in Runners : g # e => exec'[g] = exec[g]
      BY <1>a, <2>3, RunnerMoves
    <3>2. exec[e].pc = "update"
      BY <2>3 DEF UpdateStatus
    <3> QED
      BY <2>3, <3>1, <3>2, StateMoves DEF Updates, Others, SameButFor
  <2> QED
    BY <2>1, <2>2, <2>3
<1>2. ASSUME NEW i \in Instances, NotifyInitial(i)
      PROVE  \E c \in initial[i] : c \in Cameras /\ Begins(<<"initial", i>>, c)
  <2>1. PICK c \in initial[i] : c \in Cameras /\ Present(<<"initial", i>>, c)
    BY <1>2, NotifyMoves
  <2> QED
    BY <1>2, <2>1, NotifyMoves, PresentBegins, RunnerNames
<1>3. ASSUME NEW l \in Lives, StatusChange(l)
      PROVE  (Learns(l) /\ Begins(<<"callback", l>>, call[l].c)) \/ Stays
  <2>1. call[l].c \in Cameras /\ (Caches(l) \/ Learns(l) \/ Refuses(l)) /\ UNCHANGED mCameraStates /\ call[l] # NoCall
    BY <1>3, StatusMoves
  <2>2. exec[<<"callback", l>>] = Idle
    BY <2>1 DEF Calls
  <2>3. Learns(l) => Present(<<"callback", l>>, call[l].c)
    BY DEF Learns
  <2>4. Learns(l) \/ exec' = exec
    BY <2>1 DEF Caches, Refuses
  <2> QED
    BY <2>1, <2>2, <2>3, <2>4, PresentBegins, RunnerNames DEF Stays
<1>4. ASSUME ReportPresent
      PROVE  Stays \/ \E c \in todo : Begins(Lifecycle, c) /\ mCameraStates[c] = "none" /\ todo' = todo \ {c}
  <2>1. UNCHANGED mCameraStates /\ exec[Lifecycle] = Idle
    BY <1>4 DEF ReportPresent
  <2>2. CASE exec' = exec
    BY <2>1, <2>2 DEF Stays
  <2>3. CASE exec' # exec
    <3>1. PICK c \in todo : todo' = todo \ {c} /\ mCameraStates[c] = "none" /\ Present(Lifecycle, c)
      BY <1>4, <2>3 DEF ReportPresent
    <3>2. Begins(Lifecycle, c)
      BY <1>a, <2>1, <3>1, PresentBegins, RunnerNames
    <3> QED
      BY <3>1, <3>2
  <2> QED
    BY <2>2, <2>3
<1>5. ASSUME ReportAbsent PROVE Stays \/ \E c \in todo : Absents(c) /\ todo' = todo \ {c}
  <2>1. exec[Lifecycle] = Idle /\ \A g \in Runners : g # Lifecycle => exec'[g] = exec[g]
    BY <1>5, LifecycleMoves
  <2>2. CASE exec' = exec /\ mCameraStates' = mCameraStates
    BY <2>2 DEF Stays
  <2>3. CASE \E c \in todo : /\ todo' = todo \ {c} /\ mCameraStates[c] \notin {"none", "NOT_PRESENT"}
                             /\ mCameraStates' = [mCameraStates EXCEPT ![c] = "NOT_PRESENT"]
                             /\ exec'[Lifecycle].pc = "evict" /\ exec'[Lifecycle].id = c
    <3>1. PICK c \in todo : /\ todo' = todo \ {c} /\ mCameraStates[c] \notin {"none", "NOT_PRESENT"}
                            /\ mCameraStates' = [mCameraStates EXCEPT ![c] = "NOT_PRESENT"]
                            /\ exec'[Lifecycle].pc = "evict" /\ exec'[Lifecycle].id = c
      BY <2>3
    <3>2. c \in Cameras /\ Good(c)
      BY <1>a, <3>1 DEF Good, Statuses
    <3>3. mCameraStates'[c] = "NOT_PRESENT" /\ SameButFor(c)
      BY <1>a, <3>1, <3>2, StateChange, StatusValues DEF SameButFor
    <3>4. Absents(c)
      BY <1>a, <2>1, <3>1, <3>2, <3>3 DEF Absents, Others
    <3> QED
      BY <3>1, <3>4
  <2> QED
    BY <1>5, <2>2, <2>3, LifecycleMoves
<1>6. ASSUME Evict PROVE Evicts
  <2>1. /\ exec[Lifecycle].pc = "evict" /\ exec[Lifecycle].id \in Cameras
        /\ exec'[Lifecycle].pc = "erase" /\ exec'[Lifecycle].id = exec[Lifecycle].id
        /\ \A g \in Runners : g # Lifecycle => exec'[g] = exec[g]
    BY <1>6, LifecycleMoves
  <2> QED
    BY <1>6, <2>1, StateMoves DEF Evicts, Others, SameButFor
<1>7. ASSUME RemoveStates PROVE Erases
  <2>1. /\ exec[Lifecycle].pc = "erase" /\ exec[Lifecycle].id \in Cameras /\ exec'[Lifecycle] = Idle
        /\ \A g \in Runners : g # Lifecycle => exec'[g] = exec[g]
    BY <1>7, LifecycleMoves
  <2> QED
    BY <1>7, <1>a, <2>1, StateMoves DEF Erases, Others, SameButFor
<1>8. ASSUME Connect \/ ConnectSteps \/ \E c \in Cameras : Disconnect(c) PROVE Stays
  <2>1. exec' = exec
    BY <1>8 DEF Connect, ConnectSteps, OpenSession, FinishConnect, Disconnect
  <2>2. CASE Connect \/ OpenSession
    BY <2>1, <2>2, ConnectMoves DEF Stays, Good
  <2>3. CASE FinishConnect
    BY <2>1, <2>3, StateMoves DEF Stays, Good, Freed
  <2>4. CASE \E c \in Cameras : Disconnect(c)
    BY <2>1, <2>4, StateMoves DEF Stays, Good, Freed
  <2> QED
    BY <1>8, <2>2, <2>3, <2>4 DEF ConnectSteps
<1> QED
  BY <1>1, <1>2, <1>3, <1>4, <1>5, <1>6, <1>7, <1>8

LEMMA RunCases ==
    ASSUME TypeInv, Structure, Calls, [Next]_vars
    PROVE  \/ Stays
           \/ \E e \in Runners, c \in Cameras : Begins(e, c)
           \/ \E e \in Runners : Queries(e) \/ Inserts(e) \/ Updates(e)
           \/ ReportAbsent /\ \E c \in todo : c \in Cameras /\ Absents(c)
           \/ Evict /\ Evicts
           \/ RemoveStates /\ Erases
<1>a. todo \in SUBSET Cameras
  BY DEF TypeInv, ManagerType
<1>1. CASE \E e \in Runners : RunStep(e)
  BY <1>1, RunMoves DEF RunStep
<1>2. CASE \E i \in Instances : NotifyInitial(i)
  BY <1>2, RunMoves, RunnerNames
<1>3. CASE \E l \in Lives : StatusChange(l)
  <2>1. PICK l \in Lives : StatusChange(l)
    BY <1>3
  <2>2. call[l].c \in Cameras /\ <<"callback", l>> \in Runners
    BY <2>1, StatusMoves, RunnerNames
  <2> QED
    BY <2>1, <2>2, RunMoves
<1>4. CASE ReportPresent \/ ReportAbsent \/ Evict \/ RemoveStates
  BY <1>4, <1>a, RunMoves, RunnerNames
<1>5. CASE Connect \/ ConnectSteps \/ \E c \in Cameras : Disconnect(c)
  BY <1>5, RunMoves
<1>6. CASE ~(Reports \/ ReportPresent \/ ReportAbsent \/ Evict \/ RemoveStates \/ Connect \/ ConnectSteps
             \/ \E c \in Cameras : Disconnect(c))
  <2>1. UNCHANGED <<exec, mCameraStates>>
    BY <1>6 DEF Next, HotPlug, LifecycleThread, Start, Register, Die, Rescan, DeviceAdded, CallbackReturns,
       Subscribe, ListServices, OnRegistration, Fails, SetCallback, VisitCamera, SetCallbackReturns,
       LinkToDeath, Initialized, EnumerateProviders, RemoveProvider
  <2> QED
    BY <2>1 DEF Stays
<1> QED
  BY <1>1, <1>2, <1>3, <1>4, <1>5, <1>6 DEF Reports

LEMMA HalfPresentStep == TypeInv /\ Structure /\ Calls /\ HalfPresent /\ [Next]_vars => HalfPresent'
<1> SUFFICES ASSUME TypeInv, Structure, Calls, HalfPresent, [Next]_vars, NEW c \in Cameras, mCameraStates'[c] = "NOT_PRESENT"
             PROVE  \E e \in Runners : exec'[e].id = c /\ exec'[e].pc \in {"update", "evict", "erase"}
  BY DEF HalfPresent
<1>a. mCameraStates[c] = "NOT_PRESENT" => \E e \in Runners : exec[e].id = c /\ exec[e].pc \in {"update", "evict", "erase"}
  BY DEF HalfPresent
<1>b. Lifecycle \in Runners
  BY RunnerNames
<1>1. CASE Stays
  BY <1>1, <1>a DEF Stays, Good
<1>2. CASE \E e \in Runners, d \in Cameras : Begins(e, d)
  BY <1>2, <1>a DEF Begins, Others, SameStates
<1>3. ASSUME NEW e \in Runners, Queries(e) \/ Inserts(e) \/ Updates(e)
      PROVE  \E g \in Runners : exec'[g].id = c /\ exec'[g].pc \in {"update", "evict", "erase"}
  <2>1. CASE Queries(e)
    BY <1>a, <2>1 DEF Queries, Others, SameStates
  <2>2. CASE Inserts(e)
    BY <1>a, <2>2 DEF Inserts, Others, SameButFor
  <2>3. CASE Updates(e)
    BY <1>a, <2>3 DEF Updates, Others, SameButFor
  <2> QED
    BY <1>3, <2>1, <2>2, <2>3
<1>4. ASSUME NEW d \in Cameras, Absents(d) PROVE \E g \in Runners : exec'[g].id = c /\ exec'[g].pc \in {"update", "evict", "erase"}
  BY <1>4, <1>a, <1>b DEF Absents, Others, SameButFor
<1>5. CASE Evicts
  BY <1>5, <1>a, <1>b DEF Evicts, Others, SameButFor, Freed
<1>6. CASE Erases
  BY <1>6, <1>a, <1>b DEF Erases, Others, SameButFor
<1> QED
  BY <1>1, <1>2, <1>3, <1>4, <1>5, <1>6, RunCases

\* The camera is present, is being removed, or is about to be present.
Sound(c) == Good(c) \/ Going(c) \/ Coming(c)

LEMMA SoundStep ==
    ASSUME TypeInv, Structure, Calls, [Next]_vars, NEW c \in Cameras, Sound(c),
           exec[Lifecycle].id = c => ~Evict /\ ~RemoveStates
    PROVE  Sound(c)'
<1>b. Lifecycle \in Runners /\ \A e \in Runners : exec[e].pc \in {"evict", "erase"} => e = Lifecycle
  BY RunnerNames DEF Structure, Runs1
<1> USE DEF Sound, Good, Going, Coming
<1>1. CASE Stays
  BY <1>1 DEF Stays
<1>2. CASE \E e \in Runners, d \in Cameras : Begins(e, d)
  BY <1>2, <1>b DEF Begins, Others, SameStates
<1>3. ASSUME NEW e \in Runners, Queries(e) \/ Inserts(e) \/ Updates(e)
      PROVE  Sound(c)'
  <2>1. CASE Queries(e)
    BY <1>b, <2>1 DEF Queries, Others, SameStates
  <2>2. CASE Inserts(e)
    BY <1>b, <2>2 DEF Inserts, Others, SameButFor, TypeInv, ServiceType, Statuses
  <2>3. CASE Updates(e)
    BY <1>b, <2>3 DEF Updates, Others, SameButFor
  <2> QED
    BY <1>3, <2>1, <2>2, <2>3
<1>4. ASSUME NEW d \in Cameras, Absents(d) PROVE Sound(c)'
  BY <1>4, <1>b DEF Absents, Others, SameButFor
<1>5. CASE Evict /\ Evicts
  BY <1>5, <1>b DEF Evicts, Others, SameButFor
<1>6. CASE RemoveStates /\ Erases
  BY <1>6, <1>b DEF Erases, Others, SameButFor
<1> QED
  BY <1>1, <1>2, <1>3, <1>4, <1>5, <1>6, RunCases

-----------------------------------------------------------------------------
(* The clients.                                                            *)

\* The steps that change neither a run, a status, nor the clients.
Aside == UNCHANGED <<exec, mCameraStates, client, connecting>>

LEMMA StepsAside ==
    ASSUME [Next]_vars,
           ~(Reports \/ ReportPresent \/ ReportAbsent \/ Evict \/ RemoveStates \/ Connect \/ ConnectSteps
             \/ \E c \in Cameras : Disconnect(c))
    PROVE  Aside /\ (lpc' = lpc \/ lpc \notin {"present", "absent"})
                 /\ (todo' = todo \/ EnumerateProviders \/ \E i \in Instances : RemoveProvider(i))
BY DEF Aside, Next, HotPlug, LifecycleThread, Start, Register, Die, Rescan, DeviceAdded, CallbackReturns,
   Subscribe, ListServices, OnRegistration, Fails, InterfaceLocked, SetCallback, VisitCamera, SetCallbackReturns,
   LinkToDeath, Initialized, EnumerateProviders, RemoveProvider

LEMMA NoClientFacts == NoClient.pc = "none" /\ NoClient.id = 0 /\ NoClient.life = 0
BY DEF NoClient

\* While a camera is being removed the manager has no instance, and so no session is opened.
LEMMA NoSession ==
    ASSUME TypeInv, Structure, OpenSession, lpc = "absent"
    PROVE  connecting'.life = 0
<1>1. mProviders = <<>>
  BY DEF Structure, Places1
<1>2. ~\E i \in Instances : InManager(i)
  BY <1>1 DEF InManager
<1> QED
  BY <1>2, ConnectMoves

LEMMA OnceStep == TypeInv /\ Structure /\ Calls /\ Once /\ [Next]_vars => Once'
<1> SUFFICES ASSUME TypeInv, Structure, Calls, Once, [Next]_vars, exec'[Lifecycle].pc \in {"evict", "erase"}
             PROVE  /\ exec'[Lifecycle].id \notin todo'
                    /\ exec'[Lifecycle].pc = "erase" =>
                          client'[exec'[Lifecycle].id] = 0 /\ ~(connecting'.life # 0 /\ connecting'.id = exec'[Lifecycle].id)
  BY DEF Once
<1> DEFINE d == exec[Lifecycle].id
<1>a. /\ exec[Lifecycle].pc \in {"evict", "erase"} => d \notin todo /\ lpc = "absent" /\ d \in Cameras
      /\ exec[Lifecycle].pc = "erase" => client[d] = 0 /\ ~(connecting.life # 0 /\ connecting.id = d)
      /\ Lifecycle \in Runners
  BY RunnerNames, RunnerMoves DEF Once, Structure, Runs1
<1>b. Idle.pc = "idle"
  BY DEF Idle
<1>1. CASE ReportAbsent
  <2>1. exec[Lifecycle] = Idle
    BY <1>1 DEF ReportAbsent
  <2>2. ~Stays
    BY <1>b, <2>1 DEF Stays
  <2>3. PICK c \in todo : Absents(c) /\ todo' = todo \ {c}
    BY <1>1, <2>2, RunMoves
  <2> QED
    BY <2>3 DEF Absents
<1>2. CASE Evict
  <2>1. Evicts /\ client'[d] = 0 /\ todo' = todo /\ UNCHANGED connecting /\ connecting = NoClient
    BY <1>2, RunMoves, StateMoves DEF Evict
  <2> QED
    BY <1>a, <2>1, NoClientFacts DEF Evicts
<1>3. CASE RemoveStates
  BY <1>3, RunMoves DEF Erases
<1>4. CASE \E e \in Runners : RunStep(e)
  <2>1. PICK e \in Runners : RunStep(e)
    BY <1>4
  <2>2. UNCHANGED <<todo, client, connecting>>
    BY <2>1 DEF RunStep, QueryCost, InsertState, UpdateStatus
  <2>3. Queries(e) \/ Inserts(e) \/ Updates(e)
    BY <2>1, RunMoves DEF RunStep
  <2>4. e # Lifecycle /\ Others(e)
    BY <2>3 DEF Queries, Inserts, Updates
  <2> QED
    BY <1>a, <2>2, <2>4 DEF Others
<1>5. ASSUME NEW i \in Instances, NotifyInitial(i)
      PROVE  exec'[Lifecycle] = exec[Lifecycle] /\ UNCHANGED <<todo, client, connecting>>
  <2>1. \E c \in Cameras : Begins(<<"initial", i>>, c)
    BY <1>5, RunMoves
  <2> QED
    BY <1>5, <2>1, RunnerNames, NotifyMoves DEF Begins, Others
<1>6. ASSUME NEW l \in Lives, StatusChange(l)
      PROVE  exec'[Lifecycle] = exec[Lifecycle] /\ UNCHANGED <<todo, client, connecting>>
  <2>1. Begins(<<"callback", l>>, call[l].c) \/ Stays
    BY <1>6, RunMoves
  <2> QED
    BY <1>6, <2>1, RunnerNames, StatusMoves DEF Begins, Others, Stays
<1>7. CASE ReportPresent
  <2>1. lpc = "present" /\ exec[Lifecycle] = Idle
    BY <1>7 DEF ReportPresent
  <2>2. Stays \/ \E c \in todo : Begins(Lifecycle, c) /\ mCameraStates[c] = "none"
    BY <1>7, RunMoves
  <2> QED
    BY <1>b, <2>1, <2>2 DEF Stays, Begins
<1>8. CASE Connect
  <2>1. UNCHANGED <<exec, todo, client>> /\ connecting'.life = 0
    BY <1>8, ConnectMoves
  <2> QED
    BY <1>a, <2>1
<1>9. CASE OpenSession
  <2>1. UNCHANGED <<exec, todo, client>>
    BY <1>9, ConnectMoves
  <2>2. connecting'.life = 0
    BY <1>9, <1>a, <2>1, NoSession
  <2> QED
    BY <1>a, <2>1, <2>2
<1>10. CASE FinishConnect
  <2>1. UNCHANGED <<exec, todo>> /\ connecting' = NoClient /\ connecting.pc = "finish"
    BY <1>10 DEF FinishConnect
  <2>2. client'[connecting.id] = connecting.life /\ \A c \in Cameras : c # connecting.id => client'[c] = client[c]
    BY <1>10, StateMoves
  <2> QED
    BY <1>a, <2>1, <2>2, NoClientFacts
<1>11. ASSUME NEW c \in Cameras, Disconnect(c)
       PROVE  UNCHANGED <<exec, todo, connecting>> /\ \A g \in Cameras : client'[g] \in {0, client[g]}
  BY <1>11, StateMoves DEF Disconnect
<1>12. CASE ~(Reports \/ ReportPresent \/ ReportAbsent \/ Evict \/ RemoveStates \/ Connect \/ ConnectSteps
             \/ \E c \in Cameras : Disconnect(c))
  <2>1. Aside /\ (todo' = todo \/ EnumerateProviders \/ \E i \in Instances : RemoveProvider(i))
    BY <1>12, StepsAside
  <2>2. lpc = "absent"
    BY <1>a, <2>1 DEF Aside
  <2>3. todo' = todo
    BY <2>1, <2>2 DEF EnumerateProviders, RemoveProvider
  <2> QED
    BY <1>a, <2>1, <2>3 DEF Aside
<1> QED
  BY <1>1, <1>2, <1>3, <1>4, <1>5, <1>6, <1>7, <1>8, <1>9, <1>10, <1>11, <1>12, <1>a DEF Reports, ConnectSteps

\* The lifecycle thread is yet to report camera c.
Awaited(c) ==
    \/ lpc = "enumerate" /\ (Taken(c) => c \in KnownDevices)
    \/ /\ lpc = "present" /\ c \in KnownDevices
       /\ c \in todo \/ (exec[Lifecycle].id = c /\ exec[Lifecycle].pc = "query")
    \/ ~Taken(c) /\ mProviders = <<>>

LEMMA InUseMeans == InUse <=> ("crossed" \notin flaws => \A c \in Cameras : Used(c) => Sound(c) \/ Awaited(c))
BY DEF InUse, Sound, Awaited

LEMMA InUseStep == TypeInv /\ Structure /\ Calls /\ HalfPresent /\ Once /\ InUse /\ [Next]_vars => InUse'
<1>0. InUse' <=> ("crossed" \notin flaws' => \A c \in Cameras : Used(c)' => Sound(c)' \/ Awaited(c)')
  BY DEF InUse, Sound, Awaited
<1> SUFFICES ASSUME TypeInv, Structure, Calls, HalfPresent, Once, InUse, [Next]_vars, "crossed" \notin flaws',
                    NEW c \in Cameras, Used(c)'
             PROVE  Sound(c)' \/ Awaited(c)'
  BY <1>0
<1>a. flaws \subseteq flaws'
  BY Keeps, RemovalKeeps
<1>b. Used(c) => Sound(c) \/ Awaited(c)
  BY <1>a, InUseMeans
<1>c. Lifecycle \in Runners /\ mProviders \in Seq(Instances)
  BY RunnerNames DEF TypeInv, ManagerType
<1>d. Idle.pc = "idle"
  BY DEF Idle
<1>e. Kept \/ \E i \in Instances : RemoveProvider(i)
  BY Keeps
<1>f. Kept => (c \in KnownDevices => c \in KnownDevices')
  BY KnownKept
\* Nothing is done to the client of the camera, and it stays sound.
<1>g. ASSUME Used(c), Sound(c), exec[Lifecycle].id = c => ~Evict /\ ~RemoveStates PROVE Sound(c)'
  BY <1>g, SoundStep
<1>1. CASE Evict
  <2>1. /\ exec[Lifecycle].pc = "evict" /\ connecting = NoClient /\ UNCHANGED <<connecting, lpc, mProviders>>
        /\ lpc = "absent"
    BY <1>1, <1>c DEF Evict, Structure, Runs1
  <2>2. client'[exec[Lifecycle].id] = 0 /\ \A d \in Cameras : d # exec[Lifecycle].id => client'[d] = client[d]
    BY <1>1, StateMoves
  <2>3. c # exec[Lifecycle].id /\ Used(c) /\ (Taken(c)' => Taken(c))
    BY <2>1, <2>2, NoClientFacts DEF Used, Taken
  <2>4. CASE Sound(c)
    BY <1>g, <2>3, <2>4
  <2>5. CASE Awaited(c)
    BY <2>1, <2>3, <2>5 DEF Awaited
  <2> QED
    BY <1>b, <2>3, <2>4, <2>5
<1>2. CASE RemoveStates
  <2>1. /\ exec[Lifecycle].pc = "erase" /\ UNCHANGED <<client, connecting, lpc, mProviders>>
        /\ lpc = "absent" /\ mProviders = <<>>
    BY <1>2, <1>c DEF RemoveStates, Structure, Runs1, Places1
  <2>2. Used(c) /\ (Taken(c)' <=> Taken(c))
    BY <2>1 DEF Used, Taken
  <2>3. CASE c = exec[Lifecycle].id
    <3>1. ~Taken(c)
      BY <2>1, <2>3 DEF Once, Taken
    <3> QED
      BY <2>1, <2>2, <3>1 DEF Awaited
  <2>4. CASE c # exec[Lifecycle].id /\ Sound(c)
    BY <1>g, <2>2, <2>4
  <2>5. CASE Awaited(c)
    BY <2>1, <2>2, <2>5 DEF Awaited
  <2> QED
    BY <1>b, <2>2, <2>3, <2>4, <2>5
<1>3. CASE \E e \in Runners : RunStep(e)
  <2>0. PICK e \in Runners : RunStep(e)
    BY <1>3
  <2>1. UNCHANGED <<client, connecting, lpc, mProviders, todo, info>>
    BY <2>0 DEF RunStep, QueryCost, InsertState, UpdateStatus
  <2>2. Used(c) /\ (Taken(c)' <=> Taken(c)) /\ (c \in KnownDevices <=> c \in KnownDevices')
    BY <2>1 DEF Used, Taken, KnownDevices, InManager
  <2>3. Queries(e) \/ Inserts(e) \/ Updates(e)
    BY <2>0, RunMoves DEF RunStep
  <2>4. ~Evict /\ ~RemoveStates
    <3>1. exec[e].pc \in {"query", "insert", "update"} /\ exec'[e].pc \in {"insert", "update", "idle"}
      BY <2>3 DEF Queries, Inserts, Updates
    <3>2. Evict => Evicts
      BY RunMoves
    <3>3. RemoveStates => Erases
      BY RunMoves
    <3>4. Evict \/ RemoveStates => e = Lifecycle \/ exec'[e] = exec[e]
      BY <3>2, <3>3 DEF Evicts, Erases, Others
    <3>5. e # Lifecycle => (Evict \/ RemoveStates => FALSE)
      <4> SUFFICES ASSUME e # Lifecycle, Evict \/ RemoveStates PROVE FALSE
        OBVIOUS
      <4>1. exec'[Lifecycle] = exec[Lifecycle]
        BY <1>c, <2>3 DEF Queries, Inserts, Updates, Others
      <4> QED
        BY <3>2, <3>3, <4>1 DEF Evicts, Erases
    <3> QED
      BY <3>1, <3>2, <3>3, <3>5 DEF Evicts, Erases
  <2>5. CASE Sound(c)
    BY <1>g, <2>2, <2>4, <2>5
  <2>6. CASE Awaited(c)
    <3>1. CASE exec'[Lifecycle] = exec[Lifecycle]
      BY <2>1, <2>2, <2>6, <3>1 DEF Awaited
    <3>2. CASE exec'[Lifecycle] # exec[Lifecycle]
      <4>1. e = Lifecycle
        BY <1>c, <2>3, <3>2 DEF Queries, Inserts, Updates, Others
      <4>2. CASE exec[Lifecycle].id = c /\ exec[Lifecycle].pc = "query" /\ c \in KnownDevices
        <5>1. exec'[e].id = c /\ exec'[e].pc = "insert"
          BY <2>3, <4>1, <4>2 DEF Queries, Inserts, Updates
        <5> QED
          BY <5>1 DEF Sound, Coming
      <4>3. CASE ~(exec[Lifecycle].id = c /\ exec[Lifecycle].pc = "query" /\ c \in KnownDevices)
        BY <2>1, <2>2, <2>6, <4>3 DEF Awaited
      <4> QED
        BY <4>2, <4>3
    <3> QED
      BY <3>1, <3>2
  <2> QED
    BY <1>b, <2>2, <2>5, <2>6
<1>4. CASE (\E i \in Instances : NotifyInitial(i)) \/ \E l \in Lives : StatusChange(l)
  <2>1. UNCHANGED <<client, connecting, lpc, mProviders, todo>> /\ ~Evict /\ ~RemoveStates
    <3>1. ASSUME NEW i \in Instances, NotifyInitial(i) PROVE UNCHANGED <<client, connecting, lpc, mProviders, todo>> /\ exec'[Lifecycle] = exec[Lifecycle]
      BY <3>1, RunMoves, NotifyMoves, RunnerNames DEF Begins, Others
    <3>2. ASSUME NEW l \in Lives, StatusChange(l) PROVE UNCHANGED <<client, connecting, lpc, mProviders, todo>> /\ exec'[Lifecycle] = exec[Lifecycle]
      BY <3>2, RunMoves, StatusMoves, RunnerNames DEF Begins, Others, Stays
    <3>3. (Evict => Evicts) /\ (RemoveStates => Erases)
      BY RunMoves
    <3> QED
      BY <1>4, <3>1, <3>2, <3>3 DEF Evicts, Erases
  <2>2. exec'[Lifecycle] = exec[Lifecycle]
    <3>1. ASSUME NEW i \in Instances, NotifyInitial(i) PROVE exec'[Lifecycle] = exec[Lifecycle]
      BY <3>1, RunMoves, RunnerNames DEF Begins, Others
    <3>2. ASSUME NEW l \in Lives, StatusChange(l) PROVE exec'[Lifecycle] = exec[Lifecycle]
      BY <3>2, RunMoves, RunnerNames DEF Begins, Others, Stays
    <3> QED
      BY <1>4, <3>1, <3>2
  <2>3. Kept
    BY <1>4, <1>e, <2>1, Removal, RunMoves, Keeps DEF NotifyInitial, StatusChange, Kept, InManager
  <2>4. Used(c) /\ (Taken(c)' <=> Taken(c)) /\ (c \in KnownDevices => c \in KnownDevices')
    BY <1>f, <2>1, <2>3 DEF Used, Taken
  <2>5. CASE Sound(c)
    BY <1>g, <2>1, <2>4, <2>5
  <2>6. CASE Awaited(c)
    BY <2>1, <2>2, <2>4, <2>6 DEF Awaited
  <2> QED
    BY <1>b, <2>4, <2>5, <2>6
<1>h. ASSUME exec'[Lifecycle] = exec[Lifecycle] \/ exec'[Lifecycle].pc \in {"query", "evict"} PROVE ~Evict /\ ~RemoveStates
  BY <1>d, <1>h, RunMoves DEF Evicts, Erases
<1>5. CASE ReportAbsent
  <2>1. UNCHANGED <<client, connecting, mProviders>> /\ lpc = "absent"
    BY <1>5 DEF ReportAbsent
  <2>2. Used(c) /\ (Taken(c)' <=> Taken(c))
    BY <2>1 DEF Used, Taken
  <2>3. ~Evict /\ ~RemoveStates
    BY <1>5, <1>h, RunMoves DEF Stays, Absents
  <2> QED
    BY <1>b, <1>g, <2>1, <2>2, <2>3 DEF Awaited
<1>6. CASE ReportPresent
  <2>1. UNCHANGED <<client, connecting, mProviders, info, mCameraStates>> /\ lpc = "present" /\ exec[Lifecycle] = Idle
    BY <1>6 DEF ReportPresent
  <2>2. Used(c) /\ (Taken(c)' <=> Taken(c)) /\ (c \in KnownDevices <=> c \in KnownDevices')
    BY <2>1 DEF Used, Taken, KnownDevices, InManager
  <2>3. ~Evict /\ ~RemoveStates
    BY <1>d, <2>1, RunMoves DEF Evicts, Erases
  <2>4. CASE c \in todo /\ c \in todo'
    <3>1. lpc' = "present"
      BY <1>6, <2>1, <2>4 DEF ReportPresent
    <3>2. CASE Sound(c)
      BY <1>g, <2>2, <2>3, <3>2
    <3>3. CASE Awaited(c)
      BY <2>1, <2>2, <2>4, <3>1, <3>3 DEF Awaited
    <3> QED
      BY <1>b, <2>2, <3>2, <3>3
  <2>5. CASE c \in todo /\ c \notin todo'
    <3>1. lpc' = lpc /\ (IF mCameraStates[c] = "none" THEN Present(Lifecycle, c) ELSE exec' = exec)
      BY <1>6, <2>5 DEF ReportPresent
    <3>2. CASE mCameraStates[c] = "none"
      <4>1. Begins(Lifecycle, c)
        BY <1>c, <2>1, <3>1, <3>2, PresentBegins
      <4>2. exec'[Lifecycle].id = c /\ exec'[Lifecycle].pc = "query"
        BY <3>2, <4>1 DEF Begins
      <4> QED
        BY <1>b, <1>g, <2>1, <2>2, <2>3, <3>1, <4>2 DEF Awaited
    <3>3. CASE mCameraStates[c] = "NOT_PRESENT"
      <4>1. PICK e \in Runners : exec[e].id = c /\ exec[e].pc \in {"update", "evict", "erase"}
        BY <3>3 DEF HalfPresent
      <4>2. exec[e].pc = "update"
        BY <1>d, <2>1, <4>1 DEF Structure, Runs1
      <4>3. Sound(c)
        BY <3>3, <4>1, <4>2 DEF Sound, Coming
      <4> QED
        BY <1>g, <2>2, <2>3, <4>3
    <3>4. CASE mCameraStates[c] \notin {"none", "NOT_PRESENT"}
      <4>1. Sound(c)
        BY <3>4 DEF Sound, Good, TypeInv, ServiceType, Statuses
      <4> QED
        BY <1>g, <2>2, <2>3, <4>1
    <3> QED
      BY <3>2, <3>3, <3>4
  <2>6. CASE c \notin todo
    BY <1>b, <1>d, <1>g, <2>1, <2>2, <2>3, <2>6 DEF Awaited
  <2> QED
    BY <2>4, <2>5, <2>6
<1>7. CASE EnumerateProviders
  <2>1. /\ UNCHANGED <<client, connecting, mProviders, info, exec>> /\ lpc = "enumerate" /\ connecting = NoClient
        /\ lpc' = "present" /\ todo' = KnownDevices
    BY <1>7 DEF EnumerateProviders
  <2>2. Used(c) /\ (Taken(c)' <=> Taken(c)) /\ (c \in KnownDevices <=> c \in KnownDevices')
    BY <2>1 DEF Used, Taken, KnownDevices, InManager
  <2>3. ~Evict /\ ~RemoveStates
    BY <1>h, <2>1
  <2>4. Taken(c)
    BY <2>1, <2>2, NoClientFacts DEF Used, Taken
  <2> QED
    BY <1>b, <1>g, <2>1, <2>2, <2>3, <2>4 DEF Awaited
<1>8. CASE Connect
  <2>1. UNCHANGED <<exec, client, lpc, mProviders, info, todo>> /\ connecting = NoClient
    BY <1>8, ConnectMoves
  <2>2. PICK d \in Cameras : /\ Good(d) /\ connecting'.pc = "open" /\ connecting'.id = d /\ connecting'.life = 0
                             /\ mCameraStates'[d] = "NOT_AVAILABLE"
                             /\ \A g \in Cameras : g # d => mCameraStates'[g] = mCameraStates[g]
    BY <1>8, ConnectMoves
  <2>3. ~Evict /\ ~RemoveStates
    BY <1>h, <2>1
  <2>4. CASE c = d
    BY <2>1, <2>2, <2>4 DEF Good, Sound
  <2>5. CASE c # d
    <3>1. Used(c) /\ (Taken(c)' => Taken(c)) /\ (c \in KnownDevices <=> c \in KnownDevices')
      BY <2>1, <2>2, <2>5 DEF Used, Taken, KnownDevices, InManager
    <3> QED
      BY <1>b, <1>g, <2>1, <2>3, <3>1 DEF Awaited
  <2> QED
    BY <2>4, <2>5
<1>9. CASE OpenSession
  <2>1. UNCHANGED <<exec, mCameraStates, client, lpc, mProviders, info, todo>> /\ connecting.pc = "open"
    BY <1>9, ConnectMoves
  <2>2. c \in KnownDevices <=> c \in KnownDevices'
    BY <2>1 DEF KnownDevices, InManager
  <2>3. ~Evict /\ ~RemoveStates
    BY <1>h, <2>1
  <2>4. CASE connecting'.life = 0
    <3>1. Used(c) /\ (Taken(c)' => Taken(c))
      BY <1>9, <2>1, <2>4, ConnectMoves DEF Used, Taken
    <3> QED
      BY <1>b, <1>g, <2>1, <2>2, <2>3, <3>1 DEF Awaited
  <2>5. CASE connecting'.life # 0
    <3>1. PICK i \in Instances : InManager(i) /\ connecting.id \in info[i].mDevices
      BY <1>9, <2>5, ConnectMoves
    <3>2. connecting'.pc = "finish" /\ connecting'.id = connecting.id
      BY <1>9, ConnectMoves
    <3>3. connecting.id \in KnownDevices /\ mProviders # <<>>
      BY <3>1 DEF KnownDevices, InManager
    <3>4. Used(c) /\ (Taken(c)' => Taken(c) \/ c = connecting.id)
      BY <2>1, <3>2 DEF Used, Taken
    <3>5. Awaited(c) => Awaited(c)'
      BY <2>1, <2>2, <3>3, <3>4 DEF Awaited
    <3> QED
      BY <1>b, <1>g, <2>3, <3>4, <3>5
  <2> QED
    BY <2>4, <2>5
<1>10. CASE FinishConnect
  <2>1. UNCHANGED <<exec, lpc, mProviders, info, todo>> /\ connecting' = NoClient /\ connecting.pc = "finish"
    BY <1>10 DEF FinishConnect
  <2>2. c \in KnownDevices <=> c \in KnownDevices'
    BY <2>1 DEF KnownDevices, InManager
  <2>3. ~Evict /\ ~RemoveStates
    BY <1>h, <2>1
  <2>4. IF c = connecting.id THEN client'[c] = connecting.life ELSE client'[c] = client[c]
    BY <1>10, StateMoves
  <2>5. Used(c) /\ (Taken(c)' => Taken(c))
    BY <2>1, <2>4, NoClientFacts DEF Used, Taken
  <2> QED
    BY <1>b, <1>g, <2>1, <2>2, <2>3, <2>5 DEF Awaited
<1>11. ASSUME NEW d \in Cameras, Disconnect(d) PROVE Sound(c)' \/ Awaited(c)'
  <2>1. UNCHANGED <<exec, lpc, mProviders, info, todo, connecting>> /\ connecting = NoClient
    BY <1>11 DEF Disconnect
  <2>2. c \in KnownDevices <=> c \in KnownDevices'
    BY <2>1 DEF KnownDevices, InManager
  <2>3. ~Evict /\ ~RemoveStates
    BY <1>h, <2>1
  <2>4. client'[c] = client[c] \/ client'[c] = 0
    BY <1>11, StateMoves
  <2>5. Used(c) /\ (Taken(c)' => Taken(c))
    BY <2>1, <2>4, NoClientFacts DEF Used, Taken
  <2> QED
    BY <1>b, <1>g, <2>1, <2>2, <2>3, <2>5 DEF Awaited
<1>12. CASE ~(Reports \/ ReportPresent \/ ReportAbsent \/ Evict \/ RemoveStates \/ Connect \/ ConnectSteps \/ EnumerateProviders
             \/ \E d \in Cameras : Disconnect(d))
  <2>1. Aside
    BY <1>12, StepsAside
  <2>2. Used(c) /\ (Taken(c)' <=> Taken(c))
    BY <2>1 DEF Aside, Used, Taken
  <2>3. CASE Sound(c)
    BY <1>12, <1>g, <2>2, <2>3
  <2>4. CASE Awaited(c)
    <3>1. CASE Initialized
      <4>1. /\ lpc = "finish" /\ ((why = "remove" /\ mProviders' = mProviders) \/ lpc' = "enumerate")
        BY <3>1, FinishMoves
      <4>2. ~Taken(c) /\ mProviders = <<>>
        BY <3>1, <2>4 DEF Awaited, Initialized
      <4> QED
        BY <2>2, <4>1, <4>2 DEF Awaited
    <3>2. CASE ListServices \/ OnRegistration
      <4>1. ~Taken(c) /\ mProviders = <<>>
        BY <3>2, <2>4 DEF Awaited, ListServices, OnRegistration
      <4>2. mProviders' = mProviders
        BY <3>2, <4>1 DEF ListServices, OnRegistration, AddProviderLocked
      <4> QED
        BY <2>2, <4>1, <4>2 DEF Awaited
    <3>3. ASSUME NEW i \in Instances, RemoveProvider(i) PROVE Awaited(c)'
      <4>1. ~Taken(c) /\ mProviders = <<>>
        BY <3>3, <2>4 DEF Awaited, RemoveProvider
      <4>2. mProviders' = mProviders
        BY <3>3, <4>1, Removal DEF Removes
      <4> QED
        BY <2>2, <4>1, <4>2 DEF Awaited
    <3>4. CASE ~(Initialized \/ ListServices \/ OnRegistration \/ \E i \in Instances : RemoveProvider(i))
      <4>1. mProviders' = mProviders /\ (lpc' = lpc \/ lpc \notin {"enumerate", "present"}) /\ UNCHANGED <<todo, exec>>
        BY <1>12, <3>4 DEF Next, HotPlug, LifecycleThread, Start, Register, Die, Rescan, DeviceAdded, CallbackReturns,
           Subscribe, Fails, InterfaceLocked, SetCallback, VisitCamera, SetCallbackReturns, LinkToDeath
      <4>2. c \in KnownDevices => c \in KnownDevices'
        BY <1>e, <1>f, <3>4
      <4> QED
        BY <2>2, <2>4, <4>1, <4>2 DEF Awaited
    <3> QED
      BY <3>1, <3>2, <3>3, <3>4
  <2> QED
    BY <1>b, <2>2, <2>3, <2>4
<1> QED
  BY <1>1, <1>2, <1>3, <1>4, <1>5, <1>6, <1>7, <1>8, <1>9, <1>10, <1>11, <1>12 DEF Reports, ConnectSteps

LEMMA LeavingStep ==
    TypeInv /\ Structure /\ Calls /\ Once /\ InUse /\ Leaving /\ [Next]_vars => Leaving'
<1> SUFFICES ASSUME TypeInv, Structure, Calls, Once, InUse, Leaving, [Next]_vars, "crossed" \notin flaws',
                    NEW c \in Cameras, lpc' = "absent", c \in todo', Taken(c)'
             PROVE  Good(c)'
  BY DEF Leaving
<1>a. "crossed" \notin flaws
  BY Keeps, RemovalKeeps
<1>b. lpc = "absent" /\ c \in todo /\ Taken(c) => Good(c)
  BY <1>a DEF Leaving
<1>c. Lifecycle \in Runners
  BY RunnerNames
<1>1. CASE \E i \in Instances : RemoveProvider(i)
  <2>1. PICK i \in Instances : RemoveProvider(i)
    BY <1>1
  <2>2. lpc = "idle" /\ UNCHANGED <<exec, mCameraStates, client, connecting>>
    BY <2>1, Removal
  <2>3. Removes(i) /\ Sole(i)
    BY <2>1, <2>2, Removal DEF Gets
  <2>a. connecting.life # 0 => connecting.pc # "none"
    BY NoClientFacts DEF TypeInv, ServiceType
  <2>4. Taken(c) /\ Used(c) /\ c \in info[i].mDevices /\ mProviders # <<>>
    BY <2>2, <2>3, <2>a DEF Taken, Used, Sole, Removes
  <2>5. Sound(c)
    BY <1>a, <2>2, <2>4, InUseMeans DEF Awaited
  <2>6. ~Coming(c)
    BY <2>3, <2>4 DEF Removes, Coming
  <2>7. ~Going(c)
    BY <2>2 DEF Structure, Runs1, Going
  <2> QED
    BY <2>2, <2>5, <2>6, <2>7 DEF Sound, Good
<1>2. CASE ~\E i \in Instances : RemoveProvider(i)
  <2>1. lpc = "absent" /\ c \in todo
    <3>1. CASE Reports \/ Evict \/ RemoveStates \/ Connect \/ ConnectSteps \/ \E d \in Cameras : Disconnect(d)
      <4>1. UNCHANGED <<lpc, todo>>
        BY <3>1 DEF Reports, RunStep, QueryCost, InsertState, UpdateStatus, NotifyInitial, StatusChange, Evict, RemoveStates,
           Connect, ConnectSteps, OpenSession, FinishConnect, Disconnect
      <4> QED
        BY <4>1
    <3>2. CASE ReportPresent \/ ReportAbsent
      BY <3>2 DEF ReportPresent, ReportAbsent
    <3>3. CASE ~(Reports \/ ReportPresent \/ ReportAbsent \/ Evict \/ RemoveStates \/ Connect \/ ConnectSteps
             \/ \E d \in Cameras : Disconnect(d))
      BY <1>2, <3>3 DEF Next, HotPlug, LifecycleThread, Start, Register, Die, Rescan, DeviceAdded, CallbackReturns,
           Subscribe, Fails, SetCallback, VisitCamera, SetCallbackReturns, LinkToDeath, EnumerateProviders,
           ListServices, OnRegistration, AddProviderLocked, TryGetService, GivenUp, Initialized
    <3> QED
      BY <3>1, <3>2, <3>3
  <2>2. CASE Taken(c)
    <3>1. Good(c)
      BY <1>b, <2>1, <2>2
    <3>2. CASE Stays
      BY <3>1, <3>2 DEF Stays, Good
    <3>3. CASE \E e \in Runners, d \in Cameras : Begins(e, d)
      BY <3>1, <3>3 DEF Begins, SameStates, Good
    <3>4. ASSUME NEW e \in Runners, Queries(e) \/ Inserts(e) \/ Updates(e) PROVE Good(c)'
      BY <3>1, <3>4 DEF Queries, Inserts, Updates, SameStates, SameButFor, Good
    <3>5. CASE ReportAbsent
      <4>1. Stays \/ \E d \in todo : Absents(d) /\ todo' = todo \ {d}
        BY <3>5, RunMoves
      <4> QED
        BY <3>1, <3>2, <4>1 DEF Absents, SameButFor, Good
    <3>6. CASE Evict
      <4>1. Evicts /\ client'[exec[Lifecycle].id] = 0 /\ connecting' = NoClient
        BY <3>6, RunMoves, StateMoves DEF Evict
      <4>2. c # exec[Lifecycle].id
        BY <4>1, NoClientFacts DEF Taken
      <4> QED
        BY <3>1, <4>1, <4>2 DEF Evicts, SameButFor, Good
    <3>7. CASE RemoveStates
      <4>1. Erases
        BY <3>7, RunMoves
      <4>2. c # exec[Lifecycle].id
        BY <2>1, <4>1 DEF Once, Erases
      <4> QED
        BY <3>1, <4>1, <4>2 DEF Erases, SameButFor, Good
    <3> QED
      BY <3>2, <3>3, <3>4, <3>5, <3>6, <3>7, RunCases
  <2>3. CASE ~Taken(c)
    <3>1. CASE OpenSession
      <4>1. connecting'.life = 0 /\ client' = client
        BY <2>1, <3>1, NoSession, ConnectMoves
      <4> QED
        BY <2>3, <4>1 DEF Taken
    <3>2. CASE FinishConnect
      BY <2>3, <3>2, StateMoves, NoClientFacts DEF Taken, FinishConnect
    <3>3. CASE Connect
      BY <2>3, <3>3, ConnectMoves DEF Taken
    <3>4. CASE Evict \/ \E d \in Cameras : Disconnect(d)
      <4>1. connecting' = connecting /\ client'[c] \in {0, client[c]}
        BY <3>4, StateMoves DEF Evict, Disconnect
      <4> QED
        BY <2>3, <4>1 DEF Taken
    <3>5. CASE ~(OpenSession \/ FinishConnect \/ Connect \/ Evict \/ \E d \in Cameras : Disconnect(d))
      <4>1. UNCHANGED <<client, connecting>>
        <5>1. CASE Reports \/ ReportPresent \/ ReportAbsent \/ RemoveStates
          BY <5>1 DEF Reports, RunStep, QueryCost, InsertState, UpdateStatus, NotifyInitial, StatusChange, RemoveStates,
             ReportPresent, ReportAbsent
        <5>2. CASE ~(Reports \/ ReportPresent \/ ReportAbsent \/ RemoveStates)
          BY <3>5, <5>2, StepsAside DEF Aside, ConnectSteps
        <5> QED
          BY <5>1, <5>2
      <4> QED
        BY <2>3, <4>1 DEF Taken
    <3> QED
      BY <3>1, <3>2, <3>3, <3>4, <3>5
  <2> QED
    BY <2>2, <2>3
<1> QED
  BY <1>1, <1>2

\* Where the lifecycle thread reports cameras absent, only that report moves it.
LEMMA AbsentMoves ==
    ASSUME TypeInv, Structure, [Next]_vars, ~\E i \in Instances : RemoveProvider(i)
    PROVE  /\ lpc' = "absent" => lpc = "absent" /\ todo' \subseteq todo
           /\ lpc = "absent" /\ ~ReportAbsent => lpc' = "absent" /\ todo' = todo
<1>1. CASE Reports \/ Evict \/ RemoveStates \/ Connect \/ ConnectSteps \/ \E d \in Cameras : Disconnect(d)
  <2>1. UNCHANGED <<lpc, todo>>
    BY <1>1 DEF Reports, RunStep, QueryCost, InsertState, UpdateStatus, NotifyInitial, StatusChange, Evict, RemoveStates,
       Connect, ConnectSteps, OpenSession, FinishConnect, Disconnect
  <2> QED
    BY <2>1
<1>2. CASE ReportPresent \/ ReportAbsent
  BY <1>2 DEF ReportPresent, ReportAbsent
<1>3. CASE ~(Reports \/ ReportPresent \/ ReportAbsent \/ Evict \/ RemoveStates \/ Connect \/ ConnectSteps
             \/ \E d \in Cameras : Disconnect(d))
  BY <1>3 DEF Next, HotPlug, LifecycleThread, Start, Register, Die, Rescan, DeviceAdded, CallbackReturns,
     Subscribe, Fails, InterfaceLocked, SetCallback, VisitCamera, SetCallbackReturns, LinkToDeath, EnumerateProviders,
     ListServices, OnRegistration, AddProviderLocked, TryGetService, GivenUp, Initialized
<1> QED
  BY <1>1, <1>2, <1>3

LEMMA HeldStep ==
    TypeInv /\ Structure /\ Calls /\ Equipped /\ Leaving /\ Held /\ [Next]_vars => Held'
<1> SUFFICES ASSUME TypeInv, Structure, Calls, Equipped, Leaving, Held, [Next]_vars, "crossed" \notin flaws',
                    NEW c \in Cameras, NEW l \in Lives, Holds(c, l)', l \notin handed'
             PROVE  \/ \E i \in Instances : InManager(i)' /\ info'[i].mInitialized /\ info'[i].life = l /\ c \in info'[i].mDevices
                    \/ lpc' = "absent" /\ c \in todo'
                    \/ Going(c)'
  BY DEF Held
<1> DEFINE Has == \E i \in Instances : InManager(i) /\ info[i].mInitialized /\ info[i].life = l /\ c \in info[i].mDevices
           HasNext == \E i \in Instances : InManager(i)' /\ info'[i].mInitialized /\ info'[i].life = l /\ c \in info'[i].mDevices
<1>a. "crossed" \notin flaws /\ l \notin handed
  BY Keeps, RemovalKeeps
<1>b. Holds(c, l) => Has \/ (lpc = "absent" /\ c \in todo) \/ Going(c)
  BY <1>a DEF Held
<1>c. Lifecycle \in Runners /\ l # 0
  BY RunnerNames DEF Lives
<1>1. CASE \E i \in Instances : RemoveProvider(i)
  <2>1. PICK i \in Instances : RemoveProvider(i)
    BY <1>1
  <2>2. lpc = "idle" /\ UNCHANGED <<exec, client, connecting>>
    BY <2>1, Removal
  <2>3. Holds(c, l) /\ ~Going(c)
    BY <2>2 DEF Holds, Structure, Runs1, Going
  <2>4. PICK j \in Instances : InManager(j) /\ info[j].mInitialized /\ info[j].life = l /\ c \in info[j].mDevices
    BY <1>b, <2>2, <2>3
  <2>5. /\ info'[j].mInitialized = info[j].mInitialized /\ info'[j].mDevices = info[j].mDevices
        /\ info'[j].life = info[j].life
    BY <2>1, <2>4, RemovalKeeps
  <2>6. CASE InManager(j)'
    BY <2>4, <2>5, <2>6
  <2>7. CASE ~InManager(j)'
    <3>1. j = i /\ Removes(i)
      BY <2>1, <2>4, <2>7, RemovalKeeps
    <3>2. Sole(i) \/ Successor(i)
      BY <2>1, <3>1, Removal DEF Removes, InManager
    <3> QED
      BY <2>4, <3>1, <3>2 DEF Sole, Successor
  <2> QED
    BY <2>6, <2>7
<1>2. CASE ~\E i \in Instances : RemoveProvider(i)
  <2>1. Kept
    BY <1>2, Keeps
  <2>2. Has => HasNext
    BY <2>1 DEF Kept
  <2>3. lpc = "absent" /\ c \in todo /\ ~ReportAbsent => lpc' = "absent" /\ c \in todo'
    BY <1>2, AbsentMoves
  <2>4. CASE ~Holds(c, l)
    <3>1. CASE OpenSession
      <4>1. UNCHANGED client /\ connecting'.id = connecting.id
        BY <3>1, ConnectMoves
      <4>2. connecting'.id = c /\ connecting'.life = l /\ l # 0
        BY <1>c, <2>4, <4>1 DEF Holds
      <4>3. PICK i \in Instances : InManager(i) /\ connecting.id \in info[i].mDevices /\ Up(i) /\ connecting'.life = life
        BY <3>1, <4>2, ConnectMoves
      <4>4. connecting.id = c /\ life = l
        BY <4>1, <4>2, <4>3
      <4>5. info[i].mInitialized
        BY <4>3 DEF Equipped
      <4>6. Has
        BY <4>3, <4>4, <4>5 DEF Up
      <4> QED
        BY <2>2, <4>6
    <3>2. CASE FinishConnect
      BY <1>c, <2>4, <3>2, StateMoves, NoClientFacts DEF Holds, FinishConnect
    <3>3. CASE Connect
      <4>1. connecting'.life = 0 /\ client' = client
        BY <3>3, ConnectMoves
      <4> QED
        BY <2>4, <4>1 DEF Holds
    <3>4. CASE Evict \/ \E d \in Cameras : Disconnect(d)
      <4>1. connecting' = connecting /\ client'[c] \in {0, client[c]}
        BY <3>4, StateMoves DEF Evict, Disconnect
      <4> QED
        BY <1>c, <2>4, <4>1 DEF Holds
    <3>5. CASE ~(OpenSession \/ FinishConnect \/ Connect \/ Evict \/ \E d \in Cameras : Disconnect(d))
      <4>1. UNCHANGED <<client, connecting>>
        <5>1. CASE Reports \/ ReportPresent \/ ReportAbsent \/ RemoveStates
          BY <5>1 DEF Reports, RunStep, QueryCost, InsertState, UpdateStatus, NotifyInitial, StatusChange, RemoveStates,
             ReportPresent, ReportAbsent
        <5>2. CASE ~(Reports \/ ReportPresent \/ ReportAbsent \/ RemoveStates)
          BY <3>5, <5>2, StepsAside DEF Aside, ConnectSteps
        <5> QED
          BY <5>1, <5>2
      <4> QED
        BY <2>4, <4>1 DEF Holds
    <3> QED
      BY <3>1, <3>2, <3>3, <3>4, <3>5
  <2>5. CASE Holds(c, l)
    <3>1. CASE Has
      BY <2>2, <3>1
    <3>2. CASE lpc = "absent" /\ c \in todo
      <4>1. CASE ~ReportAbsent
        BY <2>3, <3>2, <4>1
      <4>2. CASE ReportAbsent
        <5>1. Good(c)
          BY <1>a, <1>c, <2>5, <3>2 DEF Leaving, Taken, Holds
        <5>2. CASE c \in todo'
          BY <3>2, <4>2, <5>2 DEF ReportAbsent
        <5>3. CASE c \notin todo'
          <6>1. ~Stays \/ mCameraStates[c] \in {"none", "NOT_PRESENT"}
            <7>1. todo' = todo \ {c} /\ (mCameraStates[c] \in {"none", "NOT_PRESENT"} \/ exec' = [exec EXCEPT ![Lifecycle] = [pc |-> "evict", id |-> c]])
              BY <3>2, <4>2, <5>3 DEF ReportAbsent
            <7>2. exec \in [Runners -> ExecType] /\ [pc |-> "evict", id |-> c] \in ExecType /\ exec[Lifecycle].pc = "idle"
              BY <4>2, RunTypes DEF TypeInv, RunsType, ReportAbsent, Idle
            <7>3. exec' = [exec EXCEPT ![Lifecycle] = [pc |-> "evict", id |-> c]] => exec'[Lifecycle].pc = "evict"
              BY <1>c, <7>2
            <7> QED
              BY <7>1, <7>2, <7>3 DEF Stays
          <6>2. PICK d \in todo : Absents(d) /\ todo' = todo \ {d}
            BY <4>2, <5>1, <6>1, RunMoves DEF Good
          <6>3. d = c
            BY <3>2, <5>3, <6>2
          <6> QED
            BY <6>2, <6>3 DEF Absents, Going
        <5> QED
          BY <5>2, <5>3
      <4> QED
        BY <4>1, <4>2
    <3>3. CASE Going(c)
      <4>0. exec[Lifecycle].pc = "evict" /\ exec[Lifecycle].id = c
        BY <3>3 DEF Going
      <4>1. CASE Evict
        <5>1. client'[c] = 0 /\ connecting' = NoClient
          BY <4>0, <4>1, StateMoves DEF Evict
        <5> QED
          BY <1>c, <5>1, NoClientFacts DEF Holds
      <4>2. CASE ~Evict
        <5>1. exec'[Lifecycle] = exec[Lifecycle]
          BY <1>c, <4>0, <4>2, RunCases DEF Stays, Begins, Queries, Inserts, Updates, Absents, Erases, Others
        <5> QED
          BY <4>0, <5>1 DEF Going
      <4> QED
        BY <4>1, <4>2
    <3> QED
      BY <1>b, <2>5, <3>1, <3>2, <3>3
  <2> QED
    BY <2>4, <2>5
<1> QED
  BY <1>1, <1>2

LEMMA GhostsStep ==
    TypeInv /\ Structure /\ Calls /\ HalfPresent /\ Ghosts /\ [Next]_vars => Ghosts'
<1> SUFFICES ASSUME TypeInv, Structure, Calls, HalfPresent, Ghosts, [Next]_vars, "crossed" \notin flaws', handed' = {}
             PROVE  /\ \A c \in Cameras : mCameraStates'[c] # "none" =>
                          \/ c \in KnownDevices' \/ (lpc' = "absent" /\ c \in todo')
                          \/ exec'[Lifecycle].id = c /\ exec'[Lifecycle].pc \in {"evict", "erase"}
                    /\ \A e \in Runners : exec'[e].pc = "insert" => exec'[e].id \in KnownDevices'
                    /\ \A c \in Cameras : lpc' = "absent" /\ c \in todo' => mCameraStates'[c] # "NOT_PRESENT"
  BY DEF Ghosts
<1>a. "crossed" \notin flaws /\ handed = {}
  BY Keeps, RemovalKeeps
<1>b. /\ \A c \in Cameras : mCameraStates[c] # "none" =>
            \/ c \in KnownDevices \/ (lpc = "absent" /\ c \in todo)
            \/ exec[Lifecycle].id = c /\ exec[Lifecycle].pc \in {"evict", "erase"}
      /\ \A e \in Runners : exec[e].pc = "insert" => exec[e].id \in KnownDevices
      /\ \A c \in Cameras : lpc = "absent" /\ c \in todo => mCameraStates[c] # "NOT_PRESENT"
  BY <1>a DEF Ghosts
<1>c. Lifecycle \in Runners /\ \A e \in Runners : exec[e].pc \in {"evict", "erase"} => e = Lifecycle /\ lpc = "absent"
  BY RunnerNames DEF Structure, Runs1
<1>1. CASE \E i \in Instances : RemoveProvider(i)
  <2>1. PICK i \in Instances : RemoveProvider(i)
    BY <1>1
  <2>2. lpc = "idle" /\ UNCHANGED <<exec, mCameraStates>>
    BY <2>1, Removal
  <2>3. CASE UNCHANGED <<mProviders, info, thread>>
    <3>1. KnownDevices' = KnownDevices /\ lpc' = "idle"
      BY <2>2, <2>3 DEF KnownDevices, InManager
    <3> QED
      BY <1>b, <2>2, <3>1
  <2>4. CASE Removes(i)
    <3>0. ~Successor(i)
      <4>1. Successor(i) => info[i].life \in handed'
        BY DEF Successor
      <4> QED
        BY <4>1
    <3>a. mProviders \in Seq(Instances) /\ mProviders # <<>> /\ mProviders[1] = i /\ 1 \in DOMAIN mProviders
      BY <2>4 DEF Removes, TypeInv, ManagerType
    <3>b. InManager(i)
      BY <3>a DEF InManager
    <3>1. Sole(i)
      BY <2>1, <3>0, <3>b, Removal
    <3>2. \A c \in KnownDevices : c \in info[i].mDevices
      <4>1. mProviders \in Seq(Instances) /\ mProviders # <<>> /\ mProviders[1] = i /\ Tail(mProviders) = <<>>
        BY <2>4, <3>1 DEF Removes, Sole, TypeInv, ManagerType
      <4>2. DOMAIN mProviders = {1}
        <5>1. Len(mProviders) = 1
          BY <4>1, First
        <5> QED
          BY <4>1, <5>1
      <4>3. \A j : InManager(j) => j = i
        BY <4>1, <4>2 DEF InManager
      <4> QED
        BY <4>3 DEF KnownDevices
    <3>3. lpc' = "absent" /\ todo' = info[i].mDevices
      BY <3>1 DEF Sole
    <3>4. ~\E e \in Runners : exec[e].pc \in {"insert", "update"} /\ exec[e].id \in info[i].mDevices
      BY <2>4 DEF Removes
    <3>5. \A c \in Cameras : c \in info[i].mDevices => mCameraStates[c] # "NOT_PRESENT"
      BY <1>c, <2>2, <3>4 DEF HalfPresent
    <3> QED
      BY <1>b, <1>c, <2>2, <3>2, <3>3, <3>4, <3>5
  <2> QED
    BY <2>1, <2>3, <2>4, Removal
<1>2. CASE ~\E i \in Instances : RemoveProvider(i)
  <2>1. \A c \in KnownDevices : c \in KnownDevices'
    BY <1>2, Keeps, KnownKept
  <2>2. /\ lpc' = "absent" => lpc = "absent" /\ todo' \subseteq todo
        /\ lpc = "absent" /\ ~ReportAbsent => lpc' = "absent" /\ todo' = todo
    BY <1>2, AbsentMoves
  <2>3. lpc = "absent" => KnownDevices = {}
    <3>1. lpc = "absent" => mProviders = <<>>
      BY DEF Structure, Places1
    <3> QED
      BY <3>1 DEF KnownDevices, InManager
  <2>4. CASE Stays
    <3>1. exec' = exec /\ \A c \in Cameras : mCameraStates'[c] = mCameraStates[c] \/ (Good(c) /\ Good(c)')
      BY <2>4 DEF Stays
    <3>2. \A c \in Cameras : /\ (mCameraStates'[c] # "none" <=> mCameraStates[c] # "none")
                             /\ (mCameraStates'[c] # "NOT_PRESENT" <=> mCameraStates[c] # "NOT_PRESENT")
      BY <3>1 DEF Good
    <3>3. ASSUME NEW c \in Cameras, lpc = "absent", c \in todo, mCameraStates[c] # "none" PROVE lpc' = "absent" /\ c \in todo'
      <4>1. CASE ~ReportAbsent
        BY <2>2, <3>3, <4>1
      <4>2. CASE ReportAbsent
        <5>1. exec[Lifecycle].pc = "idle" /\ exec \in [Runners -> ExecType] /\ [pc |-> "evict", id |-> c] \in ExecType
          BY <4>2, RunTypes DEF ReportAbsent, Idle, TypeInv, RunsType
        <5>2. exec' # [exec EXCEPT ![Lifecycle] = [pc |-> "evict", id |-> c]]
          BY <1>c, <3>1, <5>1
        <5>3. mCameraStates[c] \notin {"none", "NOT_PRESENT"}
          BY <1>b, <3>3
        <5> QED
          BY <3>3, <4>2, <5>2, <5>3 DEF ReportAbsent
      <4> QED
        BY <4>1, <4>2
    <3> QED
      BY <1>b, <2>1, <2>2, <3>1, <3>2, <3>3
  <2>5. CASE \E e \in Runners, c \in Cameras : Begins(e, c)
    <3>1. PICK e \in Runners, d \in Cameras : Begins(e, d)
      BY <2>5
    <3>2. \A c \in Cameras : mCameraStates'[c] = mCameraStates[c]
      BY <3>1 DEF Begins, SameStates
    <3>3. exec[e].pc = "idle" /\ exec'[e].pc \in {"idle", "query", "update"} /\ \A g \in Runners : g # e => exec'[g] = exec[g]
      BY <3>1 DEF Begins, Others
    <3>4. ~ReportAbsent \/ exec'[Lifecycle].pc \in {"idle", "evict"}
      BY <1>c, RunMoves DEF ReportAbsent, Stays, Absents, Idle
    <3>5. ReportAbsent => \A c \in Cameras : c \in todo /\ c \notin todo' => mCameraStates[c] \in {"none", "NOT_PRESENT"}
      <4> SUFFICES ASSUME ReportAbsent, NEW c \in Cameras, c \in todo, c \notin todo', mCameraStates[c] \notin {"none", "NOT_PRESENT"}
                   PROVE  FALSE
        OBVIOUS
      <4>1. mCameraStates' = [mCameraStates EXCEPT ![c] = "NOT_PRESENT"]
        BY DEF ReportAbsent
      <4>2. mCameraStates'[c] = "NOT_PRESENT"
        BY <4>1 DEF TypeInv, ServiceType
      <4> QED
        BY <3>2, <4>2
    <3>6. ReportAbsent => lpc' = "absent" \/ todo = {}
      BY DEF ReportAbsent
    <3>7. ASSUME NEW c \in Cameras, lpc = "absent", c \in todo, mCameraStates[c] # "none" PROVE lpc' = "absent" /\ c \in todo'
      BY <1>b, <2>2, <3>5, <3>6, <3>7
    <3> QED
      BY <1>b, <1>c, <2>1, <2>2, <3>2, <3>3, <3>7
  <2>6. ASSUME NEW e \in Runners, RunStep(e), Queries(e) \/ Inserts(e) \/ Updates(e)
        PROVE  /\ \A c \in Cameras : mCameraStates'[c] # "none" =>
                          \/ c \in KnownDevices' \/ (lpc' = "absent" /\ c \in todo')
                          \/ exec'[Lifecycle].id = c /\ exec'[Lifecycle].pc \in {"evict", "erase"}
               /\ \A g \in Runners : exec'[g].pc = "insert" => exec'[g].id \in KnownDevices'
               /\ \A c \in Cameras : lpc' = "absent" /\ c \in todo' => mCameraStates'[c] # "NOT_PRESENT"
    <3>0. UNCHANGED <<lpc, todo>>
      BY <2>6 DEF RunStep, QueryCost, InsertState, UpdateStatus
    <3>1. CASE Queries(e)
      BY <1>b, <1>c, <2>1, <3>0, <3>1 DEF Queries, Others, SameStates
    <3>2. CASE Inserts(e)
      BY <1>b, <1>c, <2>1, <2>3, <3>0, <3>2 DEF Inserts, Others, SameButFor
    <3>3. CASE Updates(e)
      BY <1>b, <1>c, <2>1, <3>0, <3>3 DEF Updates, Others, SameButFor
    <3> QED
      BY <2>6, <3>1, <3>2, <3>3
  <2>7. CASE ReportAbsent /\ ~Stays
    <3>1. PICK c \in todo : Absents(c) /\ todo' = todo \ {c}
      BY <2>7, RunMoves
    <3>2. lpc' = "absent" /\ lpc = "absent"
      BY <2>7, <3>1 DEF ReportAbsent
    <3> QED
      BY <1>b, <1>c, <2>1, <3>1, <3>2 DEF Absents, Others, SameButFor
  <2>8. CASE Evict
    <3>1. Evicts /\ UNCHANGED <<lpc, todo>>
      BY <2>8, RunMoves DEF Evict
    <3> QED
      BY <1>b, <1>c, <2>1, <3>1 DEF Evicts, Others, SameButFor, Freed
  <2>9. CASE RemoveStates
    <3>1. Erases /\ UNCHANGED <<lpc, todo>>
      BY <2>9, RunMoves DEF RemoveStates
    <3> QED
      BY <1>b, <1>c, <2>1, <3>1 DEF Erases, Others, SameButFor
  <2>10. CASE ~(ReportAbsent \/ Evict \/ RemoveStates \/ \E e \in Runners : RunStep(e))
    <3>1. Stays \/ \E e \in Runners, c \in Cameras : Begins(e, c)
      <4>1. CASE (\E i \in Instances : NotifyInitial(i)) \/ ReportPresent \/ Connect \/ ConnectSteps \/ \E c \in Cameras : Disconnect(c)
        BY <4>1, RunMoves, RunnerNames DEF TypeInv, ManagerType
      <4>2. ASSUME NEW l \in Lives, StatusChange(l) PROVE Stays \/ \E e \in Runners, c \in Cameras : Begins(e, c)
        <5>1. call[l].c \in Cameras /\ <<"callback", l>> \in Runners
          BY <4>2, StatusMoves, RunnerNames
        <5> QED
          BY <4>2, <5>1, RunMoves
      <4>3. CASE ~(Reports \/ ReportPresent \/ Connect \/ ConnectSteps \/ \E c \in Cameras : Disconnect(c))
        BY <2>10, <4>3, StepsAside DEF Aside, Stays
      <4> QED
        BY <2>10, <4>1, <4>2, <4>3 DEF Reports
    <3> QED
      BY <2>4, <2>5, <3>1
  <2> QED
    BY <2>4, <2>6, <2>7, <2>8, <2>9, <2>10, RunMoves DEF RunStep
<1> QED
  BY <1>1, <1>2

-----------------------------------------------------------------------------
(* The service lets go of what no provider has.                            *)

\* Unless it is inside initialize, the lifecycle thread rests only when it has nothing to do.
LEMMA Resting ==
    ASSUME TypeInv, Structure, ~Working, ~InterfaceLocked
    PROVE  /\ lpc = "idle" /\ exec[Lifecycle] = Idle /\ regs = <<>> /\ deaths = {} /\ connecting = NoClient
           /\ \A e \in Runners : exec[e] = Idle
<1>1. connecting = NoClient
  BY DEF Working, TypeInv, ServiceType
<1>2. \A e \in Runners : exec[e].pc \in {"idle", "evict", "erase"}
  <2>1. \A e \in Runners : exec[e].pc \notin {"insert", "update", "query"}
    BY DEF Working, ReportsWork
  <2>2. exec \in [Runners -> ExecType]
    BY DEF TypeInv, RunsType
  <2> QED
    BY <2>1, <2>2 DEF ExecType
<1>3. Lifecycle \in Runners
  BY RunnerNames
<1>4. exec[Lifecycle].pc \notin {"evict", "erase"}
  BY <1>1 DEF Working, LifecycleWorks
<1>5. \A e \in Runners : exec[e] = Idle
  BY <1>2, <1>3, <1>4, RunnerMoves DEF Structure, Runs1
<1>6. lpc = "idle"
  BY <1>1, <1>3, <1>5 DEF Working, LifecycleWorks, InterfaceLocked, TypeInv, ManagerType, Places
<1>7. regs = <<>> /\ deaths = {}
  BY <1>6 DEF Working, LifecycleWorks
<1> QED
  BY <1>1, <1>3, <1>5, <1>6, <1>7

\* While an instance is being initialized the manager has no other that is.
LEMMA LockedAlone ==
    ASSUME TypeInv, Structure, InterfaceLocked, NEW i \in Instances, InManager(i)
    PROVE  ~info[i].mInitialized
<1>1. CASE why # "remove"
  BY <1>1 DEF Structure, Places1, InManager
<1>2. CASE why = "remove"
  <2>1. cur = mProviders[1]
    BY <1>2 DEF Structure, Places1
  <2>2. PICK k \in DOMAIN mProviders : mProviders[k] = i
    BY DEF InManager
  <2>3. CASE k = 1
    BY <2>1, <2>2, <2>3 DEF Structure, Unused
  <2>4. CASE k # 1
    BY <2>2, <2>4 DEF Structure, Listed, Pristine
  <2> QED
    BY <2>3, <2>4
<1> QED
  BY <1>1, <1>2

ServiceInv ==
    /\ TypeInv /\ Structure /\ Calls /\ Equipped /\ Once /\ HalfPresent /\ InUse /\ Leaving /\ Held /\ Ghosts

LEMMA ServiceInit == Init => ServiceInv
<1> SUFFICES ASSUME Init PROVE ServiceInv
  OBVIOUS
<1>1. TypeInv /\ Structure /\ Calls
  BY TypeInit, StructureInit, CallsInit
<1>2. /\ \A c \in Cameras : client[c] = 0 /\ mCameraStates[c] = "none"
      /\ connecting.pc = "none" /\ connecting.life = 0 /\ \A e \in Runners : exec[e].pc = "idle"
  BY DEF Init, NoClient, Idle
<1>3. Lifecycle \in Runners /\ lpc = "boot"
  BY RunnerNames DEF Init
<1>4. Equipped
  BY DEF Init, Equipped
<1>5. Once /\ HalfPresent
  BY <1>2, <1>3 DEF Once, HalfPresent
<1>6. InUse /\ Leaving
  BY <1>2, <1>3 DEF InUse, Leaving, Used
<1>7. Held /\ Ghosts
  BY <1>2, <1>3 DEF Held, Holds, Ghosts, Lives
<1> QED
  BY <1>1, <1>4, <1>5, <1>6, <1>7 DEF ServiceInv

LEMMA ServiceStep == ServiceInv /\ [Next]_vars => ServiceInv'
BY TypeStep, StructureStep, CallsStep, EquippedStep, OnceStep, HalfPresentStep, InUseStep, LeavingStep, HeldStep, GhostsStep
   DEF ServiceInv

LEMMA ServiceInvariant == Spec => []ServiceInv
<1>1. Init => ServiceInv
  BY ServiceInit
<1>2. ServiceInv /\ [Next]_vars => ServiceInv'
  BY ServiceStep
<1> QED
  BY <1>1, <1>2, PTL DEF Spec

(* The service does not keep a camera that no provider has (ReportAbsent, Evict and       *)
(* RemoveStates against InsertState and UpdateStatus): with any number of cameras,        *)
(* processes and clients, and whatever happens while the removal runs.                    *)
THEOREM GhostsGone == Spec => []NoGhostCamera
<1>1. ServiceInv => NoGhostCamera
  <2> SUFFICES ASSUME ServiceInv, "crossed" \notin flaws, handed = {}, NEW c \in Cameras,
                      mCameraStates[c] # "none", c \notin KnownDevices, ~Working
               PROVE  FALSE
    BY DEF NoGhostCamera
  <2>1. TypeInv /\ Structure /\ Ghosts
    BY DEF ServiceInv
  <2>2. lpc = "absent"
    BY <2>1, RunnerNames DEF Ghosts, Structure, Runs1
  <2>3. ~InterfaceLocked
    BY <2>2 DEF InterfaceLocked
  <2> QED
    BY <2>1, <2>2, <2>3, Resting
<1> QED
  BY <1>1, ServiceInvariant, PTL

(* No client keeps a session of a process that died (Connect, OpenSession and             *)
(* FinishConnect against serviceDied, removeProvider and onDeviceStatusChanged), unless   *)
(* a newer instance was waiting or a report crossed the removal.                          *)
THEOREM ClientsGone == Spec => []ClientLetGo
<1>1. ServiceInv => ClientLetGo
  <2> SUFFICES ASSUME ServiceInv, "crossed" \notin flaws, NEW c \in Cameras, client[c] # 0, client[c] \notin handed,
                      ~(alive /\ client[c] = life), ~Working
               PROVE  FALSE
    BY DEF ClientLetGo
  <2>1. TypeInv /\ Structure /\ Held
    BY DEF ServiceInv
  <2>2. client[c] \in Lives
    BY <2>1, Constants1 DEF TypeInv, ServiceType, Lives
  <2>3. Holds(c, client[c])
    BY <2>2 DEF Holds
  <2>4. CASE lpc = "absent"
    BY <2>1, <2>4, Resting DEF InterfaceLocked
  <2>5. CASE lpc # "absent"
    <3>1. ~Going(c)
      BY <2>1, <2>5, RunnerNames DEF Structure, Runs1, Going
    <3>2. PICK i \in Instances : InManager(i) /\ info[i].mInitialized /\ info[i].life = client[c]
      BY <2>1, <2>2, <2>3, <2>5, <3>1 DEF Held
    <3>3. i \in deaths
      BY <2>1, <3>2 DEF Structure, Linked, Up
    <3>4. ~InterfaceLocked
      BY <2>1, <3>2, LockedAlone
    <3> QED
      BY <2>1, <3>3, <3>4, Resting
  <2> QED
    BY <2>4, <2>5
<1> QED
  BY <1>1, ServiceInvariant, PTL

-----------------------------------------------------------------------------
(* The instance that the process calls, and the registration that serves it. *)

\* Steps that leave mProviders, and of every instance its process and whether it is initialized.
LEMMA MinorMoves ==
    ASSUME TypeInv, Structure,
           VisitCamera \/ (\E l \in Lives : StatusChange(l)) \/ LinkToDeath \/ Fails \/ UNCHANGED <<info, mProviders>>
    PROVE  /\ mProviders' = mProviders /\ \A i : InManager(i)' <=> InManager(i)
           /\ \A i \in Instances :
                 /\ info'[i].life = info[i].life /\ info'[i].mInitialized = info[i].mInitialized
                 /\ Fails \/ ((info[i].linked => info'[i].linked) /\ info[i].mCachedStatus \subseteq info'[i].mCachedStatus)
                 /\ info[i].mDevices \subseteq info'[i].mDevices
<1>a. info \in [Instances -> InfoType]
  BY DEF TypeInv, ManagerType
<1>0. ASSUME mProviders' = mProviders PROVE \A i : InManager(i)' <=> InManager(i)
  BY <1>0 DEF InManager
<1>1. CASE VisitCamera
  <2>1. PICK c \in walk : info' = [info EXCEPT ![cur].mCachedStatus = @ \cup {c}]
    BY <1>1 DEF VisitCamera
  <2>2. c \in Cameras /\ cur \in Instances /\ mProviders' = mProviders
    BY <1>1, <2>1 DEF VisitCamera, TypeInv, ProviderType, ManagerType, InterfaceLocked
  <2>3. /\ \A j \in Instances : j # cur => info'[j] = info[j]
        /\ info'[cur] = [life |-> info[cur].life, mInitialized |-> info[cur].mInitialized,
                         mCachedStatus |-> info[cur].mCachedStatus \cup {c},
                         mDevices |-> info[cur].mDevices, linked |-> info[cur].linked]
    BY <1>a, <2>1, <2>2, InfoCached
  <2> QED
    BY <1>0, <2>2, <2>3
<1>2. ASSUME NEW l \in Lives, StatusChange(l)
      PROVE  /\ mProviders' = mProviders
             /\ \A i \in Instances :
                 /\ info'[i].life = info[i].life /\ info'[i].mInitialized = info[i].mInitialized
                 /\ info'[i].linked = info[i].linked /\ info[i].mCachedStatus \subseteq info'[i].mCachedStatus
                 /\ info[i].mDevices \subseteq info'[i].mDevices
  <2>1. call[l].i \in Instances /\ call[l].c \in Cameras /\ mProviders' = mProviders
        /\ (Caches(l) \/ Learns(l) \/ Refuses(l))
    BY <1>2, StatusMoves
  <2> DEFINE i == call[l].i
             c == call[l].c
  <2> HIDE DEF i, c
  <2>2. CASE info' = info
    BY <2>1, <2>2
  <2>3. CASE Caches(l)
    <3>0. info' = [info EXCEPT ![i].mCachedStatus = @ \cup {c}] /\ i \in Instances /\ c \in Cameras
      BY <2>1, <2>3 DEF i, c, Caches
    <3>1. /\ \A j \in Instances : j # i => info'[j] = info[j]
          /\ info'[i] = [life |-> info[i].life, mInitialized |-> info[i].mInitialized,
                             mCachedStatus |-> info[i].mCachedStatus \cup {c},
                             mDevices |-> info[i].mDevices, linked |-> info[i].linked]
      BY <1>a, <3>0, InfoCached
    <3> QED
      BY <2>1, <3>1
  <2>4. CASE Learns(l)
    <3>0. info' = [info EXCEPT ![i].mDevices = @ \cup {c}] /\ i \in Instances /\ c \in Cameras
      BY <2>1, <2>4 DEF i, c, Learns
    <3>1. /\ \A j \in Instances : j # i => info'[j] = info[j]
          /\ info'[i] = [life |-> info[i].life, mInitialized |-> info[i].mInitialized,
                             mCachedStatus |-> info[i].mCachedStatus,
                             mDevices |-> info[i].mDevices \cup {c}, linked |-> info[i].linked]
      BY <1>a, <3>0, InfoDevice
    <3> QED
      BY <2>1, <3>1
  <2> QED
    BY <2>1, <2>2, <2>3, <2>4 DEF Refuses
<1>3. CASE LinkToDeath
  <2>1. cur \in Instances /\ mProviders' = mProviders /\ info' = [info EXCEPT ![cur].linked = TRUE]
    BY <1>3 DEF LinkToDeath, TypeInv, ManagerType, InterfaceLocked
  <2>2. /\ \A j \in Instances : j # cur => info'[j] = info[j]
        /\ info'[cur] = [life |-> info[cur].life, mInitialized |-> info[cur].mInitialized,
                         mCachedStatus |-> info[cur].mCachedStatus,
                         mDevices |-> info[cur].mDevices, linked |-> TRUE]
    BY <1>a, <2>1, InfoLink
  <2> QED
    BY <1>0, <2>1, <2>2
<1>4. CASE Fails
  <2>1. mProviders' = mProviders /\ cur \in Instances
        /\ (info' = info \/ info' = [info EXCEPT ![cur].linked = FALSE, ![cur].mCachedStatus = {}])
    BY <1>4 DEF Fails, TypeInv, ManagerType
  <2>2. CASE info' = info
    BY <1>0, <2>1, <2>2
  <2>3. CASE info' = [info EXCEPT ![cur].linked = FALSE, ![cur].mCachedStatus = {}]
    <3>1. /\ \A j \in Instances : j # cur => info'[j] = info[j]
          /\ info'[cur] = [life |-> info[cur].life, mInitialized |-> info[cur].mInitialized,
                         mCachedStatus |-> {}, mDevices |-> info[cur].mDevices, linked |-> FALSE]
      BY <1>a, <2>1, <2>3, InfoDropped
    <3> QED
      BY <1>0, <1>4, <2>1, <3>1
  <2> QED
    BY <2>1, <2>2, <2>3
<1>5. CASE UNCHANGED <<info, mProviders>>
  BY <1>0, <1>5
<1> QED
  BY <1>0, <1>1, <1>2, <1>3, <1>4, <1>5

\* The steps of neither the provider's start and death nor of mProviders and the lock.
Quiet == /\ UNCHANGED <<life, alive, registered, mCallbacks, mProviders, cur, regs>>
         /\ InterfaceLocked' <=> InterfaceLocked
         /\ lpc' \in {"boot", "list"} <=> lpc \in {"boot", "list"}
         /\ lpc' \in {"walk", "link", "finish"} <=> lpc \in {"walk", "link", "finish"}
         /\ InterfaceLocked => why' = why
         /\ VisitCamera \/ (\E l \in Lives : StatusChange(l)) \/ LinkToDeath \/ UNCHANGED <<info, mProviders>>

LEMMA QuietSteps ==
    ASSUME [Next]_vars,
           ~(Start \/ Register \/ Die \/ SetCallback \/ Initialized \/ Fails \/ Subscribe \/ ListServices \/ OnRegistration
             \/ \E i \in Instances : RemoveProvider(i))
    PROVE  Quiet
BY DEF Quiet, Next, HotPlug, LifecycleThread, Reports, RunStep, ConnectSteps, Rescan, DeviceAdded, CallbackReturns,
   QueryCost, InsertState, UpdateStatus, NotifyInitial, StatusChange, VisitCamera, SetCallbackReturns,
   LinkToDeath, EnumerateProviders, ReportPresent, ReportAbsent, Evict, RemoveStates, InterfaceLocked,
   Connect, OpenSession, FinishConnect, Disconnect

LEMMA FineBefore ==
    ASSUME TypeInv, Structure, [Next]_vars, Fine'
    PROVE  Fine
<1>1. flaws \subseteq flaws'
  BY Keeps, RemovalKeeps
<1> QED
  BY <1>1 DEF Fine

\* After a removal that is none of the races, the instances that are left wait for a process.
LEMMA AfterRemoval ==
    ASSUME TypeInv, Structure, Calls, Fine', NEW i \in Instances, RemoveProvider(i), Removes(i)
    PROVE  /\ ~Up(i) /\ InManager(i) /\ (Sole(i) \/ (Successor(i) /\ Gets(mProviders[2])))
           /\ \A j \in Instances : InManager(j)' => InManager(j) /\ j # i /\ Pristine(j)
<1>1. mProviders \in Seq(Instances) /\ mProviders # <<>> /\ mProviders[1] = i /\ mProviders' = Tail(mProviders) /\ 1 \in DOMAIN mProviders
  BY DEF Removes, TypeInv, ManagerType
<1>2. InManager(i)
  BY <1>1 DEF InManager
<1>3. ~Up(i) /\ ~(Tail(mProviders) # <<>> /\ ~registered)
  BY DEF Removes, Fine
<1>4. Sole(i) \/ (Successor(i) /\ Gets(mProviders[2]))
  BY <1>2, <1>3, Removal DEF Successor
<1>5. Listed
  BY DEF Structure
<1>6. \A j : InManager(j)' <=> InManager(j) /\ j # mProviders[1]
  BY <1>1, <1>5, ManagerTail
<1>7. \A j \in Instances : InManager(j)' => Pristine(j)
  BY <1>1, <1>5, <1>6, OnlyFirst
<1> QED
  BY <1>1, <1>2, <1>3, <1>4, <1>6, <1>7

LEMMA CallerStep == TypeInv /\ Structure /\ Calls /\ Caller /\ [Next]_vars => Caller'
<1> SUFFICES ASSUME TypeInv, Structure, Calls, Caller, [Next]_vars, Fine'
             PROVE  /\ mCallbacks' # 0 =>
                         /\ info'[mCallbacks'].life = life'
                         /\ \/ lpc' \in {"walk", "link", "finish"} /\ cur' = mCallbacks'
                            \/ InManager(mCallbacks)' /\ info'[mCallbacks'].mInitialized
                    /\ \A i \in Instances : Up(i)' /\ InManager(i)' /\ info'[i].mInitialized => mCallbacks' = i
                    /\ lpc' \in {"walk", "link", "finish"} /\ Up(cur)' => mCallbacks' = cur'
                    /\ \A i \in Instances : InManager(i)' /\ Up(i)' => info'[i].mInitialized \/ (InterfaceLocked' /\ cur' = i)
  BY DEF Caller
<1>a. /\ mCallbacks # 0 =>
            /\ info[mCallbacks].life = life
            /\ \/ lpc \in {"walk", "link", "finish"} /\ cur = mCallbacks
               \/ InManager(mCallbacks) /\ info[mCallbacks].mInitialized
      /\ \A i \in Instances : Up(i) /\ InManager(i) /\ info[i].mInitialized => mCallbacks = i
      /\ lpc \in {"walk", "link", "finish"} /\ Up(cur) => mCallbacks = cur
      /\ \A i \in Instances : InManager(i) /\ Up(i) => info[i].mInitialized \/ (InterfaceLocked /\ cur = i)
  BY FineBefore DEF Caller
<1>b. /\ info \in [Instances -> InfoType] /\ mProviders \in Seq(Instances) /\ life \in Nat /\ (alive => life # 0)
      /\ (mCallbacks # 0 => mCallbacks \in Instances) /\ (registered => alive) /\ n \in Nat
      /\ (InterfaceLocked => cur \in Instances)
  BY Constants1 DEF TypeInv, ManagerType, ProviderType, Instances
<1>c. \A i \in Instances : InManager(i) /\ InterfaceLocked => ~info[i].mInitialized
  BY LockedAlone
<1>d. ~alive => mCallbacks = 0
  BY DEF Calls
<1>1. CASE Start
  <2>1. life' = life + 1 /\ mCallbacks' = 0 /\ UNCHANGED <<info, mProviders, lpc, cur>>
    BY <1>1 DEF Start
  <2>2. \A i \in Instances : ~Up(i)'
    <3>1. \A i \in Instances : info[i].life <= life /\ info[i].life \in Nat
      BY <1>b DEF Structure, Linked, InfoType
    <3> QED
      BY <1>b, <2>1, <3>1 DEF Up
  <2>3. lpc' \in {"walk", "link", "finish"} => cur' \in Instances
    BY <1>b, <2>1 DEF InterfaceLocked
  <2> QED
    BY <2>1, <2>2, <2>3
<1>2. CASE Die
  BY <1>2 DEF Die, Up
<1>3. CASE SetCallback
  <2>1. mCallbacks' = cur /\ lpc' = "walk" /\ lpc = "setCallback" /\ Up(cur) /\ UNCHANGED <<life, alive, info, mProviders, cur>>
    BY <1>3 DEF SetCallback
  <2>2. InterfaceLocked /\ InterfaceLocked'
    BY <2>1 DEF InterfaceLocked
  <2> QED
    BY <1>a, <1>c, <2>1, <2>2 DEF Up, InManager
<1>4. CASE Initialized
  <2>1. /\ lpc = "finish" /\ cur \in Instances /\ (\A j \in Instances : j # cur => info'[j] = info[j])
        /\ info'[cur].life = info[cur].life /\ info'[cur].mInitialized
        /\ \/ why = "remove" /\ lpc' = "idle" /\ UNCHANGED <<mProviders, n>>
           \/ why # "remove" /\ lpc' = "enumerate" /\ mProviders' = Append(mProviders, cur) /\ n' = cur
        /\ UNCHANGED <<life, alive, mCallbacks, cur>>
    BY <1>4, FinishMoves
  <2>2. InterfaceLocked
    BY <2>1 DEF InterfaceLocked
  <2>3. \A j : InManager(j)' <=> InManager(j) \/ j = cur
    <3>1. CASE why = "remove"
      <4>1. mProviders # <<>> /\ cur = mProviders[1] /\ mProviders' = mProviders
        BY <2>1, <2>2, <3>1 DEF Structure, Places1
      <4>2. InManager(cur)
        BY <1>b, <4>1 DEF InManager
      <4>3. \A j : InManager(j)' <=> InManager(j)
        BY <4>1 DEF InManager
      <4> QED
        BY <4>2, <4>3
    <3>2. CASE why # "remove"
      BY <1>b, <2>1, <3>2, ManagerAppend
    <3> QED
      BY <3>1, <3>2
  <2>4. \A j \in Instances : Up(j)' <=> Up(j)
    BY <2>1 DEF Up
  <2>5. mCallbacks # 0 => mCallbacks = cur
    BY <1>a, <1>b, <1>c, <2>2
  <2>6. mCallbacks' # 0 => info'[mCallbacks'].life = life' /\ InManager(mCallbacks)' /\ info'[mCallbacks'].mInitialized
    <3>1. mCallbacks # 0 => InManager(mCallbacks)'
      BY <2>1, <2>3, <2>5 DEF InManager
    <3> QED
      BY <1>a, <2>1, <2>5, <3>1
  <2>7. \A i \in Instances : Up(i)' /\ InManager(i)' /\ info'[i].mInitialized => mCallbacks' = i
    BY <1>a, <1>c, <2>1, <2>2, <2>3, <2>4
  <2>8. \A i \in Instances : InManager(i)' /\ Up(i)' => info'[i].mInitialized
    BY <1>a, <1>c, <2>1, <2>2, <2>3, <2>4
  <2> QED
    BY <2>1, <2>6, <2>7, <2>8
<1>5. CASE Fails
  <2>1. InterfaceLocked /\ ~Up(cur) /\ lpc' \in {"enumerate", "idle"} /\ UNCHANGED <<life, alive, mCallbacks, cur>>
    BY <1>5 DEF Fails, GivenUp
  <2>2. /\ \A i : InManager(i)' <=> InManager(i)
        /\ \A i \in Instances : info'[i].life = info[i].life /\ info'[i].mInitialized = info[i].mInitialized
        /\ mProviders' = mProviders
    BY <1>5, MinorMoves
  <2>3. \A j \in Instances : Up(j)' <=> Up(j)
    BY <2>1, <2>2 DEF Up
  <2>4. mCallbacks # 0 => cur # mCallbacks
    BY <1>a, <1>d, <2>1 DEF Up
  <2>5. InManager(mCallbacks) => InManager(mCallbacks)'
    BY <2>1, <2>2 DEF InManager
  <2> QED
    BY <1>a, <1>b, <2>1, <2>2, <2>3, <2>4, <2>5
<1>6. CASE Subscribe \/ ListServices \/ OnRegistration
  <2>1. UNCHANGED <<life, alive, registered, mCallbacks>> /\ lpc \in {"boot", "list", "idle"}
    BY <1>6 DEF Subscribe, ListServices, OnRegistration
  <2>2. CASE UNCHANGED <<info, mProviders, cur>> /\ lpc' \in {"list", "idle", "enumerate"}
    BY <1>a, <2>1, <2>2 DEF Up, InManager, InterfaceLocked
  <2>3. CASE Tries
    <3>1. mProviders = <<>> /\ mProviders' = <<>> /\ lpc' = "setCallback"
      BY <2>3 DEF Tries, Gets
    <3>2. \A j : ~InManager(j) /\ ~InManager(j)'
      BY <3>1 DEF InManager
    <3> QED
      BY <1>a, <2>1, <3>1, <3>2
  <2>4. CASE Waits
    <3>1. mProviders # <<>> /\ mProviders' = Append(mProviders, n + 1) /\ lpc' = "enumerate" /\ UNCHANGED <<cur, info>>
      BY <2>4 DEF Waits
    <3>2. \A j : InManager(j)' <=> InManager(j) \/ j = n + 1
      BY <1>b, <3>1, ManagerAppend
    <3>3. n + 1 \in Instances => ~Up(n + 1) /\ ~info[n + 1].mInitialized
      BY <1>b, <3>1 DEF Structure, Unused, Pristine, Up
    <3>4. InManager(mCallbacks) => InManager(mCallbacks)'
      BY <2>1, <3>2 DEF InManager
    <3>5. \A j \in Instances : Up(j)' <=> Up(j)
      BY <2>1, <3>1 DEF Up
    <3> QED
      BY <1>a, <2>1, <3>1, <3>2, <3>3, <3>4, <3>5 DEF InterfaceLocked
  <2> QED
    BY <1>6, <2>2, <2>3, <2>4, Adding DEF Subscribe, ListServices, OnRegistration, NoService, Known, Leaves, GivenUp
<1>7. ASSUME NEW i \in Instances, RemoveProvider(i)
      PROVE  /\ mCallbacks' # 0 =>
                         /\ info'[mCallbacks'].life = life'
                         /\ \/ lpc' \in {"walk", "link", "finish"} /\ cur' = mCallbacks'
                            \/ InManager(mCallbacks)' /\ info'[mCallbacks'].mInitialized
             /\ \A j \in Instances : Up(j)' /\ InManager(j)' /\ info'[j].mInitialized => mCallbacks' = j
             /\ lpc' \in {"walk", "link", "finish"} /\ Up(cur)' => mCallbacks' = cur'
             /\ \A j \in Instances : InManager(j)' /\ Up(j)' => info'[j].mInitialized \/ (InterfaceLocked' /\ cur' = j)
  <2>1. UNCHANGED <<life, alive, registered, mCallbacks>> /\ lpc = "idle"
    BY <1>7, Removal
  <2>2. CASE UNCHANGED <<mProviders, info, thread>>
    BY <1>a, <2>1, <2>2 DEF Up, InManager, InterfaceLocked
  <2>3. CASE Removes(i)
    <3>1. /\ ~Up(i) /\ (Sole(i) \/ (Successor(i) /\ Gets(mProviders[2])))
          /\ \A j \in Instances : InManager(j)' => InManager(j) /\ j # i /\ Pristine(j)
      BY <1>7, <2>3, AfterRemoval
    <3>2. mCallbacks = 0
      <4> SUFFICES ASSUME mCallbacks # 0 PROVE FALSE
        OBVIOUS
      <4>1. InManager(mCallbacks) /\ info[mCallbacks].mInitialized /\ info[mCallbacks].life = life /\ mCallbacks \in Instances /\ alive
        BY <1>a, <1>b, <1>d, <2>1
      <4>2. mCallbacks # i /\ ~Pristine(mCallbacks)
        BY <3>1, <4>1 DEF Up, Pristine
      <4>3. mCallbacks = mProviders[1]
        BY <4>1, <4>2, OnlyFirst DEF Structure
      <4> QED
        BY <2>3, <4>2, <4>3 DEF Removes
    <3>3. \A j \in Instances : InManager(j)' => ~info'[j].mInitialized
      BY <1>7, <3>1, RemovalKeeps DEF Pristine
    <3>4. lpc' \in {"absent", "setCallback"}
      BY <3>1 DEF Sole, Gets
    <3>5. \A j \in Instances : InManager(j)' /\ Up(j)' => InterfaceLocked' /\ cur' = j
      <4>1. CASE Sole(i)
        BY <1>b, <2>1, <3>1, <4>1 DEF Sole, Pristine, Up
      <4>2. CASE Successor(i) /\ Gets(mProviders[2])
        <5>1. InterfaceLocked' /\ cur' = mProviders[2] /\ info' = [info EXCEPT ![mProviders[2]].life = life]
          BY <4>2 DEF Gets, InterfaceLocked
        <5>2. mProviders[2] \in Instances
          BY <2>3, <4>2, Second DEF Successor, Removes
        <5>3. \A j \in Instances : j # mProviders[2] => info'[j] = info[j]
          BY <1>b, <5>1
        <5> QED
          BY <1>b, <2>1, <3>1, <5>1, <5>3 DEF Pristine, Up
      <4> QED
        BY <3>1, <4>1, <4>2
    <3> QED
      BY <2>1, <3>2, <3>3, <3>4, <3>5
  <2> QED
    BY <1>7, <2>2, <2>3, Removal
<1>8. CASE Register \/ Quiet
  <2>1. /\ UNCHANGED <<life, alive, mCallbacks, cur, mProviders>> /\ (InterfaceLocked' <=> InterfaceLocked)
        /\ (lpc' \in {"walk", "link", "finish"} <=> lpc \in {"walk", "link", "finish"})
        /\ VisitCamera \/ (\E l \in Lives : StatusChange(l)) \/ LinkToDeath \/ UNCHANGED <<info, mProviders>>
    BY <1>8 DEF Register, Quiet, InterfaceLocked
  <2>2. /\ \A i : InManager(i)' <=> InManager(i)
        /\ \A i \in Instances : info'[i].life = info[i].life /\ info'[i].mInitialized = info[i].mInitialized
    BY <2>1, MinorMoves
  <2>3. \A j \in Instances : Up(j)' <=> Up(j)
    BY <2>1, <2>2 DEF Up
  <2>4. InManager(mCallbacks) => InManager(mCallbacks)'
    BY <2>1, <2>2 DEF InManager
  <2>5. lpc' \in {"walk", "link", "finish"} /\ Up(cur)' => Up(cur)
    BY <1>b, <2>1, <2>2 DEF Up, InterfaceLocked
  <2> QED
    BY <1>a, <1>b, <2>1, <2>2, <2>3, <2>4, <2>5
<1> QED
  BY <1>1, <1>2, <1>3, <1>4, <1>5, <1>6, <1>7, <1>8, QuietSteps

\* Where the entries of a sequence other than the first are found in its tail.
LEMMA Behind ==
    ASSUME NEW S, NEW s \in Seq(S), s # <<>>
    PROVE  Head(s) = s[1] /\ \A k \in DOMAIN s : k # 1 => k - 1 \in DOMAIN Tail(s) /\ Tail(s)[k - 1] = s[k]
OBVIOUS

LEMMA NewKept ==
    ASSUME regs \in Seq(BOOLEAN), regs # <<>>, Head(regs), regs' = Tail(regs), New
    PROVE  New'
<1>1. PICK k \in DOMAIN regs : ~regs[k]
  BY DEF New
<1>2. Head(regs) = regs[1] /\ \A j \in DOMAIN regs : j # 1 => j - 1 \in DOMAIN Tail(regs) /\ Tail(regs)[j - 1] = regs[j]
  BY Behind, Zenon
<1>3. k # 1
  BY <1>1, <1>2, Zenon
<1>4. k - 1 \in DOMAIN Tail(regs) /\ ~Tail(regs)[k - 1]
  BY <1>1, <1>2, <1>3, Zenon
<1> QED
  BY <1>4, Zenon DEF New

LEMMA NewAppended ==
    ASSUME regs \in Seq(BOOLEAN), regs' = Append(regs, FALSE)
    PROVE  New'
<1>1. Len(regs) + 1 \in DOMAIN Append(regs, FALSE) /\ Append(regs, FALSE)[Len(regs) + 1] = FALSE
  OBVIOUS
<1> QED
  BY <1>1 DEF New

LEMMA ServedStep == TypeInv /\ Structure /\ Calls /\ Served /\ [Next]_vars => Served'
<1> SUFFICES ASSUME TypeInv, Structure, Calls, Served, [Next]_vars, Fine'
             PROVE  /\ mProviders' # <<>> => info'[mProviders'[1]].linked \/ (InterfaceLocked' /\ why' = "remove")
                    /\ registered' => \/ lpc' \in {"boot", "list"} \/ New' \/ mProviders' # <<>>
                                      \/ InterfaceLocked' /\ Up(cur)'
                    /\ registered' /\ Len(mProviders') = 1 /\ info'[mProviders'[1]].life # life' => New'
                    /\ registered' /\ InterfaceLocked' /\ why' # "remove" /\ info'[cur'].life # life' => New'
  BY DEF Served
<1>a. /\ mProviders # <<>> => info[mProviders[1]].linked \/ (InterfaceLocked /\ why = "remove")
      /\ registered => \/ lpc \in {"boot", "list"} \/ New \/ mProviders # <<>>
                       \/ InterfaceLocked /\ Up(cur)
      /\ registered /\ Len(mProviders) = 1 /\ info[mProviders[1]].life # life => New
      /\ registered /\ InterfaceLocked /\ why # "remove" /\ info[cur].life # life => New
  BY FineBefore DEF Served
<1>b. /\ info \in [Instances -> InfoType] /\ mProviders \in Seq(Instances) /\ life \in 0 .. MaxLives
      /\ (registered => alive) /\ n \in Nat /\ (InterfaceLocked => cur \in Instances) /\ regs \in Seq(BOOLEAN)
      /\ (mProviders # <<>> => mProviders[1] \in Instances)
  BY Constants1 DEF TypeInv, ManagerType, ProviderType
<1>1. CASE Start \/ Die
  <2>1. ~registered' /\ UNCHANGED <<info, mProviders, lpc, why>>
    BY <1>1 DEF Start, Die
  <2> QED
    BY <1>a, <2>1 DEF InterfaceLocked
<1>2. CASE Register
  <2>1. UNCHANGED <<info, mProviders, lpc, why, cur, life>> /\ regs' = IF subscribed THEN Append(regs, FALSE) ELSE regs
    BY <1>2 DEF Register
  <2>2. CASE subscribed
    BY <1>a, <1>b, <2>1, <2>2, NewAppended DEF InterfaceLocked
  <2>3. CASE ~subscribed
    <3>1. lpc = "boot" /\ mProviders = <<>>
      BY <2>3 DEF Structure, Places1
    <3>2. Len(mProviders) = 0
      BY <3>1
    <3> QED
      BY <2>1, <3>1, <3>2 DEF InterfaceLocked
  <2> QED
    BY <2>2, <2>3
<1>3. CASE SetCallback
  <2>1. /\ UNCHANGED <<info, mProviders, why, cur, life, alive, registered, regs>> /\ InterfaceLocked /\ InterfaceLocked'
        /\ lpc = "setCallback"
    BY <1>3 DEF SetCallback, InterfaceLocked
  <2>2. (New' <=> New) /\ (Up(cur)' <=> Up(cur))
    BY <2>1 DEF New, Up
  <2> QED
    BY <1>a, <2>1, <2>2
<1>4. CASE Initialized
  <2>1. /\ lpc = "finish" /\ cur \in Instances
        /\ info'[cur].life = info[cur].life /\ info'[cur].linked = info[cur].linked
        /\ \/ why = "remove" /\ lpc' = "idle" /\ UNCHANGED <<mProviders, n>>
           \/ why # "remove" /\ lpc' = "enumerate" /\ mProviders' = Append(mProviders, cur) /\ n' = cur
        /\ UNCHANGED <<life, alive, registered, regs, cur>>
    BY <1>4, FinishMoves
  <2>2. InterfaceLocked /\ ~InterfaceLocked' /\ info[cur].linked /\ (New' <=> New)
    BY <2>1 DEF InterfaceLocked, Structure, Linked, New
  <2>3. mProviders' # <<>> /\ mProviders'[1] = cur
    <3>1. CASE why = "remove"
      BY <2>1, <2>2, <3>1 DEF Structure, Places1
    <3>2. CASE why # "remove"
      <4>1. mProviders = <<>> /\ mProviders' = Append(mProviders, cur)
        BY <2>1, <2>2, <3>2 DEF Structure, Places1
      <4> QED
        BY <4>1
    <3> QED
      BY <3>1, <3>2
  <2>4. ASSUME registered', Len(mProviders') = 1, info'[cur].life # life' PROVE New'
    <3>1. CASE why = "remove"
      <4>1. mProviders' = mProviders
        BY <2>1, <3>1
      <4> QED
        BY <1>a, <2>1, <2>2, <2>3, <2>4, <4>1
    <3>2. CASE why # "remove"
      BY <1>a, <2>1, <2>2, <2>4, <3>2
    <3> QED
      BY <3>1, <3>2
  <2> QED
    BY <2>1, <2>2, <2>3, <2>4
<1>5. CASE Fails
  <2>1. /\ InterfaceLocked /\ ~Up(cur) /\ lpc' \in {"enumerate", "idle"} /\ ~InterfaceLocked' /\ lpc \notin {"boot", "list"}
        /\ UNCHANGED <<life, alive, registered, regs, cur, mProviders>> /\ (New' <=> New)
    BY <1>5 DEF Fails, GivenUp, InterfaceLocked, New
  <2>2. CASE why = "remove"
    <3>1. info' = info /\ info[cur].linked
      BY <1>5, <2>2 DEF Fails, Fine
    <3>2. mProviders # <<>> /\ cur = mProviders[1]
      BY <2>1, <2>2 DEF Structure, Places1
    <3> QED
      BY <1>a, <2>1, <3>1, <3>2
  <2>3. CASE why # "remove"
    <3>1. mProviders = <<>> /\ Len(mProviders) = 0
      BY <2>1, <2>3 DEF Structure, Places1
    <3> QED
      BY <1>a, <2>1, <3>1
  <2> QED
    BY <2>2, <2>3
<1>6. CASE Subscribe
  <2>1. lpc' = "list" /\ mProviders' = <<>>
    BY <1>6 DEF Subscribe, Structure, Places1
  <2>2. Len(mProviders') = 0
    BY <2>1
  <2> QED
    BY <2>1, <2>2 DEF InterfaceLocked
<1>7. CASE ListServices \/ OnRegistration
  <2>1. /\ UNCHANGED <<life, alive, registered>> /\ lpc \in {"list", "idle"} /\ ~InterfaceLocked
        /\ lpc = "list" => mProviders = <<>>
    BY <1>7 DEF ListServices, OnRegistration, Structure, Places1, InterfaceLocked
  <2>2. n + 1 \in Instances
    BY <1>7, Numbered DEF ListServices, OnRegistration
  <2>3. CASE Tries
    <3>1. mProviders' = <<>> /\ lpc' = "setCallback" /\ cur' = n + 1 /\ registered /\ info' = [info EXCEPT ![n + 1].life = life]
      BY <2>3 DEF Tries, Gets
    <3>2. info'[n + 1].life = life
      BY <1>b, <2>2, <3>1, InfoLife
    <3>3. Up(cur)' /\ Len(mProviders') = 0 /\ InterfaceLocked'
      BY <1>b, <2>1, <3>1, <3>2 DEF Up, InterfaceLocked
    <3> QED
      BY <2>1, <3>1, <3>2, <3>3
  <2>4. CASE NoService
    <3>1. mProviders' = <<>> /\ ~registered
      BY <2>4 DEF NoService
    <3> QED
      BY <2>1, <3>1
  <2>5. CASE Waits
    <3>1. mProviders # <<>> /\ mProviders' = Append(mProviders, n + 1) /\ lpc' = "enumerate" /\ UNCHANGED <<cur, info>>
      BY <2>5 DEF Waits
    <3>2. mProviders' # <<>> /\ mProviders'[1] = mProviders[1] /\ Len(mProviders') # 1
      <4>1. Len(mProviders) \in Nat \ {0} /\ 1 \in 1 .. Len(mProviders)
        BY <1>b, <3>1
      <4>2. Len(Append(mProviders, n + 1)) = Len(mProviders) + 1 /\ Append(mProviders, n + 1)[1] = mProviders[1]
        BY <1>b, <2>2, <4>1
      <4>3. Append(mProviders, n + 1) # <<>>
        BY <1>b, <4>1, <4>2
      <4> QED
        BY <3>1, <4>1, <4>2, <4>3
    <3> QED
      BY <1>a, <2>1, <3>1, <3>2 DEF InterfaceLocked
  <2>6. CASE OnRegistration /\ Head(regs) /\ Known
    <3>1. mProviders # <<>> /\ lpc' = "idle" /\ UNCHANGED <<mProviders, cur, info>>
      BY <2>6 DEF Known, Leaves, GivenUp, OnRegistration
    <3>2. New => New'
      BY <1>b, <2>6, NewKept DEF OnRegistration
    <3> QED
      BY <1>a, <2>1, <3>1, <3>2 DEF InterfaceLocked
  <2>7. CASE ListServices
    <3>1. Tries \/ NoService
      BY <2>1, <2>7, Adding DEF ListServices, Known, Waits
    <3> QED
      BY <2>3, <2>4, <3>1
  <2>8. CASE OnRegistration
    <3> DEFINE p == Head(regs)
    <3>1. AddProviderLocked(p)
      BY <2>8, Zenon DEF OnRegistration
    <3> HIDE DEF p
    <3>2. Tries \/ NoService \/ (p /\ Known) \/ (~p /\ Waits)
      BY <3>1, Adding, Zenon
    <3> QED
      BY <2>3, <2>4, <2>5, <2>6, <2>8, <3>2, Zenon DEF p
  <2> QED
    BY <1>7, <2>7, <2>8
<1>8. ASSUME NEW i \in Instances, RemoveProvider(i)
      PROVE  /\ mProviders' # <<>> => info'[mProviders'[1]].linked \/ (InterfaceLocked' /\ why' = "remove")
             /\ registered' => \/ lpc' \in {"boot", "list"} \/ New' \/ mProviders' # <<>>
                               \/ InterfaceLocked' /\ Up(cur)'
             /\ registered' /\ Len(mProviders') = 1 /\ info'[mProviders'[1]].life # life' => New'
             /\ registered' /\ InterfaceLocked' /\ why' # "remove" /\ info'[cur'].life # life' => New'
  <2>1. UNCHANGED <<life, alive, registered, regs>> /\ lpc = "idle" /\ (New' <=> New)
    BY <1>8, Removal DEF New
  <2>2. CASE UNCHANGED <<mProviders, info, thread>>
    BY <1>a, <2>1, <2>2 DEF InterfaceLocked
  <2>3. CASE Removes(i)
    <3>1. ~Up(i) /\ (Sole(i) \/ (Successor(i) /\ Gets(mProviders[2])))
      BY <1>8, <2>3, AfterRemoval
    <3>2. mProviders # <<>> /\ mProviders[1] = i /\ mProviders' = Tail(mProviders) /\ why' = "remove"
      BY <2>3 DEF Removes
    <3>3. CASE Sole(i)
      <4>1. mProviders' = <<>> /\ lpc' = "absent" /\ Len(mProviders) = 1 /\ Len(mProviders') = 0
        BY <1>b, <3>2, <3>3, First DEF Sole
      <4>2. registered => New
        BY <1>a, <1>b, <3>1, <3>2, <4>1 DEF Up
      <4> QED
        BY <2>1, <4>1, <4>2 DEF InterfaceLocked
    <3>4. CASE Successor(i) /\ Gets(mProviders[2])
      <4>1. /\ InterfaceLocked' /\ info' = [info EXCEPT ![mProviders[2]].life = life]
            /\ mProviders' # <<>>
        BY <3>2, <3>4 DEF Gets, InterfaceLocked, Successor
      <4>2. mProviders[2] \in Instances /\ mProviders'[1] = mProviders[2]
        BY <3>2, <3>4, Second DEF Successor
      <4>3. info'[mProviders'[1]].life = life
        <5> DEFINE s == mProviders[2]
        <5>1. s \in Instances /\ info' = [info EXCEPT ![s].life = life]
          BY <4>1, <4>2
        <5> HIDE DEF s
        <5>2. info'[s].life = life
          BY <1>b, <5>1, InfoLife
        <5> QED
          BY <4>2, <5>2 DEF s
      <4> QED
        BY <2>1, <3>2, <4>1, <4>3
    <3> QED
      BY <3>1, <3>3, <3>4
  <2> QED
    BY <1>8, <2>2, <2>3, Removal
<1>9. CASE Quiet
  <2>1. /\ UNCHANGED <<life, alive, registered, cur, mProviders, regs>> /\ (InterfaceLocked' <=> InterfaceLocked)
        /\ (lpc' \in {"boot", "list"} <=> lpc \in {"boot", "list"}) /\ (InterfaceLocked => why' = why)
        /\ VisitCamera \/ (\E l \in Lives : StatusChange(l)) \/ LinkToDeath \/ UNCHANGED <<info, mProviders>>
    BY <1>9 DEF Quiet
  <2>2. ~Fails
    BY <2>1 DEF Fails, GivenUp, InterfaceLocked
  <2>3. \A i \in Instances : info'[i].life = info[i].life /\ (info[i].linked => info'[i].linked)
    BY <2>1, <2>2, MinorMoves
  <2>4. New' <=> New
    BY <2>1 DEF New
  <2>5. InterfaceLocked /\ Up(cur) => Up(cur)'
    BY <1>b, <2>1, <2>3 DEF Up
  <2> QED
    BY <1>a, <1>b, <2>1, <2>3, <2>4, <2>5
<1> QED
  BY <1>1, <1>2, <1>3, <1>4, <1>5, <1>6, <1>7, <1>8, <1>9, QuietSteps

-----------------------------------------------------------------------------
(* The cameras of the table get to the instance.                           *)

\* No instance that the manager has gains or loses anything.
LEMMA OwnedKept ==
    ASSUME NEW c, Owned(c), UNCHANGED <<life, alive>>, life \in Lives => call'[life] = call[life], alive => life \in Lives,
           \A i \in Instances : InManager(i)' /\ info'[i].mInitialized =>
               /\ InManager(i) /\ info[i].mInitialized /\ info'[i].life = info[i].life
               /\ info[i].mDevices \subseteq info'[i].mDevices
    PROVE  Owned(c)'
<1> SUFFICES ASSUME NEW i \in Instances, InManager(i)', Up(i)', info'[i].mInitialized
             PROVE  c \in info'[i].mDevices \/ call'[life] = [i |-> i, c |-> c]
  BY DEF Owned
<1>1. InManager(i) /\ info[i].mInitialized /\ info'[i].life = info[i].life /\ info[i].mDevices \subseteq info'[i].mDevices
  OBVIOUS
<1>2. Up(i) /\ alive
  BY <1>1 DEF Up
<1>3. c \in info[i].mDevices \/ call[life] = [i |-> i, c |-> c]
  BY <1>1, <1>2 DEF Owned
<1> QED
  BY <1>1, <1>2, <1>3

LEMMA NotCalled == ASSUME NEW i \in Instances, NEW c PROVE NoCall # [i |-> i, c |-> c]
<1>1. NoCall.i = 0 /\ [i |-> i, c |-> c].i = i /\ i # 0
  BY Constants1 DEF NoCall, Instances
<1> QED
  BY <1>1

LEMMA CachedAdded ==
    ASSUME TypeInv, Structure, Calls, Caller, Cached, Fine', Fine, DeviceAdded, NEW c \in mCameraStatusMap'
    PROVE  Noted(c)' /\ Owned(c)'
<1>1. /\ alive /\ ~calling /\ life \in Lives /\ hot \in Cameras /\ mCameraStatusMap' = mCameraStatusMap \cup {hot}
      /\ UNCHANGED <<life, alive, mCallbacks, info, mProviders, lpc, cur>>
      /\ (walk \subseteq walk' \/ "torn" \in flaws')
      /\ (mCallbacks # 0 => call'[life] = [i |-> mCallbacks, c |-> hot])
      /\ (mCallbacks = 0 => call' = call)
  <2>1. 0 \notin Instances
    BY Constants1 DEF Instances
  <2> QED
    BY <2>1, DeviceMoves
<1>2. walk \subseteq walk'
  BY <1>1 DEF Fine
<1>3. call[life] = NoCall
  BY <1>1 DEF Calls
<1>4. /\ \A i \in Instances : Up(i) /\ InManager(i) /\ info[i].mInitialized => mCallbacks = i
      /\ lpc \in {"walk", "link", "finish"} /\ Up(cur) => mCallbacks = cur
  BY DEF Caller
<1>5. c \in mCameraStatusMap => Noted(c) /\ Owned(c)
  BY <1>1 DEF Cached
<1>6. c \in mCameraStatusMap \/ c = hot
  BY <1>1
<1>7. lpc \in {"walk", "link", "finish"} => cur \in Instances
  BY DEF TypeInv, ManagerType, InterfaceLocked
<1>8. Noted(c)'
  <2> SUFFICES ASSUME lpc \in {"walk", "link", "finish"}, Up(cur)
               PROVE  c \in info'[cur'].mCachedStatus \/ call'[life'] = [i |-> cur', c |-> c] \/ (lpc' = "walk" /\ c \in walk')
    BY <1>1 DEF Noted, Up
  <2>1. mCallbacks = cur /\ cur \in Instances /\ cur # 0
    BY <1>4, <1>7, Constants1 DEF Instances
  <2>2. CASE c = hot
    BY <1>1, <2>1, <2>2
  <2>3. CASE c \in mCameraStatusMap
    <3>1. c \in info[cur].mCachedStatus \/ call[life] = [i |-> cur, c |-> c] \/ (lpc = "walk" /\ c \in walk)
      BY <1>5, <2>3 DEF Noted
    <3>2. call[life] # [i |-> cur, c |-> c]
      BY <1>3, <2>1, NotCalled
    <3> QED
      BY <1>1, <1>2, <3>1, <3>2
  <2> QED
    BY <1>6, <2>2, <2>3
<1>9. Owned(c)'
  <2> SUFFICES ASSUME NEW i \in Instances, InManager(i), Up(i), info[i].mInitialized
               PROVE  c \in info'[i].mDevices \/ call'[life'] = [i |-> i, c |-> c]
    BY <1>1 DEF Owned, Up, InManager
  <2>1. mCallbacks = i /\ i # 0
    BY <1>4, Constants1 DEF Instances
  <2>2. CASE c = hot
    BY <1>1, <2>1, <2>2
  <2>3. CASE c \in mCameraStatusMap
    <3>1. c \in info[i].mDevices \/ call[life] = [i |-> i, c |-> c]
      BY <1>5, <2>3 DEF Owned
    <3>2. call[life] # [i |-> i, c |-> c]
      BY <1>3, <2>1, NotCalled
    <3> QED
      BY <1>1, <3>1, <3>2
  <2> QED
    BY <1>6, <2>2, <2>3
<1> QED
  BY <1>8, <1>9

LEMMA CachedHandled ==
    ASSUME TypeInv, Structure, Calls, Equipped, Cached, Fine, alive, NEW l \in Lives, StatusChange(l), NEW c \in mCameraStatusMap'
    PROVE  Noted(c)' /\ Owned(c)'
<1>1. /\ UNCHANGED <<life, alive, mCallbacks, mCameraStatusMap, walk, mProviders, lpc, cur>>
      /\ call[l].i \in Instances /\ call[l].c \in Cameras
      /\ call'[l] = NoCall /\ (\A m \in Lives : m # l => call'[m] = call[m])
      /\ Caches(l) \/ Learns(l) \/ Refuses(l)
  BY StatusMoves
<1>2. /\ \A i : InManager(i)' <=> InManager(i)
      /\ \A i \in Instances :
            /\ info'[i].life = info[i].life /\ info'[i].mInitialized = info[i].mInitialized
            /\ info[i].mDevices \subseteq info'[i].mDevices
  BY MinorMoves
<1>3. \A i \in Instances : info[i].mCachedStatus \subseteq info'[i].mCachedStatus
  <2>1. ~Fails
    BY <1>1 DEF Fails, GivenUp, InterfaceLocked
  <2> QED
    BY <2>1, MinorMoves
<1>4. Noted(c) /\ Owned(c) /\ life \in Lives
  BY <1>1, Constants1 DEF Cached, TypeInv, ProviderType, Lives
<1>5. lpc \in {"walk", "link", "finish"} => cur \in Instances /\ ~info[cur].mInitialized
  BY DEF TypeInv, ManagerType, InterfaceLocked, Structure, Unused
<1>6. info \in [Instances -> InfoType]
  BY DEF TypeInv, ManagerType
<1>7. Noted(c)'
  <2> SUFFICES ASSUME lpc \in {"walk", "link", "finish"}, Up(cur), c \notin info[cur].mCachedStatus, ~(lpc = "walk" /\ c \in walk)
               PROVE  c \in info'[cur].mCachedStatus \/ call'[life] = [i |-> cur, c |-> c]
    BY <1>1, <1>2, <1>3, <1>5 DEF Noted, Up
  <2>1. call[life] = [i |-> cur, c |-> c]
    BY <1>4 DEF Noted
  <2>2. CASE l # life
    BY <1>1, <1>4, <2>1, <2>2
  <2>3. CASE l = life
    <3>1. call[l].i = cur /\ call[l].c = c
      BY <2>1, <2>3
    <3>2. Caches(l)
      BY <1>1, <1>5, <3>1 DEF Learns, Refuses
    <3>3. info' = [info EXCEPT ![cur].mCachedStatus = @ \cup {c}] /\ c \in Cameras
      BY <1>1, <3>1, <3>2 DEF Caches
    <3> QED
      BY <1>5, <1>6, <3>3, InfoCached
  <2> QED
    BY <2>2, <2>3
<1>8. Owned(c)'
  <2> SUFFICES ASSUME NEW i \in Instances, InManager(i), Up(i), info[i].mInitialized, c \notin info[i].mDevices
               PROVE  c \in info'[i].mDevices \/ call'[life] = [i |-> i, c |-> c]
    BY <1>1, <1>2 DEF Owned, Up
  <2>1. call[life] = [i |-> i, c |-> c]
    BY <1>4 DEF Owned
  <2>2. CASE l # life
    BY <1>1, <1>4, <2>1, <2>2
  <2>3. CASE l = life
    <3>1. call[l].i = i /\ call[l].c = c
      BY <2>1, <2>3
    <3>2. ~Caches(l)
      BY <3>1 DEF Caches
    <3>3. CASE Learns(l)
      <4>1. info' = [info EXCEPT ![i].mDevices = @ \cup {c}] /\ c \in Cameras
        BY <1>1, <3>1, <3>3 DEF Learns
      <4> QED
        BY <1>6, <4>1, InfoDevice
    <3>4. CASE Refuses(l)
      <4>1. ~CanAdd(i, c)
        BY <3>1, <3>4 DEF Refuses
      <4>2. c \in KnownDevices
        BY <1>1, <4>1 DEF CanAdd
      <4>3. PICK j \in Instances : InManager(j) /\ c \in info[j].mDevices
        BY <4>2 DEF KnownDevices
      <4>4. info[j].mInitialized
        BY <4>3 DEF Equipped
      <4>5. j = mProviders[1] /\ i = mProviders[1]
        BY <4>3, <4>4, OnlyFirst DEF Structure, Pristine
      <4> QED
        BY <4>3, <4>5
    <3> QED
      BY <1>1, <3>2, <3>3, <3>4
  <2> QED
    BY <2>2, <2>3
<1> QED
  BY <1>7, <1>8

LEMMA CachedReady ==
    ASSUME TypeInv, Structure, Equipped, Cached, Fine, alive, Initialized, NEW c \in mCameraStatusMap'
    PROVE  Noted(c)' /\ Owned(c)'
<1> DEFINE added == {d \in info[cur].mCachedStatus : CanAdd(cur, d)}
<1>1. /\ lpc = "finish" /\ cur \in Instances /\ (\A j \in Instances : j # cur => info'[j] = info[j])
      /\ info'[cur].life = info[cur].life /\ info'[cur].mDevices = added
      /\ \/ why = "remove" /\ lpc' = "idle" /\ UNCHANGED <<mProviders, n>>
         \/ why # "remove" /\ lpc' = "enumerate" /\ mProviders' = Append(mProviders, cur) /\ n' = cur
      /\ UNCHANGED <<life, alive, mCameraStatusMap, cur, call>>
  BY FinishMoves
<1>2. Noted(c)'
  BY <1>1 DEF Noted
<1>3. InterfaceLocked
  BY <1>1 DEF InterfaceLocked
<1>4. c \notin KnownDevices
  BY <1>3, LockedAlone DEF KnownDevices, Equipped
<1>5. Noted(c)
  BY <1>1 DEF Cached
<1>6. \A j : InManager(j)' => InManager(j) \/ j = cur
  BY <1>1, ManagerAppend DEF TypeInv, ManagerType, InManager
<1>7. Owned(c)'
  <2> SUFFICES ASSUME NEW i \in Instances, InManager(i)', Up(i)', info'[i].mInitialized
               PROVE  c \in info'[i].mDevices \/ call'[life'] = [i |-> i, c |-> c]
    BY DEF Owned
  <2>1. i = cur
    <3> SUFFICES ASSUME i # cur PROVE FALSE
      OBVIOUS
    <3>1. InManager(i) /\ info[i].mInitialized
      BY <1>1, <1>6
    <3> QED
      BY <1>3, <3>1, LockedAlone
  <2>2. Up(cur)
    BY <1>1, <2>1 DEF Up
  <2>3. c \in info[cur].mCachedStatus \/ call[life] = [i |-> cur, c |-> c]
    BY <1>1, <1>5, <2>2 DEF Noted
  <2>4. c \in info[cur].mCachedStatus => c \in added
    BY <1>1, <1>4, <2>2 DEF CanAdd
  <2> QED
    BY <1>1, <2>1, <2>3, <2>4
<1> QED
  BY <1>2, <1>7

LEMMA CachedStep == TypeInv /\ Structure /\ Calls /\ Caller /\ Equipped /\ Cached /\ [Next]_vars => Cached'
<1> SUFFICES ASSUME TypeInv, Structure, Calls, Caller, Equipped, Cached, [Next]_vars, Fine', alive', NEW c \in mCameraStatusMap'
             PROVE  Noted(c)' /\ Owned(c)'
  BY DEF Cached
<1>a. Fine
  BY FineBefore
<1>b. /\ info \in [Instances -> InfoType] /\ mProviders \in Seq(Instances) /\ n \in Nat /\ (alive => life \in Lives)
      /\ (InterfaceLocked => cur \in Instances)
  BY Constants1 DEF TypeInv, ManagerType, ProviderType, Lives
<1>c. ASSUME alive, c \in mCameraStatusMap PROVE Noted(c) /\ Owned(c)
  BY <1>a, <1>c DEF Cached
<1>1. CASE Start \/ Die
  BY <1>1 DEF Start, Die
<1>2. CASE DeviceAdded
  BY <1>2, <1>a, CachedAdded
<1>3. ASSUME NEW l \in Lives, StatusChange(l) PROVE Noted(c)' /\ Owned(c)'
  <2>1. alive
    BY <1>3 DEF StatusChange
  <2> QED
    BY <1>3, <1>a, <2>1, CachedHandled
<1>4. CASE SetCallback
  <2>1. walk' = mCameraStatusMap /\ lpc' = "walk" /\ InterfaceLocked /\ UNCHANGED <<info, mProviders, mCameraStatusMap>>
    BY <1>4 DEF SetCallback, InterfaceLocked
  <2>2. Noted(c)'
    BY <2>1 DEF Noted
  <2>3. \A i \in Instances : ~(InManager(i)' /\ info'[i].mInitialized)
    BY <2>1, LockedAlone DEF InManager
  <2> QED
    BY <2>2, <2>3 DEF Owned
<1>5. CASE VisitCamera
  <2>1. PICK d \in walk : walk' = walk \ {d} /\ info' = [info EXCEPT ![cur].mCachedStatus = @ \cup {d}]
    BY <1>5 DEF VisitCamera
  <2>2. /\ lpc = "walk" /\ Up(cur) /\ InterfaceLocked /\ alive /\ d \in Cameras /\ cur \in Instances
        /\ UNCHANGED <<life, alive, mProviders, mCameraStatusMap, lpc, cur, call>>
    BY <1>5, <1>b, <2>1 DEF VisitCamera, InterfaceLocked, Up, TypeInv, ProviderType
  <2>3. /\ \A j \in Instances : j # cur => info'[j] = info[j]
        /\ info'[cur] = [life |-> info[cur].life, mInitialized |-> info[cur].mInitialized,
                         mCachedStatus |-> info[cur].mCachedStatus \cup {d},
                         mDevices |-> info[cur].mDevices, linked |-> info[cur].linked]
    BY <1>b, <2>1, <2>2, InfoCached
  <2>4. Noted(c) /\ Owned(c)
    BY <1>c, <2>2
  <2>5. Noted(c)'
    <3>1. c \in info[cur].mCachedStatus \/ call[life] = [i |-> cur, c |-> c] \/ c \in walk
      BY <2>2, <2>4 DEF Noted
    <3>2. c \in info'[cur].mCachedStatus \/ call[life] = [i |-> cur, c |-> c] \/ c \in walk'
      BY <2>1, <2>3, <3>1
    <3> QED
      BY <2>2, <3>2 DEF Noted
  <2>6. \A i \in Instances : InManager(i)' => InManager(i)
    BY <2>2 DEF InManager
  <2>7. \A i \in Instances : info'[i].mInitialized = info[i].mInitialized /\ info'[i].life = info[i].life
                             /\ info'[i].mDevices = info[i].mDevices
    BY <2>3
  <2>8. Owned(c)'
    BY <1>b, <2>2, <2>4, <2>6, <2>7, OwnedKept
  <2> QED
    BY <2>5, <2>8
<1>6. CASE Initialized
  BY <1>6, <1>a, CachedReady DEF Initialized
<1>7. CASE Fails
  <2>1. InterfaceLocked /\ lpc' \in {"enumerate", "idle"}
    BY <1>7 DEF Fails, GivenUp
  <2>2. \A i \in Instances : ~(InManager(i)' /\ info'[i].mInitialized)
    BY <1>7, <2>1, MinorMoves, LockedAlone
  <2> QED
    BY <2>1, <2>2 DEF Noted, Owned
<1>8. CASE Subscribe \/ ListServices \/ OnRegistration
  <2>1. UNCHANGED <<life, alive, mCameraStatusMap, call>> /\ lpc' \notin {"walk", "link", "finish"}
    <3>1. CASE Subscribe
      BY <3>1 DEF Subscribe
    <3>2. CASE ListServices \/ OnRegistration
      BY <3>2 DEF ListServices, OnRegistration, AddProviderLocked, TryGetService, GivenUp
    <3> QED
      BY <1>8, <3>1, <3>2
  <2>2. Noted(c)'
    BY <2>1 DEF Noted
  <2>3. Owned(c)
    BY <1>c, <2>1
  <2>4. CASE UNCHANGED <<info, mProviders>>
    BY <1>b, <2>1, <2>2, <2>3, <2>4, OwnedKept DEF InManager
  <2>5. CASE Tries
    <3>1. \A i : ~InManager(i)'
      BY <2>5 DEF Tries, InManager
    <3> QED
      BY <2>2, <3>1 DEF Owned
  <2>6. CASE Waits
    <3>1. mProviders # <<>> /\ mProviders' = Append(mProviders, n + 1) /\ info' = info
      BY <2>6 DEF Waits
    <3>2. \A j : InManager(j)' <=> InManager(j) \/ j = n + 1
      BY <1>b, <3>1, ManagerAppend
    <3>3. \A j \in Instances : j = n + 1 => ~info[j].mInitialized
      BY <1>b, <3>1 DEF Structure, Unused, Pristine
    <3>4. Owned(c)'
      BY <1>b, <2>1, <2>3, <3>1, <3>2, <3>3, OwnedKept
    <3> QED
      BY <2>2, <3>4
  <2> QED
    BY <1>8, <2>4, <2>5, <2>6, Adding DEF Subscribe, ListServices, OnRegistration, NoService, Known, Leaves
<1>9. ASSUME NEW i \in Instances, RemoveProvider(i) PROVE Noted(c)' /\ Owned(c)'
  <2>1. UNCHANGED <<life, alive, call, mCameraStatusMap>> /\ lpc = "idle"
    BY <1>9, Removal
  <2>2. CASE UNCHANGED <<mProviders, info, thread>>
    <3>1. Noted(c)'
      BY <2>1, <2>2 DEF Noted
    <3>2. Owned(c)
      BY <1>c, <2>1
    <3> QED
      BY <1>b, <2>1, <2>2, <3>1, <3>2, OwnedKept DEF InManager
  <2>3. CASE Removes(i)
    <3>1. /\ (Sole(i) \/ (Successor(i) /\ Gets(mProviders[2])))
          /\ \A j \in Instances : InManager(j)' => Pristine(j)
      BY <1>9, <2>3, AfterRemoval
    <3>2. \A j \in Instances : InManager(j)' => ~info'[j].mInitialized
      BY <1>9, <3>1, RemovalKeeps DEF Pristine
    <3>3. lpc' \in {"absent", "setCallback"}
      BY <3>1 DEF Sole, Gets
    <3> QED
      BY <3>2, <3>3 DEF Noted, Owned
  <2> QED
    BY <1>9, <2>2, <2>3, Removal
<1>10. CASE ~(\/ Start \/ Die \/ DeviceAdded \/ SetCallback \/ VisitCamera \/ Initialized \/ Fails \/ Subscribe \/ ListServices
              \/ OnRegistration \/ (\E i \in Instances : RemoveProvider(i)) \/ \E l \in Lives : StatusChange(l))
  <2>1. /\ UNCHANGED <<life, alive, mCameraStatusMap, walk, call, cur, mProviders>>
        /\ lpc' \in {"walk", "link", "finish"} => lpc \in {"walk", "link", "finish"}
        /\ lpc = "walk" => lpc' = "walk" \/ walk = {}
        /\ LinkToDeath \/ UNCHANGED <<info, mProviders>>
    BY <1>10 DEF Next, HotPlug, LifecycleThread, Reports, RunStep, ConnectSteps, Rescan, CallbackReturns, Register,
       QueryCost, InsertState, UpdateStatus, NotifyInitial, SetCallbackReturns,
       LinkToDeath, EnumerateProviders, ReportPresent, ReportAbsent, Evict, RemoveStates,
       Connect, OpenSession, FinishConnect, Disconnect
  <2>2. ~Fails
    BY <1>10
  <2>3. /\ \A i : InManager(i)' <=> InManager(i)
        /\ \A i \in Instances :
              /\ info'[i].life = info[i].life /\ info'[i].mInitialized = info[i].mInitialized
              /\ info[i].mCachedStatus \subseteq info'[i].mCachedStatus /\ info[i].mDevices \subseteq info'[i].mDevices
    BY <2>1, <2>2, MinorMoves
  <2>4. Noted(c) /\ Owned(c)
    BY <1>c, <2>1
  <2>5. Owned(c)'
    BY <1>b, <2>1, <2>3, <2>4, OwnedKept
  <2>6. Noted(c)'
    <3> SUFFICES ASSUME lpc' \in {"walk", "link", "finish"}, Up(cur)'
                 PROVE  c \in info'[cur].mCachedStatus \/ call[life] = [i |-> cur, c |-> c] \/ (lpc' = "walk" /\ c \in walk)
      BY <2>1 DEF Noted
    <3>1. lpc \in {"walk", "link", "finish"} /\ cur \in Instances
      BY <1>b, <2>1 DEF InterfaceLocked
    <3>2. Up(cur)
      BY <2>1, <2>3, <3>1 DEF Up
    <3>3. c \in info[cur].mCachedStatus \/ call[life] = [i |-> cur, c |-> c] \/ (lpc = "walk" /\ c \in walk)
      BY <2>4, <3>1, <3>2 DEF Noted
    <3> QED
      BY <2>1, <2>3, <3>1, <3>3
  <2> QED
    BY <2>5, <2>6
<1> QED
  BY <1>1, <1>2, <1>3, <1>4, <1>5, <1>6, <1>7, <1>8, <1>9, <1>10

-----------------------------------------------------------------------------
(* The cameras of an instance get to the service.                          *)

LEMMA ReportBegins ==
    ASSUME NEW e \in Runners, NEW c \in Cameras, mCameraStates \in [Cameras -> Statuses], Begins(e, c)
    PROVE  Good(c)' \/ Underway(c)'
<1>1. mCameraStates'[c] = mCameraStates[c]
  BY DEF Begins, SameStates
<1> QED
  BY <1>1 DEF Begins, Good, Underway

\* A camera that the manager knows stays reported, or is still being reported.
LEMMA ReportStep ==
    ASSUME TypeInv, Structure, Calls, [Next]_vars, NEW i \in Instances, InManager(i), NEW c \in info[i].mDevices,
           Good(c) \/ Underway(c)
    PROVE  Good(c)' \/ Underway(c)'
<1>a. c \in Cameras /\ mCameraStates \in [Cameras -> Statuses]
  BY DEF TypeInv, ManagerType, InfoType, ServiceType
<1>b. c \in KnownDevices
  BY DEF KnownDevices
<1>c. mProviders # <<>>
  BY DEF InManager
<1>1. CASE Stays
  <2>1. exec' = exec /\ (mCameraStates'[c] = mCameraStates[c] \/ Good(c)')
    BY <1>1, <1>a DEF Stays
  <2> QED
    BY <2>1 DEF Good, Underway
<1>2. ASSUME NEW e \in Runners, NEW d \in Cameras, Begins(e, d) PROVE Good(c)' \/ Underway(c)'
  <2>1. exec[e].pc = "idle" /\ (\A g \in Runners : g # e => exec'[g] = exec[g]) /\ mCameraStates'[c] = mCameraStates[c]
    BY <1>2, <1>a DEF Begins, Others, SameStates
  <2> QED
    BY <2>1 DEF Good, Underway
<1>3. ASSUME NEW e \in Runners, Queries(e) PROVE Good(c)' \/ Underway(c)'
  <2>1. /\ exec[e].pc = "query" /\ (\A g \in Runners : g # e => exec'[g] = exec[g]) /\ mCameraStates'[c] = mCameraStates[c]
        /\ exec'[e].id = exec[e].id /\ (exec[e].id = c => exec'[e].pc = "insert")
    BY <1>3, <1>a, <1>b DEF Queries, Others, SameStates
  <2> QED
    BY <2>1 DEF Good, Underway
<1>4. ASSUME NEW e \in Runners, Inserts(e) PROVE Good(c)' \/ Underway(c)'
  <2>1. /\ exec[e].pc = "insert" /\ (\A g \in Runners : g # e => exec'[g] = exec[g])
        /\ exec'[e].id = exec[e].id /\ exec'[e].pc = "update"
        /\ (exec[e].id # c => mCameraStates'[c] = mCameraStates[c])
        /\ (exec[e].id = c => mCameraStates'[c] = IF mCameraStates[c] = "none" THEN "NOT_PRESENT" ELSE mCameraStates[c])
    BY <1>4, <1>a DEF Inserts, Others, SameButFor
  <2> QED
    BY <2>1 DEF Good, Underway
<1>5. ASSUME NEW e \in Runners, Updates(e) PROVE Good(c)' \/ Underway(c)'
  <2>1. /\ exec[e].pc = "update" /\ (\A g \in Runners : g # e => exec'[g] = exec[g])
        /\ (exec[e].id # c => mCameraStates'[c] = mCameraStates[c])
        /\ (exec[e].id = c => mCameraStates'[c] = IF mCameraStates[c] = "none" THEN "none" ELSE "PRESENT")
    BY <1>5, <1>a DEF Updates, Others, SameButFor
  <2> QED
    BY <2>1 DEF Good, Underway
<1>6. ~ReportAbsent /\ ~Evict /\ ~RemoveStates
  BY <1>c, RunnerNames DEF ReportAbsent, Evict, RemoveStates, Structure, Places1, Runs1
<1> QED
  BY <1>1, <1>2, <1>3, <1>4, <1>5, <1>6, RunCases

\* The steps that give no instance a camera.
LEMMA DevicesKept ==
    ASSUME TypeInv, Structure, [Next]_vars,
           ~(Initialized \/ ListServices \/ OnRegistration \/ (\E l \in Lives : StatusChange(l))),
           NEW i \in Instances, InManager(i)'
    PROVE  InManager(i) /\ info'[i].mDevices = info[i].mDevices
<1>a. info \in [Instances -> InfoType] /\ (InterfaceLocked => cur \in Instances)
  BY DEF TypeInv, ManagerType
<1>1. CASE VisitCamera
  <2>1. PICK c \in walk : info' = [info EXCEPT ![cur].mCachedStatus = @ \cup {c}]
    BY <1>1 DEF VisitCamera
  <2>2. c \in Cameras /\ cur \in Instances /\ mProviders' = mProviders
    BY <1>1, <1>a, <2>1 DEF VisitCamera, TypeInv, ProviderType, InterfaceLocked
  <2>3. info'[i].mDevices = info[i].mDevices
    BY <1>a, <2>1, <2>2, InfoCached
  <2> QED
    BY <2>2, <2>3 DEF InManager
<1>2. CASE LinkToDeath
  <2>1. cur \in Instances /\ mProviders' = mProviders /\ info' = [info EXCEPT ![cur].linked = TRUE]
    BY <1>2, <1>a DEF LinkToDeath, InterfaceLocked
  <2>2. info'[i].mDevices = info[i].mDevices
    BY <1>a, <2>1, InfoLink
  <2> QED
    BY <2>1, <2>2 DEF InManager
<1>3. CASE Fails
  <2>1. mProviders' = mProviders /\ cur \in Instances
        /\ (info' = info \/ info' = [info EXCEPT ![cur].linked = FALSE, ![cur].mCachedStatus = {}])
    BY <1>3, <1>a DEF Fails
  <2>2. info'[i].mDevices = info[i].mDevices
    <3>1. CASE info' = info
      BY <3>1
    <3>2. CASE info' = [info EXCEPT ![cur].linked = FALSE, ![cur].mCachedStatus = {}]
      <4>1. /\ \A j \in Instances : j # cur => info'[j] = info[j]
            /\ info'[cur] = [life |-> info[cur].life, mInitialized |-> info[cur].mInitialized,
                             mCachedStatus |-> {}, mDevices |-> info[cur].mDevices, linked |-> FALSE]
        BY <1>a, <2>1, <3>2, InfoDropped
      <4> QED
        BY <4>1
    <3> QED
      BY <2>1, <3>1, <3>2
  <2> QED
    BY <2>1, <2>2 DEF InManager
<1>4. ASSUME NEW j \in Instances, RemoveProvider(j) PROVE InManager(i) /\ info'[i].mDevices = info[i].mDevices
  <2>1. info'[i].mDevices = info[i].mDevices
    BY <1>4, RemovalKeeps
  <2>2. UNCHANGED mProviders \/ Removes(j)
    BY <1>4, Removal
  <2>3. CASE UNCHANGED mProviders
    BY <2>1, <2>3 DEF InManager
  <2>4. CASE Removes(j)
    BY <2>1, <2>4, ManagerTail DEF Removes, Structure
  <2> QED
    BY <2>2, <2>3, <2>4
<1>5. CASE ~(VisitCamera \/ LinkToDeath \/ Fails \/ \E j \in Instances : RemoveProvider(j))
  <2>1. UNCHANGED <<info, mProviders>>
    BY <1>5 DEF Next, HotPlug, LifecycleThread, Reports, RunStep, ConnectSteps, Rescan, CallbackReturns, Register, Start, Die,
       DeviceAdded, Subscribe, SetCallback, QueryCost, InsertState, UpdateStatus, NotifyInitial, SetCallbackReturns,
       EnumerateProviders, ReportPresent, ReportAbsent, Evict, RemoveStates,
       Connect, OpenSession, FinishConnect, Disconnect
  <2> QED
    BY <2>1 DEF InManager
<1> QED
  BY <1>1, <1>2, <1>3, <1>4, <1>5

LEMMA ReportedStep == TypeInv /\ Structure /\ Calls /\ Reported /\ [Next]_vars => Reported'
<1> SUFFICES ASSUME TypeInv, Structure, Calls, Reported, [Next]_vars,
                    NEW i \in Instances, InManager(i)', NEW c \in info'[i].mDevices
             PROVE  Good(c)' \/ c \in initial'[i] \/ Underway(c)'
  BY DEF Reported
<1>a. /\ info \in [Instances -> InfoType] /\ mProviders \in Seq(Instances) /\ n \in Nat
      /\ mCameraStates \in [Cameras -> Statuses]
  BY Constants1 DEF TypeInv, ManagerType, ServiceType
<1>b. ASSUME InManager(i), c \in info[i].mDevices, c \in initial[i] => c \in initial'[i]
      PROVE  Good(c)' \/ c \in initial'[i] \/ Underway(c)'
  <2>1. Good(c) \/ c \in initial[i] \/ Underway(c)
    BY <1>b DEF Reported
  <2> QED
    BY <1>b, <2>1, ReportStep
<1>1. ASSUME NEW l \in Lives, StatusChange(l) PROVE Good(c)' \/ c \in initial'[i] \/ Underway(c)'
  <2>1. /\ UNCHANGED <<mProviders, initial, mCameraStates>> /\ call[l].i \in Instances /\ call[l].c \in Cameras
        /\ call[l] # NoCall
        /\ Caches(l) \/ Learns(l) \/ Refuses(l)
    BY <1>1, StatusMoves
  <2>2. InManager(i)
    BY <2>1 DEF InManager
  <2>3. CASE c \in info[i].mDevices
    BY <1>b, <2>1, <2>2, <2>3
  <2>4. CASE c \notin info[i].mDevices
    <3>1. Learns(l) /\ c = call[l].c
      <4> DEFINE j == call[l].i
                 d == call[l].c
      <4>0. j \in Instances /\ d \in Cameras
        BY <2>1
      <4>1. CASE Caches(l)
        <5>1. info' = [info EXCEPT ![j].mCachedStatus = @ \cup {d}]
          BY <4>1 DEF Caches
        <5> HIDE DEF j, d
        <5>2. info'[i].mDevices = info[i].mDevices
          BY <1>a, <4>0, <5>1, InfoCached
        <5> QED
          BY <2>4, <5>2
      <4>2. CASE Learns(l)
        <5>1. info' = [info EXCEPT ![j].mDevices = @ \cup {d}]
          BY <4>2 DEF Learns
        <5> HIDE DEF j, d
        <5>2. info'[i].mDevices \subseteq info[i].mDevices \cup {d}
          BY <1>a, <4>0, <5>1, InfoDevice
        <5>3. c = d
          BY <2>4, <5>2
        <5> QED
          BY <4>2, <5>3 DEF d
      <4>3. CASE Refuses(l)
        BY <2>4, <4>3 DEF Refuses
      <4> QED
        BY <2>1, <4>1, <4>2, <4>3
    <3>2. exec[<<"callback", l>>] = Idle /\ <<"callback", l>> \in Runners
      BY <2>1, RunnerNames DEF Calls
    <3>3. Begins(<<"callback", l>>, call[l].c)
      BY <2>1, <3>1, <3>2, PresentBegins DEF Learns
    <3> QED
      BY <1>a, <2>1, <3>1, <3>2, <3>3, ReportBegins
  <2> QED
    BY <2>3, <2>4
<1>2. CASE Initialized
  <2> DEFINE added == {d \in info[cur].mCachedStatus : CanAdd(cur, d)}
  <2>0. info'[cur].mDevices = added /\ initial'[cur] = added
    BY <1>2, FinishMoves
  <2>1. /\ lpc = "finish" /\ cur \in Instances /\ (\A j \in Instances : j # cur => info'[j] = info[j])
        /\ (\A j \in Instances : j # cur => initial'[j] = initial[j])
        /\ (mProviders' = mProviders \/ mProviders' = Append(mProviders, cur))
    BY <1>2, FinishMoves
  <2>2. CASE i = cur
    BY <2>0, <2>2
  <2>3. CASE i # cur
    <3>1. InManager(i)
      BY <1>a, <2>1, <2>3, ManagerAppend DEF InManager
    <3> QED
      BY <1>b, <2>1, <2>3, <3>1
  <2> QED
    BY <2>2, <2>3
<1>3. CASE ListServices \/ OnRegistration
  <2>1. initial' = initial
    BY <1>3 DEF ListServices, OnRegistration
  <2>2. CASE Tries
    BY <2>2 DEF Tries, InManager
  <2>3. CASE Waits
    <3>1. mProviders # <<>> /\ mProviders' = Append(mProviders, n + 1) /\ info' = info
      BY <2>3 DEF Waits
    <3>2. InManager(i) \/ i = n + 1
      BY <1>a, <3>1, ManagerAppend
    <3>3. i = n + 1 => info[i].mDevices = {}
      BY <1>a, <3>1 DEF Structure, Unused, Pristine
    <3> QED
      BY <1>b, <2>1, <3>1, <3>2, <3>3
  <2>4. CASE UNCHANGED <<info, mProviders>>
    BY <1>b, <2>1, <2>4 DEF InManager
  <2> QED
    BY <1>3, <2>2, <2>3, <2>4, Adding DEF ListServices, OnRegistration, NoService, Known, Leaves
<1>4. ASSUME NEW j \in Instances, NotifyInitial(j) PROVE Good(c)' \/ c \in initial'[i] \/ Underway(c)'
  <2>1. PICK d \in initial[j] : /\ d \in Cameras /\ Present(<<"initial", j>>, d)
                                /\ initial'[j] = initial[j] \ {d}
                                /\ \A k \in Instances : k # j => initial'[k] = initial[k]
    BY <1>4, NotifyMoves
  <2>2. exec[<<"initial", j>>] = Idle /\ UNCHANGED <<info, mProviders, mCameraStates>>
    BY <1>4, NotifyMoves
  <2>3. CASE d = c
    <3>1. <<"initial", j>> \in Runners
      BY RunnerNames
    <3>2. Begins(<<"initial", j>>, c)
      BY <2>1, <2>2, <2>3, <3>1, PresentBegins
    <3> QED
      BY <1>a, <2>1, <2>3, <3>1, <3>2, ReportBegins
  <2>4. CASE d # c
    <3>1. c \in initial[i] => c \in initial'[i]
      BY <2>1, <2>4
    <3>2. InManager(i) /\ c \in info[i].mDevices
      BY <2>2 DEF InManager
    <3> QED
      BY <1>b, <3>1, <3>2
  <2> QED
    BY <2>3, <2>4
<1>5. CASE ~(Initialized \/ ListServices \/ OnRegistration \/ (\E l \in Lives : StatusChange(l))
             \/ \E j \in Instances : NotifyInitial(j))
  <2>1. InManager(i) /\ info'[i].mDevices = info[i].mDevices
    BY <1>5, DevicesKept
  <2>2. initial' = initial
    BY <1>5 DEF Next, HotPlug, LifecycleThread, Reports, RunStep, ConnectSteps, Rescan, CallbackReturns, Register, Start, Die,
       DeviceAdded, Subscribe, SetCallback, QueryCost, InsertState, UpdateStatus, SetCallbackReturns,
       VisitCamera, LinkToDeath, Fails, RemoveProvider, EnumerateProviders, ReportPresent, ReportAbsent, Evict, RemoveStates,
       Connect, OpenSession, FinishConnect, Disconnect
  <2> QED
    BY <1>b, <2>1, <2>2
<1> QED
  BY <1>1, <1>2, <1>3, <1>4, <1>5

-----------------------------------------------------------------------------
(* All the cameras of a process that stays up get to the service.          *)

ReportInv == ServiceInv /\ Caller /\ Served /\ Cached /\ Reported

LEMMA ReportInit == Init => ReportInv
<1> SUFFICES ASSUME Init PROVE ReportInv
  OBVIOUS
<1>1. ServiceInv
  BY ServiceInit
<1>2. /\ mCallbacks = 0 /\ mProviders = <<>> /\ lpc = "boot" /\ alive = FALSE /\ registered = FALSE
  BY DEF Init
<1>3. \A i : ~InManager(i)
  BY <1>2 DEF InManager
<1>4. Caller
  BY <1>2, <1>3 DEF Caller
<1>5. Served
  BY <1>2 DEF Served
<1>6. Cached /\ Reported
  BY <1>2, <1>3 DEF Cached, Reported
<1> QED
  BY <1>1, <1>4, <1>5, <1>6 DEF ReportInv

LEMMA ReportInvariant == Spec => []ReportInv
<1>1. ReportInv /\ [Next]_vars => ReportInv'
  BY ServiceStep, CallerStep, ServedStep, CachedStep, ReportedStep DEF ReportInv, ServiceInv
<1> QED
  BY <1>1, ReportInit, PTL DEF Spec

\* A process that calls is handled: the lifecycle thread does not wait for it at rest.
LEMMA RestUnlocked ==
    ASSUME ReportInv, Fine, alive, ~Working
    PROVE  ~InterfaceLocked
<1> SUFFICES ASSUME InterfaceLocked PROVE FALSE
  OBVIOUS
<1>1. TypeInv /\ Structure /\ Calls /\ Caller
  BY DEF ReportInv, ServiceInv
<1>2. lpc = "setCallback" /\ calling /\ Up(cur)
  BY DEF Working, LifecycleWorks
<1>3. mCallbacks # 0 /\ mCallbacks \in Instances
  BY <1>1, <1>2, Constants1 DEF Calls, TypeInv, ProviderType, Instances
<1>4. InManager(mCallbacks) /\ info[mCallbacks].mInitialized
  BY <1>1, <1>2, <1>3 DEF Caller
<1> QED
  BY <1>1, <1>3, <1>4, LockedAlone

\* At rest a registered process is served by an instance that is initialized ...
LEMMA RestServed ==
    ASSUME ReportInv, Fine, alive, ~Working, NEW i \in Instances, i = mProviders[1]
    PROVE  mProviders # <<>> => InManager(i) /\ Up(i) /\ info[i].mInitialized
<1> SUFFICES ASSUME mProviders # <<>> PROVE InManager(i) /\ Up(i) /\ info[i].mInitialized
  OBVIOUS
<1>1. TypeInv /\ Structure /\ Caller /\ Served
  BY DEF ReportInv, ServiceInv
<1>2. ~InterfaceLocked
  BY RestUnlocked
<1>3. deaths = {}
  BY <1>1, <1>2, Resting
<1>4. 1 \in DOMAIN mProviders
  BY <1>1 DEF TypeInv, ManagerType
<1>5. InManager(i)
  BY <1>4 DEF InManager
<1>6. info[i].linked
  BY <1>1, <1>2 DEF Served
<1>7. Up(i)
  BY <1>1, <1>3, <1>5, <1>6 DEF Structure, Linked
<1> QED
  BY <1>1, <1>2, <1>5, <1>7 DEF Caller

LEMMA RestManaged ==
    ASSUME ReportInv, Fine, alive, ~Working
    PROVE  \E i \in Instances : InManager(i) /\ Up(i) /\ info[i].mInitialized
<1>1. TypeInv /\ Structure /\ Served
  BY DEF ReportInv, ServiceInv
<1>2. ~InterfaceLocked /\ registered
  BY RestUnlocked DEF Working
<1>3. lpc = "idle" /\ regs = <<>>
  BY <1>1, <1>2, Resting
<1>4. ~New
  BY <1>3 DEF New
<1>5. mProviders # <<>>
  BY <1>1, <1>2, <1>3, <1>4 DEF Served
<1>6. mProviders[1] \in Instances
  BY <1>1, <1>5 DEF TypeInv, ManagerType
<1> QED
  BY <1>5, <1>6, RestServed

\* ... and its hot-plug thread is not inside a callback.
LEMMA RestCalled ==
    ASSUME ReportInv, alive, ~Working
    PROVE  life \in Lives /\ call[life] = NoCall
<1>1. life \in Lives
  BY Constants1 DEF ReportInv, ServiceInv, TypeInv, ProviderType, Lives
<1> QED
  BY <1>1 DEF Working, ReportsWork

(* A provider process that stays up ends with every camera of its table known to the      *)
(* manager and present in the service: with any number of cameras, of processes that died *)
(* before and of registrations, whichever of addCamera, setCallback, initialize,          *)
(* notifyInitialStatusChange and enumerateProviders sees each camera first, unless one of *)
(* the three races that flaws names happened.                                             *)
THEOREM AllReported == Spec => []CamerasReported
<1>1. ReportInv => CamerasReported
  <2> SUFFICES ASSUME ReportInv, Fine, alive, ~Working, NEW c \in mCameraStatusMap
               PROVE  /\ \E i \in Instances : InManager(i) /\ Up(i) /\ c \in info[i].mDevices
                      /\ Good(c)
    BY DEF CamerasReported, Fine, Good
  <2>1. PICK i \in Instances : InManager(i) /\ Up(i) /\ info[i].mInitialized
    BY RestManaged
  <2>0. c \in Cameras
    BY DEF ReportInv, ServiceInv, TypeInv, ProviderType
  <2>2. call[life] # [i |-> i, c |-> c]
    BY <2>0, RestCalled, NotCalled
  <2>3. c \in info[i].mDevices
    BY <2>0, <2>1, <2>2 DEF ReportInv, Cached, Owned
  <2>4. \A e \in Runners : exec[e] = Idle
    BY RestUnlocked, Resting DEF ReportInv, ServiceInv
  <2>5. exec[<<"initial", i>>] = Idle
    BY <2>4, RunnerNames
  <2>6. initial[i] = {}
    BY <2>5 DEF Working, ReportsWork
  <2>7. ~Underway(c)
    BY <2>4 DEF Underway, Idle
  <2>8. Good(c)
    BY <2>0, <2>1, <2>3, <2>6, <2>7 DEF ReportInv, Reported
  <2> QED
    BY <2>1, <2>3, <2>8
<1> QED
  BY <1>1, ReportInvariant, PTL
=============================================================================
