----------------------- MODULE CameraFragment_proofs -----------------------
(***************************************************************************)
(* Proofs about CameraFragment for every number of visits, GL contexts,    *)
(* faults and button presses.                                              *)
(*                                                                         *)
(* The account of the semaphore is not inductive: a callback gives a       *)
(* permit back, and nothing in the account says that it is the first for   *)
(* its device, or the second of a device that is then closed.  Messages    *)
(* says so, from the callbacks still queued and the state of each device.  *)
(***************************************************************************)
EXTENDS CameraFragment, FiniteSetTheorems, TLAPS

USE DEF screen, camera, fields, back, ghosts, vars

Closing   == {"close", "close session", "close device", "release"}

\* An open that the main thread, the GL thread or a button press has begun.
MainOpening == Holds(main \in {"acquire", "open"})
GLOpening   == Holds(gl \in {"acquire", "open"})
Switching   == Holds(main \in Closing /\ after # "pause")

\* Every open is paid for by an onResume, a GL context or a button: n is bounded.
Budget ==
    /\ visits <= MaxVisits /\ contexts <= MaxContexts /\ switches <= MaxSwitches
    /\ n + MainOpening + GLOpening + Switching <= visits + contexts + switches

\* The devices 1 .. n have been opened, the others not yet.
Opened ==
    \A d \in Devices :
        IF d <= n THEN device[d] # "none" ELSE device[d] = "none" /\ released[d] = 0

\* Messages are about devices that have been opened.
Posted ==
    /\ bg # Idle => bg.d <= n
    /\ \A i \in DOMAIN queue : queue[i].d <= n

Typing == TypeOK /\ Budget /\ Opened /\ Posted

-----------------------------------------------------------------------------
(* The message queue.                                                      *)

LEMMA QueueAppend ==
    ASSUME NEW S, NEW q \in Seq(S), NEW m \in S
    PROVE  /\ Append(q, m) \in Seq(S)
           /\ \A i \in DOMAIN Append(q, m) :
                \/ i \in DOMAIN q /\ Append(q, m)[i] = q[i]
                \/ i = Len(q) + 1 /\ i \notin DOMAIN q /\ Append(q, m)[i] = m
OBVIOUS

LEMMA QueueTail ==
    ASSUME NEW S, NEW q \in Seq(S), q # <<>>
    PROVE  /\ Tail(q) \in Seq(S) /\ 1 \in DOMAIN q /\ Head(q) = q[1]
           /\ \A i \in DOMAIN Tail(q) :
                i \in Nat /\ i + 1 # 1 /\ i + 1 \in DOMAIN q /\ Tail(q)[i] = q[i + 1]
OBVIOUS

LEMMA Numbers ==
    /\ MaxOpens \in Nat
    /\ TypeOK => /\ n \in Nat /\ visits \in Nat /\ contexts \in Nat /\ switches \in Nat
                 /\ n \in 0 .. MaxOpens
<1>1. MaxOpens \in Nat
  BY FragmentBounds DEF MaxOpens
<1>2. ASSUME TypeOK PROVE n \in 0 .. MaxOpens
  BY <1>2 DEF TypeOK, DeviceType
<1>3. TypeOK => visits \in Nat /\ contexts \in Nat /\ switches \in Nat
  BY DEF TypeOK, CountType
<1> QED
  BY <1>1, <1>2, <1>3

\* What CameraManager.openCamera does to the devices and the queue.
LEMMA Opens ==
    ASSUME Typing, ManagerOpens, main = "open" \/ gl = "open"
    PROVE  \/ crash' = "no handler" /\ UNCHANGED <<n, device, queue>>
           \/ /\ crash' = crash /\ n' = n + 1 /\ n + 1 \in Devices /\ handler # "none"
              /\ \E s \in {"open", "failed"} :
                   /\ device' = [device EXCEPT ![n + 1] = s]
                   /\ \/ queue' = queue
                      \/ /\ handler # "quitting"
                         /\ queue' = Append(queue, [at |-> IF s = "open" THEN "opened" ELSE s,
                                                    d |-> n + 1])
<1>1. n + 1 \in Devices
  <2>1. /\ n \in Nat /\ visits \in Nat /\ contexts \in Nat /\ switches \in Nat /\ Budget
    BY Numbers DEF Typing
  <2>2. /\ MainOpening \in 0 .. 1 /\ GLOpening \in 0 .. 1 /\ Switching \in 0 .. 1
        /\ MainOpening = 1 \/ GLOpening = 1
    BY DEF MainOpening, GLOpening, Switching, Holds
  <2> QED
    BY <2>1, <2>2, FragmentBounds DEF Budget, Devices, MaxOpens
<1> QED
  BY <1>1 DEF ManagerOpens

LEMMA InitTyping == Init => Typing
<1> SUFFICES ASSUME Init PROVE Typing
  OBVIOUS
<1> USE FragmentBounds DEF Init
<1>1. TypeOK
  <2>1. ScreenType
    BY DEF ScreenType
  <2>2. PlaceType /\ CountType
    BY DEF PlaceType, CountType
  <2>3. MessageType
    BY DEF MessageType
  <2>4. DeviceType
    BY Numbers DEF DeviceType
  <2> QED
    BY <2>1, <2>2, <2>3, <2>4 DEF TypeOK
<1>2. Budget
  <2>1. MainOpening = 0 /\ GLOpening = 0 /\ Switching = 0
    BY DEF MainOpening, GLOpening, Switching, Holds, Closing
  <2> QED
    BY <2>1 DEF Budget
<1>3. Opened /\ Posted
  BY DEF Opened, Posted, Devices, Idle
<1> QED
  BY <1>1, <1>2, <1>3 DEF Typing

\* Opens never exceed what pays for them.
LEMMA NextBudget == Typing /\ [Next]_vars => Budget'
<1> SUFFICES ASSUME Typing, [Next]_vars PROVE Budget'
  OBVIOUS
<1>0. /\ Budget /\ n \in Nat /\ visits \in Nat /\ contexts \in Nat /\ switches \in Nat
      /\ MaxVisits \in Nat /\ MaxContexts \in Nat /\ MaxSwitches \in Nat
  BY Numbers, FragmentBounds DEF Typing
<1>h. /\ MainOpening \in 0 .. 1 /\ GLOpening \in 0 .. 1 /\ Switching \in 0 .. 1
  BY DEF MainOpening, GLOpening, Switching, Holds
<1>q. PICK a \in 0 .. 1, b \in 0 .. 1, c \in 0 .. 1 :
          MainOpening' = a /\ GLOpening' = b /\ Switching' = c
  BY DEF MainOpening, GLOpening, Switching, Holds
<1> USE DEF MainOpening, GLOpening, Switching, Holds, Closing
<1>1. CASE OnResume
  <2>1. /\ visits < MaxVisits /\ visits' = visits + 1 /\ UNCHANGED <<n, contexts, switches>>
        /\ MainOpening = 0 /\ GLOpening' = GLOpening /\ Switching = 0 /\ Switching' = 0
    BY <1>1 DEF OnResume, OpenCamera
  <2> HIDE DEF MainOpening, GLOpening, Switching
  <2> QED
    BY <1>0, <1>h, <1>q, <2>1 DEF Budget
<1>2. CASE OnClick
  <2>1. /\ switches < MaxSwitches /\ switches' = switches + 1 /\ UNCHANGED <<n, visits, contexts>>
        /\ MainOpening' = MainOpening /\ GLOpening' = GLOpening /\ Switching = 0
    BY <1>2 DEF OnClick
  <2> HIDE DEF MainOpening, GLOpening, Switching
  <2> QED
    BY <1>0, <1>h, <1>q, <2>1 DEF Budget
<1>3. CASE OnSurfaceCreated
  <2>1. /\ contexts < MaxContexts /\ contexts' = contexts + 1 /\ UNCHANGED <<n, visits, switches>>
        /\ MainOpening' = MainOpening /\ Switching' = Switching /\ GLOpening = 0
    BY <1>3 DEF OnSurfaceCreated
  <2> HIDE DEF MainOpening, GLOpening, Switching
  <2> QED
    BY <1>0, <1>h, <1>q, <2>1 DEF Budget
<1>4. CASE MainOpens
  <2>1. /\ MainOpening = 1 /\ MainOpening' = 0 /\ GLOpening' = GLOpening
        /\ Switching = 0 /\ Switching' = 0 /\ n' \in {n, n + 1}
        /\ UNCHANGED <<visits, contexts, switches>>
    BY <1>4 DEF MainOpens, ManagerOpens
  <2> HIDE DEF MainOpening, GLOpening, Switching
  <2>2. CASE n' = n
    BY <1>0, <1>h, <1>q, <2>1, <2>2 DEF Budget
  <2>3. CASE n' = n + 1
    BY <1>0, <1>h, <1>q, <2>1, <2>3 DEF Budget
  <2> QED
    BY <2>1, <2>2, <2>3
<1>5. CASE GLOpens
  <2>1. /\ GLOpening = 1 /\ GLOpening' = 0 /\ MainOpening' = MainOpening
        /\ Switching' = Switching /\ n' \in {n, n + 1}
        /\ UNCHANGED <<visits, contexts, switches>>
    BY <1>5 DEF GLOpens, ManagerOpens
  <2> HIDE DEF MainOpening, GLOpening, Switching
  <2>2. CASE n' = n
    BY <1>0, <1>h, <1>q, <2>1, <2>2 DEF Budget
  <2>3. CASE n' = n + 1
    BY <1>0, <1>h, <1>q, <2>1, <2>3 DEF Budget
  <2> QED
    BY <2>1, <2>2, <2>3
<1>6. CASE /\ UNCHANGED <<n, visits, contexts, switches, GLOpening>>
           /\ \/ Switching' = Switching /\ MainOpening' = MainOpening
              \/ Switching' = 0 /\ MainOpening = 0 /\ Switching = 1
              \/ Switching' = 0 /\ MainOpening' = 0
  <2> HIDE DEF MainOpening, GLOpening, Switching
  <2> QED
    BY <1>0, <1>h, <1>q, <1>6 DEF Budget
<1>7. CASE OnPause \/ CloseAcquire \/ CloseSession \/ CloseDevice \/ MainAcquire
           \/ StopBackgroundThread \/ GLAcquire
  BY <1>6, <1>7 DEF OnPause, CloseAcquire, CloseSession, CloseDevice, MainAcquire, TryAcquire,
     StopBackgroundThread, GLAcquire
<1>8. CASE CloseRelease
  BY <1>6, <1>8 DEF CloseRelease, OpenCamera
<1>9. CASE UNCHANGED <<n, main, gl, after, visits, contexts, switches>>
  BY <1>6, <1>9
<1>10. ASSUME Next, ~(OnResume \/ OnClick \/ OnPause \/ OnSurfaceCreated), ~Main, ~GL
       PROVE  UNCHANGED <<n, main, gl, after, visits, contexts, switches>>
  BY <1>10 DEF Next, Background, OnRequestPermissionsResult, SurfaceCreated, Timeout, Take,
     CallbackRelease, OnOpened, DropDevice, CreateCameraPreviewSession, OnConfigured,
     SetRepeatingRequest, Fault
<1> QED
  BY <1>1, <1>2, <1>3, <1>4, <1>5, <1>7, <1>8, <1>9, <1>10 DEF Main, GL

\* The activity's flags.
LEMMA NextScreenType == TypeOK /\ [Next]_vars => ScreenType'
<1> SUFFICES ASSUME TypeOK, [Next]_vars PROVE ScreenType'
  OBVIOUS
<1> USE DEF TypeOK, ScreenType
<1>1. CASE OnResume
  BY <1>1 DEF OnResume, OpenCamera
<1>2. CASE OnRequestPermissionsResult
  BY <1>2 DEF OnRequestPermissionsResult
<1>3. CASE SurfaceCreated
  BY <1>3 DEF SurfaceCreated
<1>4. CASE OnClick
  BY <1>4 DEF OnClick
<1>5. CASE OnPause
  BY <1>5 DEF OnPause
<1>6. CASE CloseAcquire
  BY <1>6 DEF CloseAcquire
<1>7. CASE CloseSession
  BY <1>7 DEF CloseSession
<1>8. CASE CloseDevice
  BY <1>8 DEF CloseDevice
<1>9. CASE CloseRelease
  BY <1>9 DEF CloseRelease, OpenCamera
<1>10. CASE MainAcquire
  BY <1>10 DEF MainAcquire, TryAcquire
<1>11. CASE MainOpens
  BY <1>11 DEF MainOpens, ManagerOpens
<1>12. CASE StopBackgroundThread
  BY <1>12 DEF StopBackgroundThread
<1>13. CASE OnSurfaceCreated
  BY <1>13 DEF OnSurfaceCreated, OpenCamera
<1>14. CASE GLAcquire
  BY <1>14 DEF GLAcquire, TryAcquire
<1>15. CASE GLOpens
  BY <1>15 DEF GLOpens, ManagerOpens
<1>16. CASE Timeout
  BY <1>16 DEF Timeout, TimesOut
<1>17. CASE Take
  BY <1>17 DEF Take
<1>18. CASE CallbackRelease
  BY <1>18 DEF CallbackRelease
<1>19. CASE OnOpened
  BY <1>19 DEF OnOpened
<1>20. CASE DropDevice
  BY <1>20 DEF DropDevice
<1>21. CASE CreateCameraPreviewSession
  BY <1>21 DEF CreateCameraPreviewSession
<1>22. CASE OnConfigured
  BY <1>22 DEF OnConfigured
<1>23. CASE SetRepeatingRequest
  BY <1>23 DEF SetRepeatingRequest
<1>24. CASE \E d \in Devices : Fault(d)
  BY <1>24 DEF Fault
<1>25. CASE UNCHANGED vars
  BY <1>25
<1> QED
  BY <1>1, <1>2, <1>3, <1>4, <1>5, <1>6, <1>7, <1>8, <1>9, <1>10, <1>11, <1>12, <1>13, <1>14,
     <1>15, <1>16, <1>17, <1>18, <1>19, <1>20, <1>21, <1>22, <1>23, <1>24, <1>25
     DEF Next, Main, GL, Background

\* Where the three threads are.
LEMMA NextPlaceType == TypeOK /\ [Next]_vars => PlaceType'
<1> SUFFICES ASSUME TypeOK, [Next]_vars PROVE PlaceType'
  OBVIOUS
<1> USE DEF TypeOK, PlaceType
<1>1. CASE OnResume
  BY <1>1 DEF OnResume, OpenCamera
<1>2. CASE OnRequestPermissionsResult
  BY <1>2 DEF OnRequestPermissionsResult
<1>3. CASE SurfaceCreated
  BY <1>3 DEF SurfaceCreated
<1>4. CASE OnClick
  BY <1>4 DEF OnClick
<1>5. CASE OnPause
  BY <1>5 DEF OnPause
<1>6. CASE CloseAcquire
  BY <1>6 DEF CloseAcquire
<1>7. CASE CloseSession
  BY <1>7 DEF CloseSession
<1>8. CASE CloseDevice
  BY <1>8 DEF CloseDevice
<1>9. CASE CloseRelease
  BY <1>9 DEF CloseRelease, OpenCamera
<1>10. CASE MainAcquire
  BY <1>10 DEF MainAcquire, TryAcquire
<1>11. CASE MainOpens
  BY <1>11 DEF MainOpens, ManagerOpens
<1>12. CASE StopBackgroundThread
  BY <1>12 DEF StopBackgroundThread
<1>13. CASE OnSurfaceCreated
  BY <1>13 DEF OnSurfaceCreated, OpenCamera
<1>14. CASE GLAcquire
  BY <1>14 DEF GLAcquire, TryAcquire
<1>15. CASE GLOpens
  BY <1>15 DEF GLOpens, ManagerOpens
<1>16. CASE Timeout
  BY <1>16 DEF Timeout, TimesOut
<1>17. CASE Take
  BY <1>17 DEF Take
<1>18. CASE CallbackRelease
  BY <1>18 DEF CallbackRelease
<1>19. CASE OnOpened
  BY <1>19 DEF OnOpened
<1>20. CASE DropDevice
  BY <1>20 DEF DropDevice
<1>21. CASE CreateCameraPreviewSession
  BY <1>21 DEF CreateCameraPreviewSession
<1>22. CASE OnConfigured
  BY <1>22 DEF OnConfigured
<1>23. CASE SetRepeatingRequest
  BY <1>23 DEF SetRepeatingRequest
<1>24. CASE \E d \in Devices : Fault(d)
  BY <1>24 DEF Fault
<1>25. CASE UNCHANGED vars
  BY <1>25
<1> QED
  BY <1>1, <1>2, <1>3, <1>4, <1>5, <1>6, <1>7, <1>8, <1>9, <1>10, <1>11, <1>12, <1>13, <1>14,
     <1>15, <1>16, <1>17, <1>18, <1>19, <1>20, <1>21, <1>22, <1>23, <1>24, <1>25
     DEF Next, Main, GL, Background

\* A permit is only taken when there is one.
LEMMA NextCountType == TypeOK /\ [Next]_vars => CountType'
<1> SUFFICES ASSUME TypeOK, [Next]_vars PROVE CountType'
  OBVIOUS
<1> USE DEF TypeOK, CountType
<1>1. CASE OnResume
  BY <1>1 DEF OnResume, OpenCamera
<1>2. CASE OnRequestPermissionsResult
  BY <1>2 DEF OnRequestPermissionsResult
<1>3. CASE SurfaceCreated
  BY <1>3 DEF SurfaceCreated
<1>4. CASE OnClick
  BY <1>4 DEF OnClick
<1>5. CASE OnPause
  BY <1>5 DEF OnPause
<1>6. CASE CloseAcquire
  <2>1. permits > 0 /\ permits' = permits - 1 /\ UNCHANGED <<visits, contexts, faults, switches>>
    BY <1>6 DEF CloseAcquire
  <2> QED
    BY <2>1
<1>7. CASE CloseSession
  BY <1>7 DEF CloseSession
<1>8. CASE CloseDevice
  BY <1>8 DEF CloseDevice
<1>9. CASE CloseRelease
  <2>1. permits' = permits + 1 /\ UNCHANGED <<visits, contexts, faults, switches>>
    BY <1>9 DEF CloseRelease
  <2> QED
    BY <2>1
<1>10. CASE MainAcquire
  BY <1>10 DEF MainAcquire, TryAcquire
<1>11. CASE MainOpens
  BY <1>11 DEF MainOpens, ManagerOpens
<1>12. CASE StopBackgroundThread
  BY <1>12 DEF StopBackgroundThread
<1>13. CASE OnSurfaceCreated
  BY <1>13 DEF OnSurfaceCreated, OpenCamera
<1>14. CASE GLAcquire
  BY <1>14 DEF GLAcquire, TryAcquire
<1>15. CASE GLOpens
  BY <1>15 DEF GLOpens, ManagerOpens
<1>16. CASE Timeout
  BY <1>16 DEF Timeout, TimesOut
<1>17. CASE Take
  BY <1>17 DEF Take
<1>18. CASE CallbackRelease
  BY <1>18 DEF CallbackRelease
<1>19. CASE OnOpened
  BY <1>19 DEF OnOpened
<1>20. CASE DropDevice
  BY <1>20 DEF DropDevice
<1>21. CASE CreateCameraPreviewSession
  BY <1>21 DEF CreateCameraPreviewSession
<1>22. CASE OnConfigured
  BY <1>22 DEF OnConfigured
<1>23. CASE SetRepeatingRequest
  BY <1>23 DEF SetRepeatingRequest
<1>24. CASE \E d \in Devices : Fault(d)
  BY <1>24 DEF Fault
<1>25. CASE UNCHANGED vars
  BY <1>25
<1> QED
  BY <1>1, <1>2, <1>3, <1>4, <1>5, <1>6, <1>7, <1>8, <1>9, <1>10, <1>11, <1>12, <1>13, <1>14,
     <1>15, <1>16, <1>17, <1>18, <1>19, <1>20, <1>21, <1>22, <1>23, <1>24, <1>25
     DEF Next, Main, GL, Background

\* The queue and the background thread.
Message == [at : Posts, d : Devices]

\* What a step may do to the queue: nothing, take the first message, or add one
\* about a device that has been opened.
LEMMA QueueSteps ==
    ASSUME Typing, [Next]_vars
    PROVE  \/ queue' = queue
           \/ Take /\ queue # <<>> /\ queue' = Tail(queue)
           \/ \E m \in Message : m.d <= n' /\ queue' = Append(queue, m)
<1>t. TypeOK /\ MessageType /\ DeviceType
  BY DEF Typing, TypeOK
<1>1. CASE Take
  BY <1>1 DEF Take
<1>2. CASE MainOpens \/ GLOpens
  <2>1. ManagerOpens /\ (main = "open" \/ gl = "open")
    BY <1>2 DEF MainOpens, GLOpens
  <2>2. \/ queue' = queue
        \/ /\ n + 1 \in Devices /\ n' = n + 1
           /\ \E p \in {"opened", "failed"} : queue' = Append(queue, [at |-> p, d |-> n + 1])
    BY <2>1, Opens
  <2>3. ASSUME n + 1 \in Devices, n' = n + 1, NEW p \in {"opened", "failed"},
               queue' = Append(queue, [at |-> p, d |-> n + 1])
        PROVE  \E m \in Message : m.d <= n' /\ queue' = Append(queue, m)
    <3>1. [at |-> p, d |-> n + 1] \in Message /\ [at |-> p, d |-> n + 1].d <= n'
      BY <2>3, Numbers DEF Message, Posts, Typing
    <3> QED
      BY <2>3, <3>1
  <2> QED
    BY <2>2, <2>3
<1>3. CASE CreateCameraPreviewSession
  <2>1. \/ queue' = queue
        \/ /\ mCameraDevice # 0 /\ n' = n
           /\ queue' = Append(queue, [at |-> "configured", d |-> mCameraDevice])
    BY <1>3 DEF CreateCameraPreviewSession
  <2>2. mCameraDevice # 0 => mCameraDevice \in Devices /\ mCameraDevice <= n
    <3>1. mCameraDevice \in 0 .. n /\ n \in 0 .. MaxOpens /\ MaxOpens \in Nat
      BY <1>t, Numbers DEF DeviceType
    <3> QED
      BY <3>1 DEF Devices
  <2> QED
    BY <2>1, <2>2 DEF Message, Posts
<1>4. CASE \E d \in Devices : Fault(d)
  <2>1. PICK d \in Devices : device[d] = "open" /\ queue' = Append(queue, [at |-> "failed", d |-> d])
                              /\ n' = n
    BY <1>4 DEF Fault
  <2>2. d <= n
    BY <2>1, Numbers DEF Typing, Opened, Devices
  <2> QED
    BY <2>1, <2>2 DEF Message, Posts
<1>5. CASE UNCHANGED vars
  BY <1>5
<1>6. ASSUME Next, ~(Take \/ MainOpens \/ GLOpens \/ CreateCameraPreviewSession),
             ~\E d \in Devices : Fault(d)
      PROVE  queue' = queue
  BY <1>6 DEF Next, Main, GL, Background, OnResume, OnRequestPermissionsResult, SurfaceCreated,
     OnClick, OnPause, CloseAcquire, CloseSession, CloseDevice, CloseRelease, MainAcquire,
     StopBackgroundThread, OnSurfaceCreated, GLAcquire, Timeout, CallbackRelease, OnOpened,
     DropDevice, OnConfigured, SetRepeatingRequest
<1> QED
  BY <1>1, <1>2, <1>3, <1>4, <1>5, <1>6

\* What a step may do to the background thread: it goes idle, takes the first message,
\* or goes on with the same device.
LEMMA BgSteps ==
    ASSUME Typing, [Next]_vars
    PROVE  \/ bg' = bg
           \/ bg' = Idle
           \/ Take /\ queue # <<>> /\ bg' = queue[1]
           \/ /\ bg \in [at : Stages, d : Devices]
              /\ \E s \in Stages : bg' = [at |-> s, d |-> bg.d]
<1>t. bg \in [at : Stages, d : Devices] \cup {Idle} /\ queue \in Seq(Message)
  BY DEF Typing, TypeOK, MessageType, Message
<1>1. CASE Take
  <2>1. queue # <<>> /\ bg' \in {Idle, Head(queue)}
    BY <1>1 DEF Take
  <2> QED
    BY <1>1, <1>t, <2>1, QueueTail
<1>2. CASE CallbackRelease
  <2>1. /\ bg.at \in {"opened", "failed"}
        /\ bg' = [bg EXCEPT !.at = IF @ = "opened" THEN "assign" ELSE "drop"]
    BY <1>2 DEF CallbackRelease
  <2>2. bg \in [at : Stages, d : Devices]
    BY <1>t, <2>1 DEF Idle
  <2>3. [bg EXCEPT !.at = IF @ = "opened" THEN "assign" ELSE "drop"]
           \in {[at |-> "assign", d |-> bg.d], [at |-> "drop", d |-> bg.d]}
    BY <2>2
  <2> QED
    BY <2>1, <2>2, <2>3 DEF Stages
<1>3. CASE OnOpened
  <2>1. bg.at = "assign" /\ bg' = [bg EXCEPT !.at = "create"]
    BY <1>3 DEF OnOpened
  <2>2. bg \in [at : Stages, d : Devices]
    BY <1>t, <2>1 DEF Idle
  <2>3. [bg EXCEPT !.at = "create"] = [at |-> "create", d |-> bg.d]
    BY <2>2
  <2> QED
    BY <2>1, <2>2, <2>3 DEF Stages
<1>4. CASE OnConfigured
  <2>1. bg.at = "configured" /\ bg' \in {Idle, [bg EXCEPT !.at = "repeat"]}
    BY <1>4 DEF OnConfigured
  <2> QED
    BY <1>t, <2>1 DEF Idle, Stages
<1>5. CASE UNCHANGED vars
  BY <1>5
<1>6. CASE DropDevice \/ CreateCameraPreviewSession \/ SetRepeatingRequest
  BY <1>6 DEF DropDevice, CreateCameraPreviewSession, SetRepeatingRequest
<1>7. ASSUME Next, ~Background
      PROVE  bg' = bg
  BY <1>7 DEF Next, Main, GL, OnResume, OnRequestPermissionsResult, SurfaceCreated,
     OnClick, OnPause, CloseAcquire, CloseSession, CloseDevice, CloseRelease, MainAcquire, MainOpens,
     StopBackgroundThread, OnSurfaceCreated, GLAcquire, GLOpens, Timeout, Fault
<1> QED
  BY <1>1, <1>2, <1>3, <1>4, <1>5, <1>6, <1>7 DEF Background

\* What a step may do to the devices: it opens the next one, or closes one.
LEMMA DeviceSteps ==
    ASSUME Typing, [Next]_vars
    PROVE  \/ n' = n /\ device' = device
           \/ n' = n /\ \E d \in Devices : device[d] # "none" /\ device' = Closes(d)
           \/ /\ n' = n + 1 /\ n + 1 \in Devices /\ released' = released
              /\ \E s \in {"open", "failed"} : device' = [device EXCEPT ![n + 1] = s]
<1>t. /\ bg \in [at : Stages, d : Devices] \cup {Idle} /\ n \in 0 .. MaxOpens /\ MaxOpens \in Nat
      /\ mCameraDevice \in 0 .. n /\ Opened /\ Posted
  BY Numbers DEF Typing, TypeOK, MessageType, DeviceType
<1>1. CASE MainOpens \/ GLOpens
  <2>1. ManagerOpens /\ (main = "open" \/ gl = "open") /\ released' = released
    BY <1>1 DEF MainOpens, GLOpens
  <2> QED
    BY <2>1, Opens
<1>2. CASE CloseDevice
  <2>1. n' = n /\ device' = IF mCameraDevice = 0 THEN device ELSE Closes(mCameraDevice)
    BY <1>2 DEF CloseDevice
  <2>2. mCameraDevice # 0 => mCameraDevice \in Devices /\ mCameraDevice <= n
    BY <1>t DEF Devices
  <2> QED
    BY <1>t, <2>1, <2>2 DEF Opened
<1>3. CASE DropDevice
  <2>1. n' = n /\ bg.at = "drop" /\ device' = Closes(bg.d)
    BY <1>3 DEF DropDevice
  <2>2. bg.d \in Devices /\ bg # Idle
    BY <1>t, <2>1 DEF Idle
  <2>3. device[bg.d] # "none"
    BY <1>t, <2>2 DEF Opened, Posted
  <2> QED
    BY <2>1, <2>2, <2>3
<1>4. CASE UNCHANGED vars
  BY <1>4
<1>5. ASSUME Next, ~(CloseDevice \/ DropDevice \/ MainOpens \/ GLOpens)
      PROVE  n' = n /\ device' = device
  BY <1>5 DEF Next, Main, GL, Background, OnResume, OnRequestPermissionsResult, SurfaceCreated,
     OnClick, OnPause, CloseAcquire, CloseSession, CloseRelease, MainAcquire,
     StopBackgroundThread, OnSurfaceCreated, GLAcquire, Timeout, Take, CallbackRelease, OnOpened,
     CreateCameraPreviewSession, OnConfigured, SetRepeatingRequest, Fault
<1> QED
  BY <1>1, <1>2, <1>3, <1>4, <1>5

\* What a step may do to the permits that the callbacks of a device have given back.
LEMMA ReleaseSteps ==
    ASSUME Typing, [Next]_vars
    PROVE  \/ released' = released
           \/ /\ CallbackRelease /\ bg.d \in Devices /\ bg.d <= n /\ n' = n
              /\ released' = [released EXCEPT ![bg.d] = @ + 1]
<1>1. CASE CallbackRelease
  <2>1. bg.at \in {"opened", "failed"} /\ released' = [released EXCEPT ![bg.d] = @ + 1] /\ n' = n
    BY <1>1 DEF CallbackRelease
  <2>2. bg \in [at : Stages, d : Devices] \cup {Idle}
    BY DEF Typing, TypeOK, MessageType
  <2> QED
    BY <1>1, <2>1, <2>2 DEF Idle, Typing, Posted
<1>2. CASE UNCHANGED vars
  BY <1>2
<1>3. ASSUME Next, ~CallbackRelease
      PROVE  released' = released
  BY <1>3 DEF Next, Main, GL, Background, OnResume, OnRequestPermissionsResult, SurfaceCreated,
     OnClick, OnPause, CloseAcquire, CloseSession, CloseDevice, CloseRelease, MainAcquire, MainOpens,
     StopBackgroundThread, OnSurfaceCreated, GLAcquire, GLOpens, Timeout, Take, OnOpened,
     CreateCameraPreviewSession, OnConfigured, SetRepeatingRequest, Fault, DropDevice
<1> QED
  BY <1>1, <1>2, <1>3

LEMMA NextMessages == Typing /\ [Next]_vars => MessageType' /\ Posted'
<1> SUFFICES ASSUME Typing, [Next]_vars PROVE MessageType' /\ Posted'
  OBVIOUS
<1>0. /\ queue \in Seq(Message) /\ bg \in [at : Stages, d : Devices] \cup {Idle} /\ Posted
      /\ n \in Nat
  BY Numbers DEF Typing, TypeOK, MessageType, Message
<1>n. n' \in Nat /\ n' >= n
  BY <1>0, DeviceSteps
<1>1. queue' \in Seq(Message) /\ \A i \in DOMAIN queue' : queue'[i].d <= n'
  <2>0. \A i \in DOMAIN queue : queue[i].d \in Nat /\ queue[i].d <= n
    <3>1. \A i \in DOMAIN queue : queue[i] \in Message
      BY <1>0
    <3> QED
      BY <1>0, <3>1, Numbers DEF Posted, Message, Devices
  <2>1. CASE queue' = queue
    BY <1>0, <1>n, <2>0, <2>1
  <2>2. CASE queue # <<>> /\ queue' = Tail(queue)
    <3>1. /\ Tail(queue) \in Seq(Message)
          /\ \A i \in DOMAIN Tail(queue) : i + 1 \in DOMAIN queue /\ Tail(queue)[i] = queue[i + 1]
      BY <1>0, <2>2, QueueTail
    <3>2. \A i \in DOMAIN queue' : queue'[i].d \in Nat /\ queue'[i].d <= n
      BY <2>0, <2>2, <3>1
    <3> QED
      BY <1>0, <1>n, <2>2, <3>1, <3>2
  <2>3. ASSUME NEW m \in Message, m.d <= n', queue' = Append(queue, m)
        PROVE  queue' \in Seq(Message) /\ \A i \in DOMAIN queue' : queue'[i].d <= n'
    <3>1. /\ Append(queue, m) \in Seq(Message)
          /\ \A i \in DOMAIN Append(queue, m) :
                \/ i \in DOMAIN queue /\ Append(queue, m)[i] = queue[i]
                \/ Append(queue, m)[i] = m
      BY <1>0, QueueAppend
    <3>2. \A i \in DOMAIN queue' : (queue'[i].d \in Nat /\ queue'[i].d <= n) \/ queue'[i] = m
      BY <2>0, <2>3, <3>1
    <3> QED
      BY <1>0, <1>n, <2>3, <3>1, <3>2
  <2> QED
    BY <2>1, <2>2, <2>3, QueueSteps
<1>2. /\ bg' \in [at : Stages, d : Devices] \cup {Idle}
      /\ bg' # Idle => bg'.d <= n'
  <2>0. bg # Idle => bg.d \in Nat /\ bg.d <= n'
    <3>1. bg # Idle => bg.d \in Devices /\ bg.d <= n
      BY <1>0 DEF Posted
    <3> QED
      BY <1>0, <1>n, <3>1, Numbers DEF Devices
  <2>1. CASE bg' = bg \/ bg' = Idle
    BY <1>0, <2>0, <2>1
  <2>2. CASE queue # <<>> /\ bg' = queue[1]
    <3>1. 1 \in DOMAIN queue
      BY <1>0, <2>2, QueueTail
    <3>2. queue[1] \in Message /\ queue[1].d <= n
      BY <1>0, <3>1 DEF Posted
    <3> QED
      BY <1>0, <1>n, <2>2, <3>2, Numbers DEF Message, Stages, Posts, Devices
  <2>3. ASSUME bg \in [at : Stages, d : Devices], NEW s \in Stages, bg' = [at |-> s, d |-> bg.d]
        PROVE  bg' \in [at : Stages, d : Devices] /\ bg'.d <= n'
    <3>1. bg # Idle /\ bg.d \in Devices
      BY <2>3 DEF Idle, Stages, Posts
    <3> QED
      BY <2>0, <2>3, <3>1
  <2> QED
    BY <2>1, <2>2, <2>3, BgSteps
<1> QED
  BY <1>1, <1>2 DEF MessageType, Posted, Message

LEMMA NextDevices == Typing /\ [Next]_vars => DeviceType' /\ Opened'
<1> SUFFICES ASSUME Typing, [Next]_vars PROVE DeviceType' /\ Opened'
  OBVIOUS
<1>0. /\ DeviceType /\ Opened /\ Posted /\ n \in Nat /\ MaxOpens \in Nat
      /\ bg \in [at : Stages, d : Devices] \cup {Idle}
  BY Numbers DEF Typing, TypeOK, MessageType
<1>n. n' \in Nat /\ n' >= n /\ n' \in 0 .. MaxOpens
  BY <1>0, DeviceSteps DEF DeviceType, Devices
<1>b. bg # Idle => bg.d \in Devices /\ bg.d <= n
  BY <1>0 DEF Posted
<1>1. device' \in [Devices -> {"none", "open", "failed", "closed"}]
  BY <1>0, DeviceSteps DEF DeviceType, Closes
<1>2. released' \in [Devices -> Nat]
  BY <1>0, ReleaseSteps DEF DeviceType
<1>3. Opened'
  <2>1. CASE n' = n /\ device' = device
    BY <1>0, <2>1, ReleaseSteps DEF Opened, DeviceType
  <2>2. ASSUME n' = n, NEW d \in Devices, device[d] # "none", device' = Closes(d)
        PROVE  Opened'
    BY <1>0, <2>2, ReleaseSteps DEF Opened, DeviceType, Closes
  <2>3. ASSUME n' = n + 1, n + 1 \in Devices, released' = released,
               NEW s \in {"open", "failed"}, device' = [device EXCEPT ![n + 1] = s]
        PROVE  Opened'
    BY <1>0, <2>3 DEF Opened, DeviceType, Devices
  <2> QED
    BY <2>1, <2>2, <2>3, DeviceSteps
<1>4. mCameraDevice' \in 0 .. n' /\ mCaptureSession' \in 0 .. n'
  <2>1. mCameraDevice' \in {mCameraDevice, 0} \/ (bg # Idle /\ mCameraDevice' = bg.d)
    <3>1. CASE OnOpened
      BY <3>1 DEF OnOpened, Idle
    <3>2. CASE CloseDevice \/ DropDevice
      BY <3>2 DEF CloseDevice, DropDevice
    <3>3. ASSUME Next, ~(OnOpened \/ CloseDevice \/ DropDevice)
          PROVE  mCameraDevice' = mCameraDevice
      BY <3>3 DEF Next, Main, GL, Background, OnResume, OnRequestPermissionsResult, SurfaceCreated,
         OnClick, OnPause, CloseAcquire, CloseSession, CloseRelease, MainAcquire, MainOpens,
         StopBackgroundThread, OnSurfaceCreated, GLAcquire, GLOpens, Timeout, Take,
         CallbackRelease, CreateCameraPreviewSession, OnConfigured, SetRepeatingRequest, Fault
    <3> QED
      BY <3>1, <3>2, <3>3
  <2>2. mCaptureSession' \in {mCaptureSession, 0} \/ (bg # Idle /\ mCaptureSession' = bg.d)
    <3>1. CASE OnConfigured
      BY <3>1 DEF OnConfigured, Idle
    <3>2. CASE CloseSession
      BY <3>2 DEF CloseSession
    <3>3. ASSUME Next, ~(OnConfigured \/ CloseSession)
          PROVE  mCaptureSession' = mCaptureSession
      BY <3>3 DEF Next, Main, GL, Background, OnResume, OnRequestPermissionsResult, SurfaceCreated,
         OnClick, OnPause, CloseAcquire, CloseDevice, CloseRelease, MainAcquire, MainOpens,
         StopBackgroundThread, OnSurfaceCreated, GLAcquire, GLOpens, Timeout, Take, OnOpened,
         CallbackRelease, CreateCameraPreviewSession, DropDevice, SetRepeatingRequest, Fault
    <3> QED
      BY <3>1, <3>2, <3>3
  <2>3. mCameraDevice \in 0 .. n /\ mCaptureSession \in 0 .. n /\ 0 \in 0 .. n
    BY <1>0 DEF DeviceType
  <2>4. bg # Idle => bg.d \in 0 .. n
    BY <1>0, <1>b DEF Devices
  <2>5. mCameraDevice' \in 0 .. n /\ mCaptureSession' \in 0 .. n
    BY <2>1, <2>2, <2>3, <2>4
  <2>6. \A k \in 0 .. n : k \in 0 .. n'
    BY <1>0, <1>n
  <2> QED
    BY <2>5, <2>6
<1>5. closed' \subseteq Devices
  <2>1. closed' = closed \/ closed' = closed \cup ({mCaptureSession} \ {0})
    BY DEF Next, Main, GL, Background, OnResume, OnRequestPermissionsResult, SurfaceCreated,
       OnClick, OnPause, CloseAcquire, CloseSession, CloseDevice, CloseRelease, MainAcquire, MainOpens,
       StopBackgroundThread, OnSurfaceCreated, GLAcquire, GLOpens, Timeout, Take, OnOpened, OnConfigured,
       CallbackRelease, CreateCameraPreviewSession, DropDevice, SetRepeatingRequest, Fault
  <2>2. {mCaptureSession} \ {0} \subseteq Devices
    BY <1>0 DEF DeviceType, Devices
  <2> QED
    BY <1>0, <2>1, <2>2 DEF DeviceType
<1>6. stray' \subseteq Devices
  <2>1. \/ stray' = stray
        \/ stray' = stray \cup {d \in Devices : bg = [at |-> "assign", d |-> d]}
        \/ stray' = stray \cup ({mCameraDevice} \ {0})
        \/ stray' = stray \cup ({mCameraDevice} \ {0, bg.d})
    BY DEF Next, Main, GL, Background, OnResume, OnRequestPermissionsResult, SurfaceCreated,
       OnClick, OnPause, CloseAcquire, CloseSession, CloseDevice, CloseRelease, MainAcquire, MainOpens,
       StopBackgroundThread, OnSurfaceCreated, GLAcquire, GLOpens, Timeout, Take, OnOpened, OnConfigured,
       CallbackRelease, CreateCameraPreviewSession, DropDevice, SetRepeatingRequest, Fault
  <2>2. {mCameraDevice} \ {0} \subseteq Devices
    BY <1>0 DEF DeviceType, Devices
  <2> QED
    BY <1>0, <2>1, <2>2 DEF DeviceType
<1> QED
  BY <1>n, <1>1, <1>2, <1>3, <1>4, <1>5, <1>6 DEF DeviceType

LEMMA NextTyping == Typing /\ [Next]_vars => Typing'
<1> SUFFICES ASSUME Typing, [Next]_vars PROVE Typing'
  OBVIOUS
<1>1. TypeOK'
  BY NextScreenType, NextPlaceType, NextCountType, NextMessages, NextDevices DEF Typing, TypeOK
<1> QED
  BY <1>1, NextBudget, NextMessages, NextDevices DEF Typing

(* The fields, places and messages of the three threads keep their types, and an open is   *)
(* always of a device that MaxOpens counts: every openCamera is paid for by an onResume,   *)
(* a GL context or a button.                                                               *)
THEOREM TypeCorrectness == Spec => [](TypeOK /\ Budget)
<1>1. Init => Typing
  BY InitTyping
<1>2. Typing /\ [Next]_vars => Typing'
  BY NextTyping
<1>3. Typing => TypeOK /\ Budget
  BY DEF Typing
<1> QED
  BY <1>1, <1>2, <1>3, PTL DEF Spec

-----------------------------------------------------------------------------
(* The callbacks of a device.  Each of them gives a permit back, so the    *)
(* account depends on how many can still come.                             *)

\* A device gives at most two permits back; after the second it is closed, or is being.
Returned ==
    \A d \in Devices :
        /\ released[d] <= 2
        /\ released[d] = 2 => device[d] = "closed" \/ (device[d] = "open" /\ bg = [at |-> "drop", d |-> d])

\* onOpened waits in the queue once, and no other callback of its device comes before it
\* unless that closes the device.
QueuedOpened ==
    \A i \in DOMAIN queue : queue[i].at = "opened" =>
        /\ device[queue[i].d] \in {"open", "closed"}
        /\ \/ released[queue[i].d] = 0 \/ device[queue[i].d] = "closed"
           \/ bg = [at |-> "drop", d |-> queue[i].d]
        /\ bg # queue[i]
        /\ \A j \in DOMAIN queue : queue[j] = queue[i] => j = i

\* The callback of an open that failed is the only one of its device.
QueuedFailed ==
    \A i \in DOMAIN queue : queue[i].at = "failed" /\ device[queue[i].d] = "failed" =>
        /\ released[queue[i].d] = 0
        /\ bg # queue[i]
        /\ \A j \in DOMAIN queue : queue[j] = queue[i] => j = i

\* The callback that is about to give a permit back.
Answering ==
    /\ bg.at = "opened" => released[bg.d] = 0 /\ device[bg.d] # "failed"
    /\ bg.at = "failed" => /\ released[bg.d] <= 1
                           /\ device[bg.d] = "failed" => released[bg.d] = 0

Messages == Returned /\ QueuedOpened /\ QueuedFailed /\ Answering

LEMMA InitMessages == Init => Messages
<1> SUFFICES ASSUME Init PROVE Messages
  OBVIOUS
<1>1. Returned
  BY DEF Init, Returned
<1>2. QueuedOpened /\ QueuedFailed
  BY DEF Init, QueuedOpened, QueuedFailed
<1>3. Answering
  BY DEF Init, Answering, Idle
<1> QED
  BY <1>1, <1>2, <1>3 DEF Messages

\* The types that the steps below rest on.
LEMMA MessageFacts ==
    ASSUME Typing
    PROVE  /\ queue \in Seq(Message)
           /\ \A i \in DOMAIN queue : /\ queue[i].at \in Posts /\ queue[i].d \in Devices
                                      /\ queue[i].d <= n
                                      /\ queue[i] = [at |-> queue[i].at, d |-> queue[i].d]
           /\ \/ bg = Idle
              \/ /\ bg.at \in Stages /\ bg.d \in Devices /\ bg.d <= n
                 /\ bg = [at |-> bg.at, d |-> bg.d]
           /\ released \in [Devices -> Nat] /\ device \in [Devices -> {"none", "open", "failed", "closed"}]
           /\ n \in Nat /\ Devices \subseteq Nat
<1>1. /\ queue \in Seq(Message) /\ bg \in [at : Stages, d : Devices] \cup {Idle} /\ Posted
  BY DEF Typing, TypeOK, MessageType, Message
<1>2. \A i \in DOMAIN queue : queue[i] \in Message
  BY <1>1
<1>3. \A m \in Message : m.at \in Posts /\ m.d \in Devices /\ m = [at |-> m.at, d |-> m.d]
  BY DEF Message
<1>4. \A m \in [at : Stages, d : Devices] : m.at \in Stages /\ m.d \in Devices /\ m = [at |-> m.at, d |-> m.d]
  OBVIOUS
<1>5. released \in [Devices -> Nat] /\ device \in [Devices -> {"none", "open", "failed", "closed"}]
  BY DEF Typing, TypeOK, DeviceType
<1>6. n \in Nat /\ Devices \subseteq Nat
  BY Numbers DEF Devices, Typing
<1> QED
  BY <1>1, <1>2, <1>3, <1>4, <1>5, <1>6 DEF Posted

LEMMA NextCallbacks == Typing /\ Messages /\ [Next]_vars => Messages'
<1> SUFFICES ASSUME Typing, Messages, [Next]_vars PROVE Messages'
  OBVIOUS
<1>0. /\ queue \in Seq(Message)
      /\ \A i \in DOMAIN queue : /\ queue[i].at \in Posts /\ queue[i].d \in Devices
                                 /\ queue[i].d <= n
                                 /\ queue[i] = [at |-> queue[i].at, d |-> queue[i].d]
      /\ \/ bg = Idle
         \/ /\ bg.at \in Stages /\ bg.d \in Devices /\ bg.d <= n
            /\ bg = [at |-> bg.at, d |-> bg.d]
      /\ released \in [Devices -> Nat] /\ device \in [Devices -> {"none", "open", "failed", "closed"}]
      /\ n \in Nat /\ Devices \subseteq Nat
      /\ Opened
  BY MessageFacts DEF Typing
<1>i. Returned /\ QueuedOpened /\ QueuedFailed /\ Answering
  BY DEF Messages
<1>1. CASE MainOpens \/ GLOpens
  <2>1. ManagerOpens /\ (main = "open" \/ gl = "open") /\ UNCHANGED <<bg, released>>
    BY <1>1 DEF MainOpens, GLOpens
  <2>2. CASE UNCHANGED <<n, device, queue>>
    BY <1>i, <2>1, <2>2 DEF Messages, Returned, QueuedOpened, QueuedFailed, Answering
  <2>3. ASSUME n' = n + 1, n + 1 \in Devices, NEW s \in {"open", "failed"},
               device' = [device EXCEPT ![n + 1] = s],
               queue' = queue \/ queue' = Append(queue, [at |-> IF s = "open" THEN "opened" ELSE s,
                                                         d |-> n + 1])
        PROVE  Messages'
    <3>0. /\ released[n + 1] = 0 /\ device[n + 1] = "none" /\ device'[n + 1] = s
          /\ \A d \in Devices : d # n + 1 => device'[d] = device[d]
          /\ \A d \in Devices : d <= n => d # n + 1
      BY <1>0, <2>3 DEF Opened
    <3>q. PICK m : m = [at |-> IF s = "open" THEN "opened" ELSE s, d |-> n + 1]
      OBVIOUS
    <3>m. /\ m \in Message /\ m.d = n + 1 /\ (s = "open" => m.at = "opened") /\ (s = "failed" => m.at = "failed")
      BY <2>3, <3>q DEF Message, Posts
    <3>1. \A i \in DOMAIN queue' : \/ i \in DOMAIN queue /\ queue'[i] = queue[i] /\ queue[i] # m
                                   \/ i = Len(queue) + 1 /\ i \notin DOMAIN queue /\ queue'[i] = m
      <4>1. \A i \in DOMAIN queue : queue[i] # m
        BY <1>0, <3>m, <3>0
      <4>2. CASE queue' = queue
        BY <4>1, <4>2
      <4>3. CASE queue' = Append(queue, m)
        BY <1>0, <3>m, <4>1, <4>3, QueueAppend
      <4> QED
        BY <2>3, <3>q, <4>2, <4>3
    <3>b. bg # m /\ bg.d # n + 1
      BY <1>0, <3>m, <3>0 DEF Idle
    <3>2. Returned'
      BY <1>i, <2>1, <3>0 DEF Returned
    <3>3. QueuedOpened'
      BY <1>0, <1>i, <2>1, <2>3, <3>0, <3>m, <3>1, <3>b DEF QueuedOpened
    <3>4. QueuedFailed'
      BY <1>0, <1>i, <2>1, <2>3, <3>0, <3>m, <3>1, <3>b DEF QueuedFailed
    <3>5. Answering'
      BY <1>0, <1>i, <2>1, <3>0, <3>b DEF Answering, Idle
    <3> QED
      BY <3>2, <3>3, <3>4, <3>5 DEF Messages
  <2> QED
    BY <2>1, <2>2, <2>3, Opens
<1>2. CASE CloseDevice \/ DropDevice
  <2>1. /\ UNCHANGED <<n, queue, released>>
        /\ \/ CloseDevice /\ bg' = bg
           \/ bg.at = "drop" /\ bg' = Idle /\ device' = Closes(bg.d)
    BY <1>2 DEF CloseDevice, DropDevice
  <2>2. \A d \in Devices : \/ device'[d] = device[d]
                           \/ device[d] = "open" /\ device'[d] = "closed"
    BY <1>0, <2>1, DeviceSteps DEF Closes
  <2>3. ASSUME NEW d \in Devices, bg = [at |-> "drop", d |-> d], bg' # bg, device[d] \in {"open", "closed"}
        PROVE  device'[d] = "closed"
    BY <1>0, <2>1, <2>3 DEF Closes
  <2>4. Returned'
    BY <1>0, <1>i, <2>1, <2>2, <2>3 DEF Returned
  <2>5. QueuedOpened'
    BY <1>0, <1>i, <2>1, <2>2, <2>3 DEF QueuedOpened, Idle, Posts
  <2>6. QueuedFailed'
    BY <1>0, <1>i, <2>1, <2>2 DEF QueuedFailed, Idle, Posts
  <2>7. Answering'
    BY <1>0, <1>i, <2>1, <2>2 DEF Answering, Idle, Stages, Posts
  <2> QED
    BY <2>4, <2>5, <2>6, <2>7 DEF Messages
<1>3. CASE \E d \in Devices : Fault(d)
  <2>1. PICK d \in Devices : /\ device[d] = "open" /\ UNCHANGED <<bg, released, device>>
                             /\ queue' = Append(queue, [at |-> "failed", d |-> d])
    BY <1>3 DEF Fault
  <2>q. PICK m : m = [at |-> "failed", d |-> d]
    OBVIOUS
  <2>m. m \in Message /\ m.at = "failed" /\ device[m.d] = "open"
    BY <2>1, <2>q DEF Message, Posts
  <2>2. \A i \in DOMAIN queue' : \/ i \in DOMAIN queue /\ queue'[i] = queue[i]
                                 \/ i \notin DOMAIN queue /\ queue'[i] = m
    BY <1>0, <2>1, <2>q, <2>m, QueueAppend
  <2>3. Returned' /\ Answering'
    BY <1>i, <2>1 DEF Returned, Answering
  <2>4. QueuedOpened'
    BY <1>i, <2>1, <2>m, <2>2 DEF QueuedOpened
  <2>5. QueuedFailed'
    BY <1>i, <2>1, <2>m, <2>2 DEF QueuedFailed
  <2> QED
    BY <2>3, <2>4, <2>5 DEF Messages
<1>4. CASE Take
  <2>1. /\ bg = Idle /\ queue # <<>> /\ queue' = Tail(queue) /\ UNCHANGED <<device, released>>
        /\ bg' = IF Head(queue).at # "configured" /\ device[Head(queue).d] = "closed" THEN Idle ELSE Head(queue)
    BY <1>4 DEF Take
  <2>2. /\ 1 \in DOMAIN queue /\ Head(queue) = queue[1]
        /\ \A i \in DOMAIN queue' : i \in Nat /\ i + 1 # 1 /\ i + 1 \in DOMAIN queue /\ queue'[i] = queue[i + 1]
    BY <1>0, <2>1, QueueTail
  <2>3. \/ bg' = Idle
        \/ /\ bg' = queue[1]
           /\ queue[1].at \in {"opened", "failed"} => device[queue[1].d] # "closed"
    BY <2>1, <2>2
  <2>4. \A d \in Devices : bg # [at |-> "drop", d |-> d] /\ bg' # [at |-> "drop", d |-> d]
    BY <1>0, <2>1, <2>2, <2>3 DEF Idle, Posts
  <2>5. Returned'
    BY <1>i, <2>1, <2>4 DEF Returned
  <2>i. \A i \in DOMAIN queue', j \in DOMAIN queue' : i + 1 = j + 1 => i = j
    BY <2>2
  <2>6. QueuedOpened'
    <3> SUFFICES ASSUME NEW i \in DOMAIN queue', queue'[i].at = "opened"
                 PROVE  /\ device[queue'[i].d] \in {"open", "closed"}
                        /\ released[queue'[i].d] = 0 \/ device[queue'[i].d] = "closed"
                        /\ bg' # queue'[i]
                        /\ \A j \in DOMAIN queue' : queue'[j] = queue'[i] => j = i
      BY <2>1 DEF QueuedOpened
    <3>1. /\ i + 1 \in DOMAIN queue /\ i + 1 # 1 /\ queue[i + 1].at = "opened" /\ queue'[i] = queue[i + 1]
      BY <2>2
    <3>2. bg' # queue'[i]
      BY <1>i, <2>2, <2>3, <3>1 DEF QueuedOpened, Idle
    <3>3. \A j \in DOMAIN queue' : queue'[j] = queue'[i] => j = i
      BY <1>i, <2>2, <2>i, <3>1 DEF QueuedOpened
    <3> QED
      BY <1>0, <1>i, <2>4, <3>1, <3>2, <3>3 DEF QueuedOpened
  <2>7. QueuedFailed'
    <3> SUFFICES ASSUME NEW i \in DOMAIN queue', queue'[i].at = "failed", device[queue'[i].d] = "failed"
                 PROVE  /\ released[queue'[i].d] = 0
                        /\ bg' # queue'[i]
                        /\ \A j \in DOMAIN queue' : queue'[j] = queue'[i] => j = i
      BY <2>1 DEF QueuedFailed
    <3>1. /\ i + 1 \in DOMAIN queue /\ i + 1 # 1 /\ queue[i + 1].at = "failed" /\ queue'[i] = queue[i + 1]
      BY <2>2
    <3>2. bg' # queue'[i]
      BY <1>i, <2>2, <2>3, <3>1 DEF QueuedFailed, Idle
    <3>3. \A j \in DOMAIN queue' : queue'[j] = queue'[i] => j = i
      BY <1>i, <2>2, <2>i, <3>1 DEF QueuedFailed
    <3> QED
      BY <1>i, <3>1, <3>2, <3>3 DEF QueuedFailed
  <2>8. Answering'
    <3>1. CASE bg' = Idle
      BY <3>1 DEF Answering, Idle
    <3>2. CASE bg' = queue[1] /\ queue[1].at = "opened"
      BY <1>0, <1>i, <2>1, <2>2, <2>3, <2>4, <3>2 DEF QueuedOpened, Answering, Idle
    <3>3. CASE bg' = queue[1] /\ queue[1].at = "failed"
      <4>1. queue[1].d \in Devices /\ device[queue[1].d] # "closed" /\ released[queue[1].d] \in Nat
        BY <1>0, <2>2, <2>3, <3>3 DEF Idle
      <4>2. released[queue[1].d] <= 2 /\ released[queue[1].d] # 2
        BY <1>i, <2>4, <4>1 DEF Returned
      <4>3. device[queue[1].d] = "failed" => released[queue[1].d] = 0
        BY <1>i, <2>2, <3>3 DEF QueuedFailed
      <4> QED
        BY <2>1, <3>3, <4>1, <4>2, <4>3 DEF Answering
    <3>4. CASE bg' = queue[1] /\ queue[1].at \notin {"opened", "failed"}
      BY <3>4 DEF Answering
    <3> QED
      BY <2>3, <3>1, <3>2, <3>3, <3>4
  <2> QED
    BY <2>5, <2>6, <2>7, <2>8 DEF Messages
<1>5. CASE CallbackRelease
  <2>1. /\ bg.at \in {"opened", "failed"} /\ UNCHANGED <<device, queue>>
        /\ released' = [released EXCEPT ![bg.d] = @ + 1]
        /\ bg' = [bg EXCEPT !.at = IF @ = "opened" THEN "assign" ELSE "drop"]
    BY <1>5 DEF CallbackRelease
  <2>2. /\ bg.d \in Devices /\ bg.d <= n /\ bg = [at |-> bg.at, d |-> bg.d] /\ device[bg.d] # "none"
        /\ bg' = [at |-> IF bg.at = "opened" THEN "assign" ELSE "drop", d |-> bg.d]
        /\ released'[bg.d] = released[bg.d] + 1
        /\ \A d \in Devices : d # bg.d => released'[d] = released[d]
    BY <1>0, <2>1 DEF Idle, Opened
  <2>3. Returned'
    <3> SUFFICES ASSUME NEW d \in Devices
                 PROVE  /\ released'[d] <= 2
                        /\ released'[d] = 2 => \/ device[d] = "closed"
                                               \/ device[d] = "open" /\ bg' = [at |-> "drop", d |-> d]
      BY <2>1 DEF Returned
    <3>1. CASE d # bg.d
      BY <1>i, <2>1, <2>2, <3>1 DEF Returned
    <3>2. CASE d = bg.d /\ bg.at = "opened"
      BY <1>0, <1>i, <2>2, <3>2 DEF Answering
    <3>3. CASE d = bg.d /\ bg.at = "failed"
      <4>1. released[d] \in Nat /\ released[d] <= 1 /\ released'[d] = released[d] + 1
            /\ bg' = [at |-> "drop", d |-> d] /\ (device[d] = "failed" => released[d] = 0)
        BY <1>0, <1>i, <2>2, <3>3 DEF Answering
      <4> QED
        BY <1>0, <2>2, <3>3, <4>1
    <3> QED
      BY <2>1, <3>1, <3>2, <3>3
  <2>4. QueuedOpened'
    <3> SUFFICES ASSUME NEW i \in DOMAIN queue, queue[i].at = "opened"
                 PROVE  /\ device[queue[i].d] \in {"open", "closed"}
                        /\ \/ released'[queue[i].d] = 0 \/ device[queue[i].d] = "closed"
                           \/ bg' = [at |-> "drop", d |-> queue[i].d]
                        /\ bg' # queue[i]
                        /\ \A j \in DOMAIN queue : queue[j] = queue[i] => j = i
      BY <2>1 DEF QueuedOpened
    <3>1. bg' # queue[i]
      BY <2>2
    <3>2. queue[i].d = bg.d => bg.at = "failed"
      BY <1>0, <1>i, <2>1, <2>2 DEF QueuedOpened
    <3>3. bg # [at |-> "drop", d |-> queue[i].d]
      BY <2>1
    <3> QED
      BY <1>0, <1>i, <2>2, <3>1, <3>2, <3>3 DEF QueuedOpened
  <2>5. QueuedFailed'
    <3> SUFFICES ASSUME NEW i \in DOMAIN queue, queue[i].at = "failed", device[queue[i].d] = "failed"
                 PROVE  /\ released'[queue[i].d] = 0
                        /\ bg' # queue[i]
                        /\ \A j \in DOMAIN queue : queue[j] = queue[i] => j = i
      BY <2>1 DEF QueuedFailed
    <3>1. bg' # queue[i]
      BY <2>2
    <3>2. queue[i].d # bg.d
      BY <1>0, <1>i, <2>1, <2>2 DEF QueuedFailed, Answering
    <3> QED
      BY <1>0, <1>i, <2>2, <3>1, <3>2 DEF QueuedFailed
  <2>6. Answering'
    BY <2>2 DEF Answering
  <2> QED
    BY <2>3, <2>4, <2>5, <2>6 DEF Messages
<1>6. CASE CreateCameraPreviewSession
  <2>1. /\ bg.at = "create" /\ bg' = Idle /\ UNCHANGED <<device, released>>
        /\ \/ queue' = queue
           \/ mCameraDevice # 0 /\ queue' = Append(queue, [at |-> "configured", d |-> mCameraDevice])
    BY <1>6 DEF CreateCameraPreviewSession
  <2>q. PICK m : m = [at |-> "configured", d |-> mCameraDevice]
    OBVIOUS
  <2>m. mCameraDevice # 0 => m \in Message
    <3>1. mCameraDevice \in 0 .. n /\ n \in 0 .. MaxOpens /\ MaxOpens \in Nat
      BY Numbers DEF Typing, TypeOK, DeviceType
    <3> QED
      BY <2>q, <3>1 DEF Message, Posts, Devices
  <2>2. \A i \in DOMAIN queue' : \/ i \in DOMAIN queue /\ queue'[i] = queue[i]
                                 \/ i \notin DOMAIN queue /\ queue'[i].at = "configured"
    <3>1. CASE queue' = queue
      BY <3>1
    <3>2. CASE m \in Message /\ queue' = Append(queue, m)
      BY <1>0, <2>q, <3>2, QueueAppend
    <3> QED
      BY <2>1, <2>q, <2>m, <3>1, <3>2
  <2>3. Returned' /\ Answering'
    BY <1>i, <2>1 DEF Returned, Answering, Idle
  <2>4. QueuedOpened'
    BY <1>i, <2>1, <2>2 DEF QueuedOpened, Idle
  <2>5. QueuedFailed'
    BY <1>i, <2>1, <2>2 DEF QueuedFailed, Idle
  <2> QED
    BY <2>3, <2>4, <2>5 DEF Messages
<1>7. CASE UNCHANGED <<bg, device, queue, released>>
  BY <1>i, <1>7 DEF Messages, Returned, QueuedOpened, QueuedFailed, Answering
<1>8. CASE OnOpened \/ OnConfigured \/ SetRepeatingRequest
  <2>1. /\ UNCHANGED <<queue, device, released>> /\ bg.at \in {"assign", "configured", "repeat"}
        /\ bg' = Idle \/ bg' = [bg EXCEPT !.at = "create"] \/ bg' = [bg EXCEPT !.at = "repeat"]
    BY <1>8 DEF OnOpened, OnConfigured, SetRepeatingRequest
  <2>2. bg'.at \in {"idle", "create", "repeat"}
    BY <1>0, <2>1 DEF Idle
  <2>3. Returned' /\ Answering'
    BY <1>i, <2>1, <2>2 DEF Returned, Answering
  <2>4. QueuedOpened'
    BY <1>i, <2>1, <2>2 DEF QueuedOpened
  <2>5. QueuedFailed'
    BY <1>i, <2>1, <2>2 DEF QueuedFailed
  <2> QED
    BY <2>3, <2>4, <2>5 DEF Messages
<1>9. ASSUME Next, ~(MainOpens \/ GLOpens \/ CloseDevice \/ Background), ~\E d \in Devices : Fault(d)
      PROVE  UNCHANGED <<bg, device, queue, released>>
  BY <1>9 DEF Next, Main, GL, OnResume, OnRequestPermissionsResult, SurfaceCreated,
     OnClick, OnPause, CloseAcquire, CloseSession, CloseRelease, MainAcquire,
     StopBackgroundThread, OnSurfaceCreated, GLAcquire, Timeout
<1> QED
  BY <1>1, <1>2, <1>3, <1>4, <1>5, <1>6, <1>7, <1>8, <1>9 DEF Background

-----------------------------------------------------------------------------
(* The account of the semaphore.                                           *)

Account == crash = "no" => permits + Holders = 1 + Cardinality(AnsweredTwice)

\* The holders other than an open that waits for its first callback.
Hm == Holds(main = "open")
Hg == Holds(gl = "open")
Hc == Holds(main \in {"close session", "close device", "release"})

LEMMA Counted ==
    ASSUME Typing
    PROVE  /\ IsFiniteSet(Unanswered) /\ Cardinality(Unanswered) \in Nat
           /\ IsFiniteSet(AnsweredTwice) /\ Cardinality(AnsweredTwice) \in Nat
           /\ Hm \in 0 .. 1 /\ Hg \in 0 .. 1 /\ Hc \in 0 .. 1 /\ permits \in Nat
           /\ Holders = Cardinality(Unanswered) + Hm + Hg + Hc
<1>1. IsFiniteSet(1 .. n)
  BY Numbers, FS_Interval DEF Typing
<1>2. Unanswered \subseteq 1 .. n /\ AnsweredTwice \subseteq 1 .. n
  BY DEF Unanswered, AnsweredTwice
<1>3. IsFiniteSet(Unanswered) /\ IsFiniteSet(AnsweredTwice)
  BY <1>1, <1>2, FS_Subset
<1>4. Cardinality(Unanswered) \in Nat /\ Cardinality(AnsweredTwice) \in Nat
  BY <1>3, FS_CardinalityType
<1>5. Hm \in 0 .. 1 /\ Hg \in 0 .. 1 /\ Hc \in 0 .. 1
  BY DEF Hm, Hg, Hc, Holds
<1>6. permits \in Nat
  BY DEF Typing, TypeOK, CountType
<1>7. Holders = Cardinality(Unanswered) + Hm + Hg + Hc
  BY DEF Holders, Hm, Hg, Hc
<1> QED
  BY <1>3, <1>4, <1>5, <1>6, <1>7

\* The two sets after a step that opens a device: it has not been answered.
LEMMA CountOpened ==
    ASSUME Typing, n' = n + 1, n + 1 \in Devices, released' = released
    PROVE  /\ Cardinality(Unanswered') = Cardinality(Unanswered) + 1
           /\ AnsweredTwice' = AnsweredTwice
<1>0. n \in Nat /\ n + 1 \in 1 .. n + 1 /\ released[n + 1] = 0 /\ n + 1 \notin 1 .. n
  BY Numbers DEF Typing, Opened
<1>1. 1 .. n' = (1 .. n) \cup {n + 1}
  BY <1>0
<1>2. Unanswered' = Unanswered \cup {n + 1} /\ n + 1 \notin Unanswered
  BY <1>0, <1>1 DEF Unanswered
<1>3. AnsweredTwice' = AnsweredTwice
  BY <1>0, <1>1 DEF AnsweredTwice
<1> QED
  BY <1>2, <1>3, Counted, FS_AddElement

\* The two sets after a callback that gives a permit back: the first one of its device,
\* or the second.
LEMMA CountReleased ==
    ASSUME Typing, Messages, CallbackRelease
    PROVE  \/ /\ Cardinality(Unanswered') = Cardinality(Unanswered) - 1
              /\ Cardinality(Unanswered) > 0 /\ AnsweredTwice' = AnsweredTwice
           \/ /\ Cardinality(AnsweredTwice') = Cardinality(AnsweredTwice) + 1
              /\ Unanswered' = Unanswered
<1>1. /\ bg.at \in {"opened", "failed"} /\ n' = n
      /\ released' = [released EXCEPT ![bg.d] = @ + 1]
  BY DEF CallbackRelease
<1>2. /\ bg.d \in Devices /\ bg.d <= n /\ released \in [Devices -> Nat] /\ n \in Nat
  BY <1>1, MessageFacts DEF Idle
<1>3. bg.d \in 1 .. n /\ released[bg.d] \in Nat /\ released[bg.d] <= 1 /\ 1 .. n \subseteq Devices
  <2>1. released[bg.d] <= 1
    BY <1>1, <1>2 DEF Messages, Answering
  <2>2. n \in 0 .. MaxOpens
    BY Numbers DEF Typing
  <2> QED
    BY <1>2, <2>1, <2>2, Numbers DEF Devices
<1>4. /\ released'[bg.d] = released[bg.d] + 1
      /\ \A d \in 1 .. n : d # bg.d => released'[d] = released[d]
  BY <1>1, <1>2, <1>3
<1>5. CASE released[bg.d] = 0
  <2>1. Unanswered' = Unanswered \ {bg.d} /\ bg.d \in Unanswered
    BY <1>1, <1>3, <1>4, <1>5 DEF Unanswered
  <2>2. AnsweredTwice' = AnsweredTwice
    BY <1>1, <1>3, <1>4, <1>5 DEF AnsweredTwice
  <2>3. Cardinality(Unanswered') = Cardinality(Unanswered) - 1
    BY <2>1, Counted, FS_RemoveElement
  <2>4. Cardinality(Unanswered) > 0
    BY <2>1, Counted, FS_EmptySet
  <2> QED
    BY <2>2, <2>3, <2>4
<1>6. CASE released[bg.d] = 1
  <2>1. Unanswered' = Unanswered
    BY <1>1, <1>3, <1>4, <1>6 DEF Unanswered
  <2>2. AnsweredTwice' = AnsweredTwice \cup {bg.d} /\ bg.d \notin AnsweredTwice
    BY <1>1, <1>3, <1>4, <1>6 DEF AnsweredTwice
  <2> QED
    BY <2>1, <2>2, Counted, FS_AddElement
<1> QED
  BY <1>3, <1>5, <1>6

LEMMA NextAccount == Typing /\ Messages /\ Account /\ [Next]_vars => Account'
<1> SUFFICES ASSUME Typing, Messages, Account, [Next]_vars, crash' = "no"
             PROVE  permits' + Holders' = 1 + Cardinality(AnsweredTwice')
  BY DEF Account
<1>0. /\ Cardinality(Unanswered) \in Nat /\ Cardinality(AnsweredTwice) \in Nat
      /\ Hm \in 0 .. 1 /\ Hg \in 0 .. 1 /\ Hc \in 0 .. 1 /\ permits \in Nat
      /\ Holders = Cardinality(Unanswered) + Hm + Hg + Hc
  BY Counted
<1>c. permits + Holders = 1 + Cardinality(AnsweredTwice)
  <2>1. crash = "no"
    BY DEF Next
  <2> QED
    BY <2>1 DEF Account
<1>h. Holders' = Cardinality(Unanswered') + Hm' + Hg' + Hc'
  BY DEF Holders, Hm, Hg, Hc
<1>s. ASSUME UNCHANGED <<n, released>>
      PROVE  Unanswered' = Unanswered /\ AnsweredTwice' = AnsweredTwice
  BY <1>s DEF Unanswered, AnsweredTwice
<1>1. CASE MainOpens
  <2>1. n' = n + 1 /\ n + 1 \in Devices /\ UNCHANGED <<permits, released>>
    <3>1. ManagerOpens /\ main = "open" /\ UNCHANGED <<permits, released>>
      BY <1>1 DEF MainOpens
    <3> QED
      BY <3>1, Opens
  <2>2. Hm = 1 /\ Hm' = 0 /\ Hg' = Hg /\ Hc = 0 /\ Hc' = 0
    BY <1>1 DEF MainOpens, Hm, Hg, Hc, Holds
  <2>3. Cardinality(Unanswered') = Cardinality(Unanswered) + 1 /\ AnsweredTwice' = AnsweredTwice
    BY <2>1, CountOpened
  <2> QED
    BY <1>0, <1>c, <1>h, <2>1, <2>2, <2>3
<1>2. CASE GLOpens
  <2>1. n' = n + 1 /\ n + 1 \in Devices /\ UNCHANGED <<permits, released>>
    <3>1. ManagerOpens /\ gl = "open" /\ UNCHANGED <<permits, released>>
      BY <1>2 DEF GLOpens
    <3> QED
      BY <3>1, Opens
  <2>2. Hg = 1 /\ Hg' = 0 /\ Hm' = Hm /\ Hc' = Hc
    BY <1>2 DEF GLOpens, Hm, Hg, Hc, Holds
  <2>3. Cardinality(Unanswered') = Cardinality(Unanswered) + 1 /\ AnsweredTwice' = AnsweredTwice
    BY <2>1, CountOpened
  <2> QED
    BY <1>0, <1>c, <1>h, <2>1, <2>2, <2>3
<1>3. CASE CallbackRelease
  <2>1. permits' = permits + 1 /\ Hm' = Hm /\ Hg' = Hg /\ Hc' = Hc
    BY <1>3 DEF CallbackRelease, Hm, Hg, Hc
  <2>2. CASE /\ Cardinality(Unanswered') = Cardinality(Unanswered) - 1
             /\ AnsweredTwice' = AnsweredTwice
    BY <1>0, <1>c, <1>h, <2>1, <2>2
  <2>3. CASE /\ Cardinality(AnsweredTwice') = Cardinality(AnsweredTwice) + 1
             /\ Unanswered' = Unanswered
    BY <1>0, <1>c, <1>h, <2>1, <2>3
  <2> QED
    BY <1>3, <2>2, <2>3, CountReleased
<1>4. CASE CloseAcquire
  <2>1. permits' = permits - 1 /\ UNCHANGED <<n, released>>
        /\ Hm = 0 /\ Hm' = 0 /\ Hg' = Hg /\ Hc = 0 /\ Hc' = 1
    BY <1>4 DEF CloseAcquire, Hm, Hg, Hc, Holds
  <2> QED
    BY <1>0, <1>c, <1>h, <1>s, <2>1
<1>5. CASE CloseRelease
  <2>1. permits' = permits + 1 /\ UNCHANGED <<n, released>>
        /\ Hm = 0 /\ Hm' = 0 /\ Hg' = Hg /\ Hc = 1 /\ Hc' = 0
    BY <1>5 DEF CloseRelease, OpenCamera, Hm, Hg, Hc, Holds
  <2> QED
    BY <1>0, <1>c, <1>h, <1>s, <2>1
<1>6. CASE MainAcquire
  <2>1. permits' = permits - 1 /\ UNCHANGED <<n, released>>
        /\ Hm = 0 /\ Hm' = 1 /\ Hg' = Hg /\ Hc = 0 /\ Hc' = 0
    BY <1>6 DEF MainAcquire, TryAcquire, Hm, Hg, Hc, Holds
  <2> QED
    BY <1>0, <1>c, <1>h, <1>s, <2>1
<1>7. CASE GLAcquire
  <2>1. permits' = permits - 1 /\ UNCHANGED <<n, released>>
        /\ Hg = 0 /\ Hg' = 1 /\ Hm' = Hm /\ Hc' = Hc
    BY <1>7 DEF GLAcquire, TryAcquire, Hm, Hg, Hc, Holds
  <2> QED
    BY <1>0, <1>c, <1>h, <1>s, <2>1
<1>8. CASE UNCHANGED <<permits, n, released>> /\ Hm' = Hm /\ Hg' = Hg /\ Hc' = Hc
  BY <1>0, <1>c, <1>h, <1>s, <1>8
<1>9. CASE OnResume \/ OnSurfaceCreated
  BY <1>8, <1>9 DEF OnResume, OnSurfaceCreated, OpenCamera, Hm, Hg, Hc, Holds
<1>10. CASE OnClick \/ OnPause \/ CloseSession \/ CloseDevice \/ StopBackgroundThread
  BY <1>8, <1>10 DEF OnClick, OnPause, CloseSession, CloseDevice, StopBackgroundThread, Hm, Hg, Hc, Holds
<1>11. CASE UNCHANGED <<permits, n, released, main, gl>>
  BY <1>8, <1>11 DEF Hm, Hg, Hc
<1>12. ASSUME Next, ~(OnResume \/ OnSurfaceCreated \/ OnClick \/ OnPause \/ CallbackRelease), ~Main, ~GL
       PROVE  UNCHANGED <<permits, n, released, main, gl>>
  BY <1>12 DEF Next, Background, OnRequestPermissionsResult, SurfaceCreated, Timeout, Take, OnOpened,
     DropDevice, CreateCameraPreviewSession, OnConfigured, SetRepeatingRequest, Fault
<1> QED
  BY <1>1, <1>2, <1>3, <1>4, <1>5, <1>6, <1>7, <1>9, <1>10, <1>11, <1>12 DEF Main, GL

AccountInv == Typing /\ Messages /\ Account

LEMMA InitAccount == Init => AccountInv
<1> SUFFICES ASSUME Init PROVE Account
  BY InitTyping, InitMessages DEF AccountInv
<1>1. Unanswered = {} /\ AnsweredTwice = {}
  BY DEF Init, Unanswered, AnsweredTwice
<1>2. Cardinality(Unanswered) = 0 /\ Cardinality(AnsweredTwice) = 0
  BY <1>1, FS_EmptySet
<1> QED
  BY <1>2 DEF Account, Init, Holders, Holds

LEMMA AccountInvariance == Spec => []AccountInv
<1>1. Init => AccountInv
  BY InitAccount
<1>2. AccountInv /\ [Next]_vars => AccountInv'
  BY NextTyping, NextCallbacks, NextAccount DEF AccountInv
<1> QED
  BY <1>1, <1>2, PTL DEF Spec

(* Permits are neither made nor lost: mCameraOpenCloseLock and those who hold a permit      *)
(* come to one, and one more for each device that was opened and then disconnected; as long *)
(* as there is none, openCamera and closeCamera exclude each other, whichever of the three  *)
(* threads gives the permit back.                                                           *)
THEOREM PermitsKept == Spec => []PermitAccount
<1>1. AccountInv => PermitAccount
  <2> SUFFICES ASSUME AccountInv, crash = "no"
               PROVE  /\ permits + Holders = 1 + Cardinality(AnsweredTwice)
                      /\ AnsweredTwice = {} => Holders <= 1
    BY DEF PermitAccount
  <2>1. permits + Holders = 1 + Cardinality(AnsweredTwice)
    BY DEF AccountInv, Account
  <2>2. /\ Cardinality(Unanswered) \in Nat /\ permits \in Nat
        /\ Hm \in 0 .. 1 /\ Hg \in 0 .. 1 /\ Hc \in 0 .. 1
        /\ Holders = Cardinality(Unanswered) + Hm + Hg + Hc
    BY Counted DEF AccountInv
  <2>3. AnsweredTwice = {} => Cardinality(AnsweredTwice) = 0
    BY FS_EmptySet
  <2> QED
    BY <2>1, <2>2, <2>3
<1> QED
  BY <1>1, AccountInvariance, PTL

-----------------------------------------------------------------------------
(* Which devices are open when onPause has returned.                       *)

\* The background thread lives from onResume to the end of onPause, which has waited for it.
Lifecycle ==
    /\ ~resumed => main = "idle" /\ handler = "none" /\ queue = <<>> /\ bg = Idle
    /\ main = "join" => handler = "quitting"
    /\ resumed /\ main # "join" => handler = "running"

Twice == AnsweredTwice # {}

\* Where an open device is known: its first callback is to come, a callback is at work on
\* it, mCameraDevice names it, or it has been lost.
Tracked ==
    \A d \in Devices : device[d] = "open" =>
        \/ Twice \/ d \in Unanswered \/ d \in stray \/ mCameraDevice = d
        \/ bg \in {[at |-> "assign", d |-> d], [at |-> "drop", d |-> d]}

\* What a close in progress has left behind: what onOpened may still assign it has
\* overtaken, and what mCameraDevice names after it is lost too.
Overtaken ==
    \/ Twice
    \/ /\ main \in {"close session", "close device", "release", "join"} /\ bg.at = "assign"
             => bg.d \in stray
       /\ (main \in {"release", "join"} \/ ~resumed) /\ mCameraDevice # 0 /\ device[mCameraDevice] = "open"
             => mCameraDevice \in stray
       /\ main = "join" =>
             /\ bg.at # "opened"
             /\ \A i \in DOMAIN queue : queue[i].at = "opened" => released[queue[i].d] # 0

LEMMA NextLifecycle == Typing /\ Lifecycle /\ [Next]_vars => Lifecycle'
<1> SUFFICES ASSUME Typing, Lifecycle, [Next]_vars PROVE Lifecycle'
  OBVIOUS
<1> USE DEF Lifecycle
<1>b. resumed \in BOOLEAN
  BY DEF Typing, TypeOK, ScreenType
<1>1. CASE OnResume
  BY <1>1 DEF OnResume, OpenCamera
<1>2. CASE StopBackgroundThread
  BY <1>2 DEF StopBackgroundThread
<1>3. CASE CloseRelease
  <2>1. resumed /\ resumed' = resumed /\ main # "join"
    BY <1>3 DEF CloseRelease
  <2>2. \/ main' = "join" /\ handler' = "quitting"
        \/ main' # "join" /\ handler' = handler
    BY <1>3 DEF CloseRelease, OpenCamera
  <2> QED
    BY <2>1, <2>2
<1>4. CASE OnClick \/ OnPause \/ CloseAcquire \/ CloseSession \/ CloseDevice \/ MainAcquire \/ MainOpens
  <2>1. resumed /\ main # "join" /\ main' # "join" /\ UNCHANGED <<resumed, handler>>
    BY <1>4 DEF OnClick, OnPause, CloseAcquire, CloseSession, CloseDevice, MainAcquire, TryAcquire, MainOpens
  <2> QED
    BY <2>1
<1>5. CASE GLOpens
  <2>1. UNCHANGED <<resumed, main, handler, bg>> /\ ManagerOpens
    BY <1>5 DEF GLOpens
  <2>2. ~resumed => queue' = queue
    BY <2>1 DEF ManagerOpens
  <2> QED
    BY <2>1, <2>2
<1>6. CASE Background
  <2>1. UNCHANGED <<resumed, main, handler>> /\ (queue # <<>> \/ bg # Idle)
    BY <1>6 DEF Background, Take, CallbackRelease, OnOpened, DropDevice, CreateCameraPreviewSession,
       OnConfigured, SetRepeatingRequest, Idle
  <2> QED
    BY <2>1
<1>7. CASE \E d \in Devices : Fault(d)
  <2>1. UNCHANGED <<resumed, main, handler, bg>> /\ handler = "running"
    BY <1>7 DEF Fault
  <2> QED
    BY <2>1
<1>8. CASE UNCHANGED <<resumed, main, handler, queue, bg>>
  BY <1>8
<1>9. ASSUME Next, ~(OnResume \/ OnClick \/ OnPause \/ GLOpens \/ Background), ~Main,
             ~\E d \in Devices : Fault(d)
      PROVE  UNCHANGED <<resumed, main, handler, queue, bg>>
  BY <1>9 DEF Next, GL, OnRequestPermissionsResult, SurfaceCreated, OnSurfaceCreated, GLAcquire, Timeout
<1> QED
  BY <1>1, <1>2, <1>3, <1>4, <1>5, <1>6, <1>7, <1>8, <1>9 DEF Main

\* A device that gave two permits back never gives a third.
LEMMA TwiceStays == Typing /\ Messages /\ [Next]_vars /\ Twice => Twice'
<1> SUFFICES ASSUME Typing, Messages, [Next]_vars, Twice PROVE Twice'
  OBVIOUS
<1>1. PICK d \in 1 .. n : released[d] = 2
  BY DEF Twice, AnsweredTwice
<1>2. n \in Nat /\ n' \in Nat /\ n' >= n /\ d \in Devices /\ released \in [Devices -> Nat]
  <2>1. n \in 0 .. MaxOpens /\ MaxOpens \in Nat
    BY Numbers DEF Typing
  <2> QED
    BY <1>1, <2>1, DeviceSteps, MessageFacts DEF Devices
<1>3. released'[d] = 2
  <2>1. CASE released' = released
    BY <1>1, <2>1
  <2>2. CASE CallbackRelease /\ released' = [released EXCEPT ![bg.d] = @ + 1]
    <3>1. bg.at \in {"opened", "failed"}
      BY <2>2 DEF CallbackRelease
    <3>2. bg.d # d
      BY <1>1, <3>1 DEF Messages, Answering
    <3> QED
      BY <1>1, <1>2, <2>2, <3>2
  <2> QED
    BY <2>1, <2>2, ReleaseSteps
<1>4. d \in 1 .. n'
  BY <1>1, <1>2
<1> QED
  BY <1>3, <1>4 DEF Twice, AnsweredTwice

\* While a close has the permit no open waits for its callback.
LEMMA ClosingAlone ==
    AccountInv /\ crash = "no" /\ ~Twice /\ main \in {"close session", "close device", "release"}
      => Unanswered = {}
<1>1. ~Twice => Cardinality(AnsweredTwice) = 0
  BY FS_EmptySet DEF Twice
<1>2. AccountInv =>
        /\ IsFiniteSet(Unanswered) /\ Cardinality(Unanswered) \in Nat
        /\ Hm \in 0 .. 1 /\ Hg \in 0 .. 1 /\ permits \in Nat
        /\ Holders = Cardinality(Unanswered) + Hm + Hg + Hc
  BY Counted DEF AccountInv
<1>3. main \in {"close session", "close device", "release"} => Hc = 1
  BY DEF Hc, Holds
<1>4. AccountInv /\ crash = "no" => permits + Holders = 1 + Cardinality(AnsweredTwice)
  BY DEF AccountInv, Account
<1>5. ASSUME NEW p \in Nat, NEW u \in Nat, NEW a \in 0 .. 1, NEW b \in 0 .. 1, p + (u + a + b + 1) = 1 + 0
      PROVE  u = 0
  BY <1>5
<1>6. IsFiniteSet(Unanswered) /\ Cardinality(Unanswered) = 0 => Unanswered = {}
  BY FS_EmptySet
<1> QED
  BY <1>1, <1>2, <1>3, <1>4, <1>5, <1>6

LEMMA NextTracked == AccountInv /\ Tracked /\ [Next]_vars => Tracked'
<1> SUFFICES ASSUME AccountInv, Tracked, [Next]_vars, ~Twice',
                    NEW d \in Devices, device'[d] = "open"
             PROVE  \/ d \in Unanswered' \/ d \in stray' \/ mCameraDevice' = d
                    \/ bg' \in {[at |-> "assign", d |-> d], [at |-> "drop", d |-> d]}
  BY DEF Tracked
<1>t. Typing /\ Messages /\ ~Twice
  BY TwiceStays DEF AccountInv
<1>0. /\ \/ bg = Idle
         \/ bg.at \in Stages /\ bg.d \in Devices /\ bg = [at |-> bg.at, d |-> bg.d]
      /\ device \in [Devices -> {"none", "open", "failed", "closed"}]
      /\ released \in [Devices -> Nat] /\ n \in Nat /\ Devices \subseteq Nat /\ Opened
      /\ \A e \in Devices : e >= 1
  BY <1>t, MessageFacts, Numbers DEF Typing, Devices
<1>i. device[d] = "open" =>
        \/ d \in Unanswered \/ d \in stray \/ mCameraDevice = d
        \/ bg \in {[at |-> "assign", d |-> d], [at |-> "drop", d |-> d]}
  BY <1>t DEF Tracked
<1>1. CASE MainOpens \/ GLOpens
  <2>1. ManagerOpens /\ (main = "open" \/ gl = "open") /\ UNCHANGED <<bg, released, stray, mCameraDevice>>
    BY <1>1 DEF MainOpens, GLOpens
  <2>2. CASE UNCHANGED <<n, device>>
    BY <1>i, <2>1, <2>2 DEF Unanswered
  <2>3. ASSUME n' = n + 1, n + 1 \in Devices, NEW s, device' = [device EXCEPT ![n + 1] = s]
        PROVE  \/ d \in Unanswered' \/ d \in stray' \/ mCameraDevice' = d
               \/ bg' \in {[at |-> "assign", d |-> d], [at |-> "drop", d |-> d]}
    <3>1. 1 .. n' = (1 .. n) \cup {n + 1}
      BY <1>0, <2>3
    <3>2. Unanswered \subseteq Unanswered'
      BY <2>1, <3>1 DEF Unanswered
    <3>3. CASE d = n + 1
      <4>1. released[n + 1] = 0
        BY <1>0, <2>3 DEF Opened
      <4> QED
        BY <2>1, <3>1, <3>3, <4>1 DEF Unanswered
    <3>4. CASE d # n + 1
      BY <1>0, <1>i, <2>1, <2>3, <3>2, <3>4
    <3> QED
      BY <3>3, <3>4
  <2> QED
    BY <1>t, <2>1, <2>2, <2>3, Opens
<1>2. CASE CallbackRelease
  <2>1. /\ bg.at \in {"opened", "failed"} /\ UNCHANGED <<n, device, mCameraDevice, stray>>
        /\ released' = [released EXCEPT ![bg.d] = @ + 1]
        /\ bg' = [bg EXCEPT !.at = IF @ = "opened" THEN "assign" ELSE "drop"]
    BY <1>2 DEF CallbackRelease
  <2>2. /\ bg.d \in Devices /\ bg' = [at |-> IF bg.at = "opened" THEN "assign" ELSE "drop", d |-> bg.d]
    BY <1>0, <2>1 DEF Idle
  <2>3. CASE d = bg.d
    BY <2>2, <2>3
  <2>4. CASE d # bg.d
    <3>1. d \in Unanswered => d \in Unanswered'
      BY <1>0, <2>1, <2>2, <2>4 DEF Unanswered
    <3> QED
      BY <1>i, <2>1, <3>1
  <2> QED
    BY <2>3, <2>4
<1>s. ASSUME UNCHANGED <<n, released>> PROVE Unanswered' = Unanswered
  BY <1>s DEF Unanswered
<1>3. CASE CloseDevice
  <2>1. /\ UNCHANGED <<n, released, stray, bg>> /\ mCameraDevice' = 0
        /\ device' = IF mCameraDevice = 0 THEN device ELSE Closes(mCameraDevice)
    BY <1>3 DEF CloseDevice
  <2>2. device[d] = "open" /\ mCameraDevice # d
    BY <1>0, <2>1 DEF Closes
  <2> QED
    BY <1>i, <1>s, <2>1, <2>2
<1>4. CASE DropDevice
  <2>1. /\ bg.at = "drop" /\ UNCHANGED <<n, released>> /\ device' = Closes(bg.d) /\ mCameraDevice' = 0
        /\ stray' = stray \cup ({mCameraDevice} \ {0, bg.d})
    BY <1>4 DEF DropDevice
  <2>2. device[d] = "open" /\ bg.d # d
    BY <1>0, <2>1 DEF Closes
  <2> QED
    BY <1>0, <1>i, <1>s, <2>1, <2>2
<1>5. CASE OnOpened
  <2>1. /\ bg.at = "assign" /\ UNCHANGED <<n, released, device>> /\ mCameraDevice' = bg.d
        /\ stray' = stray \cup ({mCameraDevice} \ {0})
    BY <1>5 DEF OnOpened
  <2> QED
    BY <1>0, <1>i, <1>s, <2>1
<1>6. CASE CloseAcquire
  BY <1>i, <1>s, <1>6 DEF CloseAcquire
<1>7. CASE Take \/ CreateCameraPreviewSession \/ OnConfigured \/ SetRepeatingRequest
  <2>1. /\ UNCHANGED <<n, released, device, mCameraDevice, stray>>
        /\ bg = Idle \/ bg.at \in {"create", "configured", "repeat"}
    BY <1>7 DEF Take, CreateCameraPreviewSession, OnConfigured, SetRepeatingRequest
  <2>2. bg \notin {[at |-> "assign", d |-> d], [at |-> "drop", d |-> d]}
    BY <2>1 DEF Idle
  <2> QED
    BY <1>i, <1>s, <2>1, <2>2
<1>8. CASE UNCHANGED <<n, released, device, mCameraDevice, stray, bg>>
  BY <1>i, <1>s, <1>8
<1>9. ASSUME Next, ~(MainOpens \/ GLOpens \/ CloseDevice \/ CloseAcquire \/ Background)
      PROVE  UNCHANGED <<n, released, device, mCameraDevice, stray, bg>>
  BY <1>9 DEF Next, Main, GL, OnResume, OnRequestPermissionsResult, SurfaceCreated,
     OnClick, OnPause, CloseSession, CloseRelease, MainAcquire, Fault,
     StopBackgroundThread, OnSurfaceCreated, GLAcquire, Timeout
<1> QED
  BY <1>1, <1>2, <1>3, <1>4, <1>5, <1>6, <1>7, <1>8, <1>9 DEF Background

LEMMA NextOvertaken == AccountInv /\ Lifecycle /\ Overtaken /\ [Next]_vars => Overtaken'
<1> SUFFICES ASSUME AccountInv, Lifecycle, Overtaken, [Next]_vars, ~Twice'
             PROVE  Overtaken'
  BY DEF Overtaken
<1>t. Typing /\ Messages /\ ~Twice
  BY TwiceStays DEF AccountInv
<1>0. /\ \/ bg = Idle
         \/ bg.at \in Stages /\ bg.d \in Devices /\ bg.d <= n /\ bg = [at |-> bg.at, d |-> bg.d]
      /\ queue \in Seq(Message)
      /\ \A i \in DOMAIN queue : queue[i].at \in Posts /\ queue[i].d \in Devices /\ queue[i].d <= n
      /\ device \in [Devices -> {"none", "open", "failed", "closed"}]
      /\ released \in [Devices -> Nat] /\ n \in Nat /\ Devices \subseteq Nat /\ mCameraDevice \in 0 .. n
      /\ n \in 0 .. MaxOpens /\ MaxOpens \in Nat
  BY <1>t, MessageFacts, Numbers DEF Typing, TypeOK, DeviceType
<1>i. /\ main \in {"close session", "close device", "release", "join"} /\ bg.at = "assign"
            => bg.d \in stray
      /\ (main \in {"release", "join"} \/ ~resumed) /\ mCameraDevice # 0 /\ device[mCameraDevice] = "open"
            => mCameraDevice \in stray
      /\ main = "join" =>
            /\ bg.at # "opened"
            /\ \A i \in DOMAIN queue : queue[i].at = "opened" => released[queue[i].d] # 0
  BY <1>t DEF Overtaken
<1>u. ASSUME NEW d \in Devices, d <= n, released[d] = 0, Next
      PROVE  main \notin {"close session", "close device", "release"}
  <2>1. d \in Unanswered
    BY <1>0, <1>u DEF Unanswered, Devices
  <2>2. crash = "no"
    BY <1>u DEF Next
  <2> QED
    BY <1>t, <2>1, <2>2, ClosingAlone
\* A step after which the main thread is neither closing nor paused.
<1>v. ASSUME resumed', main' \notin {"close session", "close device", "release", "join"}
      PROVE  Overtaken'
  BY <1>v DEF Overtaken
<1>1. CASE OnResume
  BY <1>v, <1>1 DEF OnResume, OpenCamera
<1>2. CASE OnClick \/ OnPause \/ MainAcquire \/ MainOpens
  <2>1. resumed /\ resumed' = resumed /\ main' \in {"close", "open", "idle"}
    BY <1>2 DEF OnClick, OnPause, MainAcquire, TryAcquire, MainOpens, Lifecycle
  <2> QED
    BY <1>v, <2>1
<1>3. CASE CloseAcquire
  <2>1. /\ resumed /\ resumed' = resumed /\ main' = "close session" /\ bg' = bg
        /\ stray' = stray \cup {d \in Devices : bg = [at |-> "assign", d |-> d]}
    BY <1>3 DEF CloseAcquire, Lifecycle
  <2>2. bg.at = "assign" => bg.d \in stray'
    <3>1. bg.at = "assign" => bg.d \in Devices /\ bg = [at |-> "assign", d |-> bg.d]
      BY <1>0 DEF Idle
    <3> QED
      BY <2>1, <3>1
  <2> QED
    BY <2>1, <2>2 DEF Overtaken
<1>4. CASE CloseSession
  <2>1. /\ resumed /\ main = "close session" /\ main' = "close device" /\ UNCHANGED <<resumed, bg, stray>>
    BY <1>4 DEF CloseSession, Lifecycle
  <2> QED
    BY <1>i, <2>1 DEF Overtaken
<1>5. CASE CloseDevice
  <2>1. /\ main = "close device" /\ main' = "release" /\ UNCHANGED <<bg, stray>> /\ mCameraDevice' = 0
    BY <1>5 DEF CloseDevice
  <2> QED
    BY <1>i, <2>1 DEF Overtaken
<1>6. CASE CloseRelease
  <2>1. /\ main = "release" /\ resumed /\ main' \in {"join", "acquire", "idle"}
        /\ UNCHANGED <<resumed, bg, queue, stray, mCameraDevice, device, released>>
    BY <1>6 DEF CloseRelease, OpenCamera, Lifecycle
  <2>2. CASE main' # "join"
    BY <1>v, <2>1, <2>2
  <2>3. CASE main' = "join"
    <3>n. Next
      BY <1>6, <2>1, <2>3
    <3>1. bg.at # "opened"
      <4>1. bg.at = "opened" => bg.d \in Devices /\ bg.d <= n /\ released[bg.d] = 0
        BY <1>0, <1>t DEF Messages, Answering, Idle
      <4> QED
        BY <1>u, <2>1, <3>n, <4>1
    <3>2. \A i \in DOMAIN queue : queue[i].at = "opened" => released[queue[i].d] # 0
      BY <1>0, <1>u, <2>1, <3>n
    <3> QED
      BY <1>i, <2>1, <2>3, <3>1, <3>2 DEF Overtaken
  <2> QED
    BY <2>2, <2>3
<1>7. CASE StopBackgroundThread
  <2>1. /\ main = "join" /\ main' = "idle" /\ UNCHANGED <<mCameraDevice, device, stray>>
    BY <1>7 DEF StopBackgroundThread
  <2> QED
    BY <1>i, <2>1 DEF Overtaken
<1>8. CASE GLOpens
  <2>1. /\ UNCHANGED <<resumed, main, bg, stray, mCameraDevice, released>>
        /\ ManagerOpens /\ gl = "open"
    BY <1>8 DEF GLOpens
  <2>2. main = "join" => queue' = queue
    <3>1. main = "join" => handler = "quitting"
      BY DEF Lifecycle
    <3> QED
      BY <2>1, <3>1 DEF ManagerOpens
  <2>3. mCameraDevice # 0 => device'[mCameraDevice] = device[mCameraDevice]
    <3>1. CASE device' = device
      BY <3>1
    <3>2. ASSUME NEW s, device' = [device EXCEPT ![n + 1] = s]
          PROVE  mCameraDevice # 0 => device'[mCameraDevice] = device[mCameraDevice]
      <4>1. mCameraDevice # n + 1 /\ (mCameraDevice # 0 => mCameraDevice \in Devices)
        BY <1>0 DEF Devices
      <4> QED
        BY <1>0, <3>2, <4>1
    <3> QED
      BY <1>t, <2>1, <3>1, <3>2, Opens
  <2> QED
    BY <1>i, <2>1, <2>2, <2>3 DEF Overtaken
<1>9. CASE \E d \in Devices : Fault(d)
  <2>1. /\ UNCHANGED <<resumed, main, bg, stray, mCameraDevice, device>> /\ handler = "running"
    BY <1>9 DEF Fault
  <2>2. main # "join"
    BY <2>1 DEF Lifecycle
  <2> QED
    BY <1>i, <2>1, <2>2 DEF Overtaken
<1>10. CASE Take
  <2>1. /\ bg = Idle /\ queue # <<>> /\ queue' = Tail(queue)
        /\ UNCHANGED <<resumed, main, stray, mCameraDevice, device, released>>
        /\ bg' = IF Head(queue).at # "configured" /\ device[Head(queue).d] = "closed" THEN Idle ELSE Head(queue)
    BY <1>10 DEF Take
  <2>2. /\ 1 \in DOMAIN queue /\ Head(queue) = queue[1]
        /\ \A i \in DOMAIN queue' : i + 1 \in DOMAIN queue /\ queue'[i] = queue[i + 1]
    BY <1>0, <2>1, QueueTail
  <2>3. bg'.at # "assign"
    BY <1>0, <2>1, <2>2 DEF Idle, Posts
  <2>4. ASSUME main = "join" PROVE bg'.at # "opened"
    <3>1. queue[1].at = "opened" => released[queue[1].d] # 0
      BY <1>i, <2>2, <2>4
    <3>2. queue[1].at = "opened" => released[queue[1].d] = 0 \/ device[queue[1].d] = "closed"
      BY <1>t, <2>1, <2>2 DEF Messages, QueuedOpened, Idle
    <3> QED
      BY <2>1, <2>2, <3>1, <3>2 DEF Idle
  <2>5. main = "join" => \A i \in DOMAIN queue' : queue'[i].at = "opened" => released[queue'[i].d] # 0
    BY <1>i, <2>2
  <2> QED
    BY <1>i, <2>1, <2>3, <2>4, <2>5 DEF Overtaken
<1>11. CASE CallbackRelease
  <2>1. /\ bg.at \in {"opened", "failed"} /\ UNCHANGED <<resumed, main, queue, device, mCameraDevice, stray>>
        /\ released' = [released EXCEPT ![bg.d] = @ + 1]
        /\ bg' = [bg EXCEPT !.at = IF @ = "opened" THEN "assign" ELSE "drop"]
    BY <1>11 DEF CallbackRelease
  <2>2. bg.d \in Devices /\ bg.d <= n /\ bg' = [at |-> IF bg.at = "opened" THEN "assign" ELSE "drop", d |-> bg.d]
    BY <1>0, <2>1 DEF Idle
  <2>n. Next
    <3>1. bg'.at # bg.at
      BY <2>1, <2>2
    <3> QED
      BY <3>1
  <2>3. main \in {"close session", "close device", "release", "join"} => bg.at # "opened"
    <3>1. bg.at = "opened" => released[bg.d] = 0
      BY <1>t DEF Messages, Answering
    <3> QED
      BY <1>i, <1>u, <2>2, <2>n, <3>1
  <2>4. \A e \in Devices : released[e] # 0 => released'[e] # 0
    BY <1>0, <2>1, <2>2
  <2>5. main = "join" => \A i \in DOMAIN queue : queue[i].at = "opened" => released'[queue[i].d] # 0
    BY <1>0, <1>i, <2>4
  <2> QED
    BY <1>i, <2>1, <2>2, <2>3, <2>5 DEF Overtaken
<1>12. CASE OnOpened
  <2>1. /\ bg.at = "assign" /\ mCameraDevice' = bg.d /\ bg' = [bg EXCEPT !.at = "create"]
        /\ stray \subseteq stray' /\ UNCHANGED <<resumed, main, queue, released>>
    BY <1>12 DEF OnOpened
  <2>2. bg'.at = "create" /\ resumed
    BY <1>0, <2>1 DEF Idle, Lifecycle
  <2>3. main \in {"release", "join"} => bg.d \in stray'
    BY <1>i, <2>1
  <2> QED
    BY <1>i, <2>1, <2>2, <2>3 DEF Overtaken
<1>13. CASE DropDevice
  <2>1. /\ mCameraDevice' = 0 /\ bg' = Idle /\ UNCHANGED <<main, queue, released>>
    BY <1>13 DEF DropDevice
  <2> QED
    BY <1>i, <2>1 DEF Overtaken, Idle
<1>14. CASE CreateCameraPreviewSession
  <2>1. /\ bg' = Idle /\ UNCHANGED <<resumed, main, mCameraDevice, device, stray, released>>
        /\ handler = "quitting" => queue' = queue
    BY <1>14 DEF CreateCameraPreviewSession
  <2>2. main = "join" => queue' = queue
    BY <2>1 DEF Lifecycle
  <2> QED
    BY <1>i, <2>1, <2>2 DEF Overtaken, Idle
<1>15. CASE OnConfigured \/ SetRepeatingRequest
  <2>1. /\ UNCHANGED <<resumed, main, queue, mCameraDevice, device, stray, released>>
        /\ bg.at \in {"configured", "repeat"}
        /\ bg' = Idle \/ bg' = [bg EXCEPT !.at = "repeat"]
    BY <1>15 DEF OnConfigured, SetRepeatingRequest
  <2>2. bg'.at \in {"idle", "repeat"}
    BY <1>0, <2>1 DEF Idle
  <2> QED
    BY <1>i, <2>1, <2>2 DEF Overtaken
<1>16. CASE UNCHANGED <<resumed, main, bg, queue, stray, mCameraDevice, device, released>>
  BY <1>i, <1>16 DEF Overtaken
<1>17. ASSUME Next, ~(OnResume \/ OnClick \/ OnPause \/ GLOpens \/ Background), ~Main,
              ~\E d \in Devices : Fault(d)
       PROVE  UNCHANGED <<resumed, main, bg, queue, stray, mCameraDevice, device, released>>
  BY <1>17 DEF Next, GL, OnRequestPermissionsResult, SurfaceCreated, OnSurfaceCreated, GLAcquire, Timeout
<1> QED
  BY <1>1, <1>2, <1>3, <1>4, <1>5, <1>6, <1>7, <1>8, <1>9, <1>10, <1>11, <1>12, <1>13, <1>14, <1>15,
     <1>16, <1>17 DEF Main, Background

PauseInv == AccountInv /\ Lifecycle /\ Tracked /\ Overtaken

(* When onPause has returned no camera is open, but for the devices that the code itself   *)
(* loses: one that a close overtook between release() and the assignment of onOpened, one  *)
(* that a second open pushed out of mCameraDevice, one whose callback the quitting thread  *)
(* no longer takes, and any of them once a device has given a permit back twice.           *)
THEOREM NothingOpenWhenPaused == Spec => []PausedClosed
<1>1. Init => PauseInv
  <2> SUFFICES ASSUME Init PROVE PauseInv
    OBVIOUS
  <2>1. AccountInv
    BY InitAccount
  <2>2. Lifecycle /\ Overtaken
    BY DEF Init, Lifecycle, Overtaken
  <2>3. Tracked
    BY DEF Init, Tracked
  <2> QED
    BY <2>1, <2>2, <2>3 DEF PauseInv
<1>2. PauseInv /\ [Next]_vars => PauseInv'
  <2> SUFFICES ASSUME PauseInv, [Next]_vars PROVE PauseInv'
    OBVIOUS
  <2>1. AccountInv'
    BY NextTyping, NextCallbacks, NextAccount DEF PauseInv, AccountInv
  <2>2. Lifecycle'
    BY NextLifecycle DEF PauseInv, AccountInv
  <2>3. Tracked' /\ Overtaken'
    BY NextTracked, NextOvertaken DEF PauseInv
  <2> QED
    BY <2>1, <2>2, <2>3 DEF PauseInv
<1>3. PauseInv => PausedClosed
  <2> SUFFICES ASSUME PauseInv, ~resumed, NEW d \in Devices, device[d] = "open", ~Twice
               PROVE  d \in stray \/ d \in Unanswered
    BY DEF PausedClosed, Twice
  <2>1. bg = Idle
    BY DEF PauseInv, Lifecycle
  <2>2. d \in Unanswered \/ d \in stray \/ mCameraDevice = d
    BY <2>1 DEF PauseInv, Tracked, Idle
  <2>3. d # 0
    BY Numbers DEF Devices
  <2>4. mCameraDevice = d => d \in stray
    BY <2>3 DEF PauseInv, Overtaken
  <2> QED
    BY <2>2, <2>4
<1> QED
  BY <1>1, <1>2, <1>3, PTL DEF Spec
=============================================================================
