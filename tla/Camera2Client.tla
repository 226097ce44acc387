---------------------------- MODULE Camera2Client ----------------------------
(***************************************************************************)
(* The virtual-camera branches of libcameraservice's Camera2Client,        *)
(* composed with the native service they call.  A client's operations are  *)
(* serialised by its mBinderSerializationLock; each is a sequence of       *)
(* binder calls to the service, which other clients, the receive thread    *)
(* and the decode thread may interrupt between any two.                    *)
(*                                                                         *)
(* Clients are connected one after the other, as CameraService does with   *)
(* the users of one camera; the object of an earlier one lives on until    *)
(* its application drops it, and its destructor disconnects once more.     *)
(***************************************************************************)
EXTENDS VirtualCameraService, Sequences

CONSTANTS MaxClients,  \* clients connected one after the other
          Binders,     \* preview surfaces an application may set (0 is none)
          MaxOps       \* bound: operations of the clients

ASSUME ClientBounds == MaxClients \in Nat \ {0} /\ Binders \subseteq Nat \ {0} /\ MaxOps \in Nat

Clients == 1 .. MaxClients

VARIABLES
    phase,            \* of each client: unborn, open, closing (threads joined), closed, destroyed
    state,            \* l.mParameters.state
    mPreviewSurface,  \* the binder set last, 0 for none
    callbacks,        \* previewCallbackFlags enable callbacks
    mCallbackWindow,  \* CallbackProcessor: is not null
    calls,            \* calls to the service that the operation in progress has yet to make
    ops,              \* bounded counter
    targeted,         \* history: an application gave a callback surface of its own
    reused,           \* history: the preview was stopped since the surface was set
    dulled,           \* history: the callback window is older than the last release of its surface
    late,             \* history: a call arrived while disconnect was joining threads
    intruder          \* history: a destructor ran while another client was connected

client  == <<phase, state, mPreviewSurface, callbacks, mCallbackWindow>>
history == <<targeted, reused, dulled, late, intruder>>
cvars   == <<client, calls, ops, history>>
allVars == <<vars, cvars>>

ClientInit ==
    /\ Init
    /\ phase = [c \in Clients |-> "unborn"] /\ state = [c \in Clients |-> "STOPPED"]
    /\ mPreviewSurface = [c \in Clients |-> 0]
    /\ callbacks = [c \in Clients |-> FALSE] /\ mCallbackWindow = [c \in Clients |-> FALSE]
    /\ calls = [c \in Clients |-> <<>>] /\ ops = 0
    /\ targeted = FALSE /\ reused = [c \in Clients |-> FALSE] /\ dulled = [c \in Clients |-> FALSE]
    /\ late = FALSE /\ intruder = FALSE

\* A call of the application gets mBinderSerializationLock and passes checkPid: mClientPid is
\* reset at the very end of disconnect.
Enter(c) ==
    /\ phase[c] \in {"open", "closing"} /\ calls[c] = <<>> /\ ops < MaxOps
    /\ nwin + 2 <= MaxWindows /\ sessions < MaxSessions
    /\ ops' = ops + 1 /\ late' = (late \/ phase[c] = "closing")

Teardown == <<"destroy", "releaseSurface", "releaseCallBack">>

\* connect, which CameraService allows when the client before it has disconnected.
Connect(c) ==
    /\ phase[c] = "unborn" /\ \A b \in 1 .. (c - 1) : phase[b] \in {"closed", "destroyed"}
    /\ phase' = [phase EXCEPT ![c] = "open"]
    /\ intruder' = (intruder \/ \E b \in Clients : calls[b] # <<>>)
    /\ UNCHANGED <<vars, state, mPreviewSurface, callbacks, mCallbackWindow, calls, ops, targeted, reused,
                   dulled, late>>

\* Mutant: the service's surfaces are released before its session is destroyed.
SetPreviewTargetReleasesFirst(c, b) ==
    /\ Enter(c) /\ mPreviewSurface[c] # b
    /\ mPreviewSurface' = [mPreviewSurface EXCEPT ![c] = b]
    /\ LET again == b # 0 /\ state[c] = "PREVIEW"
       IN  /\ calls' = [calls EXCEPT ![c] =
                <<"releaseSurface", "releaseCallBack", "destroy">>
                  \o (IF b = 0 THEN <<>> ELSE <<"setSurface">>)
                  \o (IF again /\ callbacks[c] THEN <<"setCallBack">> ELSE <<>>)
                  \o (IF again THEN <<"create">> ELSE <<>>)]
           /\ mCallbackWindow' = [mCallbackWindow EXCEPT ![c] = @ \/ (again /\ callbacks[c])]
           /\ dulled' = [dulled EXCEPT ![c] = mCallbackWindow[c] /\ ~(again /\ callbacks[c])]
    /\ reused' = [reused EXCEPT ![c] = FALSE]
    /\ UNCHANGED <<vars, phase, state, callbacks, targeted, intruder>>

\* Mutant: the callback surface is not set again.
SetPreviewTargetNoCallBack(c, b) ==
    /\ Enter(c) /\ mPreviewSurface[c] # b
    /\ mPreviewSurface' = [mPreviewSurface EXCEPT ![c] = b]
    /\ LET again == b # 0 /\ state[c] = "PREVIEW"
       IN  /\ calls' = [calls EXCEPT ![c] =
                Teardown \o (IF b = 0 THEN <<>> ELSE <<"setSurface">>)
                         \o (IF again THEN <<"create">> ELSE <<>>)]
           /\ mCallbackWindow' = [mCallbackWindow EXCEPT ![c] = @ \/ (again /\ callbacks[c])]
           /\ dulled' = [dulled EXCEPT ![c] = mCallbackWindow[c] /\ ~(again /\ callbacks[c])]
    /\ reused' = [reused EXCEPT ![c] = FALSE]
    /\ UNCHANGED <<vars, phase, state, callbacks, targeted, intruder>>

\* Mutant: the session is not created again.
SetPreviewTargetNotAgain(c, b) ==
    /\ Enter(c) /\ mPreviewSurface[c] # b
    /\ mPreviewSurface' = [mPreviewSurface EXCEPT ![c] = b]
    /\ LET again == b # 0 /\ state[c] = "PREVIEW"
       IN  /\ calls' = [calls EXCEPT ![c] =
                Teardown \o (IF b = 0 THEN <<>> ELSE <<"setSurface">>)
                         \o (IF again /\ callbacks[c] THEN <<"setCallBack">> ELSE <<>>)]
           /\ mCallbackWindow' = [mCallbackWindow EXCEPT ![c] = @ \/ (again /\ callbacks[c])]
           /\ dulled' = [dulled EXCEPT ![c] = mCallbackWindow[c] /\ ~(again /\ callbacks[c])]
    /\ reused' = [reused EXCEPT ![c] = FALSE]
    /\ UNCHANGED <<vars, phase, state, callbacks, targeted, intruder>>

\* setPreviewTarget: a new surface (or none) ends the session; in PREVIEW the service is set
\* up again, in state PREVIEW throughout as seen from outside the lock.
SetPreviewTarget(c, b) ==
    /\ Enter(c) /\ mPreviewSurface[c] # b
    /\ mPreviewSurface' = [mPreviewSurface EXCEPT ![c] = b]
    /\ LET again == b # 0 /\ state[c] = "PREVIEW"
       IN  /\ calls' = [calls EXCEPT ![c] =
                Teardown \o (IF b = 0 THEN <<>> ELSE <<"setSurface">>)
                         \o (IF again /\ callbacks[c] THEN <<"setCallBack">> ELSE <<>>)
                         \o (IF again THEN <<"create">> ELSE <<>>)]
           /\ mCallbackWindow' = [mCallbackWindow EXCEPT ![c] = @ \/ (again /\ callbacks[c])]
           /\ dulled' = [dulled EXCEPT ![c] = mCallbackWindow[c] /\ ~(again /\ callbacks[c])]
    /\ reused' = [reused EXCEPT ![c] = FALSE]
    /\ UNCHANGED <<vars, phase, state, callbacks, targeted, intruder>>

\* startPreviewL with callbacks on or off; the callback surface is made only when there is none.
StartPreviewL(c, on) ==
    /\ calls' = [calls EXCEPT ![c] = (IF on /\ ~mCallbackWindow[c]
                                      THEN <<"releaseCallBack", "setCallBack">> ELSE <<>>) \o <<"create">>]
    /\ mCallbackWindow' = [mCallbackWindow EXCEPT ![c] = @ \/ on]
    /\ state' = [state EXCEPT ![c] = "PREVIEW"]

StartPreview(c) ==
    /\ Enter(c) /\ state[c] = "STOPPED"
    /\ StartPreviewL(c, callbacks[c])
    /\ UNCHANGED <<vars, phase, mPreviewSurface, callbacks, targeted, reused, dulled, intruder>>

\* setPreviewCallbackFlag: in PREVIEW it starts the preview again.
SetPreviewCallbackFlag(c, on) ==
    /\ Enter(c) /\ callbacks[c] # on /\ (state[c] = "DISCONNECTED" => ~on)
    /\ callbacks' = [callbacks EXCEPT ![c] = on]
    /\ IF state[c] = "PREVIEW" THEN StartPreviewL(c, on) ELSE UNCHANGED <<calls, mCallbackWindow, state>>
    /\ UNCHANGED <<vars, phase, mPreviewSurface, targeted, reused, dulled, intruder>>

\* setPreviewCallbackTarget: no state is looked at.
SetPreviewCallbackTarget(c) ==
    /\ Enter(c) /\ calls' \in {[calls EXCEPT ![c] = <<s>>] : s \in {"setCallBack", "releaseCallBack"}}
    /\ targeted' = TRUE
    /\ UNCHANGED <<vars, client, reused, dulled, intruder>>

\* stopPreviewL ends the session whatever the state, and forgets the callback window only when
\* callbacks are enabled; mPreviewSurface keeps its value.
StopPreviewL(c, s) ==
    /\ calls' = [calls EXCEPT ![c] = Teardown]
    /\ state' = [state EXCEPT ![c] = s]
    /\ mCallbackWindow' = [mCallbackWindow EXCEPT ![c] = @ /\ ~callbacks[c]]
    /\ dulled' = [dulled EXCEPT ![c] = mCallbackWindow[c] /\ ~callbacks[c]]
    /\ reused' = [reused EXCEPT ![c] = TRUE]

StopPreview(c) ==
    /\ Enter(c) /\ StopPreviewL(c, "STOPPED")
    /\ UNCHANGED <<vars, phase, mPreviewSurface, callbacks, targeted, intruder>>

\* disconnect, by the application or by CameraService: stopPreviewL, state DISCONNECTED; then
\* the lock is left while the client's threads are joined.
Disconnect(c) ==
    /\ phase[c] = "open" /\ calls[c] = <<>>
    /\ StopPreviewL(c, "DISCONNECTED")
    /\ phase' = [phase EXCEPT ![c] = "closing"]
    /\ UNCHANGED <<vars, mPreviewSurface, callbacks, ops, targeted, late, intruder>>

DisconnectEnds(c) ==
    /\ phase[c] = "closing" /\ calls[c] = <<>>
    /\ phase' = [phase EXCEPT ![c] = "closed"]
    /\ UNCHANGED <<vars, state, mPreviewSurface, callbacks, mCallbackWindow, calls, ops, history>>

\* ~Camera2Client runs in a thread of the camera server and so passes disconnect's pid check.
Destructor(c) ==
    /\ phase[c] = "closed" /\ calls[c] = <<>>
    /\ StopPreviewL(c, "DISCONNECTED")
    /\ phase' = [phase EXCEPT ![c] = "destroyed"]
    /\ intruder' = (intruder \/ \E b \in Clients : b # c /\ phase[b] \notin {"unborn", "destroyed"})
    /\ UNCHANGED <<vars, mPreviewSurface, callbacks, ops, targeted, late>>

-----------------------------------------------------------------------------
(* One binder call.  A call that finds nothing to do returns at once.      *)

Makes(c, call) == calls[c] # <<>> /\ Head(calls[c]) = call /\ pc = "free"
Returns(c)     == calls' = [calls EXCEPT ![c] = Tail(@)] /\ UNCHANGED <<client, ops, history>>

CallDestroy(c) ==
    /\ Makes(c, "destroy") /\ DestroySession
    /\ calls' = [calls EXCEPT ![c][1] = "destroying"] /\ UNCHANGED <<client, ops, history>>

CallReturns(c) ==
    /\ \/ Makes(c, "destroying")
       \/ Makes(c, "destroy") /\ ~msRecvThread
       \/ Makes(c, "releaseSurface") /\ msWindow = NoWindow
       \/ Makes(c, "releaseCallBack") /\ msCallBackWindow = NoWindow
       \/ Makes(c, "create") /\ msRecvThread
       \/ pc = "exit" /\ calls[c] # <<>>
    /\ UNCHANGED vars /\ Returns(c)

Call(c) ==
    \/ Makes(c, "releaseSurface") /\ ReleaseSurface /\ Returns(c)
    \/ Makes(c, "releaseCallBack") /\ ReleaseCallBackSurface /\ Returns(c)
    \/ Makes(c, "setSurface") /\ SetSurface /\ Returns(c)
    \/ Makes(c, "setCallBack") /\ SetCallBackSurface /\ Returns(c)
    \/ Makes(c, "create") /\ (CreateSession \/ CreateExits) /\ Returns(c)
    \/ CallDestroy(c) \/ CallReturns(c)

-----------------------------------------------------------------------------
Application(c) ==
    \/ Connect(c) \/ StartPreview(c) \/ StopPreview(c) \/ SetPreviewCallbackTarget(c)
    \/ Disconnect(c) \/ DisconnectEnds(c) \/ Destructor(c)
    \/ \E b \in Binders \cup {0} : SetPreviewTarget(c, b)
    \/ \E on \in BOOLEAN : SetPreviewCallbackFlag(c, on)

ClientNext ==
    \/ \E c \in Clients : Application(c) \/ Call(c)
    \/ (Destroyer \/ RecvThread \/ DecThread) /\ UNCHANGED cvars

ClientSpec == ClientInit /\ [][ClientNext]_allVars

\* Threads that can run do, and a call that a client has begun goes on when the mutex is free.
FairClientSpec ==
    /\ ClientSpec
    /\ WF_allVars(Destroyer /\ UNCHANGED cvars) /\ WF_allVars(RecvThread /\ UNCHANGED cvars)
    /\ WF_allVars(DecThread /\ UNCHANGED cvars)
    /\ \A c \in Clients : WF_allVars(Call(c))

-----------------------------------------------------------------------------
(* Properties.                                                             *)

\* Between operations, of clients that nobody disturbed.
Settled == (\A c \in Clients : calls[c] = <<>>) /\ ~late /\ ~intruder /\ pc # "exit"

Previewing(c) == phase[c] = "open" /\ state[c] = "PREVIEW"

(* The decode thread writes to a surface without a lock.  The preview surface it writes to is  *)
(* never one that a client has made the service give up, and neither is the callback surface,  *)
(* unless the application sets a callback surface of its own in mid-session, a stopPreview and *)
(* a startPreview arrive while disconnect is joining threads (what they set up outlives their  *)
(* client, and the next one does not know of it), or the destructor of an earlier client tears *)
(* down what a later one has set up.                                                           *)
SurfaceSafe ==
    ~intruder /\ using # NoWindow
        => /\ dec = "surface" => freed[using] = "no"
           /\ dec = "callback" /\ ~targeted /\ ~late => freed[using] = "no"

(* Between operations a session exists exactly when a client is in PREVIEW: stop, disconnect   *)
(* and a change of surface leave none behind, and a change of surface or of the callback flags *)
(* in PREVIEW does not lose it.                                                                *)
SessionMatchesState ==
    Settled => /\ msRecvThread => \E c \in Clients : Previewing(c)
               /\ \A c \in Clients : Previewing(c) /\ mPreviewSurface[c] # 0 => msRecvThread

(* In PREVIEW the service has the surfaces the application asked for: the preview surface,     *)
(* unless it is the one of an earlier preview (stopPreview releases it and nothing sets it     *)
(* again), and the callback surface, unless the window kept by CallbackProcessor outlived it.  *)
PreviewServed ==
    \A c \in Clients : Settled /\ Previewing(c) =>
        /\ mPreviewSurface[c] # 0 /\ ~reused[c] => msWindow # NoWindow
        /\ callbacks[c] /\ ~dulled[c] /\ ~targeted => msCallBackWindow # NoWindow
=============================================================================
