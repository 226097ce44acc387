------------------------ MODULE VirtualCameraService ------------------------
(***************************************************************************)
(* The native service, src/VirtualCamera/VirtualCameraService.cpp: binder  *)
(* calls serialised by mInputMutex, the RTP receive thread they start and  *)
(* stop, the decode thread the receive thread owns and its callback, which *)
(* writes to the two surfaces without taking the mutex.                    *)
(*                                                                         *)
(* Every call but destroySession runs in one step, from taking to leaving  *)
(* mInputMutex; destroySession holds the mutex over several steps, and pc  *)
(* is its place ("free" is: nobody holds the mutex).  The RTP session is   *)
(* JRTPLIB's, modelled by its flag created and its lock sourcesmutex.      *)
(***************************************************************************)
EXTENDS Naturals

CONSTANTS MaxSessions,   \* bound: sessions created
          MaxWindows,    \* bound: surfaces set
          MaxFrames      \* bound: frames received

ASSUME ServiceBounds == MaxSessions \in Nat /\ MaxWindows \in Nat /\ MaxFrames \in Nat

Windows == 1 .. MaxWindows
NoWindow == 0

VARIABLES
    pc,                \* destroySession in progress, or "exit"
    msRecvThread,      \* msRecvThread != NULL
    msRecvQuit,
    msDecoder,         \* msDecoder != NULL
    msWindow, msCallBackWindow,
    created,           \* msVideoSession: created
    sourcesmutex,      \* msVideoSession: the source table is locked
    rpc,               \* where thread_recv_virtualcamera is
    dec,               \* where the decode thread is
    using,             \* the window the callback is writing to
    pending,           \* frames in the decoder's ring
    nwin, freed,       \* surfaces made; how each was given up
    sessions, frames   \* bounded counters

service == <<msRecvThread, msRecvQuit, msDecoder>>
surface == <<msWindow, msCallBackWindow, nwin, freed>>
rtp     == <<created, sourcesmutex>>
decoder == <<dec, using, pending>>
bounds  == <<sessions, frames>>
vars    == <<pc, service, surface, rtp, rpc, decoder, bounds>>

Init ==
    /\ pc = "free"
    /\ msRecvThread = FALSE /\ msRecvQuit = TRUE /\ msDecoder = FALSE
    /\ msWindow = NoWindow /\ msCallBackWindow = NoWindow
    /\ created = FALSE /\ sourcesmutex = FALSE
    /\ rpc = "none" /\ dec = "none" /\ using = NoWindow /\ pending = 0
    /\ nwin = 0 /\ freed = [w \in Windows |-> "no"]
    /\ sessions = 0 /\ frames = 0

-----------------------------------------------------------------------------
(* Binder calls.                                                           *)

\* createSession with a configured address and no session: RTPSession::Create,
\* AddDestination, Thread_Create and Thread_Run.  With a session, or with an
\* address file that does not hold four numbers, nothing changes.
CreateSession ==
    /\ pc = "free" /\ ~msRecvThread /\ sessions < MaxSessions
    /\ created' = TRUE /\ msRecvThread' = TRUE /\ rpc' = "begin"
    /\ sessions' = sessions + 1
    /\ UNCHANGED <<pc, msRecvQuit, msDecoder, surface, sourcesmutex, decoder, frames>>

\* CHECK_ERROR_JRTPLIB: the RTP session cannot be created; exit(-1).
CreateExits ==
    /\ pc = "free" /\ ~msRecvThread /\ sessions < MaxSessions
    /\ pc' = "exit"
    /\ UNCHANGED <<service, surface, rtp, rpc, decoder, bounds>>

\* destroySession: takes mInputMutex, enters BYEDestroy.
DestroySession ==
    /\ pc = "free" /\ msRecvThread
    /\ pc' = "bye"
    /\ UNCHANGED <<service, surface, rtp, rpc, decoder, bounds>>

\* BYEDestroy has stopped the poll thread; the tables are torn down.
StopPollThread ==
    /\ pc = "bye"
    /\ pc' = "clear"
    /\ UNCHANGED <<service, surface, rtp, rpc, decoder, bounds>>

\* sources.Clear() ... created = false
ClearSources ==
    /\ pc = "clear"
    /\ created' = FALSE /\ pc' = "quit"
    /\ UNCHANGED <<service, surface, sourcesmutex, rpc, decoder, bounds>>

\* msRecvQuit = 1
SetRecvQuit ==
    /\ pc = "quit"
    /\ msRecvQuit' = TRUE /\ pc' = "join"
    /\ UNCHANGED <<msRecvThread, msDecoder, surface, rtp, rpc, decoder, bounds>>

\* Mutant: the receive thread is not joined.
JoinRecvThreadSkipped ==
    /\ pc = "join"
    /\ msRecvThread' = FALSE /\ pc' = "free"
    /\ UNCHANGED <<msRecvQuit, msDecoder, surface, rtp, rpc, decoder, bounds>>

\* Thread_Destroy has joined the receive thread; the mutex is released.
JoinRecvThread ==
    /\ pc = "join" /\ rpc = "none"
    /\ msRecvThread' = FALSE /\ pc' = "free"
    /\ UNCHANGED <<msRecvQuit, msDecoder, surface, rtp, rpc, decoder, bounds>>

\* The only reference to window w is dropped: the Surface is destroyed.
GiveUp(w) ==
    freed' = IF w = NoWindow THEN freed
             ELSE [freed EXCEPT ![w] = IF msRecvThread THEN "session" ELSE "idle"]

\* setSurface with a producer: a new Surface takes the place of the old one.
SetSurface ==
    /\ pc = "free" /\ nwin < MaxWindows
    /\ nwin' = nwin + 1 /\ msWindow' = nwin + 1
    /\ GiveUp(msWindow)
    /\ UNCHANGED <<pc, service, msCallBackWindow, rtp, rpc, decoder, bounds>>

\* releaseSurface, or setSurface without a producer
ReleaseSurface ==
    /\ pc = "free" /\ msWindow # NoWindow
    /\ msWindow' = NoWindow
    /\ GiveUp(msWindow)
    /\ UNCHANGED <<pc, service, msCallBackWindow, nwin, rtp, rpc, decoder, bounds>>

SetCallBackSurface ==
    /\ pc = "free" /\ nwin < MaxWindows
    /\ nwin' = nwin + 1 /\ msCallBackWindow' = nwin + 1
    /\ GiveUp(msCallBackWindow)
    /\ UNCHANGED <<pc, service, msWindow, rtp, rpc, decoder, bounds>>

ReleaseCallBackSurface ==
    /\ pc = "free" /\ msCallBackWindow # NoWindow
    /\ msCallBackWindow' = NoWindow
    /\ GiveUp(msCallBackWindow)
    /\ UNCHANGED <<pc, service, msWindow, nwin, rtp, rpc, decoder, bounds>>

-----------------------------------------------------------------------------
(* thread_recv_virtualcamera.                                              *)

\* The receive buffer cannot be allocated: the thread ends at once.
RecvNoMemory ==
    /\ rpc = "begin"
    /\ rpc' = "none"
    /\ UNCHANGED <<pc, service, surface, rtp, decoder, bounds>>

RecvBegin ==
    /\ rpc = "begin"
    /\ msRecvQuit' = FALSE /\ rpc' = "create"
    /\ UNCHANGED <<pc, msRecvThread, msDecoder, surface, rtp, decoder, bounds>>

\* AnsyncDecoder_Create, which may fail
RecvCreateDecoder ==
    /\ rpc = "create" /\ rpc' = "loop"
    /\ \/ msDecoder' = TRUE /\ dec' = "idle"
       \/ UNCHANGED <<msDecoder, dec>>
    /\ UNCHANGED <<pc, msRecvThread, msRecvQuit, surface, rtp, using, pending, bounds>>

\* BeginDataAccess: the session exists, its source table is to be locked.
BeginDataAccess ==
    /\ rpc = "loop" /\ ~msRecvQuit /\ created
    /\ rpc' = "lock"
    /\ UNCHANGED <<pc, service, surface, rtp, decoder, bounds>>

LockSources ==
    /\ rpc = "lock" /\ ~sourcesmutex
    /\ sourcesmutex' = TRUE /\ rpc' = "access"
    /\ UNCHANGED <<pc, service, surface, created, decoder, bounds>>

\* GetNextPacket completes a frame: AnsyncDecoder_ReceiveData
ReceivePacket ==
    /\ rpc = "access" /\ created /\ frames < MaxFrames
    /\ frames' = frames + 1
    /\ pending' = IF msDecoder THEN pending + 1 ELSE pending
    /\ UNCHANGED <<pc, service, surface, rtp, rpc, dec, using, sessions>>

\* EndDataAccess: unlocks, but returns early when the session is gone.
EndDataAccess ==
    /\ rpc = "access"
    /\ sourcesmutex' = IF created THEN FALSE ELSE sourcesmutex
    /\ rpc' = "loop"
    /\ UNCHANGED <<pc, service, surface, created, decoder, bounds>>

\* The loop has seen msRecvQuit: AnsyncDecoder_Destroy sets the decoder's quit.
RecvQuit ==
    /\ rpc = "loop" /\ msRecvQuit
    /\ rpc' = IF msDecoder THEN "joindec" ELSE "none"
    /\ UNCHANGED <<pc, service, surface, rtp, decoder, bounds>>

\* Mutant: the decode thread is not joined.
RecvEndUnjoined ==
    /\ rpc = "joindec"
    /\ msDecoder' = FALSE /\ rpc' = "none"
    /\ UNCHANGED <<pc, msRecvThread, msRecvQuit, surface, rtp, decoder, bounds>>

\* AnsyncDecoder_Destroy has joined the decode thread and freed the ring.
RecvEnd ==
    /\ rpc = "joindec" /\ dec = "end"
    /\ msDecoder' = FALSE /\ dec' = "none" /\ pending' = 0 /\ rpc' = "none"
    /\ UNCHANGED <<pc, msRecvThread, msRecvQuit, surface, rtp, using, bounds>>

-----------------------------------------------------------------------------
(* The decode thread and sDecoder_cb.                                      *)

\* Mutant: need_read is not looked at.
DecodeFrameAlways ==
    /\ dec = "idle" /\ rpc # "joindec"
    /\ dec' = "decode"
    /\ UNCHANGED <<pc, service, surface, rtp, rpc, using, pending, bounds>>

\* An unread frame is taken up by the decode thread, unless told to quit.
DecodeFrame ==
    /\ dec = "idle" /\ pending > 0 /\ rpc # "joindec"
    /\ dec' = "decode"
    /\ UNCHANGED <<pc, service, surface, rtp, rpc, using, pending, bounds>>

\* Mutant: the commented-out Autolock of mInputMutex is taken.
CallBackLocked ==
    /\ dec = "decode" /\ pc = "free"
    /\ using' = msCallBackWindow /\ dec' = "callback"
    /\ UNCHANGED <<pc, service, surface, rtp, rpc, pending, bounds>>

\* sDirectCopyToCallBackSurface(..., msCallBackWindow.get())
CallBack ==
    /\ dec = "decode"
    /\ using' = msCallBackWindow /\ dec' = "callback"
    /\ UNCHANGED <<pc, service, surface, rtp, rpc, pending, bounds>>

\* sDirectCopyToSurface(..., msWindow.get())
CopyToSurface ==
    /\ dec = "callback"
    /\ using' = msWindow /\ dec' = "surface"
    /\ UNCHANGED <<pc, service, surface, rtp, rpc, pending, bounds>>

CallBackReturns ==
    /\ dec = "surface"
    /\ using' = NoWindow /\ pending' = pending - 1 /\ dec' = "idle"
    /\ UNCHANGED <<pc, service, surface, rtp, rpc, bounds>>

DecoderEnd ==
    /\ dec = "idle" /\ rpc = "joindec"
    /\ dec' = "end"
    /\ UNCHANGED <<pc, service, surface, rtp, rpc, using, pending, bounds>>

-----------------------------------------------------------------------------
Destroyer == StopPollThread \/ ClearSources \/ SetRecvQuit \/ JoinRecvThread
Calls     == \/ CreateSession \/ CreateExits \/ DestroySession
             \/ SetSurface \/ ReleaseSurface
             \/ SetCallBackSurface \/ ReleaseCallBackSurface
RecvThread == \/ RecvNoMemory \/ RecvBegin \/ RecvCreateDecoder
              \/ BeginDataAccess \/ LockSources \/ ReceivePacket
              \/ EndDataAccess \/ RecvQuit \/ RecvEnd
DecThread  == \/ DecodeFrame \/ CallBack \/ CopyToSurface \/ CallBackReturns
              \/ DecoderEnd

Next == Calls \/ Destroyer \/ RecvThread \/ DecThread
Spec == Init /\ [][Next]_vars

\* Threads that can run do run; when a client calls is its own choice.
FairSpec == /\ Spec
            /\ WF_vars(Destroyer)
            /\ WF_vars(RecvThread)
            /\ WF_vars(DecThread)

-----------------------------------------------------------------------------
(* Properties.                                                             *)

\* The types of the service's state.
TypeOK ==
    /\ pc \in {"exit", "free", "bye", "clear", "quit", "join"}
    /\ msRecvThread \in BOOLEAN /\ msRecvQuit \in BOOLEAN /\ msDecoder \in BOOLEAN
    /\ nwin \in 0 .. MaxWindows
    /\ msWindow \in 0 .. nwin /\ msCallBackWindow \in 0 .. nwin /\ using \in 0 .. nwin
    /\ freed \in [Windows -> {"no", "session", "idle"}]
    /\ created \in BOOLEAN /\ sourcesmutex \in BOOLEAN
    /\ rpc \in {"none", "begin", "create", "loop", "lock", "access", "joindec"}
    /\ dec \in {"none", "idle", "decode", "callback", "surface", "end"}
    /\ pending \in Nat /\ sessions \in 0 .. MaxSessions /\ frames \in 0 .. MaxFrames

\* Without a session nothing of it is left: no receive thread, no decoder, no
\* callback in progress and no RTP socket (sDestroyMediaSession, lines 475-493).
NoOrphan ==
    pc = "free" /\ ~msRecvThread
        => rpc = "none" /\ dec = "none" /\ ~msDecoder /\ ~created /\ using = NoWindow

\* A surface given up while there is no session is never written to: a client
\* that calls destroySession before releaseSurface and releaseCallBackSurface
\* (as Camera2Client does when it stops the preview or changes its window) is
\* safe although sDecoder_cb takes no lock.
ReleaseAfterDestroy == using # NoWindow => freed[using] # "idle"

\* destroySession returns once msRecvQuit is set after the receive thread has
\* cleared it, unless the source table was left locked by an earlier session.
DestroyReturns ==
    (/\ pc = "join" /\ msRecvQuit /\ rpc # "begin"
     /\ (sourcesmutex => rpc = "access")) ~> (pc = "free")

\* "When the EndDataAccess is called, the lock on the source table is freed
\* again." (JRTPLIB/src/rtpsession.h:279)
EndDataAccessUnlocks ==
    [][rpc = "access" /\ rpc' = "loop" => ~sourcesmutex']_vars
=============================================================================
