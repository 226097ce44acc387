--------------------- MODULE VirtualCameraService_proofs ---------------------
(***************************************************************************)
(* Proofs about VirtualCameraService for any number of sessions, surfaces  *)
(* and frames.                                                             *)
(***************************************************************************)
EXTENDS VirtualCameraService, TLAPS

USE DEF vars, service, surface, rtp, decoder, bounds, Windows, NoWindow

\* Which thread exists when: the receive thread lives inside the session, the
\* decoder inside the receive thread, a callback inside the decoder.
Nesting ==
    /\ ~msRecvThread => rpc = "none" /\ ~created /\ pc \in {"free", "exit"}
    /\ pc \in {"quit", "join"} => ~created
    /\ rpc \in {"none", "begin", "create"} => ~msDecoder
    /\ rpc = "joindec" => msDecoder
    /\ ~msDecoder => dec = "none"
    /\ dec \notin {"callback", "surface"} => using = NoWindow
    /\ dec \in {"decode", "callback", "surface"} => pending > 0

\* The surfaces in use are distinct and have not been given up.
Held ==
    /\ msWindow # NoWindow => freed[msWindow] = "no" /\ msWindow # msCallBackWindow
    /\ msCallBackWindow # NoWindow => freed[msCallBackWindow] = "no"
    /\ \A w \in Windows : w > nwin => freed[w] = "no"

IInv == TypeOK /\ Nesting /\ Held /\ ReleaseAfterDestroy

\* The service starts without a session and without surfaces.
LEMMA InitIInv == Init => IInv
<1> SUFFICES ASSUME Init PROVE IInv
  OBVIOUS
<1>1. TypeOK
  <2>1. /\ msRecvThread \in BOOLEAN /\ msRecvQuit \in BOOLEAN
        /\ msDecoder \in BOOLEAN /\ created \in BOOLEAN
        /\ sourcesmutex \in BOOLEAN
    BY DEF Init
  <2>2. freed \in [Windows -> {"no", "session", "idle"}]
    BY DEF Init
  <2>3. /\ nwin \in 0 .. MaxWindows /\ pending \in Nat
        /\ msWindow \in 0 .. nwin /\ msCallBackWindow \in 0 .. nwin
        /\ using \in 0 .. nwin
        /\ sessions \in 0 .. MaxSessions /\ frames \in 0 .. MaxFrames
    BY ServiceBounds DEF Init
  <2> QED
    BY <2>1, <2>2, <2>3 DEF Init, TypeOK
<1>2. Nesting
  BY DEF Init, Nesting
<1>3. Held
  BY DEF Init, Held
<1>4. ReleaseAfterDestroy
  BY DEF Init, ReleaseAfterDestroy
<1> QED
  BY <1>1, <1>2, <1>3, <1>4 DEF IInv

\* Type correctness is preserved; pending stays a natural number because a
\* callback runs only for a frame in the ring.
LEMMA NextTypeOK == IInv /\ [Next]_vars => TypeOK'
<1> SUFFICES ASSUME IInv, [Next]_vars PROVE TypeOK'
  OBVIOUS
<1> USE ServiceBounds DEF IInv, TypeOK, Nesting
<1>1. CASE CreateSession
  BY <1>1 DEF CreateSession
<1>2. CASE CreateExits
  BY <1>2 DEF CreateExits
<1>3. CASE DestroySession
  BY <1>3 DEF DestroySession
<1>4. CASE StopPollThread
  BY <1>4 DEF StopPollThread
<1>5. CASE ClearSources
  BY <1>5 DEF ClearSources
<1>6. CASE SetRecvQuit
  BY <1>6 DEF SetRecvQuit
<1>7. CASE JoinRecvThread
  BY <1>7 DEF JoinRecvThread
<1>8. CASE SetSurface
  BY <1>8 DEF SetSurface, GiveUp
<1>9. CASE ReleaseSurface
  BY <1>9 DEF ReleaseSurface, GiveUp
<1>10. CASE SetCallBackSurface
  BY <1>10 DEF SetCallBackSurface, GiveUp
<1>11. CASE ReleaseCallBackSurface
  BY <1>11 DEF ReleaseCallBackSurface, GiveUp
<1>12. CASE RecvNoMemory
  BY <1>12 DEF RecvNoMemory
<1>13. CASE RecvBegin
  BY <1>13 DEF RecvBegin
<1>14. CASE RecvCreateDecoder
  BY <1>14 DEF RecvCreateDecoder
<1>15. CASE BeginDataAccess
  BY <1>15 DEF BeginDataAccess
<1>16. CASE LockSources
  BY <1>16 DEF LockSources
<1>17. CASE ReceivePacket
  BY <1>17 DEF ReceivePacket
<1>18. CASE EndDataAccess
  BY <1>18 DEF EndDataAccess
<1>19. CASE RecvQuit
  BY <1>19 DEF RecvQuit
<1>20. CASE RecvEnd
  BY <1>20 DEF RecvEnd
<1>21. CASE DecodeFrame
  BY <1>21 DEF DecodeFrame
<1>22. CASE CallBack
  BY <1>22 DEF CallBack
<1>23. CASE CopyToSurface
  BY <1>23 DEF CopyToSurface
<1>24. CASE CallBackReturns
  BY <1>24 DEF CallBackReturns
<1>25. CASE DecoderEnd
  BY <1>25 DEF DecoderEnd
<1>26. CASE UNCHANGED vars
  BY <1>26
<1> QED
  BY <1>1, <1>2, <1>3, <1>4, <1>5, <1>6, <1>7, <1>8, <1>9, <1>10,
     <1>11, <1>12, <1>13, <1>14, <1>15, <1>16, <1>17, <1>18, <1>19,
     <1>20, <1>21, <1>22, <1>23, <1>24, <1>25, <1>26 DEF Next, Calls, Destroyer, RecvThread, DecThread

\* The nesting of session, receive thread, decoder and callback is preserved.
LEMMA NextNesting == IInv /\ [Next]_vars => Nesting'
<1> SUFFICES ASSUME IInv, [Next]_vars PROVE Nesting'
  OBVIOUS
<1> USE ServiceBounds DEF IInv, TypeOK, Nesting
<1>1. CASE CreateSession
  BY <1>1 DEF CreateSession
<1>2. CASE CreateExits
  BY <1>2 DEF CreateExits
<1>3. CASE DestroySession
  BY <1>3 DEF DestroySession
<1>4. CASE StopPollThread
  BY <1>4 DEF StopPollThread
<1>5. CASE ClearSources
  BY <1>5 DEF ClearSources
<1>6. CASE SetRecvQuit
  BY <1>6 DEF SetRecvQuit
<1>7. CASE JoinRecvThread
  BY <1>7 DEF JoinRecvThread
<1>8. CASE SetSurface
  BY <1>8 DEF SetSurface
<1>9. CASE ReleaseSurface
  BY <1>9 DEF ReleaseSurface
<1>10. CASE SetCallBackSurface
  BY <1>10 DEF SetCallBackSurface
<1>11. CASE ReleaseCallBackSurface
  BY <1>11 DEF ReleaseCallBackSurface
<1>12. CASE RecvNoMemory
  BY <1>12 DEF RecvNoMemory
<1>13. CASE RecvBegin
  BY <1>13 DEF RecvBegin
<1>14. CASE RecvCreateDecoder
  BY <1>14 DEF RecvCreateDecoder
<1>15. CASE BeginDataAccess
  BY <1>15 DEF BeginDataAccess
<1>16. CASE LockSources
  BY <1>16 DEF LockSources
<1>17. CASE ReceivePacket
  BY <1>17 DEF ReceivePacket
<1>18. CASE EndDataAccess
  BY <1>18 DEF EndDataAccess
<1>19. CASE RecvQuit
  BY <1>19 DEF RecvQuit
<1>20. CASE RecvEnd
  BY <1>20 DEF RecvEnd
<1>21. CASE DecodeFrame
  BY <1>21 DEF DecodeFrame
<1>22. CASE CallBack
  BY <1>22 DEF CallBack
<1>23. CASE CopyToSurface
  BY <1>23 DEF CopyToSurface
<1>24. CASE CallBackReturns
  BY <1>24 DEF CallBackReturns
<1>25. CASE DecoderEnd
  BY <1>25 DEF DecoderEnd
<1>26. CASE UNCHANGED vars
  BY <1>26
<1> QED
  BY <1>1, <1>2, <1>3, <1>4, <1>5, <1>6, <1>7, <1>8, <1>9, <1>10,
     <1>11, <1>12, <1>13, <1>14, <1>15, <1>16, <1>17, <1>18, <1>19,
     <1>20, <1>21, <1>22, <1>23, <1>24, <1>25, <1>26 DEF Next, Calls, Destroyer, RecvThread, DecThread

\* Surfaces change only in the four surface calls.
LEMMA SurfaceSteps ==
    ASSUME Next, ~SetSurface, ~ReleaseSurface, ~SetCallBackSurface,
           ~ReleaseCallBackSurface
    PROVE  UNCHANGED surface
BY DEF Next, Calls, Destroyer, RecvThread, DecThread,
   CreateSession, CreateExits, DestroySession, StopPollThread, ClearSources,
   SetRecvQuit, JoinRecvThread, RecvNoMemory, RecvBegin, RecvCreateDecoder,
   BeginDataAccess, LockSources, ReceivePacket, EndDataAccess, RecvQuit,
   RecvEnd, DecodeFrame, CallBack, CopyToSurface, CallBackReturns, DecoderEnd

\* Surfaces that are held have not been given up, in every step.
LEMMA NextHeld == IInv /\ [Next]_vars => Held'
<1> SUFFICES ASSUME IInv, [Next]_vars PROVE Held'
  OBVIOUS
<1> USE ServiceBounds DEF IInv, TypeOK, Held
<1>1. CASE SetSurface
  BY <1>1 DEF SetSurface, GiveUp
<1>2. CASE ReleaseSurface
  BY <1>2 DEF ReleaseSurface, GiveUp
<1>3. CASE SetCallBackSurface
  BY <1>3 DEF SetCallBackSurface, GiveUp
<1>4. CASE ReleaseCallBackSurface
  BY <1>4 DEF ReleaseCallBackSurface, GiveUp
<1>5. CASE UNCHANGED surface
  BY <1>5
<1> QED
  BY <1>1, <1>2, <1>3, <1>4, <1>5, SurfaceSteps

\* The callback picks up surfaces that are held, and a surface is given up as
\* "idle" only when there is no session, hence no callback.
LEMMA NextReleaseAfterDestroy == IInv /\ [Next]_vars => ReleaseAfterDestroy'
<1> SUFFICES ASSUME IInv, [Next]_vars PROVE ReleaseAfterDestroy'
  OBVIOUS
<1> USE ServiceBounds DEF IInv, TypeOK, ReleaseAfterDestroy
<1>0. ~msRecvThread => using = NoWindow
  BY DEF Nesting
<1>1. CASE SetSurface
  BY <1>0, <1>1 DEF SetSurface, GiveUp
<1>2. CASE ReleaseSurface
  BY <1>0, <1>2 DEF ReleaseSurface, GiveUp
<1>3. CASE SetCallBackSurface
  BY <1>0, <1>3 DEF SetCallBackSurface, GiveUp
<1>4. CASE ReleaseCallBackSurface
  BY <1>0, <1>4 DEF ReleaseCallBackSurface, GiveUp
<1>5. CASE CallBack
  BY <1>5 DEF CallBack, Held
<1>6. CASE CopyToSurface
  BY <1>6 DEF CopyToSurface, Held
<1>7. CASE CallBackReturns
  BY <1>7 DEF CallBackReturns
<1>8. CASE UNCHANGED <<surface, using>>
  BY <1>8
<1>9. ASSUME Next, ~CallBack, ~CopyToSurface, ~CallBackReturns, ~SetSurface,
             ~ReleaseSurface, ~SetCallBackSurface, ~ReleaseCallBackSurface
      PROVE  UNCHANGED using
  BY <1>9 DEF Next, Calls, Destroyer, RecvThread, DecThread,
     CreateSession, CreateExits, DestroySession, StopPollThread, ClearSources,
     SetRecvQuit, JoinRecvThread, RecvNoMemory, RecvBegin, RecvCreateDecoder,
     BeginDataAccess, LockSources, ReceivePacket, EndDataAccess, RecvQuit,
     RecvEnd, DecodeFrame, DecoderEnd
<1> QED
  BY <1>1, <1>2, <1>3, <1>4, <1>5, <1>6, <1>7, <1>8, <1>9, SurfaceSteps

\* The inductive invariant holds in every reachable state.
THEOREM Invariance == Spec => []IInv
<1>1. IInv /\ [Next]_vars => IInv'
  BY NextTypeOK, NextNesting, NextHeld, NextReleaseAfterDestroy DEF IInv
<1> QED
  BY InitIInv, <1>1, PTL DEF Spec

\* The service keeps the types of its state.
THEOREM TypeCorrectness == Spec => []TypeOK
<1>1. IInv => TypeOK
  BY DEF IInv
<1> QED
  BY <1>1, Invariance, PTL

\* When no session exists and the mutex is free, nothing of a session is left.
THEOREM NothingLeft == Spec => []NoOrphan
<1>1. IInv => NoOrphan
  BY DEF IInv, Nesting, NoOrphan
<1> QED
  BY <1>1, Invariance, PTL

\* Surfaces given up after destroySession are never written to.
THEOREM SafeRelease == Spec => []ReleaseAfterDestroy
<1>1. IInv => ReleaseAfterDestroy
  BY DEF IInv
<1> QED
  BY <1>1, Invariance, PTL
=============================================================================
