------------------------ MODULE Camera2Client_proofs ------------------------
(***************************************************************************)
(* Proofs about the clients and the service composed, for any number of    *)
(* clients, operations, sessions, surfaces and frames.                     *)
(***************************************************************************)
EXTENDS Camera2Client, VirtualCameraService_proofs

USE DEF client, history, cvars, allVars

-----------------------------------------------------------------------------
(* What an operation has yet to call.                                      *)

Names == {"destroy", "destroying", "releaseSurface", "releaseCallBack", "setSurface", "setCallBack",
          "create"}

\* The order in which every operation makes its calls.
Rank(x) == IF x \in {"destroy", "destroying"} THEN 1 ELSE
           IF x = "releaseSurface" THEN 2 ELSE
           IF x = "releaseCallBack" THEN 3 ELSE
           IF x = "setSurface" THEN 4 ELSE
           IF x = "setCallBack" THEN 5 ELSE 6

Rest(q)   == {q[i] : i \in DOMAIN q}
Sorted(q) == \A i, j \in DOMAIN q : i < j => Rank(q[i]) < Rank(q[j])

LEMMA RestTail ==
    ASSUME NEW q \in Seq(Names), q # <<>>, Sorted(q)
    PROVE  /\ Head(q) \in Rest(q) /\ Head(q) \in Names
           /\ Tail(q) \in Seq(Names) /\ Sorted(Tail(q))
           /\ Rest(Tail(q)) = Rest(q) \ {Head(q)}
           /\ \A x \in Rest(Tail(q)) : Rank(Head(q)) < Rank(x)
<1>1. /\ 1 \in DOMAIN q /\ Head(q) = q[1] /\ Tail(q) \in Seq(Names)
      /\ \A i \in DOMAIN Tail(q) : i \in Nat /\ 1 < i + 1 /\ i + 1 \in DOMAIN q /\ Tail(q)[i] = q[i + 1]
      /\ \A i \in DOMAIN q : i = 1 \/ (i - 1 \in DOMAIN Tail(q) /\ Tail(q)[i - 1] = q[i])
      /\ \A i \in DOMAIN q : q[i] \in Names
  OBVIOUS
<1>2. Sorted(Tail(q))
  BY <1>1 DEF Sorted
<1>3. \A x \in Rest(Tail(q)) : x \in Rest(q) /\ Rank(q[1]) < Rank(x)
  BY <1>1 DEF Rest, Sorted
<1>4. \A x \in Names : ~(Rank(x) < Rank(x))
  BY DEF Rank, Names
<1>5. \A x \in Rest(q) : x = q[1] \/ x \in Rest(Tail(q))
  BY <1>1 DEF Rest
<1>6. Head(q) \in Rest(q) /\ Head(q) \in Names
  BY <1>1 DEF Rest
<1> QED
  BY <1>1, <1>2, <1>3, <1>4, <1>5, <1>6

LEMMA RestDestroying ==
    ASSUME NEW q \in Seq(Names), q # <<>>, Sorted(q), Head(q) = "destroy"
    PROVE  /\ [q EXCEPT ![1] = "destroying"] \in Seq(Names) /\ [q EXCEPT ![1] = "destroying"] # <<>>
           /\ Sorted([q EXCEPT ![1] = "destroying"])
           /\ Rest([q EXCEPT ![1] = "destroying"]) = (Rest(q) \ {"destroy"}) \cup {"destroying"}
<1>1. /\ 1 \in DOMAIN q /\ q[1] = "destroy" /\ "destroying" \in Names
      /\ [q EXCEPT ![1] = "destroying"] \in Seq(Names)
      /\ DOMAIN [q EXCEPT ![1] = "destroying"] = DOMAIN q
      /\ [q EXCEPT ![1] = "destroying"][1] = "destroying"
      /\ \A i \in DOMAIN q : i # 1 => [q EXCEPT ![1] = "destroying"][i] = q[i]
      /\ \A i \in DOMAIN q : i \in Nat /\ 1 <= i
  BY DEF Names
<1>2. \A i \in DOMAIN q : i # 1 => Rank(q[1]) < Rank(q[i])
  BY <1>1 DEF Sorted
<1>3. Rank("destroy") = 1 /\ Rank("destroying") = 1
  BY DEF Rank
<1>4. \A i \in DOMAIN q : Rank([q EXCEPT ![1] = "destroying"][i]) = Rank(q[i])
  BY <1>1, <1>3
<1>5. Sorted([q EXCEPT ![1] = "destroying"])
  BY <1>1, <1>4 DEF Sorted
<1>6. \A i \in DOMAIN q : i # 1 => q[i] # "destroy"
  BY <1>2, <1>3, <1>1
<1>7. Rest([q EXCEPT ![1] = "destroying"]) = (Rest(q) \ {"destroy"}) \cup {"destroying"}
  <2>1. \A x \in Rest([q EXCEPT ![1] = "destroying"]) : x \in (Rest(q) \ {"destroy"}) \cup {"destroying"}
    BY <1>1, <1>6 DEF Rest
  <2>2. "destroying" \in Rest([q EXCEPT ![1] = "destroying"])
    BY <1>1 DEF Rest
  <2>3. \A x \in Rest(q) : x # "destroy" => x \in Rest([q EXCEPT ![1] = "destroying"])
    BY <1>1, <1>6 DEF Rest
  <2> QED
    BY <2>1, <2>2, <2>3
<1>8. [q EXCEPT ![1] = "destroying"] # <<>>
  BY <1>1
<1> QED
  BY <1>1, <1>5, <1>7, <1>8

\* The sequences that operations begin with.
LEMMA RestEmpty == <<>> \in Seq(Names) /\ Sorted(<<>>) /\ Rest(<<>>) = {}
BY DEF Sorted, Rest

LEMMA RestOne ==
    ASSUME NEW x \in Names
    PROVE  <<x>> \in Seq(Names) /\ Sorted(<<x>>) /\ Rest(<<x>>) = {x} /\ <<x>> # <<>>
BY DEF Sorted, Rest

LEMMA RestTeardown ==
    /\ Teardown \in Seq(Names) /\ Sorted(Teardown) /\ Teardown # <<>>
    /\ Rest(Teardown) = {"destroy", "releaseSurface", "releaseCallBack"}
BY DEF Sorted, Rest, Teardown, Names, Rank

\* Two parts, one after the other in the order.
LEMMA RestJoin ==
    ASSUME NEW p \in Seq(Names), NEW q \in Seq(Names), Sorted(p), Sorted(q),
           \A x \in Rest(p), y \in Rest(q) : Rank(x) < Rank(y)
    PROVE  p \o q \in Seq(Names) /\ Sorted(p \o q) /\ Rest(p \o q) = Rest(p) \cup Rest(q)
<1>1. /\ p \o q \in Seq(Names)
      /\ \A i \in DOMAIN (p \o q) : \/ i \in DOMAIN p /\ (p \o q)[i] = p[i]
                                    \/ /\ i - Len(p) \in DOMAIN q /\ (p \o q)[i] = q[i - Len(p)]
                                       /\ i \notin DOMAIN p
      /\ \A i \in DOMAIN p : i \in DOMAIN (p \o q) /\ (p \o q)[i] = p[i]
      /\ \A i \in DOMAIN q : i + Len(p) \in DOMAIN (p \o q) /\ (p \o q)[i + Len(p)] = q[i]
      /\ \A i, j \in DOMAIN (p \o q) : i < j /\ j \in DOMAIN p => i \in DOMAIN p
      /\ \A i, j \in DOMAIN (p \o q) : i < j => i - Len(p) < j - Len(p)
  OBVIOUS
<1>2. Rest(p \o q) = Rest(p) \cup Rest(q)
  <2>1. \A x \in Rest(p \o q) : x \in Rest(p) \/ x \in Rest(q)
    BY <1>1 DEF Rest
  <2>2. \A x \in Rest(p) : x \in Rest(p \o q)
    BY <1>1 DEF Rest
  <2>3. \A x \in Rest(q) : x \in Rest(p \o q)
    <3> SUFFICES ASSUME NEW i \in DOMAIN q PROVE \E j \in DOMAIN (p \o q) : (p \o q)[j] = q[i]
      BY DEF Rest
    <3> QED
      BY <1>1
  <2> QED
    BY <2>1, <2>2, <2>3
<1>3. Sorted(p \o q)
  <2> SUFFICES ASSUME NEW i \in DOMAIN (p \o q), NEW j \in DOMAIN (p \o q), i < j
               PROVE  Rank((p \o q)[i]) < Rank((p \o q)[j])
    BY DEF Sorted
  <2>1. CASE j \in DOMAIN p
    BY <1>1, <2>1 DEF Sorted
  <2>2. CASE i \in DOMAIN p /\ j \notin DOMAIN p
    <3>1. (p \o q)[i] \in Rest(p) /\ (p \o q)[j] \in Rest(q)
      BY <1>1, <2>2 DEF Rest
    <3> QED
      BY <3>1
  <2>3. CASE i \notin DOMAIN p /\ j \notin DOMAIN p
    BY <1>1, <2>3 DEF Sorted
  <2> QED
    BY <1>1, <2>1, <2>2, <2>3
<1> QED
  BY <1>1, <1>2, <1>3

\* At most one call.
LEMMA RestIf ==
    ASSUME NEW b \in BOOLEAN, NEW x \in Names
    PROVE  /\ (IF b THEN <<x>> ELSE <<>>) \in Seq(Names) /\ Sorted(IF b THEN <<x>> ELSE <<>>)
           /\ Rest(IF b THEN <<x>> ELSE <<>>) = (IF b THEN {x} ELSE {})
<1>1. CASE b
  BY <1>1, RestOne
<1>2. CASE ~b
  BY <1>2, RestEmpty
<1> QED
  BY <1>1, <1>2

LEMMA RestStart ==
    ASSUME NEW new \in BOOLEAN, NEW q,
           q = (IF new THEN <<"releaseCallBack", "setCallBack">> ELSE <<>>) \o <<"create">>
    PROVE  /\ q \in Seq(Names) /\ Sorted(q) /\ q # <<>>
           /\ Rest(q) = (IF new THEN {"releaseCallBack", "setCallBack"} ELSE {}) \cup {"create"}
<1>1. CASE new
  <2>1. q = <<"releaseCallBack", "setCallBack">> \o <<"create">>
    BY <1>1
  <2>2. /\ <<"releaseCallBack", "setCallBack">> \in Seq(Names) /\ Sorted(<<"releaseCallBack", "setCallBack">>)
        /\ Rest(<<"releaseCallBack", "setCallBack">>) = {"releaseCallBack", "setCallBack"}
    BY DEF Sorted, Rest, Names, Rank
  <2>3. /\ <<"create">> \in Seq(Names) /\ Sorted(<<"create">>) /\ Rest(<<"create">>) = {"create"}
    BY RestOne DEF Names
  <2>4. \A x \in {"releaseCallBack", "setCallBack"}, y \in {"create"} : Rank(x) < Rank(y)
    BY DEF Rank
  <2>5. q \in Seq(Names) /\ Sorted(q) /\ Rest(q) = {"releaseCallBack", "setCallBack"} \cup {"create"}
    BY <2>1, <2>2, <2>3, <2>4, RestJoin
  <2>6. q # <<>>
    BY <2>5, RestEmpty
  <2> QED
    BY <1>1, <2>5, <2>6
<1>2. CASE ~new
  <2>1. q = <<"create">>
    BY <1>2
  <2> QED
    BY <1>2, <2>1, RestOne DEF Names
<1> QED
  BY <1>1, <1>2

LEMMA RestTarget ==
    ASSUME NEW set \in BOOLEAN, NEW call \in BOOLEAN, NEW again \in BOOLEAN, NEW q,
           q = Teardown \o (IF set THEN <<"setSurface">> ELSE <<>>)
                        \o (IF call THEN <<"setCallBack">> ELSE <<>>)
                        \o (IF again THEN <<"create">> ELSE <<>>)
    PROVE  /\ q \in Seq(Names) /\ Sorted(q) /\ q # <<>>
           /\ Rest(q) = {"destroy", "releaseSurface", "releaseCallBack"}
                          \cup (IF set THEN {"setSurface"} ELSE {})
                          \cup (IF call THEN {"setCallBack"} ELSE {})
                          \cup (IF again THEN {"create"} ELSE {})
<1> DEFINE A == IF set THEN <<"setSurface">> ELSE <<>>
           B == IF call THEN <<"setCallBack">> ELSE <<>>
           C == IF again THEN <<"create">> ELSE <<>>
           RA == IF set THEN {"setSurface"} ELSE {}
           RB == IF call THEN {"setCallBack"} ELSE {}
           RC == IF again THEN {"create"} ELSE {}
           RT == {"destroy", "releaseSurface", "releaseCallBack"}
<1>1. /\ A \in Seq(Names) /\ Sorted(A) /\ Rest(A) = RA
      /\ B \in Seq(Names) /\ Sorted(B) /\ Rest(B) = RB
      /\ C \in Seq(Names) /\ Sorted(C) /\ Rest(C) = RC
  BY RestIf DEF Names
<1>2. /\ \A x \in RT, y \in RA : Rank(x) < Rank(y)
      /\ \A x \in RT \cup RA, y \in RB : Rank(x) < Rank(y)
      /\ \A x \in RT \cup RA \cup RB, y \in RC : Rank(x) < Rank(y)
  BY DEF Rank
<1> HIDE DEF A, B, C, RA, RB, RC, RT
<1>3. Teardown \in Seq(Names) /\ Sorted(Teardown) /\ Rest(Teardown) = RT
  BY RestTeardown DEF RT
<1>4. Teardown \o A \in Seq(Names) /\ Sorted(Teardown \o A) /\ Rest(Teardown \o A) = RT \cup RA
  BY <1>1, <1>2, <1>3, RestJoin
<1>5. /\ (Teardown \o A) \o B \in Seq(Names) /\ Sorted((Teardown \o A) \o B)
      /\ Rest((Teardown \o A) \o B) = RT \cup RA \cup RB
  BY <1>1, <1>2, <1>4, RestJoin
<1>6. /\ ((Teardown \o A) \o B) \o C \in Seq(Names) /\ Sorted(((Teardown \o A) \o B) \o C)
      /\ Rest(((Teardown \o A) \o B) \o C) = RT \cup RA \cup RB \cup RC
  BY <1>1, <1>2, <1>5, RestJoin
<1>7. q = ((Teardown \o A) \o B) \o C
  BY DEF A, B, C
<1>8. Rest(<<>>) = {} /\ "destroy" \in RT
  BY RestEmpty DEF RT
<1> QED
  BY <1>6, <1>7, <1>8 DEF RT, RA, RB, RC

-----------------------------------------------------------------------------
(* The clients use the service as it promises to be used.                  *)

LEMMA ServiceStep == [ClientNext]_allVars => [Next]_vars
<1>1. ASSUME NEW c \in Clients, Application(c) PROVE UNCHANGED vars
  BY <1>1 DEF Application, Connect, StartPreview, StopPreview, SetPreviewCallbackTarget, Disconnect,
     DisconnectEnds, Destructor, SetPreviewTarget, SetPreviewCallbackFlag
<1>2. ASSUME NEW c \in Clients, Call(c) PROVE Next \/ UNCHANGED vars
  BY <1>2 DEF Call, CallDestroy, CallReturns, Next, Calls
<1> QED
  BY <1>1, <1>2 DEF ClientNext, Next

(* Whatever the clients do, the service behaves as VirtualCameraService says: all that is *)
(* proved of the service alone holds of it in the camera server.                          *)
THEOREM ClientsUseService == ClientSpec => Spec
<1>1. ClientInit => Init
  BY DEF ClientInit
<1> QED
  BY <1>1, ServiceStep, PTL DEF ClientSpec, Spec

-----------------------------------------------------------------------------
(* The clients, one after the other.                                       *)

PhaseType ==
    /\ phase \in [Clients -> {"unborn", "open", "closing", "closed", "destroyed"}]
    /\ state \in [Clients -> {"STOPPED", "PREVIEW", "DISCONNECTED"}]
    /\ mPreviewSurface \in [Clients -> Nat]

FlagType ==
    /\ callbacks \in [Clients -> BOOLEAN] /\ mCallbackWindow \in [Clients -> BOOLEAN]
    /\ reused \in [Clients -> BOOLEAN] /\ dulled \in [Clients -> BOOLEAN]

\* Every operation makes its calls in one and the same order.
Lined == calls \in [Clients -> Seq(Names)] /\ \A c \in Clients : Sorted(calls[c])

\* A client that is not connected yet has nothing, one that has disconnected calls nothing.
Fresh ==
    \A c \in Clients :
        /\ phase[c] \in {"unborn", "closed"} => calls[c] = <<>>
        /\ phase[c] = "unborn" => /\ state[c] = "STOPPED" /\ mPreviewSurface[c] = 0
                                  /\ ~callbacks[c] /\ ~mCallbackWindow[c]

InTurn ==
    \A b, c \in Clients : b < c /\ phase[c] # "unborn" => phase[b] \in {"closed", "destroyed"}

\* As long as no destructor meets another client only one of them calls the service.
Solo ==
    ~intruder => \A b, c \in Clients : b # c /\ calls[b] # <<>> =>
        /\ calls[c] = <<>>
        /\ phase[b] = "destroyed" => phase[c] \in {"unborn", "destroyed"}

Base == PhaseType /\ FlagType /\ Lined /\ Fresh /\ InTurn /\ Solo

LEMMA InitBase == ClientInit => Base
<1> SUFFICES ASSUME ClientInit PROVE Base
  OBVIOUS
<1>1. PhaseType /\ FlagType
  BY DEF ClientInit, PhaseType, FlagType
<1>2. Lined
  BY RestEmpty DEF ClientInit, Lined
<1>3. Fresh /\ InTurn /\ Solo
  BY DEF ClientInit, Fresh, InTurn, Solo
<1> QED
  BY <1>1, <1>2, <1>3 DEF Base

\* What a call does to what is left of its operation.
LEMMA CallSteps ==
    ASSUME Base, NEW c \in Clients, Call(c)
    PROVE  /\ UNCHANGED <<client, ops, history>> /\ calls[c] # <<>> /\ Lined'
           /\ \A b \in Clients : b # c => calls'[b] = calls[b]
           /\ \/ Rest(calls'[c]) = Rest(calls[c]) \ {Head(calls[c])}
              \/ /\ CallDestroy(c) /\ Rest(calls'[c]) = (Rest(calls[c]) \ {"destroy"}) \cup {"destroying"}
                 /\ calls'[c] # <<>>
<1>1. calls \in [Clients -> Seq(Names)] /\ calls[c] \in Seq(Names) /\ Sorted(calls[c])
  BY DEF Base, Lined
<1>2. CASE CallDestroy(c)
  <2>1. /\ UNCHANGED <<client, ops, history>> /\ calls[c] # <<>> /\ Head(calls[c]) = "destroy"
        /\ calls' = [calls EXCEPT ![c] = [calls[c] EXCEPT ![1] = "destroying"]]
    BY <1>2 DEF CallDestroy, Makes
  <2>2. /\ [calls[c] EXCEPT ![1] = "destroying"] \in Seq(Names)
        /\ [calls[c] EXCEPT ![1] = "destroying"] # <<>>
        /\ Sorted([calls[c] EXCEPT ![1] = "destroying"])
        /\ Rest([calls[c] EXCEPT ![1] = "destroying"]) = (Rest(calls[c]) \ {"destroy"}) \cup {"destroying"}
    BY <1>1, <2>1, RestDestroying
  <2> QED
    BY <1>1, <1>2, <2>1, <2>2 DEF Base, Lined
<1>3. CASE ~CallDestroy(c)
  <2>1. /\ calls[c] # <<>> /\ Returns(c)
    BY <1>3 DEF Call, CallReturns, Makes
  <2>2. UNCHANGED <<client, ops, history>> /\ calls' = [calls EXCEPT ![c] = Tail(calls[c])]
    BY <2>1 DEF Returns
  <2>3. /\ Tail(calls[c]) \in Seq(Names) /\ Sorted(Tail(calls[c]))
        /\ Rest(Tail(calls[c])) = Rest(calls[c]) \ {Head(calls[c])}
    BY <1>1, <2>1, RestTail
  <2> QED
    BY <1>1, <2>1, <2>2, <2>3 DEF Base, Lined
<1> QED
  BY <1>2, <1>3

\* What an operation begins with.
Begins(c, q) ==
    /\ calls[c] = <<>> /\ q \in Seq(Names) /\ Sorted(q) /\ calls' = [calls EXCEPT ![c] = q]

LEMMA TargetBegins ==
    ASSUME NEW c \in Clients, NEW b \in Binders \cup {0}, SetPreviewTarget(c, b)
    PROVE  \E q : /\ Begins(c, q) /\ q # <<>>
                  /\ Rest(q) = {"destroy", "releaseSurface", "releaseCallBack"}
                        \cup (IF b # 0 THEN {"setSurface"} ELSE {})
                        \cup (IF (b # 0 /\ state[c] = "PREVIEW") /\ callbacks[c] THEN {"setCallBack"} ELSE {})
                        \cup (IF b # 0 /\ state[c] = "PREVIEW" THEN {"create"} ELSE {})
<1> DEFINE again == b # 0 /\ state[c] = "PREVIEW"
           q == Teardown \o (IF b = 0 THEN <<>> ELSE <<"setSurface">>)
                         \o (IF again /\ callbacks[c] THEN <<"setCallBack">> ELSE <<>>)
                         \o (IF again THEN <<"create">> ELSE <<>>)
<1>1. calls[c] = <<>> /\ calls' = [calls EXCEPT ![c] = q]
  BY DEF SetPreviewTarget, Enter
<1>2. q = Teardown \o (IF b # 0 THEN <<"setSurface">> ELSE <<>>)
                   \o (IF again /\ callbacks[c] THEN <<"setCallBack">> ELSE <<>>)
                   \o (IF again THEN <<"create">> ELSE <<>>)
  OBVIOUS
<1>3. PICK s \in BOOLEAN, k \in BOOLEAN, a \in BOOLEAN :
          s = (b # 0) /\ k = (again /\ callbacks[c]) /\ a = again
  OBVIOUS
<1>4. q = Teardown \o (IF s THEN <<"setSurface">> ELSE <<>>)
                   \o (IF k THEN <<"setCallBack">> ELSE <<>>)
                   \o (IF a THEN <<"create">> ELSE <<>>)
  BY <1>2, <1>3
<1>5. /\ q \in Seq(Names) /\ Sorted(q) /\ q # <<>>
      /\ Rest(q) = {"destroy", "releaseSurface", "releaseCallBack"}
                     \cup (IF s THEN {"setSurface"} ELSE {})
                     \cup (IF k THEN {"setCallBack"} ELSE {})
                     \cup (IF a THEN {"create"} ELSE {})
  <2> HIDE DEF q
  <2> QED
    BY <1>4, RestTarget
<1> QED
  BY <1>1, <1>3, <1>5 DEF Begins

LEMMA StartBegins ==
    ASSUME NEW c \in Clients, NEW on, calls[c] = <<>>, StartPreviewL(c, on)
    PROVE  \E q : /\ Begins(c, q) /\ q # <<>>
                  /\ Rest(q) = (IF on /\ ~mCallbackWindow[c] THEN {"releaseCallBack", "setCallBack"} ELSE {})
                                  \cup {"create"}
<1> DEFINE q == (IF on /\ ~mCallbackWindow[c] THEN <<"releaseCallBack", "setCallBack">> ELSE <<>>) \o <<"create">>
<1>1. calls' = [calls EXCEPT ![c] = q]
  BY DEF StartPreviewL
<1>2. PICK k \in BOOLEAN : k = (on /\ ~mCallbackWindow[c])
  OBVIOUS
<1>3. q = (IF k THEN <<"releaseCallBack", "setCallBack">> ELSE <<>>) \o <<"create">>
  BY <1>2
<1>4. /\ q \in Seq(Names) /\ Sorted(q) /\ q # <<>>
      /\ Rest(q) = (IF k THEN {"releaseCallBack", "setCallBack"} ELSE {}) \cup {"create"}
  <2> HIDE DEF q
  <2> QED
    BY <1>3, RestStart
<1> QED
  BY <1>1, <1>2, <1>4 DEF Begins

LEMMA StopBegins ==
    ASSUME NEW c \in Clients, NEW s, calls[c] = <<>>, StopPreviewL(c, s)
    PROVE  \E q : /\ Begins(c, q) /\ q # <<>>
                  /\ Rest(q) = {"destroy", "releaseSurface", "releaseCallBack"}
BY RestTeardown DEF Begins, StopPreviewL

LEMMA CallbackTargetBegins ==
    ASSUME NEW c \in Clients, SetPreviewCallbackTarget(c)
    PROVE  \E q : /\ Begins(c, q) /\ q # <<>>
                  /\ \E x \in {"setCallBack", "releaseCallBack"} : Rest(q) = {x}
<1>1. PICK x \in {"setCallBack", "releaseCallBack"} : calls' = [calls EXCEPT ![c] = <<x>>]
  BY DEF SetPreviewCallbackTarget
<1>2. calls[c] = <<>>
  BY DEF SetPreviewCallbackTarget, Enter
<1>3. <<x>> \in Seq(Names) /\ Sorted(<<x>>) /\ Rest(<<x>>) = {x} /\ <<x>> # <<>>
  BY RestOne DEF Names
<1> QED
  BY <1>1, <1>2, <1>3 DEF Begins

\* An operation of one client leaves the others as they are.
Others(c) ==
    \A b \in Clients : b # c =>
        /\ phase'[b] = phase[b] /\ state'[b] = state[b] /\ mPreviewSurface'[b] = mPreviewSurface[b]
        /\ callbacks'[b] = callbacks[b] /\ mCallbackWindow'[b] = mCallbackWindow[b]
        /\ reused'[b] = reused[b] /\ dulled'[b] = dulled[b]

LEMMA OnlySelf == ASSUME Base, NEW c \in Clients, Application(c) PROVE Others(c)
<1> USE DEF Base, PhaseType, FlagType, Others
<1>1. CASE Connect(c)
  BY <1>1 DEF Connect
<1>2. CASE StartPreview(c)
  BY <1>2 DEF StartPreview, StartPreviewL, Enter
<1>3. CASE StopPreview(c)
  BY <1>3 DEF StopPreview, StopPreviewL, Enter
<1>4. CASE SetPreviewCallbackTarget(c)
  BY <1>4 DEF SetPreviewCallbackTarget, Enter
<1>5. CASE Disconnect(c)
  BY <1>5 DEF Disconnect, StopPreviewL
<1>6. CASE DisconnectEnds(c)
  BY <1>6 DEF DisconnectEnds
<1>7. CASE Destructor(c)
  BY <1>7 DEF Destructor, StopPreviewL
<1>8. ASSUME NEW b \in Binders \cup {0}, SetPreviewTarget(c, b) PROVE Others(c)
  BY <1>8, ClientBounds DEF SetPreviewTarget, Enter
<1>9. ASSUME NEW on \in BOOLEAN, SetPreviewCallbackFlag(c, on) PROVE Others(c)
  BY <1>9 DEF SetPreviewCallbackFlag, StartPreviewL, Enter
<1> QED
  BY <1>1, <1>2, <1>3, <1>4, <1>5, <1>6, <1>7, <1>8, <1>9 DEF Application

LEMMA NextPhaseType == ASSUME Base, NEW c \in Clients, Application(c) PROVE PhaseType'
<1> USE DEF Base, PhaseType
<1>1. CASE Connect(c)
  BY <1>1 DEF Connect
<1>2. CASE StartPreview(c)
  BY <1>2 DEF StartPreview, StartPreviewL, Enter
<1>3. CASE StopPreview(c)
  BY <1>3 DEF StopPreview, StopPreviewL, Enter
<1>4. CASE SetPreviewCallbackTarget(c)
  BY <1>4 DEF SetPreviewCallbackTarget, Enter
<1>5. CASE Disconnect(c)
  BY <1>5 DEF Disconnect, StopPreviewL
<1>6. CASE DisconnectEnds(c)
  BY <1>6 DEF DisconnectEnds
<1>7. CASE Destructor(c)
  BY <1>7 DEF Destructor, StopPreviewL
<1>8. ASSUME NEW b \in Binders \cup {0}, SetPreviewTarget(c, b) PROVE PhaseType'
  BY <1>8, ClientBounds DEF SetPreviewTarget, Enter
<1>9. ASSUME NEW on \in BOOLEAN, SetPreviewCallbackFlag(c, on) PROVE PhaseType'
  BY <1>9 DEF SetPreviewCallbackFlag, StartPreviewL, Enter
<1> QED
  BY <1>1, <1>2, <1>3, <1>4, <1>5, <1>6, <1>7, <1>8, <1>9 DEF Application

LEMMA NextFlagType == ASSUME Base, NEW c \in Clients, Application(c) PROVE FlagType'
<1> USE DEF Base, FlagType
<1>1. CASE Connect(c)
  BY <1>1 DEF Connect
<1>2. CASE StartPreview(c)
  BY <1>2 DEF StartPreview, StartPreviewL, Enter
<1>3. CASE StopPreview(c)
  BY <1>3 DEF StopPreview, StopPreviewL, Enter
<1>4. CASE SetPreviewCallbackTarget(c)
  BY <1>4 DEF SetPreviewCallbackTarget, Enter
<1>5. CASE Disconnect(c)
  BY <1>5 DEF Disconnect, StopPreviewL
<1>6. CASE DisconnectEnds(c)
  BY <1>6 DEF DisconnectEnds
<1>7. CASE Destructor(c)
  BY <1>7 DEF Destructor, StopPreviewL
<1>8. ASSUME NEW b \in Binders \cup {0}, SetPreviewTarget(c, b) PROVE FlagType'
  BY <1>8, ClientBounds DEF SetPreviewTarget, Enter
<1>9. ASSUME NEW on \in BOOLEAN, SetPreviewCallbackFlag(c, on) PROVE FlagType'
  BY <1>9 DEF SetPreviewCallbackFlag, StartPreviewL, Enter
<1> QED
  BY <1>1, <1>2, <1>3, <1>4, <1>5, <1>6, <1>7, <1>8, <1>9 DEF Application

\* The connected client is alone with the service.
LEMMA AloneOpen ==
    ASSUME Base, NEW c \in Clients, phase[c] \in {"open", "closing"}
    PROVE  \A b \in Clients : b # c => /\ phase[b] \in {"unborn", "closed", "destroyed"}
                                       /\ ~intruder => calls[b] = <<>>
<1> SUFFICES ASSUME NEW b \in Clients, b # c
             PROVE  /\ phase[b] \in {"unborn", "closed", "destroyed"}
                    /\ ~intruder => calls[b] = <<>>
  OBVIOUS
<1>1. b < c \/ c < b
  BY ClientBounds DEF Clients
<1>2. phase[b] \in {"unborn", "closed", "destroyed"}
  BY <1>1 DEF Base, InTurn
<1>3. ~intruder => calls[b] = <<>>
  BY <1>2 DEF Base, Fresh, Solo
<1> QED
  BY <1>2, <1>3

LEMMA OperationBase ==
    ASSUME Base, NEW c \in Clients, phase[c] \in {"open", "closing"}, Others(c), intruder' = intruder,
           phase'[c] \in {"open", "closing"},
           calls' = calls \/ \E q : Begins(c, q)
    PROVE  Lined' /\ Fresh' /\ InTurn' /\ Solo'
<1>0. \A b \in Clients : b # c => calls'[b] = calls[b] /\ phase'[b] = phase[b]
  BY DEF Base, Lined, Begins, Others
<1>1. Lined'
  BY DEF Base, Lined, Begins
<1>2. Fresh'
  BY <1>0 DEF Base, Fresh, Others
<1>3. InTurn'
  <2>1. \A b \in Clients : phase'[b] = phase[b] \/ b = c
    BY <1>0
  <2> QED
    BY <2>1 DEF Base, InTurn
<1>4. Solo'
  <2> SUFFICES ASSUME ~intruder, NEW a \in Clients, NEW b \in Clients, a # b, calls'[a] # <<>>
               PROVE  calls'[b] = <<>> /\ (phase'[a] = "destroyed" => phase'[b] \in {"unborn", "destroyed"})
    BY DEF Solo
  <2>1. a = c
    BY <1>0, AloneOpen
  <2> QED
    BY <1>0, <2>1, AloneOpen
<1> QED
  BY <1>1, <1>2, <1>3, <1>4

\* The operations that need the client's lock and its process.
Operation(c) ==
    \/ StartPreview(c) \/ StopPreview(c) \/ SetPreviewCallbackTarget(c)
    \/ \E b \in Binders \cup {0} : SetPreviewTarget(c, b)
    \/ \E on \in BOOLEAN : SetPreviewCallbackFlag(c, on)

LEMMA OperationSteps ==
    ASSUME NEW c \in Clients, Operation(c)
    PROVE  /\ phase[c] \in {"open", "closing"} /\ UNCHANGED <<vars, phase, intruder>>
           /\ calls[c] = <<>> /\ late' = (late \/ phase[c] = "closing")
           /\ calls' = calls \/ \E q : Begins(c, q)
<1>1. /\ phase[c] \in {"open", "closing"} /\ UNCHANGED <<vars, phase, intruder>>
      /\ calls[c] = <<>> /\ late' = (late \/ phase[c] = "closing")
  BY DEF Operation, StartPreview, StopPreview, SetPreviewCallbackTarget, SetPreviewTarget,
     SetPreviewCallbackFlag, Enter
<1>2. CASE StartPreview(c)
  BY <1>1, <1>2, StartBegins DEF StartPreview
<1>3. CASE StopPreview(c)
  BY <1>1, <1>3, StopBegins DEF StopPreview
<1>4. CASE SetPreviewCallbackTarget(c)
  BY <1>1, <1>4, CallbackTargetBegins
<1>5. CASE \E b \in Binders \cup {0} : SetPreviewTarget(c, b)
  BY <1>1, <1>5, TargetBegins
<1>6. ASSUME NEW on \in BOOLEAN, SetPreviewCallbackFlag(c, on)
      PROVE  calls' = calls \/ \E q : Begins(c, q)
  <2>1. calls' = calls \/ StartPreviewL(c, on)
    BY <1>6 DEF SetPreviewCallbackFlag
  <2> QED
    BY <1>1, <2>1, StartBegins
<1> QED
  BY <1>1, <1>2, <1>3, <1>4, <1>5, <1>6 DEF Operation

LEMMA NextBase == Base /\ [ClientNext]_allVars => Base'
<1> SUFFICES ASSUME Base, [ClientNext]_allVars PROVE Base'
  OBVIOUS
<1>1. ASSUME NEW c \in Clients, Application(c) PROVE Base'
  <2>0. PhaseType' /\ FlagType' /\ Others(c)
    BY <1>1, NextPhaseType, NextFlagType, OnlySelf
  <2>1. CASE Operation(c)
    <3>1. /\ phase[c] \in {"open", "closing"} /\ phase'[c] = phase[c] /\ intruder' = intruder
          /\ calls' = calls \/ \E q : Begins(c, q)
      BY <2>1, OperationSteps
    <3> QED
      BY <2>0, <3>1, OperationBase DEF Base
  <2>2. CASE Disconnect(c)
    <3>1. /\ phase[c] = "open" /\ phase'[c] = "closing" /\ intruder' = intruder /\ calls[c] = <<>>
          /\ StopPreviewL(c, "DISCONNECTED")
      BY <2>2 DEF Disconnect, Base, PhaseType
    <3>2. \E q : Begins(c, q)
      BY <3>1, StopBegins
    <3> QED
      BY <2>0, <3>1, <3>2, OperationBase DEF Base
  <2>3. CASE Connect(c)
    <3>1. /\ phase[c] = "unborn" /\ phase' = [phase EXCEPT ![c] = "open"] /\ calls' = calls
          /\ \A b \in 1 .. (c - 1) : phase[b] \in {"closed", "destroyed"}
          /\ ~intruder' => \A b \in Clients : calls[b] = <<>>
      BY <2>3 DEF Connect
    <3>2. phase'[c] = "open" /\ \A b \in Clients : b # c => phase'[b] = phase[b]
      BY <3>1 DEF Base, PhaseType
    <3>3. Lined'
      BY <3>1 DEF Base, Lined
    <3>4. Fresh'
      BY <2>0, <3>1, <3>2 DEF Base, Fresh, Others
    <3>5. InTurn'
      <4>1. \A b \in Clients : b < c => phase[b] \in {"closed", "destroyed"}
        BY <3>1, ClientBounds DEF Clients
      <4>2. \A b \in Clients : c < b => phase[b] = "unborn"
        BY <3>1 DEF Base, InTurn
      <4>3. \A b \in Clients : ~(b < b)
        BY ClientBounds DEF Clients
      <4> QED
        BY <3>2, <4>1, <4>2, <4>3 DEF Base, InTurn
    <3>6. Solo'
      BY <3>1 DEF Solo
    <3> QED
      BY <2>0, <3>3, <3>4, <3>5, <3>6 DEF Base
  <2>4. CASE DisconnectEnds(c)
    <3>1. /\ phase[c] = "closing" /\ phase' = [phase EXCEPT ![c] = "closed"] /\ calls[c] = <<>>
          /\ UNCHANGED <<calls, intruder>>
      BY <2>4 DEF DisconnectEnds
    <3>2. phase'[c] = "closed" /\ \A b \in Clients : b # c => phase'[b] = phase[b]
      BY <3>1 DEF Base, PhaseType
    <3>3. Lined'
      BY <3>1 DEF Base, Lined
    <3>4. Fresh'
      BY <2>0, <3>1, <3>2 DEF Base, Fresh, Others
    <3>5. InTurn'
      BY <3>1, <3>2 DEF Base, InTurn
    <3>6. Solo'
      <4>1. ~intruder => \A b \in Clients : calls[b] = <<>>
        BY <3>1, AloneOpen
      <4> QED
        BY <3>1, <4>1 DEF Solo
    <3> QED
      BY <2>0, <3>3, <3>4, <3>5, <3>6 DEF Base
  <2>5. CASE Destructor(c)
    <3>1. /\ phase[c] = "closed" /\ calls[c] = <<>> /\ StopPreviewL(c, "DISCONNECTED")
          /\ phase' = [phase EXCEPT ![c] = "destroyed"]
          /\ intruder' = (intruder \/ \E b \in Clients : b # c /\ phase[b] \notin {"unborn", "destroyed"})
      BY <2>5 DEF Destructor
    <3>2. phase'[c] = "destroyed" /\ \A b \in Clients : b # c => phase'[b] = phase[b]
      BY <3>1 DEF Base, PhaseType
    <3>q. PICK q : Begins(c, q)
      BY <3>1, StopBegins
    <3>b. \A b \in Clients : b # c => calls'[b] = calls[b]
      BY <3>q DEF Begins, Base, Lined
    <3>3. Lined'
      BY <3>q DEF Base, Lined, Begins
    <3>4. Fresh'
      BY <2>0, <3>2, <3>b DEF Base, Fresh, Others
    <3>5. InTurn'
      BY <3>1, <3>2 DEF Base, InTurn
    <3>6. Solo'
      <4> SUFFICES ASSUME ~intruder', NEW a \in Clients, NEW b \in Clients, a # b, calls'[a] # <<>>
                   PROVE  calls'[b] = <<>> /\ phase'[b] \in {"unborn", "destroyed"}
        BY DEF Solo
      <4>1. \A d \in Clients : d # c => phase[d] \in {"unborn", "destroyed"}
        BY <3>1
      <4>2. \A d \in Clients : d # c => calls[d] = <<>>
        BY <3>1, <4>1 DEF Base, Solo, Fresh
      <4> QED
        BY <3>2, <3>b, <4>1, <4>2
    <3> QED
      BY <2>0, <3>3, <3>4, <3>5, <3>6 DEF Base
  <2> QED
    BY <1>1, <2>1, <2>2, <2>3, <2>4, <2>5 DEF Application, Operation
<1>2. ASSUME NEW c \in Clients, Call(c) PROVE Base'
  <2>1. /\ UNCHANGED <<client, ops, history>> /\ calls[c] # <<>> /\ Lined'
        /\ \A b \in Clients : b # c => calls'[b] = calls[b]
    BY <1>2, CallSteps
  <2>2. PhaseType' /\ FlagType' /\ InTurn'
    BY <2>1 DEF Base, PhaseType, FlagType, InTurn
  <2>3. Fresh'
    BY <2>1 DEF Base, Fresh
  <2>4. Solo'
    <3> SUFFICES ASSUME ~intruder, NEW a \in Clients, NEW b \in Clients, a # b, calls'[a] # <<>>
                 PROVE  calls'[b] = <<>> /\ (phase[a] = "destroyed" => phase[b] \in {"unborn", "destroyed"})
      BY <2>1 DEF Solo
    <3>1. calls[a] # <<>>
      BY <2>1
    <3>2. a = c
      BY <2>1, <3>1 DEF Base, Solo
    <3> QED
      BY <2>1, <3>1, <3>2 DEF Base, Solo
  <2> QED
    BY <2>1, <2>2, <2>3, <2>4 DEF Base
<1>3. CASE UNCHANGED cvars
  BY <1>3 DEF Base, PhaseType, FlagType, Lined, Fresh, InTurn, Solo
<1> QED
  BY <1>1, <1>2, <1>3 DEF ClientNext

-----------------------------------------------------------------------------
(* The calls that are still to come, and what they lead to.                *)

Todo       == {x \in Names : \E c \in Clients : x \in Rest(calls[c])}
Destroying == "destroy" \in Todo \/ "destroying" \in Todo

\* Nobody disturbs the client that is connected, and the process lives.
Quiet == ~intruder /\ pc # "exit"

\* Surfaces are touched only when the session is gone; the callback surface also when there
\* is none yet.
DestroyFirst ==
    Quiet =>
        /\ pc # "free" => "destroying" \in Todo
        /\ "destroying" \in Todo /\ pc = "free" => ~msRecvThread
        /\ ~Destroying /\ ("releaseSurface" \in Todo \/ "setSurface" \in Todo) => ~msRecvThread
        /\ ~late /\ ~targeted /\ ~Destroying /\ ("releaseCallBack" \in Todo \/ "setCallBack" \in Todo)
              => ~msRecvThread \/ msCallBackWindow = NoWindow

\* What there will be when the calls have been made.
WillRun  == "create" \in Todo \/ (msRecvThread /\ ~Destroying)
WillShow == "setSurface" \in Todo \/ (msWindow # NoWindow /\ "releaseSurface" \notin Todo)
WillCall == "setCallBack" \in Todo \/ (msCallBackWindow # NoWindow /\ "releaseCallBack" \notin Todo)

RunForecast ==
    Quiet /\ ~late =>
        /\ WillRun => \E c \in Clients : Previewing(c)
        /\ \A c \in Clients : Previewing(c) /\ mPreviewSurface[c] # 0 => WillRun

ShowForecast ==
    Quiet /\ ~late => \A c \in Clients :
        phase[c] = "open" /\ mPreviewSurface[c] # 0 /\ ~reused[c] => WillShow

CallForecast ==
    Quiet /\ ~late /\ ~targeted =>
        /\ WillCall => \E c \in Clients : phase[c] = "open" /\ mCallbackWindow[c]
        /\ \A c \in Clients : phase[c] = "open" /\ mCallbackWindow[c] /\ ~dulled[c] => WillCall

\* In PREVIEW with callbacks CallbackProcessor has a window.
Windowed == \A c \in Clients : state[c] = "PREVIEW" /\ callbacks[c] => mCallbackWindow[c]

\* The decode thread writes to the surface that the service holds.
Aimed ==
    ~intruder =>
        /\ dec = "surface" /\ using # NoWindow => using = msWindow
        /\ dec = "callback" /\ using # NoWindow /\ ~targeted /\ ~late => using = msCallBackWindow

\* Only client c is in the middle of an operation.
Alone(c) == \A b \in Clients : b # c => calls[b] = <<>>

LEMMA TodoAlone == ASSUME NEW c \in Clients, Lined, Alone(c) PROVE Todo = Rest(calls[c])
<1>1. \A b \in Clients : b # c => Rest(calls[b]) = {}
  BY RestEmpty DEF Alone
<1>2. \A x \in Rest(calls[c]) : x \in Names
  <2>1. calls[c] \in Seq(Names)
    BY DEF Lined
  <2> QED
    BY <2>1 DEF Rest
<1>3. \A x \in Todo : x \in Rest(calls[c])
  BY <1>1 DEF Todo
<1>4. \A x \in Rest(calls[c]) : x \in Todo
  BY <1>2 DEF Todo
<1> QED
  BY <1>3, <1>4

LEMMA TodoAloneNext ==
    ASSUME NEW c \in Clients, Lined', \A b \in Clients : b # c => calls'[b] = <<>>
    PROVE  Todo' = Rest(calls'[c])
<1>1. \A b \in Clients : b # c => Rest(calls'[b]) = {}
  BY RestEmpty
<1>2. \A x \in Rest(calls'[c]) : x \in Names
  <2>1. calls'[c] \in Seq(Names)
    BY DEF Lined
  <2> QED
    BY <2>1 DEF Rest
<1>0. Todo' = {x \in Names : \E b \in Clients : x \in Rest(calls'[b])}
  BY DEF Todo, Rest
<1>3. \A x \in Todo' : x \in Rest(calls'[c])
  BY <1>0, <1>1
<1>4. \A x \in Rest(calls'[c]) : x \in Todo'
  BY <1>0, <1>2
<1> QED
  BY <1>3, <1>4

\* What is left when an operation begins.
LEMMA TodoBegins ==
    ASSUME Base, NEW c \in Clients, Alone(c), NEW q, Begins(c, q)
    PROVE  Todo = {} /\ Todo' = Rest(q)
<1>1. /\ calls[c] = <<>> /\ Lined /\ Lined' /\ calls'[c] = q
      /\ \A b \in Clients : b # c => calls'[b] = <<>>
  BY DEF Base, Lined, Begins, Alone
<1>2. Todo = {}
  BY <1>1, TodoAlone, RestEmpty
<1>3. Todo' = Rest(calls'[c])
  BY <1>1, TodoAloneNext
<1> QED
  BY <1>1, <1>2, <1>3

LEMMA TodoIdle ==
    ASSUME Base, NEW c \in Clients, Alone(c), calls[c] = <<>> PROVE Todo = {}
BY TodoAlone, RestEmpty DEF Base

\* What call h does to the service: destroySession takes the mutex and is still to return, the
\* others return at once, and createSession may end the process.
Leaves(h) == pc' = "free" /\ Todo' = Todo \ {h}

Effect(h) ==
    \/ /\ h = "destroy" /\ pc' = "bye" /\ Todo' = (Todo \ {h}) \cup {"destroying"}
       /\ UNCHANGED <<msRecvThread, msWindow, msCallBackWindow>>
    \/ /\ h = "destroying" \/ (h = "destroy" /\ ~msRecvThread)
       /\ Leaves(h) /\ UNCHANGED <<msRecvThread, msWindow, msCallBackWindow>>
    \/ /\ h = "releaseSurface" /\ Leaves(h)
       /\ msWindow' = NoWindow /\ UNCHANGED <<msRecvThread, msCallBackWindow>>
    \/ /\ h = "releaseCallBack" /\ Leaves(h)
       /\ msCallBackWindow' = NoWindow /\ UNCHANGED <<msRecvThread, msWindow>>
    \/ /\ h = "setSurface" /\ Leaves(h)
       /\ msWindow' # NoWindow /\ UNCHANGED <<msRecvThread, msCallBackWindow>>
    \/ /\ h = "setCallBack" /\ Leaves(h)
       /\ msCallBackWindow' # NoWindow /\ UNCHANGED <<msRecvThread, msWindow>>
    \/ /\ h = "create" /\ Leaves(h)
       /\ msRecvThread' = TRUE /\ UNCHANGED <<msWindow, msCallBackWindow>>
    \/ pc' = "exit" /\ UNCHANGED <<msRecvThread, msWindow, msCallBackWindow>>

LEMMA CallEffects ==
    ASSUME Base, IInv, ~intruder, pc # "exit", NEW c \in Clients, Call(c)
    PROVE  /\ UNCHANGED <<client, history, dec, using>> /\ pc = "free"
           /\ \E h \in Todo : (\A x \in Todo : x # h => Rank(h) < Rank(x)) /\ Effect(h)
<1> DEFINE h == Head(calls[c])
<1>1. /\ UNCHANGED <<client, history>> /\ calls[c] # <<>> /\ Lined'
      /\ \A b \in Clients : b # c => calls'[b] = calls[b]
      /\ \/ Rest(calls'[c]) = Rest(calls[c]) \ {h}
         \/ CallDestroy(c) /\ Rest(calls'[c]) = (Rest(calls[c]) \ {"destroy"}) \cup {"destroying"}
  BY CallSteps
<1>a. Alone(c)
  BY <1>1 DEF Base, Solo, Alone
<1>b. \A b \in Clients : b # c => calls'[b] = <<>>
  BY <1>1, <1>a DEF Alone
<1>2. Lined /\ calls[c] \in Seq(Names) /\ Sorted(calls[c])
  BY DEF Base, Lined
<1>3. Todo = Rest(calls[c]) /\ Todo' = Rest(calls'[c])
  BY <1>1, <1>2, <1>a, <1>b, TodoAlone, TodoAloneNext
<1>4. h \in Todo /\ \A x \in Todo : x # h => Rank(h) < Rank(x)
  <2>1. /\ h \in Rest(calls[c]) /\ Rest(Tail(calls[c])) = Rest(calls[c]) \ {h}
        /\ \A x \in Rest(Tail(calls[c])) : Rank(h) < Rank(x)
    BY <1>1, <1>2, RestTail
  <2> QED
    BY <1>3, <2>1
<1>5. \A x : Makes(c, x) => h = x /\ pc = "free"
  BY DEF Makes
<1>n. nwin \in Nat /\ nwin + 1 # NoWindow
  BY ServiceBounds DEF IInv, TypeOK, NoWindow
<1>m. msRecvThread \in BOOLEAN
  BY DEF IInv, TypeOK
<1>6. CASE CallDestroy(c)
  <2>1. /\ h = "destroy" /\ pc = "free" /\ pc' = "bye"
        /\ UNCHANGED <<msRecvThread, msWindow, msCallBackWindow, dec, using>>
    BY <1>5, <1>6 DEF CallDestroy, DestroySession, vars, service, surface, decoder
  <2>2. calls'[c] = [calls[c] EXCEPT ![1] = "destroying"]
    BY <1>6 DEF CallDestroy, Base, Lined
  <2>3. Rest(calls'[c]) = (Rest(calls[c]) \ {"destroy"}) \cup {"destroying"}
    BY <1>1, <1>2, <2>1, <2>2, RestDestroying
  <2>4. Effect(h)
    <3> HIDE DEF h
    <3> QED
      BY <1>3, <2>1, <2>3 DEF Effect
  <2> QED
    BY <1>1, <1>4, <2>1, <2>4
<1>7. CASE ~CallDestroy(c)
  <2>1. Todo' = Todo \ {h}
    BY <1>1, <1>3, <1>7
  <2>2. /\ pc = "free" /\ UNCHANGED <<dec, using>> /\ Effect(h)
    <3> HIDE DEF h
    <3> USE DEF service, surface, decoder, rtp, bounds
    <3>1. CASE Makes(c, "releaseSurface") /\ ReleaseSurface
      BY <1>5, <2>1, <3>1 DEF ReleaseSurface, Effect, Leaves
    <3>2. CASE Makes(c, "releaseCallBack") /\ ReleaseCallBackSurface
      BY <1>5, <2>1, <3>2 DEF ReleaseCallBackSurface, Effect, Leaves
    <3>3. CASE Makes(c, "setSurface") /\ SetSurface
      BY <1>5, <1>n, <2>1, <3>3 DEF SetSurface, Effect, Leaves
    <3>4. CASE Makes(c, "setCallBack") /\ SetCallBackSurface
      BY <1>5, <1>n, <2>1, <3>4 DEF SetCallBackSurface, Effect, Leaves
    <3>5. CASE Makes(c, "create") /\ CreateSession
      BY <1>5, <2>1, <3>5 DEF CreateSession, Effect, Leaves
    <3>6. CASE Makes(c, "create") /\ CreateExits
      BY <1>5, <2>1, <3>6 DEF CreateExits, Effect, Leaves
    <3>7. CASE CallReturns(c)
      <4>0. UNCHANGED <<pc, msRecvThread, msWindow, msCallBackWindow, dec, using>>
        BY <3>7 DEF CallReturns, vars
      <4>1. CASE Makes(c, "destroying")
        BY <1>5, <2>1, <4>0, <4>1 DEF Effect, Leaves
      <4>2. CASE Makes(c, "destroy") /\ ~msRecvThread
        BY <1>5, <2>1, <4>0, <4>2 DEF Effect, Leaves
      <4>3. CASE Makes(c, "releaseSurface") /\ msWindow = NoWindow
        BY <1>5, <2>1, <4>0, <4>3 DEF Effect, Leaves
      <4>4. CASE Makes(c, "releaseCallBack") /\ msCallBackWindow = NoWindow
        BY <1>5, <2>1, <4>0, <4>4 DEF Effect, Leaves
      <4>5. CASE Makes(c, "create") /\ msRecvThread
        BY <1>5, <1>m, <2>1, <4>0, <4>5 DEF Effect, Leaves
      <4> QED
        BY <3>7, <4>1, <4>2, <4>3, <4>4, <4>5 DEF CallReturns
    <3> QED
      BY <1>7, <3>1, <3>2, <3>3, <3>4, <3>5, <3>6, <3>7 DEF Call
  <2> QED
    BY <1>1, <1>4, <2>2
<1> QED
  BY <1>6, <1>7

-----------------------------------------------------------------------------
(* The kinds of steps, as far as the invariants tell them apart.           *)

\* Client c alone is connected, or about to be; nothing is left to call, and it does not call
\* the service before the step ends.
Sole(c) ==
    /\ \A b \in Clients : b # c => phase[b] # "open" /\ phase'[b] # "open"
    /\ Others(c) /\ UNCHANGED vars /\ Todo = {}

\* A call of the application that arrives in time.
InTime(c) == UNCHANGED phase /\ (~late' => ~late /\ phase[c] = "open")

Targets(c, b) ==
    LET again == b # 0 /\ state[c] = "PREVIEW"
    IN  /\ Sole(c) /\ InTime(c) /\ UNCHANGED <<state, callbacks, targeted>>
        /\ Todo' = {"destroy", "releaseSurface", "releaseCallBack"}
                     \cup (IF b # 0 THEN {"setSurface"} ELSE {})
                     \cup (IF again /\ callbacks[c] THEN {"setCallBack"} ELSE {})
                     \cup (IF again THEN {"create"} ELSE {})
        /\ mPreviewSurface'[c] = b
        /\ mCallbackWindow[c] => mCallbackWindow'[c]
        /\ again /\ callbacks[c] => mCallbackWindow'[c]
        /\ mCallbackWindow'[c] => dulled'[c] \/ (again /\ callbacks[c])

Starts(c, on) ==
    /\ Sole(c) /\ InTime(c) /\ UNCHANGED <<mPreviewSurface, targeted, reused, dulled>>
    /\ Todo' = (IF on /\ ~mCallbackWindow[c] THEN {"releaseCallBack", "setCallBack"} ELSE {}) \cup {"create"}
    /\ state'[c] = "PREVIEW" /\ (callbacks'[c] => on)
    /\ mCallbackWindow'[c] => mCallbackWindow[c] \/ on
    /\ mCallbackWindow[c] \/ on => mCallbackWindow'[c]

Stops(c) ==
    /\ Sole(c) /\ (~late' => ~late) /\ UNCHANGED targeted
    /\ Todo' = {"destroy", "releaseSurface", "releaseCallBack"}
    /\ state'[c] # "PREVIEW" /\ reused'[c] /\ (mCallbackWindow'[c] => dulled'[c])

TargetsCallback(c) ==
    /\ Sole(c) /\ InTime(c) /\ UNCHANGED <<client, reused, dulled>> /\ targeted'
    /\ \E x \in {"setCallBack", "releaseCallBack"} : Todo' = {x}

\* No call to the service: connect, the end of disconnect, and new flags outside PREVIEW.
Idles(c) ==
    /\ Others(c) /\ UNCHANGED <<vars, targeted, state, mPreviewSurface, mCallbackWindow, reused, dulled>>
    /\ Todo' = Todo /\ (~late' => ~late) /\ (phase'[c] = "open" => state[c] # "PREVIEW")
    /\ UNCHANGED callbacks \/ state[c] # "PREVIEW"
    /\ phase[c] = "open" => phase'[c] = "open"
    /\ phase[c] # "open" /\ phase'[c] = "open" => mPreviewSurface[c] = 0 /\ ~mCallbackWindow[c]

CallsService(h) ==
    /\ UNCHANGED <<client, history, dec, using>> /\ pc = "free"
    /\ \A x \in Todo : x # h => Rank(h) < Rank(x)
    /\ Effect(h)

\* A step of the service's own threads.
Serves ==
    /\ UNCHANGED <<client, history, msWindow, msCallBackWindow>> /\ Todo' = Todo
    /\ \/ UNCHANGED <<pc, msRecvThread>>
       \/ pc = "join" /\ pc' = "free" /\ ~msRecvThread'
       \/ pc \notin {"free", "exit"} /\ pc' \notin {"free", "exit"} /\ UNCHANGED msRecvThread
    /\ \/ dec' \notin {"callback", "surface"} \/ UNCHANGED <<dec, using>>
       \/ dec' = "callback" /\ using' = msCallBackWindow
       \/ dec' = "surface" /\ using' = msWindow

LEMMA SoleOperation ==
    ASSUME Base, ~intruder, NEW c \in Clients, Operation(c)
    PROVE  Sole(c) /\ InTime(c) /\ calls[c] = <<>> /\ Alone(c)
<1>1. /\ phase[c] \in {"open", "closing"} /\ UNCHANGED <<vars, phase, intruder>>
      /\ calls[c] = <<>> /\ late' = (late \/ phase[c] = "closing")
  BY OperationSteps
<1>2. Others(c)
  BY OnlySelf DEF Operation, Application
<1>3. \A b \in Clients : b # c => phase[b] # "open" /\ calls[b] = <<>>
  BY <1>1, AloneOpen
<1>4. Alone(c) /\ Todo = {}
  BY <1>1, <1>3, TodoIdle DEF Alone
<1>5. InTime(c)
  BY <1>1 DEF InTime
<1>6. Sole(c)
  BY <1>1, <1>2, <1>3, <1>4 DEF Sole
<1> QED
  BY <1>1, <1>4, <1>5, <1>6

LEMMA TargetKind ==
    ASSUME Base, ~intruder, NEW c \in Clients, NEW b \in Binders \cup {0}, SetPreviewTarget(c, b)
    PROVE  Targets(c, b)
<1>1. Sole(c) /\ InTime(c) /\ calls[c] = <<>> /\ Alone(c)
  BY SoleOperation DEF Operation
<1>2. PICK q : /\ Begins(c, q)
               /\ Rest(q) = {"destroy", "releaseSurface", "releaseCallBack"}
                     \cup (IF b # 0 THEN {"setSurface"} ELSE {})
                     \cup (IF (b # 0 /\ state[c] = "PREVIEW") /\ callbacks[c] THEN {"setCallBack"} ELSE {})
                     \cup (IF b # 0 /\ state[c] = "PREVIEW" THEN {"create"} ELSE {})
  BY TargetBegins
<1>3. Todo' = Rest(q)
  BY <1>1, <1>2, TodoBegins
<1>4. UNCHANGED <<state, callbacks, targeted>> /\ mPreviewSurface'[c] = b
  BY DEF SetPreviewTarget, Base, PhaseType
<1>5. /\ mCallbackWindow'[c] = (mCallbackWindow[c] \/ ((b # 0 /\ state[c] = "PREVIEW") /\ callbacks[c]))
      /\ dulled'[c] = (mCallbackWindow[c] /\ ~((b # 0 /\ state[c] = "PREVIEW") /\ callbacks[c]))
  BY DEF SetPreviewTarget, Base, FlagType
<1> QED
  BY <1>1, <1>2, <1>3, <1>4, <1>5 DEF Targets

LEMMA StartKind ==
    ASSUME Base, ~intruder, NEW c \in Clients, Operation(c), NEW on \in BOOLEAN, StartPreviewL(c, on),
           callbacks'[c] = on, UNCHANGED <<mPreviewSurface, targeted, reused, dulled>>
    PROVE  Starts(c, on)
<1>1. Sole(c) /\ InTime(c) /\ calls[c] = <<>> /\ Alone(c)
  BY SoleOperation
<1>2. PICK q : /\ Begins(c, q)
               /\ Rest(q) = (IF on /\ ~mCallbackWindow[c] THEN {"releaseCallBack", "setCallBack"} ELSE {})
                                 \cup {"create"}
  BY <1>1, StartBegins
<1>3. Todo' = Rest(q)
  BY <1>1, <1>2, TodoBegins
<1>4. state'[c] = "PREVIEW" /\ mCallbackWindow'[c] = (mCallbackWindow[c] \/ on)
  BY DEF StartPreviewL, Base, PhaseType, FlagType
<1> QED
  BY <1>1, <1>2, <1>3, <1>4 DEF Starts

LEMMA StopKind ==
    ASSUME Base, NEW c \in Clients, NEW s, s # "PREVIEW", calls[c] = <<>>, StopPreviewL(c, s), Alone(c),
           Others(c), UNCHANGED <<vars, targeted>>, ~late' => ~late,
           \A b \in Clients : b # c => phase[b] # "open"
    PROVE  Stops(c)
<1>1. PICK q : Begins(c, q) /\ Rest(q) = {"destroy", "releaseSurface", "releaseCallBack"}
  BY StopBegins
<1>2. Todo = {} /\ Todo' = {"destroy", "releaseSurface", "releaseCallBack"}
  BY <1>1, TodoBegins
<1>3. \A b \in Clients : b # c => phase'[b] # "open"
  BY DEF Others
<1>4. Sole(c)
  BY <1>2, <1>3 DEF Sole
<1>5. /\ state'[c] = s /\ reused'[c] = TRUE
      /\ mCallbackWindow'[c] = (mCallbackWindow[c] /\ ~callbacks[c])
      /\ dulled'[c] = (mCallbackWindow[c] /\ ~callbacks[c])
  BY DEF StopPreviewL, Base, PhaseType, FlagType
<1> QED
  BY <1>2, <1>4, <1>5 DEF Stops

LEMMA CallbackTargetKind ==
    ASSUME Base, ~intruder, NEW c \in Clients, SetPreviewCallbackTarget(c)
    PROVE  TargetsCallback(c)
<1>1. Sole(c) /\ InTime(c) /\ calls[c] = <<>> /\ Alone(c)
  BY SoleOperation DEF Operation
<1>2. PICK q : Begins(c, q) /\ \E x \in {"setCallBack", "releaseCallBack"} : Rest(q) = {x}
  BY CallbackTargetBegins
<1>3. Todo' = Rest(q)
  BY <1>1, <1>2, TodoBegins
<1>4. UNCHANGED <<client, reused, dulled>> /\ targeted'
  BY DEF SetPreviewCallbackTarget
<1> QED
  BY <1>1, <1>2, <1>3, <1>4 DEF TargetsCallback

LEMMA FlagKind ==
    ASSUME Base, ~intruder, NEW c \in Clients, NEW on \in BOOLEAN, SetPreviewCallbackFlag(c, on)
    PROVE  Starts(c, on) \/ Idles(c)
<1>1. Operation(c)
  BY DEF Operation
<1>2. /\ callbacks'[c] = on /\ UNCHANGED <<vars, phase, mPreviewSurface, targeted, reused, dulled, intruder>>
  BY DEF SetPreviewCallbackFlag, Base, FlagType
<1>3. CASE state[c] = "PREVIEW"
  <2>1. StartPreviewL(c, on)
    BY <1>3 DEF SetPreviewCallbackFlag
  <2> QED
    BY <1>1, <1>2, <2>1, StartKind
<1>4. CASE state[c] # "PREVIEW"
  <2>1. UNCHANGED <<calls, mCallbackWindow, state>>
    BY <1>4 DEF SetPreviewCallbackFlag
  <2>2. Others(c) /\ InTime(c)
    BY <1>1, SoleOperation DEF Sole
  <2>3. Todo' = Todo
    BY <2>1 DEF Todo, Rest
  <2> QED
    BY <1>2, <1>4, <2>1, <2>2, <2>3 DEF Idles, InTime
<1> QED
  BY <1>3, <1>4

LEMMA ConnectKind ==
    ASSUME Base, NEW c \in Clients, Connect(c) \/ DisconnectEnds(c)
    PROVE  Idles(c)
<1>1. Others(c)
  BY OnlySelf DEF Application
<1>2. /\ UNCHANGED <<vars, targeted, state, mPreviewSurface, callbacks, mCallbackWindow, reused, dulled, late, calls>>
      /\ phase[c] = "unborn" \/ (phase[c] = "closing" /\ phase'[c] = "closed")
  BY DEF Connect, DisconnectEnds, Base, PhaseType
<1>3. Todo' = Todo
  BY <1>2 DEF Todo, Rest
<1>4. phase[c] = "unborn" => state[c] = "STOPPED" /\ mPreviewSurface[c] = 0 /\ ~mCallbackWindow[c]
  BY DEF Base, Fresh
<1> QED
  BY <1>1, <1>2, <1>3, <1>4 DEF Idles

LEMMA ServesKind ==
    ASSUME IInv, ((Destroyer \/ RecvThread \/ DecThread) /\ UNCHANGED cvars) \/ UNCHANGED allVars
    PROVE  Serves
<1> USE DEF vars, service, surface, rtp, decoder, bounds
<1>1. UNCHANGED <<client, history, msWindow, msCallBackWindow>> /\ Todo' = Todo
  <2>1. UNCHANGED <<client, history, calls>>
    OBVIOUS
  <2>2. UNCHANGED <<msWindow, msCallBackWindow>>
    BY DEF Destroyer, RecvThread, DecThread, StopPollThread, ClearSources, SetRecvQuit, JoinRecvThread,
       RecvNoMemory, RecvBegin, RecvCreateDecoder, BeginDataAccess, LockSources, ReceivePacket,
       EndDataAccess, RecvQuit, RecvEnd, DecodeFrame, CallBack, CopyToSurface, CallBackReturns, DecoderEnd
  <2> QED
    BY <2>1, <2>2 DEF Todo, Rest
<1>2. CASE Destroyer
  <2>1. UNCHANGED <<dec, using>>
    BY <1>2 DEF Destroyer, StopPollThread, ClearSources, SetRecvQuit, JoinRecvThread
  <2>2. CASE StopPollThread
    BY <1>1, <2>1, <2>2 DEF StopPollThread, Serves
  <2>3. CASE ClearSources
    BY <1>1, <2>1, <2>3 DEF ClearSources, Serves
  <2>4. CASE SetRecvQuit
    BY <1>1, <2>1, <2>4 DEF SetRecvQuit, Serves
  <2>5. CASE JoinRecvThread
    BY <1>1, <2>1, <2>5 DEF JoinRecvThread, Serves
  <2> QED
    BY <1>2, <2>2, <2>3, <2>4, <2>5 DEF Destroyer
<1>3. CASE RecvThread
  <2>1. UNCHANGED <<pc, msRecvThread>>
    BY <1>3 DEF RecvThread, RecvNoMemory, RecvBegin, RecvCreateDecoder, BeginDataAccess, LockSources,
       ReceivePacket, EndDataAccess, RecvQuit, RecvEnd
  <2>2. UNCHANGED <<dec, using>> \/ dec' \in {"idle", "none"}
    BY <1>3 DEF RecvThread, RecvNoMemory, RecvBegin, RecvCreateDecoder, BeginDataAccess, LockSources,
       ReceivePacket, EndDataAccess, RecvQuit, RecvEnd
  <2> QED
    BY <1>1, <2>1, <2>2 DEF Serves
<1>4. CASE DecThread
  <2>1. UNCHANGED <<pc, msRecvThread>>
    BY <1>4 DEF DecThread, DecodeFrame, CallBack, CopyToSurface, CallBackReturns, DecoderEnd
  <2>2. \/ dec' \in {"decode", "idle", "end"}
        \/ dec' = "callback" /\ using' = msCallBackWindow
        \/ dec' = "surface" /\ using' = msWindow
    BY <1>4 DEF DecThread, DecodeFrame, CallBack, CopyToSurface, CallBackReturns, DecoderEnd
  <2> QED
    BY <1>1, <2>1, <2>2 DEF Serves
<1>5. CASE UNCHANGED allVars
  BY <1>1, <1>5 DEF Serves
<1> QED
  BY <1>2, <1>3, <1>4, <1>5

\* Every step is of one of these kinds, as long as no destructor disturbs another client; a
\* call made after the process has ended does nothing.
LEMMA Kinds ==
    ASSUME Base, IInv, [ClientNext]_allVars, ~intruder'
    PROVE  /\ ~intruder
           /\ \/ \E c \in Clients, b \in Binders \cup {0} : Targets(c, b)
              \/ \E c \in Clients, on \in BOOLEAN : Starts(c, on)
              \/ \E c \in Clients : Stops(c) \/ TargetsCallback(c) \/ Idles(c)
              \/ \E h \in Todo : CallsService(h)
              \/ pc = "exit" /\ UNCHANGED <<vars, client, history>>
              \/ Serves
<1>0. ~intruder
  <2>1. ASSUME NEW c \in Clients, Application(c) PROVE ~intruder
    BY <2>1 DEF Application, Connect, StartPreview, StopPreview, SetPreviewCallbackTarget, Disconnect,
       DisconnectEnds, Destructor, SetPreviewTarget, SetPreviewCallbackFlag
  <2>2. ASSUME NEW c \in Clients, Call(c) PROVE ~intruder
    BY <2>2, CallSteps
  <2> QED
    BY <2>1, <2>2 DEF ClientNext
<1>1. ASSUME NEW c \in Clients, Application(c)
      PROVE  \/ \E b \in Binders \cup {0} : Targets(c, b)
             \/ \E on \in BOOLEAN : Starts(c, on)
             \/ Stops(c) \/ TargetsCallback(c) \/ Idles(c)
  <2>0. Others(c)
    BY <1>1, OnlySelf
  <2>1. CASE Connect(c) \/ DisconnectEnds(c)
    BY <2>1, ConnectKind
  <2>2. CASE StartPreview(c)
    <3>1. /\ StartPreviewL(c, callbacks[c]) /\ callbacks' = callbacks /\ callbacks[c] \in BOOLEAN
          /\ UNCHANGED <<mPreviewSurface, targeted, reused, dulled>>
      BY <2>2 DEF StartPreview, Base, FlagType
    <3> QED
      BY <1>0, <2>2, <3>1, StartKind DEF Operation
  <2>3. CASE StopPreview(c)
    <3>1. Sole(c) /\ InTime(c) /\ calls[c] = <<>> /\ Alone(c)
      BY <1>0, <2>3, SoleOperation DEF Operation
    <3>2. StopPreviewL(c, "STOPPED") /\ UNCHANGED <<vars, targeted>>
      BY <2>3 DEF StopPreview
    <3> QED
      BY <2>0, <3>1, <3>2, StopKind DEF Sole, InTime
  <2>4. CASE SetPreviewCallbackTarget(c)
    BY <1>0, <2>4, CallbackTargetKind
  <2>5. CASE Disconnect(c)
    <3>1. /\ phase[c] = "open" /\ calls[c] = <<>> /\ StopPreviewL(c, "DISCONNECTED")
          /\ UNCHANGED <<vars, targeted, late>>
      BY <2>5 DEF Disconnect
    <3>2. \A b \in Clients : b # c => phase[b] # "open" /\ calls[b] = <<>>
      BY <1>0, <3>1, AloneOpen
    <3> QED
      BY <2>0, <3>1, <3>2, StopKind DEF Alone
  <2>6. CASE Destructor(c)
    <3>1. /\ phase[c] = "closed" /\ calls[c] = <<>> /\ StopPreviewL(c, "DISCONNECTED")
          /\ UNCHANGED <<vars, targeted, late>>
          /\ \A b \in Clients : b # c => phase[b] \in {"unborn", "destroyed"}
      BY <2>6 DEF Destructor
    <3>2. \A b \in Clients : b # c => calls[b] = <<>>
      BY <1>0, <3>1 DEF Base, Fresh, Solo
    <3> QED
      BY <2>0, <3>1, <3>2, StopKind DEF Alone
  <2>7. CASE \E b \in Binders \cup {0} : SetPreviewTarget(c, b)
    BY <1>0, <2>7, TargetKind
  <2>8. CASE \E on \in BOOLEAN : SetPreviewCallbackFlag(c, on)
    BY <1>0, <2>8, FlagKind
  <2> QED
    BY <1>1, <2>1, <2>2, <2>3, <2>4, <2>5, <2>6, <2>7, <2>8 DEF Application
<1>2. ASSUME NEW c \in Clients, Call(c)
      PROVE  (\E h \in Todo : CallsService(h)) \/ (pc = "exit" /\ UNCHANGED <<vars, client, history>>)
  <2>1. CASE pc # "exit"
    BY <1>0, <1>2, <2>1, CallEffects DEF CallsService
  <2>2. CASE pc = "exit"
    <3>1. UNCHANGED <<client, history>>
      BY <1>2, CallSteps
    <3>2. ~CallDestroy(c) /\ \A x : ~Makes(c, x)
      BY <2>2 DEF CallDestroy, Makes
    <3>3. CallReturns(c)
      BY <1>2, <3>2 DEF Call
    <3> QED
      BY <2>2, <3>1, <3>3 DEF CallReturns
  <2> QED
    BY <2>1, <2>2
<1>3. CASE ((Destroyer \/ RecvThread \/ DecThread) /\ UNCHANGED cvars) \/ UNCHANGED allVars
  BY <1>3, ServesKind
<1> QED
  BY <1>0, <1>1, <1>2, <1>3 DEF ClientNext

-----------------------------------------------------------------------------
(* Each of the invariants is kept.                                         *)

USE DEF vars, service, surface, rtp, decoder, bounds, NoWindow

\* What cannot be left when call h is made.
LEMMA InOrder ==
    ASSUME NEW h \in Todo, \A x \in Todo : x # h => Rank(h) < Rank(x)
    PROVE  /\ h = "destroy" => "destroying" \notin Todo
           /\ h = "destroying" => "destroy" \notin Todo
           /\ h \notin {"destroy", "destroying"} => ~Destroying
           /\ h \in {"releaseCallBack", "setSurface", "setCallBack", "create"} => "releaseSurface" \notin Todo
           /\ h \in {"setSurface", "setCallBack", "create"} => "releaseCallBack" \notin Todo
           /\ h \in {"setCallBack", "create"} => "setSurface" \notin Todo
           /\ h = "create" => "setCallBack" \notin Todo
<1>1. /\ Rank("destroy") = 1 /\ Rank("destroying") = 1 /\ Rank("releaseSurface") = 2
      /\ Rank("releaseCallBack") = 3 /\ Rank("setSurface") = 4 /\ Rank("setCallBack") = 5
      /\ Rank("create") = 6
  BY DEF Rank
<1>2. h \in Names
  BY DEF Todo
<1>3. CASE h = "destroy"
  BY <1>1, <1>3
<1>4. CASE h = "destroying"
  BY <1>1, <1>4
<1>5. CASE h = "releaseSurface"
  BY <1>1, <1>5 DEF Destroying
<1>6. CASE h = "releaseCallBack"
  BY <1>1, <1>6 DEF Destroying
<1>7. CASE h = "setSurface"
  BY <1>1, <1>7 DEF Destroying
<1>8. CASE h = "setCallBack"
  BY <1>1, <1>8 DEF Destroying
<1>9. CASE h = "create"
  BY <1>1, <1>9 DEF Destroying
<1> QED
  BY <1>2, <1>3, <1>4, <1>5, <1>6, <1>7, <1>8, <1>9 DEF Names

\* The inductive invariant of the clients and the service they share.
ClientInv == Base /\ IInv /\ DestroyFirst /\ RunForecast /\ ShowForecast /\ CallForecast /\ Windowed /\ Aimed

LEMMA NextDestroyFirst == ClientInv /\ [ClientNext]_allVars => DestroyFirst'
<1> SUFFICES ASSUME ClientInv, [ClientNext]_allVars, ~intruder', pc' # "exit" PROVE DestroyFirst'
  BY DEF DestroyFirst, Quiet
<1>0. Base /\ IInv /\ DestroyFirst /\ CallForecast /\ ~intruder
  BY Kinds DEF ClientInv
<1>1. ASSUME NEW c \in Clients, Sole(c), pc' # "exit",
             "destroying" \notin Todo',
             "releaseSurface" \in Todo' \/ "setSurface" \in Todo' => "destroy" \in Todo',
             ~late' /\ ~targeted' /\ ("releaseCallBack" \in Todo' \/ "setCallBack" \in Todo')
                => "destroy" \in Todo' \/ msCallBackWindow = 0
      PROVE  DestroyFirst'
  <2>1. pc = "free" /\ UNCHANGED <<pc, msRecvThread, msCallBackWindow>>
    BY <1>0, <1>1 DEF Sole, DestroyFirst, Quiet
  <2> QED
    BY <1>1, <2>1 DEF DestroyFirst, Destroying
<1>2. ASSUME NEW c \in Clients, NEW b \in Binders \cup {0}, Targets(c, b) PROVE DestroyFirst'
  <2>1. Sole(c) /\ "destroy" \in Todo' /\ "destroying" \notin Todo'
    BY <1>2 DEF Targets
  <2> QED
    BY <1>1, <2>1
<1>3. ASSUME NEW c \in Clients, NEW on \in BOOLEAN, Starts(c, on) PROVE DestroyFirst'
  <2>1. Sole(c) /\ "destroying" \notin Todo' /\ "releaseSurface" \notin Todo' /\ "setSurface" \notin Todo'
    BY <1>3 DEF Starts
  <2>2. ASSUME ~late', ~targeted', "releaseCallBack" \in Todo' \/ "setCallBack" \in Todo'
        PROVE  msCallBackWindow = 0
    <3>1. ~mCallbackWindow[c] /\ ~late /\ ~targeted /\ Todo = {}
      BY <1>3, <2>2 DEF Starts, InTime, Sole
    <3>2. \A b \in Clients : ~(phase[b] = "open" /\ mCallbackWindow[b])
      BY <2>1, <3>1 DEF Sole
    <3>3. pc # "exit"
      BY <2>1 DEF Sole
    <3>4. ~WillCall
      BY <1>0, <3>1, <3>2, <3>3 DEF CallForecast, Quiet
    <3> QED
      BY <3>1, <3>4 DEF WillCall
  <2> QED
    BY <1>1, <2>1, <2>2
<1>4. ASSUME NEW c \in Clients, Stops(c) PROVE DestroyFirst'
  <2>1. Sole(c) /\ "destroy" \in Todo' /\ "destroying" \notin Todo'
    BY <1>4 DEF Stops
  <2> QED
    BY <1>1, <2>1
<1>5. ASSUME NEW c \in Clients, TargetsCallback(c) PROVE DestroyFirst'
  <2>1. /\ Sole(c) /\ "destroying" \notin Todo' /\ "releaseSurface" \notin Todo' /\ "setSurface" \notin Todo'
        /\ targeted'
    BY <1>5 DEF TargetsCallback
  <2> QED
    BY <1>1, <2>1
<1>6. ASSUME NEW c \in Clients, Idles(c) PROVE DestroyFirst'
  BY <1>0, <1>6 DEF Idles, DestroyFirst, Quiet, Destroying
<1>7. ASSUME NEW h \in Todo, CallsService(h) PROVE DestroyFirst'
  <2>1. pc = "free" /\ UNCHANGED <<late, targeted>> /\ Effect(h)
    BY <1>7 DEF CallsService
  <2>2. /\ "destroying" \in Todo => ~msRecvThread
        /\ ~Destroying /\ ("releaseSurface" \in Todo \/ "setSurface" \in Todo) => ~msRecvThread
        /\ ~late /\ ~targeted /\ ~Destroying /\ ("releaseCallBack" \in Todo \/ "setCallBack" \in Todo)
              => ~msRecvThread \/ msCallBackWindow = 0
    BY <1>0, <2>1 DEF DestroyFirst, Quiet
  <2>3. /\ h = "destroy" => "destroying" \notin Todo
        /\ h \notin {"destroy", "destroying"} => ~Destroying
        /\ h \in {"releaseCallBack", "setSurface", "setCallBack", "create"} => "releaseSurface" \notin Todo
        /\ h \in {"setSurface", "setCallBack", "create"} => "releaseCallBack" \notin Todo
        /\ h \in {"setCallBack", "create"} => "setSurface" \notin Todo
        /\ h = "create" => "setCallBack" \notin Todo
    BY <1>7, InOrder DEF CallsService
  <2>4. CASE h = "destroy" /\ pc' = "bye" /\ Todo' = (Todo \ {h}) \cup {"destroying"}
    BY <2>4 DEF DestroyFirst, Destroying
  <2>5. CASE h \in {"destroy", "destroying"} /\ Leaves(h) /\ ~msRecvThread'
    BY <2>3, <2>5 DEF DestroyFirst, Leaves
  <2>6. CASE h = "releaseSurface" /\ Leaves(h) /\ UNCHANGED msRecvThread
    BY <2>2, <2>3, <2>6 DEF DestroyFirst, Leaves, Destroying
  <2>7. CASE h = "releaseCallBack" /\ Leaves(h) /\ UNCHANGED msRecvThread /\ msCallBackWindow' = 0
    BY <2>2, <2>3, <2>7 DEF DestroyFirst, Leaves, Destroying
  <2>8. CASE h = "setSurface" /\ Leaves(h) /\ UNCHANGED msRecvThread
    BY <2>2, <2>3, <2>8 DEF DestroyFirst, Leaves, Destroying
  <2>9. CASE h \in {"setCallBack", "create"} /\ Leaves(h)
    BY <2>2, <2>3, <2>9 DEF DestroyFirst, Leaves, Destroying
  <2>10. h = "destroying" => ~msRecvThread
    BY <2>2
  <2> QED
    BY <2>1, <2>4, <2>5, <2>6, <2>7, <2>8, <2>9, <2>10 DEF Effect
<1>8. CASE Serves
  <2>1. UNCHANGED <<late, targeted, msCallBackWindow>> /\ Todo' = Todo
    BY <1>8 DEF Serves
  <2>2. CASE UNCHANGED <<pc, msRecvThread>>
    BY <1>0, <2>1, <2>2 DEF DestroyFirst, Quiet, Destroying
  <2>3. CASE pc = "join" /\ pc' = "free" /\ ~msRecvThread'
    BY <2>1, <2>3 DEF DestroyFirst
  <2>4. CASE pc \notin {"free", "exit"} /\ pc' \notin {"free", "exit"}
    BY <1>0, <2>1, <2>4 DEF DestroyFirst, Quiet, Destroying
  <2> QED
    BY <1>8, <2>2, <2>3, <2>4 DEF Serves
<1>9. CASE pc = "exit" /\ UNCHANGED <<vars, client, history>>
  BY <1>9
<1> QED
  BY <1>0, <1>2, <1>3, <1>4, <1>5, <1>6, <1>7, <1>8, <1>9, Kinds

LEMMA NextRunForecast == ClientInv /\ [ClientNext]_allVars => RunForecast'
<1> SUFFICES ASSUME ClientInv, [ClientNext]_allVars, ~intruder', pc' # "exit", ~late' PROVE RunForecast'
  BY DEF RunForecast, Quiet
<1>0. Base /\ IInv /\ DestroyFirst /\ RunForecast /\ ~intruder
  BY Kinds DEF ClientInv
<1>1. ASSUME NEW c \in Clients, NEW b \in Binders \cup {0}, Targets(c, b) PROVE RunForecast'
  <2>1. /\ phase'[c] = "open" /\ state'[c] = state[c] /\ mPreviewSurface'[c] = b
        /\ \A d \in Clients : d # c => phase'[d] # "open"
    BY <1>1 DEF Targets, Sole, InTime
  <2>2. "create" \in Todo' <=> (b # 0 /\ state[c] = "PREVIEW")
    BY <1>1 DEF Targets
  <2>3. Destroying'
    BY <1>1 DEF Targets, Destroying
  <2> QED
    BY <2>1, <2>2, <2>3 DEF RunForecast, WillRun, Previewing
<1>2. ASSUME NEW c \in Clients, NEW on \in BOOLEAN, Starts(c, on) PROVE RunForecast'
  <2>1. phase'[c] = "open" /\ state'[c] = "PREVIEW" /\ "create" \in Todo'
    BY <1>2 DEF Starts, Sole, InTime
  <2> QED
    BY <2>1 DEF RunForecast, WillRun, Previewing
<1>3. ASSUME NEW c \in Clients, Stops(c) PROVE RunForecast'
  <2>1. Destroying' /\ "create" \notin Todo'
    BY <1>3 DEF Stops, Destroying
  <2>2. \A d \in Clients : ~Previewing(d)'
    BY <1>3 DEF Stops, Sole, Previewing
  <2> QED
    BY <2>1, <2>2 DEF RunForecast, WillRun
<1>4. ASSUME NEW c \in Clients, TargetsCallback(c) PROVE RunForecast'
  <2>1. WillRun' = WillRun
    BY <1>4 DEF TargetsCallback, Sole, WillRun, Destroying
  <2>2. UNCHANGED <<phase, state, mPreviewSurface, pc>> /\ ~late
    BY <1>4 DEF TargetsCallback, Sole, InTime
  <2> QED
    BY <1>0, <2>1, <2>2 DEF RunForecast, Quiet, Previewing
<1>5. ASSUME NEW c \in Clients, Idles(c) PROVE RunForecast'
  <2>1. WillRun' = WillRun
    BY <1>5 DEF Idles, WillRun, Destroying
  <2>2. UNCHANGED <<state, mPreviewSurface, pc>> /\ ~late
    BY <1>5 DEF Idles
  <2>3. \A d \in Clients : Previewing(d)' <=> Previewing(d)
    BY <1>5 DEF Idles, Previewing, Others
  <2> QED
    BY <1>0, <2>1, <2>2, <2>3 DEF RunForecast, Quiet
<1>6. ASSUME UNCHANGED <<phase, state, mPreviewSurface, late>>, WillRun' <=> WillRun, pc # "exit"
      PROVE  RunForecast'
  BY <1>0, <1>6 DEF RunForecast, Quiet, Previewing
<1>7. ASSUME NEW h \in Todo, CallsService(h) PROVE RunForecast'
  <2>1. pc = "free" /\ UNCHANGED <<phase, state, mPreviewSurface, late>> /\ Effect(h)
    BY <1>7 DEF CallsService
  <2>2. "destroying" \in Todo => ~msRecvThread
    BY <1>0, <2>1 DEF DestroyFirst, Quiet
  <2>3. h = "create" => ~Destroying
    BY <1>7, InOrder DEF CallsService
  <2>4. CASE h = "destroy" /\ Todo' = (Todo \ {h}) \cup {"destroying"} /\ UNCHANGED msRecvThread
    BY <1>6, <2>1, <2>4 DEF WillRun, Destroying
  <2>5. CASE h \in {"destroy", "destroying"} /\ Leaves(h) /\ ~msRecvThread /\ ~msRecvThread'
    BY <1>6, <2>1, <2>5 DEF WillRun, Leaves
  <2>6. CASE h \notin {"destroy", "destroying", "create"} /\ Leaves(h) /\ UNCHANGED msRecvThread
    BY <1>6, <2>1, <2>6 DEF WillRun, Leaves, Destroying
  <2>7. CASE h = "create" /\ Leaves(h) /\ msRecvThread'
    BY <1>6, <2>1, <2>3, <2>7 DEF WillRun, Leaves, Destroying
  <2> QED
    BY <2>1, <2>2, <2>4, <2>5, <2>6, <2>7 DEF Effect
<1>8. CASE Serves
  <2>1. UNCHANGED <<phase, state, mPreviewSurface, late>> /\ Todo' = Todo
    BY <1>8 DEF Serves
  <2>2. CASE UNCHANGED <<pc, msRecvThread>>
    BY <1>6, <2>1, <2>2 DEF WillRun, Destroying
  <2>3. CASE pc = "join" /\ ~msRecvThread'
    <3>1. "destroying" \in Todo
      BY <1>0, <2>3 DEF DestroyFirst, Quiet
    <3> QED
      BY <1>6, <2>1, <2>3, <3>1 DEF WillRun, Destroying
  <2>4. CASE pc \notin {"free", "exit"} /\ UNCHANGED msRecvThread
    BY <1>6, <2>1, <2>4 DEF WillRun, Destroying
  <2> QED
    BY <1>8, <2>2, <2>3, <2>4 DEF Serves
<1>9. CASE pc = "exit" /\ UNCHANGED <<vars, client, history>>
  BY <1>9
<1> QED
  BY <1>0, <1>1, <1>2, <1>3, <1>4, <1>5, <1>7, <1>8, <1>9, Kinds

LEMMA NextShowForecast == ClientInv /\ [ClientNext]_allVars => ShowForecast'
<1> SUFFICES ASSUME ClientInv, [ClientNext]_allVars, ~intruder', pc' # "exit", ~late' PROVE ShowForecast'
  BY DEF ShowForecast, Quiet
<1>0. Base /\ IInv /\ ShowForecast /\ ~intruder
  BY Kinds DEF ClientInv
<1>1. ASSUME NEW c \in Clients, NEW b \in Binders \cup {0}, Targets(c, b) PROVE ShowForecast'
  <2>1. mPreviewSurface'[c] = b /\ \A d \in Clients : d # c => phase'[d] # "open"
    BY <1>1 DEF Targets, Sole
  <2>2. b # 0 => "setSurface" \in Todo'
    BY <1>1 DEF Targets
  <2> QED
    BY <2>1, <2>2 DEF ShowForecast, WillShow
<1>2. ASSUME NEW c \in Clients, Stops(c) PROVE ShowForecast'
  BY <1>2 DEF Stops, Sole, ShowForecast
<1>3. ASSUME UNCHANGED <<phase, mPreviewSurface, reused>>, ~late, pc # "exit", WillShow => WillShow'
      PROVE  ShowForecast'
  BY <1>0, <1>3 DEF ShowForecast, Quiet
<1>4. ASSUME NEW c \in Clients, NEW on \in BOOLEAN, Starts(c, on) PROVE ShowForecast'
  <2>1. UNCHANGED <<phase, mPreviewSurface, reused, pc>> /\ ~late
    BY <1>4 DEF Starts, Sole, InTime
  <2>2. WillShow => WillShow'
    BY <1>4 DEF Starts, Sole, WillShow
  <2> QED
    BY <1>3, <2>1, <2>2
<1>5. ASSUME NEW c \in Clients, TargetsCallback(c) PROVE ShowForecast'
  <2>1. UNCHANGED <<phase, mPreviewSurface, reused, pc>> /\ ~late
    BY <1>5 DEF TargetsCallback, Sole, InTime
  <2>2. WillShow => WillShow'
    BY <1>5 DEF TargetsCallback, Sole, WillShow
  <2> QED
    BY <1>3, <2>1, <2>2
<1>6. ASSUME NEW c \in Clients, Idles(c) PROVE ShowForecast'
  <2>1. WillShow' <=> WillShow
    BY <1>6 DEF Idles, WillShow
  <2>2. \A d \in Clients : phase'[d] = "open" => phase[d] = "open" \/ mPreviewSurface[d] = 0
    BY <1>6 DEF Idles, Others
  <2>3. UNCHANGED <<mPreviewSurface, reused, pc>> /\ ~late
    BY <1>6 DEF Idles
  <2> QED
    BY <1>0, <2>1, <2>2, <2>3 DEF ShowForecast, Quiet
<1>7. ASSUME NEW h \in Todo, CallsService(h) PROVE ShowForecast'
  <2>1. pc = "free" /\ UNCHANGED <<phase, mPreviewSurface, reused, late>> /\ Effect(h)
    BY <1>7 DEF CallsService
  <2>2. h = "setSurface" => "releaseSurface" \notin Todo
    BY <1>7, InOrder DEF CallsService
  <2>3. CASE h = "destroy" /\ Todo' = (Todo \ {h}) \cup {"destroying"} /\ UNCHANGED msWindow
    BY <1>3, <2>1, <2>3 DEF WillShow
  <2>4. CASE h \notin {"releaseSurface", "setSurface"} /\ Leaves(h) /\ UNCHANGED msWindow
    BY <1>3, <2>1, <2>4 DEF WillShow, Leaves
  <2>5. CASE h = "releaseSurface" /\ Leaves(h)
    BY <1>3, <2>1, <2>5 DEF WillShow, Leaves
  <2>6. CASE h = "setSurface" /\ Leaves(h) /\ msWindow' # 0
    BY <1>3, <2>1, <2>2, <2>6 DEF WillShow, Leaves
  <2> QED
    BY <2>1, <2>3, <2>4, <2>5, <2>6 DEF Effect
<1>8. CASE Serves
  <2>1. UNCHANGED <<phase, mPreviewSurface, reused, late, msWindow>> /\ Todo' = Todo /\ pc # "exit"
    BY <1>8 DEF Serves
  <2> QED
    BY <1>3, <2>1 DEF WillShow
<1>9. CASE pc = "exit" /\ UNCHANGED <<vars, client, history>>
  BY <1>9
<1> QED
  BY <1>0, <1>1, <1>2, <1>4, <1>5, <1>6, <1>7, <1>8, <1>9, Kinds

LEMMA NextCallForecast == ClientInv /\ [ClientNext]_allVars => CallForecast'
<1> SUFFICES ASSUME ClientInv, [ClientNext]_allVars, ~intruder', pc' # "exit", ~late', ~targeted'
             PROVE  CallForecast'
  BY DEF CallForecast, Quiet
<1>0. Base /\ IInv /\ CallForecast /\ ~intruder
  BY Kinds DEF ClientInv
<1>1. ASSUME NEW c \in Clients, NEW b \in Binders \cup {0}, Targets(c, b) PROVE CallForecast'
  <2>1. phase'[c] = "open" /\ \A d \in Clients : d # c => phase'[d] # "open"
    BY <1>1 DEF Targets, Sole, InTime
  <2>2. "releaseCallBack" \in Todo'
    BY <1>1 DEF Targets
  <2>3. "setCallBack" \in Todo' <=> ((b # 0 /\ state[c] = "PREVIEW") /\ callbacks[c])
    BY <1>1 DEF Targets
  <2>4. /\ "setCallBack" \in Todo' => mCallbackWindow'[c]
        /\ mCallbackWindow'[c] => dulled'[c] \/ "setCallBack" \in Todo'
    BY <1>1, <2>3 DEF Targets
  <2> QED
    BY <2>1, <2>2, <2>4 DEF CallForecast, WillCall
<1>2. ASSUME NEW c \in Clients, Stops(c) PROVE CallForecast'
  <2>1. ~WillCall'
    BY <1>2 DEF Stops, WillCall
  <2>2. \A d \in Clients : phase'[d] = "open" /\ mCallbackWindow'[d] => dulled'[d]
    BY <1>2 DEF Stops, Sole
  <2> QED
    BY <2>1, <2>2 DEF CallForecast
<1>3. ASSUME UNCHANGED <<phase, mCallbackWindow, dulled>>, ~late, ~targeted, pc # "exit", WillCall <=> WillCall'
      PROVE  CallForecast'
  BY <1>0, <1>3 DEF CallForecast, Quiet
<1>4. ASSUME NEW c \in Clients, NEW on \in BOOLEAN, Starts(c, on) PROVE CallForecast'
  <2>1. /\ UNCHANGED <<phase, dulled, pc, msCallBackWindow>> /\ ~late /\ ~targeted /\ phase[c] = "open"
        /\ Todo = {}
        /\ \A d \in Clients : d # c => phase[d] # "open"
    BY <1>4 DEF Starts, Sole, InTime
  <2>2. CASE on /\ ~mCallbackWindow[c]
    <3>1. "setCallBack" \in Todo' /\ mCallbackWindow'[c]
      BY <1>4, <2>2 DEF Starts
    <3> QED
      BY <2>1, <3>1 DEF CallForecast, WillCall
  <2>3. CASE ~(on /\ ~mCallbackWindow[c])
    <3>1. "setCallBack" \notin Todo' /\ "releaseCallBack" \notin Todo'
      BY <1>4, <2>3 DEF Starts
    <3>2. mCallbackWindow'[c] <=> mCallbackWindow[c]
      BY <1>4, <2>3 DEF Starts
    <3>3. WillCall' <=> WillCall
      BY <2>1, <3>1 DEF WillCall
    <3> QED
      BY <1>0, <2>1, <3>2, <3>3 DEF CallForecast, Quiet
  <2> QED
    BY <2>2, <2>3
<1>5. ASSUME NEW c \in Clients, TargetsCallback(c) PROVE CallForecast'
  BY <1>5 DEF TargetsCallback
<1>6. ASSUME NEW c \in Clients, Idles(c) PROVE CallForecast'
  <2>1. WillCall' <=> WillCall
    BY <1>6 DEF Idles, WillCall
  <2>2. \A d \in Clients : mCallbackWindow[d] => (phase'[d] = "open" <=> phase[d] = "open")
    BY <1>6 DEF Idles, Others
  <2>3. UNCHANGED <<mCallbackWindow, dulled, pc>> /\ ~late /\ ~targeted
    BY <1>6 DEF Idles
  <2> QED
    BY <1>0, <2>1, <2>2, <2>3 DEF CallForecast, Quiet
<1>7. ASSUME NEW h \in Todo, CallsService(h) PROVE CallForecast'
  <2>1. pc = "free" /\ UNCHANGED <<phase, mCallbackWindow, dulled, late, targeted>> /\ Effect(h)
    BY <1>7 DEF CallsService
  <2>2. h = "setCallBack" => "releaseCallBack" \notin Todo
    BY <1>7, InOrder DEF CallsService
  <2>3. CASE h = "destroy" /\ Todo' = (Todo \ {h}) \cup {"destroying"} /\ UNCHANGED msCallBackWindow
    BY <1>3, <2>1, <2>3 DEF WillCall
  <2>4. CASE h \notin {"releaseCallBack", "setCallBack"} /\ Leaves(h) /\ UNCHANGED msCallBackWindow
    BY <1>3, <2>1, <2>4 DEF WillCall, Leaves
  <2>5. CASE h = "releaseCallBack" /\ Leaves(h) /\ msCallBackWindow' = 0
    BY <1>3, <2>1, <2>5 DEF WillCall, Leaves
  <2>6. CASE h = "setCallBack" /\ Leaves(h) /\ msCallBackWindow' # 0
    BY <1>3, <2>1, <2>2, <2>6 DEF WillCall, Leaves
  <2> QED
    BY <2>1, <2>3, <2>4, <2>5, <2>6 DEF Effect
<1>8. CASE Serves
  <2>1. /\ UNCHANGED <<phase, mCallbackWindow, dulled, late, targeted, msCallBackWindow>> /\ Todo' = Todo
        /\ pc # "exit"
    BY <1>8 DEF Serves
  <2> QED
    BY <1>3, <2>1 DEF WillCall
<1>9. CASE pc = "exit" /\ UNCHANGED <<vars, client, history>>
  BY <1>9
<1> QED
  BY <1>0, <1>1, <1>2, <1>4, <1>5, <1>6, <1>7, <1>8, <1>9, Kinds

LEMMA NextWindowed == ClientInv /\ [ClientNext]_allVars => Windowed'
<1> SUFFICES ASSUME ClientInv, [ClientNext]_allVars PROVE Windowed'
  OBVIOUS
<1>0. Base /\ Windowed
  BY DEF ClientInv
<1>1. ASSUME NEW c \in Clients, Application(c) PROVE Windowed'
  <2>0. \A b \in Clients : b # c => (state'[b] = "PREVIEW" /\ callbacks'[b] => mCallbackWindow'[b])
    BY <1>0, <1>1, OnlySelf DEF Others, Windowed
  <2> SUFFICES state'[c] = "PREVIEW" /\ callbacks'[c] => mCallbackWindow'[c]
    BY <2>0 DEF Windowed
  <2>1. CASE UNCHANGED <<state, callbacks, mCallbackWindow>>
    BY <1>0, <2>1 DEF Windowed
  <2>2. ASSUME NEW on \in BOOLEAN, StartPreviewL(c, on), callbacks'[c] = on PROVE mCallbackWindow'[c] \/ ~on
    BY <1>0, <2>2 DEF StartPreviewL, Base, FlagType
  <2>3. CASE StartPreview(c)
    <3>1. callbacks[c] \in BOOLEAN /\ StartPreviewL(c, callbacks[c]) /\ callbacks'[c] = callbacks[c]
      BY <1>0, <2>3 DEF StartPreview, Base, FlagType
    <3> QED
      BY <2>2, <3>1
  <2>4. ASSUME NEW s, s # "PREVIEW", StopPreviewL(c, s) PROVE state'[c] # "PREVIEW"
    BY <1>0, <2>4 DEF StopPreviewL, Base, PhaseType
  <2>5. CASE StopPreview(c) \/ Disconnect(c) \/ Destructor(c)
    BY <2>4, <2>5 DEF StopPreview, Disconnect, Destructor
  <2>6. CASE Connect(c) \/ DisconnectEnds(c) \/ SetPreviewCallbackTarget(c)
    BY <2>1, <2>6 DEF Connect, DisconnectEnds, SetPreviewCallbackTarget
  <2>7. ASSUME NEW b \in Binders \cup {0}, SetPreviewTarget(c, b)
        PROVE  UNCHANGED <<state, callbacks>> /\ (mCallbackWindow[c] => mCallbackWindow'[c])
    BY <1>0, <2>7 DEF SetPreviewTarget, Base, FlagType
  <2>8. ASSUME NEW on \in BOOLEAN, SetPreviewCallbackFlag(c, on)
        PROVE  state'[c] # "PREVIEW" \/ mCallbackWindow'[c] \/ ~callbacks'[c]
    <3>1. callbacks'[c] = on
      BY <1>0, <2>8 DEF SetPreviewCallbackFlag, Base, FlagType
    <3>2. StartPreviewL(c, on) \/ (state[c] # "PREVIEW" /\ UNCHANGED state)
      BY <2>8 DEF SetPreviewCallbackFlag
    <3> QED
      BY <2>2, <3>1, <3>2
  <2> QED
    BY <1>0, <1>1, <2>3, <2>5, <2>6, <2>7, <2>8 DEF Application, Windowed
<1>2. ASSUME UNCHANGED <<state, callbacks, mCallbackWindow>> PROVE Windowed'
  BY <1>0, <1>2 DEF Windowed
<1>3. ASSUME NEW c \in Clients, Call(c) PROVE Windowed'
  BY <1>0, <1>2, <1>3, CallSteps
<1> QED
  BY <1>1, <1>2, <1>3 DEF ClientNext

\* A surface is exchanged only when nobody can be writing to it.
LEMMA NextAimed == ClientInv /\ [ClientNext]_allVars => Aimed'
<1> SUFFICES ASSUME ClientInv, [ClientNext]_allVars, ~intruder' PROVE Aimed'
  BY DEF Aimed
<1>0. Base /\ IInv /\ DestroyFirst /\ Aimed /\ ~intruder
  BY Kinds DEF ClientInv
<1>1. ASSUME UNCHANGED <<dec, using, msWindow, msCallBackWindow>>,
             ~late' => ~late, ~targeted' => ~targeted
      PROVE  Aimed'
  BY <1>0, <1>1 DEF Aimed
<1>2. ASSUME NEW c \in Clients, Sole(c), ~late' => ~late, ~targeted' => ~targeted PROVE Aimed'
  BY <1>1, <1>2 DEF Sole
<1>3. ASSUME NEW c \in Clients, NEW b \in Binders \cup {0}, Targets(c, b) PROVE Aimed'
  BY <1>2, <1>3 DEF Targets, InTime
<1>4. ASSUME NEW c \in Clients, NEW on \in BOOLEAN, Starts(c, on) PROVE Aimed'
  BY <1>2, <1>4 DEF Starts, InTime
<1>5. ASSUME NEW c \in Clients, Stops(c) PROVE Aimed'
  BY <1>2, <1>5 DEF Stops
<1>6. ASSUME NEW c \in Clients, TargetsCallback(c) PROVE Aimed'
  BY <1>2, <1>6 DEF TargetsCallback, InTime
<1>7. ASSUME NEW c \in Clients, Idles(c) PROVE Aimed'
  BY <1>1, <1>7 DEF Idles
<1>8. ASSUME NEW h \in Todo, CallsService(h) PROVE Aimed'
  <2>1. pc = "free" /\ UNCHANGED <<late, targeted, dec, using>> /\ Effect(h)
    BY <1>8 DEF CallsService
  <2>2. ~msRecvThread => using = 0
    BY <1>0 DEF IInv, Nesting
  <2>3. CASE using = 0
    BY <2>1, <2>3 DEF Aimed
  <2>4. CASE using # 0
    <3>1. /\ h \in {"releaseSurface", "setSurface"} => FALSE
          /\ h \in {"releaseCallBack", "setCallBack"} /\ ~late /\ ~targeted => msCallBackWindow = 0
      <4>1. h \notin {"destroy", "destroying"} => ~Destroying
        BY <1>8, InOrder DEF CallsService
      <4> QED
        BY <1>0, <1>8, <2>1, <2>2, <2>4, <4>1 DEF DestroyFirst, Quiet
    <3>2. UNCHANGED msWindow
      BY <2>1, <3>1 DEF Effect
    <3>3. h \in {"releaseCallBack", "setCallBack"} \/ UNCHANGED msCallBackWindow
      BY <2>1 DEF Effect
    <3>4. CASE UNCHANGED msCallBackWindow
      BY <1>1, <2>1, <3>2, <3>4
    <3>5. CASE h \in {"releaseCallBack", "setCallBack"}
      <4>1. dec = "callback" /\ ~targeted /\ ~late => FALSE
        BY <1>0, <2>4, <3>1, <3>5 DEF Aimed
      <4> QED
        BY <1>0, <2>1, <3>2, <4>1 DEF Aimed
    <3> QED
      BY <3>3, <3>4, <3>5
  <2> QED
    BY <2>3, <2>4
<1>9. CASE Serves
  <2>1. UNCHANGED <<late, targeted, msWindow, msCallBackWindow>>
    BY <1>9 DEF Serves
  <2>2. CASE UNCHANGED <<dec, using>>
    BY <1>1, <2>1, <2>2
  <2>3. CASE dec' \notin {"callback", "surface"}
    BY <2>3 DEF Aimed
  <2>4. CASE dec' = "callback" /\ using' = msCallBackWindow
    BY <2>1, <2>4 DEF Aimed
  <2>5. CASE dec' = "surface" /\ using' = msWindow
    BY <2>1, <2>5 DEF Aimed
  <2> QED
    BY <1>9, <2>2, <2>3, <2>4, <2>5 DEF Serves
<1>10. CASE pc = "exit" /\ UNCHANGED <<vars, client, history>>
  BY <1>1, <1>10
<1> QED
  BY <1>0, <1>3, <1>4, <1>5, <1>6, <1>7, <1>8, <1>9, <1>10, Kinds

-----------------------------------------------------------------------------
(* The theorems.                                                           *)

LEMMA InitClientInv == ClientInit => ClientInv
<1> SUFFICES ASSUME ClientInit PROVE ClientInv
  OBVIOUS
<1>1. Base /\ IInv
  BY InitBase, InitIInv DEF ClientInit
<1>2. Todo = {}
  BY RestEmpty DEF ClientInit, Todo
<1>3. /\ pc = "free" /\ ~msRecvThread /\ msWindow = 0 /\ msCallBackWindow = 0 /\ dec = "none"
      /\ \A c \in Clients : phase[c] = "unborn" /\ state[c] = "STOPPED"
  BY DEF ClientInit, Init
<1>4. DestroyFirst
  BY <1>2, <1>3 DEF DestroyFirst
<1>5. RunForecast /\ ShowForecast /\ CallForecast
  BY <1>2, <1>3 DEF RunForecast, ShowForecast, CallForecast, WillRun, WillShow, WillCall, Previewing
<1>6. Windowed /\ Aimed
  BY <1>3 DEF Windowed, Aimed
<1> QED
  BY <1>1, <1>4, <1>5, <1>6 DEF ClientInv

\* The invariant of the clients and the service together.
LEMMA ClientInvariance == ClientSpec => []ClientInv
<1>1. ClientInit => ClientInv
  BY InitClientInv
<1>2. ClientInv /\ [ClientNext]_allVars => ClientInv'
  <2> SUFFICES ASSUME ClientInv, [ClientNext]_allVars PROVE ClientInv'
    OBVIOUS
  <2>1. Base'
    BY NextBase DEF ClientInv
  <2>2. IInv'
    <3>1. IInv /\ [Next]_vars
      BY ServiceStep DEF ClientInv
    <3> QED
      BY <3>1, NextTypeOK, NextNesting, NextHeld, NextReleaseAfterDestroy DEF IInv
  <2> QED
    BY <2>1, <2>2, NextDestroyFirst, NextRunForecast, NextShowForecast, NextCallForecast, NextWindowed,
       NextAimed DEF ClientInv
<1> QED
  BY <1>1, <1>2, PTL DEF ClientSpec

(* However the operations of the clients, the receive thread and the decode thread         *)
(* interleave, the decode thread, which takes no lock in sDecoder_cb, never writes to a     *)
(* preview surface that was released, nor to a callback surface, but for the three cases    *)
(* SurfaceSafe names.                                                                       *)
THEOREM NeverWritesToReleased == ClientSpec => []SurfaceSafe
<1>1. ClientInv => SurfaceSafe
  <2> SUFFICES ASSUME ClientInv, ~intruder, using # 0
               PROVE  /\ dec = "surface" => freed[using] = "no"
                      /\ dec = "callback" /\ ~targeted /\ ~late => freed[using] = "no"
    BY DEF SurfaceSafe
  <2>1. /\ msWindow # 0 => freed[msWindow] = "no"
        /\ msCallBackWindow # 0 => freed[msCallBackWindow] = "no"
    BY DEF ClientInv, IInv, Held
  <2> QED
    BY <2>1 DEF ClientInv, Aimed
<1> QED
  BY <1>1, ClientInvariance, PTL

\* Between operations there is nothing left to call.
LEMMA SettledTodo == Settled => Todo = {} /\ Quiet /\ ~late
<1>1. ASSUME \A c \in Clients : calls[c] = <<>> PROVE Todo = {}
  BY <1>1, RestEmpty DEF Todo
<1> QED
  BY <1>1 DEF Settled, Quiet

(* Between operations a session exists exactly when a client is in PREVIEW, for any number  *)
(* of clients and operations: no order of stop, disconnect, new surface and new callback    *)
(* flags leaves a session behind or loses one.                                              *)
THEOREM NoSessionLeftOrLost == ClientSpec => []SessionMatchesState
<1>1. ClientInv => SessionMatchesState
  <2> SUFFICES ASSUME ClientInv, Settled
               PROVE  /\ msRecvThread => \E c \in Clients : Previewing(c)
                      /\ \A c \in Clients : Previewing(c) /\ mPreviewSurface[c] # 0 => msRecvThread
    BY DEF SessionMatchesState
  <2>1. Todo = {} /\ Quiet /\ ~late
    BY SettledTodo
  <2>2. WillRun <=> msRecvThread
    BY <2>1 DEF WillRun, Destroying
  <2> QED
    BY <2>1, <2>2 DEF ClientInv, RunForecast
<1> QED
  BY <1>1, ClientInvariance, PTL

(* In PREVIEW the service has the surfaces that the application asked for, but for those    *)
(* that stopPreview released and nothing sets again.                                        *)
THEOREM SurfacesServed == ClientSpec => []PreviewServed
<1>1. ClientInv => PreviewServed
  <2> SUFFICES ASSUME ClientInv, NEW c \in Clients, Settled, Previewing(c)
               PROVE  /\ mPreviewSurface[c] # 0 /\ ~reused[c] => msWindow # 0
                      /\ callbacks[c] /\ ~dulled[c] /\ ~targeted => msCallBackWindow # 0
    BY DEF PreviewServed
  <2>1. Todo = {} /\ Quiet /\ ~late
    BY SettledTodo
  <2>2. (WillShow => msWindow # 0) /\ (WillCall => msCallBackWindow # 0)
    BY <2>1 DEF WillShow, WillCall
  <2>3. phase[c] = "open" /\ (callbacks[c] => mCallbackWindow[c])
    BY DEF Previewing, ClientInv, Windowed
  <2>4. mPreviewSurface[c] # 0 /\ ~reused[c] => WillShow
    BY <2>1, <2>3 DEF ClientInv, ShowForecast
  <2>5. callbacks[c] /\ ~dulled[c] /\ ~targeted => WillCall
    BY <2>1, <2>3 DEF ClientInv, CallForecast
  <2> QED
    BY <2>2, <2>4, <2>5
<1> QED
  BY <1>1, ClientInvariance, PTL
=============================================================================
