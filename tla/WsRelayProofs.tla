--------------------------- MODULE WsRelayProofs ---------------------------
(***************************************************************************)
(* Proofs about the WebSocket relay: the loops deliver a prefix of what    *)
(* each peer wrote, and ws_proxy implements the relay contract WsPipe.     *)
(***************************************************************************)
EXTENDS WsRelay, TLAPS

(***************************************************************************)
(* The inductive invariant.  Each loop has taken read[d] frames; all but   *)
(* the one it holds while awaiting send have been delivered, and what was  *)
(* delivered is the start of what the source wrote.                        *)
(***************************************************************************)
LoopOK(d) ==
  /\ Len(got[d]) <= read[d]
  /\ read[d] <= Len(sent[d])
  /\ got[d] = SubSeq(sent[d], 1, Len(got[d]))
  /\ pc[d] = "recv" => read[d] = Len(got[d])
  /\ pc[d] = "send" => read[d] = Len(got[d]) + 1 /\ sent[d][read[d]] \in Data

IInv == TypeOK /\ \A d \in Dirs : LoopOK(d)

LEMMA DirsDistinct == Dirs = {"c2b", "b2c"} /\ Ends = {"client", "backend"}
  BY DEF Dirs, Ends, Pipe!Dirs, Pipe!Ends

\* Appending the next frame of s to a prefix of s gives a longer prefix.
LEMMA PrefixExtend ==
  ASSUME NEW S, NEW s \in Seq(S), NEW g \in Seq(S),
         g = SubSeq(s, 1, Len(g)), Len(g) < Len(s)
  PROVE  Append(g, s[Len(g) + 1]) = SubSeq(s, 1, Len(g) + 1)
  OBVIOUS

\* A prefix of s is still a prefix once s is extended.
LEMMA PrefixAppend ==
  ASSUME NEW S, NEW s \in Seq(S), NEW x \in S, NEW n \in 0 .. Len(s)
  PROVE  /\ SubSeq(Append(s, x), 1, n) = SubSeq(s, 1, n)
         /\ \A i \in 1 .. Len(s) : Append(s, x)[i] = s[i]
  OBVIOUS

\* Finish, and the actions built on it, keep every loop's counters.
LEMMA FinishLoops ==
  ASSUME IInv, Finish, UNCHANGED <<sent, got, read>>
  PROVE  \A d \in Dirs : LoopOK(d)'
  BY DirsDistinct DEF IInv, LoopOK, Finish, TypeOK

LEMMA FinishType ==
  ASSUME TypeOK, Finish, UNCHANGED <<sent, got, read>>
  PROVE  TypeOK'
  BY DirsDistinct DEF Finish, TypeOK

THEOREM RelayInvariant == Spec => []IInv
<1>1. Init => IInv
  BY DirsDistinct DEF Init, IInv, LoopOK, TypeOK
<1>2. IInv /\ [Next]_vars => IInv'
  <2> SUFFICES ASSUME IInv, [Next]_vars PROVE IInv'
    OBVIOUS
  <2>1. CASE Connect
    BY <2>1 DEF Connect, IInv, LoopOK, TypeOK
  <2>2. CASE ConnectFail
    BY <2>2, FinishLoops, FinishType DEF ConnectFail, IInv
  <2>3. ASSUME NEW d \in Dirs, NEW f \in Frame, Write(d, f) PROVE IInv'
    <3>1. sent' = [sent EXCEPT ![d] = Append(@, f)] /\ UNCHANGED <<got, open, phase, read, pc>>
      BY <2>3 DEF Write, Pipe!Write
    <3>2. TypeOK'
      BY <3>1, DirsDistinct DEF IInv, TypeOK, Frame, Pipe!Frame
    <3>3. ASSUME NEW x \in Dirs PROVE LoopOK(x)'
      <4>1. CASE x = d
        <5>1. sent'[x] = Append(sent[x], f) /\ sent[x] \in Seq(Frame) /\ f \in Frame
          BY <3>1, <4>1 DEF IInv, TypeOK
        <5>2. LoopOK(x) /\ Len(got[x]) \in 0 .. Len(sent[x]) /\ read[x] \in 1 .. Len(sent[x]) \cup {0}
          BY DEF IInv, LoopOK, TypeOK
        <5>3. /\ SubSeq(sent'[x], 1, Len(got[x])) = SubSeq(sent[x], 1, Len(got[x]))
              /\ \A i \in 1 .. Len(sent[x]) : sent'[x][i] = sent[x][i]
          BY <5>1, <5>2, PrefixAppend
        <5>4. QED
          BY <3>1, <5>1, <5>2, <5>3 DEF LoopOK
      <4>2. CASE x # d
        BY <3>1, <4>2 DEF IInv, LoopOK
      <4>3. QED
        BY <4>1, <4>2
    <3>4. QED
      BY <3>2, <3>3 DEF IInv
  <2>4. ASSUME NEW e \in Ends, Drop(e) PROVE IInv'
    <3>1. open' = [open EXCEPT ![e] = FALSE] /\ UNCHANGED <<sent, got, phase, read, pc>>
      BY <2>4 DEF Drop, Pipe!Drop
    <3>2. QED
      BY <3>1 DEF IInv, LoopOK, TypeOK
  <2>5. ASSUME NEW d \in Dirs, Recv(d) PROVE IInv'
    <3>1. /\ read' = [read EXCEPT ![d] = @ + 1]
          /\ pc' = [pc EXCEPT ![d] = "send"]
          /\ UNCHANGED <<sent, got, open, phase>>
          /\ pc[d] = "recv" /\ read[d] < Len(sent[d]) /\ sent[d][read[d] + 1] \in Data
      BY <2>5 DEF Recv
    <3>2. QED
      BY <3>1, DirsDistinct DEF IInv, LoopOK, TypeOK
  <2>6. ASSUME NEW d \in Dirs, RecvClose(d) PROVE IInv'
    <3>1. /\ read' = [read EXCEPT ![d] = @ + 1]
          /\ Finish /\ UNCHANGED <<sent, got>>
          /\ read[d] < Len(sent[d])
      BY <2>6 DEF RecvClose
    <3>2. QED
      BY <3>1, DirsDistinct DEF IInv, LoopOK, TypeOK, Finish
  <2>7. ASSUME NEW d \in Dirs, RecvEnd(d) PROVE IInv'
    BY <2>7, FinishLoops, FinishType DEF RecvEnd, IInv
  <2>8. ASSUME NEW d \in Dirs, Forward(d) PROVE IInv'
    <3>1. /\ got' = [got EXCEPT ![d] = Append(@, sent[d][read[d]])]
          /\ pc' = [pc EXCEPT ![d] = "recv"]
          /\ UNCHANGED <<sent, open, phase, read>>
          /\ pc[d] = "send"
      BY <2>8 DEF Forward
    <3>2. /\ read[d] = Len(got[d]) + 1 /\ sent[d][read[d]] \in Data
          /\ read[d] <= Len(sent[d]) /\ got[d] = SubSeq(sent[d], 1, Len(got[d]))
          /\ sent[d] \in Seq(Frame) /\ got[d] \in Seq(Data)
      BY <3>1 DEF IInv, LoopOK, TypeOK
    <3>3. Append(got[d], sent[d][read[d]]) = SubSeq(sent[d], 1, read[d])
      <4>1. got[d] \in Seq(Frame)
        BY <3>2 DEF Frame, Pipe!Frame
      <4>2. QED
        BY <3>2, <4>1, PrefixExtend
    <3>4. TypeOK'
      BY <3>1, <3>2 DEF IInv, TypeOK
    <3>5. LoopOK(d)'
      <4>1. got'[d] = Append(got[d], sent[d][read[d]]) /\ pc'[d] = "recv"
        BY <3>1 DEF IInv, TypeOK
      <4>2. Len(got'[d]) = read[d]
        BY <4>1, <3>2
      <4>3. QED
        BY <3>1, <3>2, <3>3, <4>1, <4>2 DEF LoopOK
    <3>6. \A x \in Dirs \ {d} : LoopOK(x)'
      BY <3>1 DEF IInv, LoopOK
    <3>7. QED
      BY <3>4, <3>5, <3>6 DEF IInv
  <2>9. ASSUME NEW d \in Dirs, ForwardFail(d) PROVE IInv'
    BY <2>9, FinishLoops, FinishType DEF ForwardFail, IInv
  <2>10. CASE UNCHANGED vars
    BY <2>10 DEF vars, IInv, LoopOK, TypeOK
  <2>11. QED
    BY <2>1, <2>2, <2>3, <2>4, <2>5, <2>6, <2>7, <2>8, <2>9, <2>10 DEF Next, Step
<1>3. QED
  BY <1>1, <1>2, PTL DEF Spec

\* Every state of ws_proxy is well-typed: the peers' histories hold frames,
\* the destinations only data, and each loop's index is a natural number.
THEOREM RelayTypeOK == Spec => []TypeOK
<1>1. IInv => TypeOK
  BY DEF IInv
<1> QED BY <1>1, RelayInvariant, PTL

\* Each destination of the relay has received exactly a prefix of the data
\* its source wrote, for every number of frames: the in-order contract of
\* ws_proxy's two loops (spec 4.4).
THEOREM RelayInOrderThm == Spec => []RelayInOrder
<1>1. IInv => RelayInOrder
  <2> SUFFICES ASSUME IInv, NEW d \in Dirs
               PROVE IsPrefix(got[d], sent[d]) /\ Close \notin Range(got[d])
    BY DEF RelayInOrder, Pipe!Delivered, Dirs, Pipe!Dirs, Pipe!IsPrefix, IsPrefix,
           Pipe!Range, Range
  <2>1. got[d] \in Seq(Data) /\ sent[d] \in Seq(Frame) /\ read[d] \in Nat /\ LoopOK(d)
    BY DEF IInv, TypeOK
  <2>2. IsPrefix(got[d], sent[d])
    <3>1. Len(got[d]) <= Len(sent[d]) /\ got[d] = SubSeq(sent[d], 1, Len(got[d]))
      BY <2>1 DEF LoopOK
    <3>2. SubSeq(got[d], 1, Len(got[d])) = got[d]
      BY <2>1
    <3>3. QED
      BY <3>1, <3>2 DEF IsPrefix
  <2>3. Close \notin Range(got[d])
    BY <2>1, RelayAssumption DEF Range
  <2>4. QED
    BY <2>2, <2>3
<1>2. QED
  BY <1>1, RelayInvariant, PTL

\* ws_proxy implements the relay contract: every step of the two loops,
\* the connect and the peers is a step of WsPipe or leaves its state alone.
THEOREM Refinement == Spec => ImplementsPipe
<1>1. Init => Pipe!Init
  BY DEF Init, Pipe!Init, Dirs, Ends
<1>2. IInv /\ [Next]_vars => [Pipe!Next]_(Pipe!pvars)
  <2> SUFFICES ASSUME IInv, [Next]_vars PROVE [Pipe!Next]_(Pipe!pvars)
    OBVIOUS
  <2> USE DEF Pipe!pvars
  <2>1. CASE Connect
    BY <2>1 DEF Connect
  <2>2. ASSUME Finish, phase # "closed", UNCHANGED <<sent, got>>
        PROVE  Pipe!Shut
    BY <2>2 DEF Finish, Pipe!Shut, Ends
  <2>3. CASE ConnectFail
    <3>1. Finish /\ phase # "closed" /\ UNCHANGED <<sent, got>>
      BY <2>3 DEF ConnectFail
    <3>2. QED
      BY <3>1, <2>2 DEF Pipe!Next
  <2>4. ASSUME NEW d \in Dirs, NEW f \in Frame, Write(d, f) PROVE Pipe!Next
    BY <2>4 DEF Write, Pipe!Next, Dirs, Frame
  <2>5. ASSUME NEW e \in Ends, Drop(e) PROVE Pipe!Next
    BY <2>5 DEF Drop, Pipe!Next, Ends
  <2>6. ASSUME NEW d \in Dirs, Recv(d) PROVE UNCHANGED Pipe!pvars
    BY <2>6 DEF Recv
  <2>7. ASSUME NEW d \in Dirs, RecvClose(d) \/ RecvEnd(d) \/ ForwardFail(d) PROVE Pipe!Next
    <3>1. Finish /\ phase # "closed" /\ UNCHANGED <<sent, got>>
      BY <2>7 DEF RecvClose, RecvEnd, ForwardFail
    <3>2. QED
      BY <3>1, <2>2 DEF Pipe!Next
  <2>8. ASSUME NEW d \in Dirs, Forward(d) PROVE Pipe!Deliver(d)
    <3>1. /\ got' = [got EXCEPT ![d] = Append(@, sent[d][read[d]])]
          /\ UNCHANGED <<sent, open, phase>>
          /\ phase = "relaying" /\ pc[d] = "send" /\ open[Dst(d)]
      BY <2>8 DEF Forward
    <3>2. read[d] = Len(got[d]) + 1 /\ read[d] <= Len(sent[d]) /\ sent[d][read[d]] \in Data
      BY <3>1 DEF IInv, LoopOK
    <3>3. QED
      BY <3>1, <3>2 DEF Pipe!Deliver, Dst
  <2>9. CASE UNCHANGED vars
    BY <2>9 DEF vars
  <2>10. ASSUME NEW d \in Dirs, Step(d) PROVE [Pipe!Next]_(Pipe!pvars)
    <3>1. CASE Recv(d)
      BY <2>6, <3>1
    <3>2. CASE RecvClose(d) \/ RecvEnd(d) \/ ForwardFail(d)
      BY <2>7, <3>2
    <3>3. CASE Forward(d)
      BY <2>8, <3>3 DEF Pipe!Next, Dirs
    <3>4. QED
      BY <2>10, <3>1, <3>2, <3>3 DEF Step
  <2>11. QED
    BY <2>1, <2>3, <2>4, <2>5, <2>9, <2>10 DEF Next
<1>3. QED
  BY <1>1, <1>2, RelayInvariant, PTL DEF Spec, ImplementsPipe, Pipe!Spec
=============================================================================
