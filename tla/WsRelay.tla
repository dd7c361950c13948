------------------------------ MODULE WsRelay ------------------------------
(***************************************************************************)
(* The preview proxy's WebSocket relay, ws_proxy in http_server.rs.  After *)
(* the upgrade the proxy dials the backend; on success it splits both      *)
(* sockets and runs two loops under one select!: c2b reads client frames   *)
(* and sends them to the backend, b2c the reverse.  A loop returns on a    *)
(* Close frame, a read error, the end of its stream or a failed send, and  *)
(* the select! then drops the other loop and both sockets.                 *)
(*                                                                         *)
(* Peers write into immutable history sequences sent[d] that the relay     *)
(* reads with an index read[d].  Text, binary, ping and pong frames are    *)
(* translated one to one, so they are the model values of Data.            *)
(***************************************************************************)
EXTENDS Naturals, Sequences, SequencesExt

CONSTANTS Data, Close, MaxFrames

ASSUME RelayAssumption ==
  /\ Close \notin Data
  /\ MaxFrames \in Nat

VARIABLES sent,    \* sent[d]: frames the source of d wrote on its socket
          got,     \* got[d]: frames the destination of d received
          open,    \* open[e]: the connection of endpoint e is up
          phase,   \* "connecting", "relaying" or "closed"
          read,    \* read[d]: frames of sent[d] the loop of d has taken
          pc       \* pc[d]: loop d awaits "recv", awaits "send", or "done"

vars == <<sent, got, open, phase, read, pc>>

Pipe == INSTANCE WsPipe WITH closed <- (phase = "closed")

Dirs == Pipe!Dirs
Ends == Pipe!Ends
Src(d) == Pipe!Src(d)
Dst(d) == Pipe!Dst(d)
Frame == Pipe!Frame

\* The backend connection exists only once connect_async has succeeded.
Connected(e) == e = "client" \/ phase # "connecting"

\* Variant: ws_proxy returns but the socket halves are kept alive elsewhere,
\* so neither connection is closed.
FinishKeepingSockets ==
  /\ phase' = "closed"
  /\ pc' = [d \in Dirs |-> "done"]
  /\ UNCHANGED open

\* The select! completes: ws_proxy returns and drops both sockets.
Finish ==
  /\ phase' = "closed"
  /\ open' = [e \in Ends |-> FALSE]
  /\ pc' = [d \in Dirs |-> "done"]

Init ==
  /\ sent = [d \in Dirs |-> <<>>]
  /\ got = [d \in Dirs |-> <<>>]
  /\ open = [e \in Ends |-> TRUE]
  /\ phase = "connecting"
  /\ read = [d \in Dirs |-> 0]
  /\ pc = [d \in Dirs |-> "recv"]

\* connect_async(&backend_url) succeeds.
Connect ==
  /\ phase = "connecting"
  /\ phase' = "relaying"
  /\ UNCHANGED <<sent, got, open, read, pc>>

\* connect_async fails: ws_proxy returns and the client socket is dropped.
ConnectFail ==
  /\ phase = "connecting"
  /\ Finish
  /\ UNCHANGED <<sent, got, read>>

\* A peer writes a frame; after its Close it writes nothing more.
Write(d, f) ==
  /\ Connected(Src(d))
  /\ UNCHANGED <<phase, read, pc>>
  /\ Pipe!Write(d, f)

\* A peer's connection fails (reset, protocol error).
Drop(e) ==
  /\ Connected(e)
  /\ UNCHANGED <<phase, read, pc>>
  /\ Pipe!Drop(e)

\* Mutant: the loop's match takes a Close frame into the send arm.
RecvAnyFrame(d) ==
  /\ phase = "relaying"
  /\ pc[d] = "recv"
  /\ read[d] < Len(sent[d])
  /\ read' = [read EXCEPT ![d] = @ + 1]
  /\ pc' = [pc EXCEPT ![d] = "send"]
  /\ UNCHANGED <<sent, got, open, phase>>

\* rx.next() yields Ok(text | binary | ping | pong): translate, go to send.
Recv(d) ==
  /\ phase = "relaying"
  /\ pc[d] = "recv"
  /\ read[d] < Len(sent[d])
  /\ sent[d][read[d] + 1] \in Data
  /\ read' = [read EXCEPT ![d] = @ + 1]
  /\ pc' = [pc EXCEPT ![d] = "send"]
  /\ UNCHANGED <<sent, got, open, phase>>

\* rx.next() yields Ok(Close): the loop returns without forwarding it.
RecvClose(d) ==
  /\ phase = "relaying"
  /\ pc[d] = "recv"
  /\ read[d] < Len(sent[d])
  /\ sent[d][read[d] + 1] = Close
  /\ read' = [read EXCEPT ![d] = @ + 1]
  /\ Finish
  /\ UNCHANGED <<sent, got>>

\* rx.next() yields Err(_) or None once the source connection is gone.
RecvEnd(d) ==
  /\ phase = "relaying"
  /\ pc[d] = "recv"
  /\ ~open[Src(d)]
  /\ Finish
  /\ UNCHANGED <<sent, got, read>>

\* Mutant: the loop re-sends the frame it holds instead of reading on.
ForwardWithoutAdvance(d) ==
  /\ phase = "relaying"
  /\ pc[d] = "send"
  /\ open[Dst(d)]
  /\ got' = [got EXCEPT ![d] = Append(@, sent[d][read[d]])]
  /\ UNCHANGED <<sent, open, phase, read, pc>>

\* tx.send(msg) succeeds: the destination receives the frame.
Forward(d) ==
  /\ phase = "relaying"
  /\ pc[d] = "send"
  /\ open[Dst(d)]
  /\ got' = [got EXCEPT ![d] = Append(@, sent[d][read[d]])]
  /\ pc' = [pc EXCEPT ![d] = "recv"]
  /\ UNCHANGED <<sent, open, phase, read>>

\* tx.send(msg) fails: the loop returns.
ForwardFail(d) ==
  /\ phase = "relaying"
  /\ pc[d] = "send"
  /\ ~open[Dst(d)]
  /\ Finish
  /\ UNCHANGED <<sent, got, read>>

\* One poll of loop d, whichever way its await resolves.
Step(d) ==
  \/ Recv(d) \/ RecvClose(d) \/ RecvEnd(d) \/ Forward(d) \/ ForwardFail(d)

Next ==
  \/ Connect \/ ConnectFail
  \/ \E d \in Dirs, f \in Frame : Write(d, f)
  \/ \E e \in Ends : Drop(e)
  \/ \E d \in Dirs : Step(d)

\* The runtime polls a loop whenever its await can complete on its own: a
\* frame or the end of the stream is there to read, or the destination is
\* gone so the send fails.  Nothing obliges the backend to answer the
\* handshake (connect_async has no timeout) or a peer to read, so Connect,
\* ConnectFail and Forward get no fairness, and the peers owe nothing.
Fairness ==
  \A d \in Dirs : WF_vars(Recv(d) \/ RecvClose(d) \/ RecvEnd(d) \/ ForwardFail(d))

Spec == Init /\ [][Next]_vars /\ Fairness

-----------------------------------------------------------------------------
TypeOK ==
  /\ sent \in [Dirs -> Seq(Frame)]
  /\ got \in [Dirs -> Seq(Data)]
  /\ open \in [Ends -> BOOLEAN]
  /\ phase \in {"connecting", "relaying", "closed"}
  /\ read \in [Dirs -> Nat]
  /\ pc \in [Dirs -> {"recv", "send", "done"}]

\* Neither loop reorders, duplicates or skips frames: each destination
\* has received a prefix of the data its source wrote (spec 4.4, "no
\* message reordering within a direction"; scenario 4, "frames arrive in
\* order").  A frame can only be lost at the tail, when the select! drops
\* a loop that holds it.
RelayInOrder == Pipe!Delivered

\* ws_proxy refines the relay contract WsPipe, with the relay closed
\* exactly when ws_proxy has returned.
ImplementsPipe == Pipe!Spec

\* Spec 4.4: "Close in either direction terminates both relays.  Errors on
\* either side terminate both."  Once a peer has written Close or lost its
\* connection, ws_proxy eventually returns and releases both sockets.
RelayTerminates ==
  (\E d \in Dirs : Close \in Range(sent[d])) \/ (\E e \in Ends : ~open[e])
    ~> phase = "closed"

\* Spec 4.4 lists close among the frame variants each relay translates:
\* a Close the relay has read from one peer is passed on to the other.
CloseRelayed ==
  \A d \in Dirs : (read[d] > 0 /\ sent[d][read[d]] = Close) => Close \in Range(got[d])
=============================================================================
