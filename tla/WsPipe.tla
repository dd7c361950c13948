------------------------------- MODULE WsPipe -------------------------------
(***************************************************************************)
(* The contract of the preview proxy's WebSocket relay (spec 4.4): two     *)
(* unidirectional pipes between the client and the backend.  Each pipe     *)
(* hands its destination the data frames its source wrote, in order,      *)
(* without gaps or duplicates, only while the relay is up and the          *)
(* destination is connected.  The relay may shut down, after which both    *)
(* connections are gone and nothing more is delivered.  Which frames are   *)
(* lost by a shutdown is left open: only a prefix is ever delivered.       *)
(***************************************************************************)
EXTENDS Naturals, Sequences, SequencesExt

CONSTANTS Data,       \* payloads of text, binary, ping and pong frames
          Close,      \* the Close frame
          MaxFrames   \* bound on the frames each peer writes

VARIABLES sent,       \* sent[d]: every frame the source of direction d wrote
          got,        \* got[d]: every frame the destination of d received
          open,       \* open[e]: endpoint e's connection to the proxy is up
          closed      \* the relay has shut down

pvars == <<sent, got, open, closed>>

Dirs == {"c2b", "b2c"}
Ends == {"client", "backend"}
Src(d) == IF d = "c2b" THEN "client" ELSE "backend"
Dst(d) == IF d = "c2b" THEN "backend" ELSE "client"
Frame == Data \cup {Close}

\* A peer writes a frame on its connection; after a Close it writes nothing.
Write(d, f) ==
  /\ open[Src(d)]
  /\ Len(sent[d]) < MaxFrames
  /\ Close \notin Range(sent[d])
  /\ sent' = [sent EXCEPT ![d] = Append(@, f)]
  /\ UNCHANGED <<got, open, closed>>

\* A peer's connection fails.
Drop(e) ==
  /\ open[e]
  /\ open' = [open EXCEPT ![e] = FALSE]
  /\ UNCHANGED <<sent, got, closed>>

\* The next frame of direction d reaches its destination.
Deliver(d) ==
  LET n == Len(got[d]) + 1 IN
  /\ ~closed
  /\ open[Dst(d)]
  /\ n <= Len(sent[d])
  /\ sent[d][n] \in Data
  /\ got' = [got EXCEPT ![d] = Append(@, sent[d][n])]
  /\ UNCHANGED <<sent, open, closed>>

\* The relay shuts down and drops both connections.
Shut ==
  /\ ~closed
  /\ closed' = TRUE
  /\ open' = [e \in Ends |-> FALSE]
  /\ UNCHANGED <<sent, got>>

Init ==
  /\ sent = [d \in Dirs |-> <<>>]
  /\ got = [d \in Dirs |-> <<>>]
  /\ open = [e \in Ends |-> TRUE]
  /\ closed = FALSE

Next ==
  \/ \E d \in Dirs, f \in Frame : Write(d, f)
  \/ \E e \in Ends : Drop(e)
  \/ \E d \in Dirs : Deliver(d)
  \/ Shut

Spec == Init /\ [][Next]_pvars

\* What the pipes promise at every instant: each destination has received
\* exactly a prefix of the data its source wrote.
Delivered == \A d \in Dirs : IsPrefix(got[d], sent[d]) /\ Close \notin Range(got[d])
=============================================================================
