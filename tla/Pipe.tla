-------------------------------- MODULE Pipe --------------------------------
(***************************************************************************)
(* What a tunnel promises: for each receiving end e of a link, a one-way   *)
(* stream.  What is received is what was sent, in order and from the       *)
(* start; once the end of the stream has been signalled, nothing follows.  *)
(* The stream may be cut at any point: delivery as such is not promised.   *)
(***************************************************************************)
EXTENDS Naturals, Sequences

CONSTANTS
  Ends,   \* receiving ends
  Chunk   \* what is sent, piece by piece

VARIABLES
  sent,   \* sent[e]: written by the application at the other end of e
  rcvd,   \* rcvd[e]: handed to the application at e
  eof     \* eof[e]:  the application at e has been told that it is all

vars == <<sent, rcvd, eof>>

Init ==
  /\ sent = [e \in Ends |-> <<>>]
  /\ rcvd = [e \in Ends |-> <<>>]
  /\ eof  = [e \in Ends |-> FALSE]

Write(e) ==
  /\ UNCHANGED <<rcvd, eof>>
  /\ \E v \in Chunk : sent' = [sent EXCEPT ![e] = Append(@, v)]

Deliver(e) ==
  /\ ~eof[e] /\ Len(rcvd[e]) < Len(sent[e])
  /\ UNCHANGED <<sent, eof>>
  /\ rcvd' = [rcvd EXCEPT ![e] = Append(@, sent[e][Len(@) + 1])]

(* Streams that end together, as when the connection below them is lost.   *)
End ==
  /\ UNCHANGED <<sent, rcvd>>
  /\ eof' \in [Ends -> BOOLEAN]
  /\ \A e \in Ends : eof[e] => eof'[e]

Next ==
  \/ End
  \/ \E e \in Ends : Deliver(e) \/ Write(e)

Spec == Init /\ [][Next]_vars

=============================================================================
