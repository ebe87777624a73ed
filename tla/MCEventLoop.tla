---------------------------- MODULE MCEventLoop ----------------------------
(* Instances of EventLoop. *)
EXTENDS EventLoop, TLC

CONSTANTS a, b, w1, w2

\* The first client pipelines two messages, the second only connects.
TwoAndNone == a :> 2 @@ b :> 0

\* One message.
One == [c \in Conn |-> 1]

=============================================================================
