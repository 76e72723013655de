------------------------------ MODULE RpcCalls ------------------------------
(***************************************************************************)
(* What the client of the capture helper promises to those who call it:    *)
(* a call ends at most once and for good; it is answered or times out only *)
(* while the link stands, is reported as crashed only after the link was   *)
(* closed, and is refused only before there is a link or once it is        *)
(* damaged.  CaptureClient is shown to implement this.                     *)
(***************************************************************************)
CONSTANT Call

VARIABLES
  call,     \* what each call has come to
  link      \* "none", "up", "damaged" (nothing more can be sent) or "closed"

vars == <<call, link>>

Init == call = [c \in Call |-> "new"] /\ link = "none"

Becomes(c, from, to) ==
  /\ call[c] = from
  /\ call' = [call EXCEPT ![c] = to]
  /\ UNCHANGED link

Standing == link \in {"up", "damaged"}

Open(c)    == Standing /\ Becomes(c, "new", "open")
Answer(c)  == Standing /\ Becomes(c, "open", "answered")
TimeOut(c) == Standing /\ Becomes(c, "open", "timedOut")
Crash(c)   == link = "closed" /\ Becomes(c, "open", "crashed")
Drop(c)    == Becomes(c, "open", "dropped")
Refuse(c)  ==
  /\ link # "up"
  /\ Becomes(c, "new", "unavailable") \/ Becomes(c, "open", "unavailable")

LinkChanges ==
  /\ \/ link = "none" /\ link' = "up"
     \/ link = "up" /\ link' = "damaged"
     \/ Standing /\ link' = "closed"
  /\ UNCHANGED call

Next ==
  \/ LinkChanges
  \/ \E c \in Call : \/ Open(c) \/ Answer(c) \/ TimeOut(c)
                     \/ Crash(c) \/ Drop(c) \/ Refuse(c)

Spec == Init /\ [][Next]_vars
=============================================================================
