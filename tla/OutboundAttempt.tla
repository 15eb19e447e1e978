--------------------------- MODULE OutboundAttempt ---------------------------
(***************************************************************************)
(* What the backend may be told about an outbound attempt: that it was     *)
(* answered, at most once and before anything else; and how it ended, at   *)
(* most once and after everything else.  Only an attempt that was answered *)
(* is "completed", and none that was answered ends as not answered.        *)
(***************************************************************************)
EXTENDS Sequences

CONSTANT Attempts

VARIABLE posted  \* per attempt: the statuses posted, in order

NotAnswered == {"busy", "no_answer", "failed"}
Status == {"answered", "completed", "do_not_call"} \cup NotAnswered

\* The statuses that may come after what was posted.
Successors(statuses) ==
    CASE statuses = <<>>             -> Status \ {"completed"}
      [] statuses = <<"answered">>   -> {"completed", "do_not_call"}
      [] OTHER                       -> {}

Init == posted = [a \in Attempts |-> <<>>]

Report(a) ==
    \E s \in Successors(posted[a]) :
        posted' = [posted EXCEPT ![a] = Append(@, s)]

Next == \E a \in Attempts : Report(a)

Spec == Init /\ [][Next]_posted
==============================================================================
