----------------------------- MODULE CallRecord ------------------------------
(***************************************************************************)
(* What one call looks like to the backend that keeps it: it is created    *)
(* once, takes messages while it is open, each of a conversation item that *)
(* it does not have yet and under a sequence number that is still free,    *)
(* and is completed once, after its last message.                          *)
(***************************************************************************)
EXTENDS Naturals

CONSTANTS
    Items,       \* conversation items
    MaxItems,    \* how many of them a call has at most
    Completion,  \* what a completion may say
    None         \* no completion

VARIABLES
    status,    \* "none", "open" or "completed"
    messages,  \* the messages stored with the call
    record     \* the completion, or None

vars == <<status, messages, record>>

Message == [item: Items, sequence: 1 .. MaxItems]

Init == status \in {"none", "open"} /\ messages = {} /\ record = None

Create == status = "none" /\ status' = "open" /\ UNCHANGED <<messages, record>>

Append(m) ==
    /\ status = "open"
    /\ \A n \in messages : n.item # m.item /\ n.sequence # m.sequence
    /\ messages' = messages \cup {m}
    /\ UNCHANGED <<status, record>>

Complete(r) ==
    /\ status = "open"
    /\ status' = "completed"
    /\ record' = r
    /\ UNCHANGED messages

Next ==
    \/ Create
    \/ \E m \in Message : Append(m)
    \/ \E r \in Completion : Complete(r)

Spec == Init /\ [][Next]_vars
==============================================================================
