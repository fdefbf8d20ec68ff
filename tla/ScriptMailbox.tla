--------------------------- MODULE ScriptMailbox ---------------------------
(***************************************************************************)
(* What a plugin runtime promises to those who send it events, with the    *)
(* worker pool, the flags and the critical sections of script_runtime.cpp  *)
(* hidden: each runtime is an inbox whose events are run one at a time, in *)
(* order.  An event that was accepted is run unless a newer coalescing     *)
(* call to the same callback takes its place, it may be dropped and is     *)
(* evicted to make room, or a load or the stop clears the inbox.  Once the *)
(* runtime is closed nothing is run any more.                              *)
(***************************************************************************)
EXTENDS Naturals, Sequences, SequencesExt

CONSTANTS Runtimes, NoEvent

VARIABLES
    inbox,     \* per runtime: the accepted events, oldest first
    current,   \* per runtime: the event being run, or NoEvent
    closed     \* per runtime: stopped for good

mailbox == <<inbox, current, closed>>

Clears(e) == e.kind \in {"load", "stop"}
Expendable(e) == e.kind = "update" \/ e.droppable

\* The rest of the inbox a new event may be appended to.
Kept(r, e) ==
    {inbox[r]}
    \cup (IF Clears(e) THEN {<<>>} ELSE {})
    \cup {RemoveAt(inbox[r], i) : i \in {i \in DOMAIN inbox[r] : Expendable(inbox[r][i])}}

Accept(r) ==
    /\ ~closed[r]
    /\ inbox'[r] # <<>>
    /\ Front(inbox'[r]) \in Kept(r, Last(inbox'[r]))
    /\ \A s \in Runtimes \ {r} : inbox'[s] = inbox[s]
    /\ UNCHANGED <<current, closed>>

Replace(r) ==
    /\ ~closed[r]
    /\ \E i \in DOMAIN inbox[r] :
          /\ DOMAIN inbox'[r] = DOMAIN inbox[r]
          /\ \A j \in DOMAIN inbox[r] \ {i} : inbox'[r][j] = inbox[r][j]
          /\ inbox[r][i].coalesce /\ inbox'[r][i].coalesce
          /\ inbox'[r][i].fn = inbox[r][i].fn
    /\ \A s \in Runtimes \ {r} : inbox'[s] = inbox[s]
    /\ UNCHANGED <<current, closed>>

Start(r) ==
    /\ ~closed[r]
    /\ current[r] = NoEvent
    /\ inbox[r] # <<>>
    /\ current' = [current EXCEPT ![r] = Head(inbox[r])]
    /\ inbox' = [inbox EXCEPT ![r] = Tail(@)]
    /\ UNCHANGED closed

Complete(r) ==
    /\ current[r] # NoEvent
    /\ current' = [current EXCEPT ![r] = NoEvent]
    /\ closed' = [closed EXCEPT ![r] = current[r].kind = "stop"]
    /\ inbox' = [inbox EXCEPT ![r] = IF current[r].kind = "stop" THEN <<>> ELSE @]

Init ==
    /\ inbox = [r \in Runtimes |-> <<>>]
    /\ current = [r \in Runtimes |-> NoEvent]
    /\ closed = [r \in Runtimes |-> FALSE]

Next == \E r \in Runtimes : Accept(r) \/ Replace(r) \/ Start(r) \/ Complete(r)

Spec == Init /\ [][Next]_mailbox

\* Nothing accepted waits for ever, and no event is run for ever.
Progress ==
    \A r \in Runtimes :
        /\ inbox[r] # <<>> ~> current[r] # NoEvent
        /\ current[r] # NoEvent ~> current[r] = NoEvent
=============================================================================
