---------------------------- MODULE ResultStream ----------------------------
(***************************************************************************)
(* What RunStream promises the reader of the channel it returns, without   *)
(* queues, goroutines or counters.  Every submitted node ends up           *)
(* delivered, rejected (filtered out, malformed, untestable) or - only     *)
(* once somebody cancelled - abandoned; the channel closes when no node is *)
(* still pending, unless cancelled; nothing is delivered after that.       *)
(***************************************************************************)
CONSTANT Config         \* the nodes that may be submitted

VARIABLES
    item,               \* Config -> what became of the node
    open,               \* the result channel is not closed
    cancelled           \* a context was cancelled, or Stop was called

vars == <<item, open, cancelled>>

Status == {"none", "pending", "delivered", "received", "rejected", "abandoned"}

TypeOK == /\ item \in [Config -> Status]
          /\ open \in BOOLEAN
          /\ cancelled \in BOOLEAN

Init == /\ item = [c \in Config |-> "none"]
        /\ open = TRUE
        /\ cancelled = FALSE

Move(c, from, to) == /\ item[c] = from
                     /\ item' = [item EXCEPT ![c] = to]
                     /\ UNCHANGED <<open, cancelled>>

(* A node is submitted while results can still come out; after a cancel    *)
(* the library still accepts nodes and lets them rot.                      *)
Submit(c)  == (open \/ cancelled) /\ Move(c, "none", "pending")
Deliver(c) == open /\ Move(c, "pending", "delivered")
Receive(c) == Move(c, "delivered", "received")
Reject(c)  == Move(c, "pending", "rejected")
Abandon(c) == cancelled /\ Move(c, "pending", "abandoned")

Close == /\ open
         /\ cancelled \/ \A c \in Config : item[c] # "pending"
         /\ open' = FALSE
         /\ UNCHANGED <<item, cancelled>>

Cancel == /\ cancelled' = TRUE
          /\ UNCHANGED <<item, open>>

Next == \/ \E c \in Config : \/ Submit(c) \/ Deliver(c) \/ Receive(c)
                             \/ Reject(c) \/ Abandon(c)
        \/ Close
        \/ Cancel

Spec == Init /\ [][Next]_vars
=============================================================================
