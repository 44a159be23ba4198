------------------------------ MODULE ArmedSlot ------------------------------
(***************************************************************************)
(* What the Armed slot of a BitcoinExecution record promises to a node: a  *)
(* request is written before it is sent, is sent at most once, is run at   *)
(* most once, and leaves the slot either because its receipt was counted   *)
(* or because it was never sent.  Processes, copies of the record, lost    *)
(* answers and restarts do not exist here.                                 *)
(***************************************************************************)
CONSTANTS Requests, NoRequest

VARIABLES slot,  \* the request that holds the slot
          out,   \* requests sent
          ran,   \* requests run by the node
          done   \* requests whose receipt was counted

slotVars == <<slot, out, ran, done>>

Init == slot = NoRequest /\ out = {} /\ ran = {} /\ done = {}

\* Only a request that was never sent may take the slot, and only an empty one.
Arm == /\ slot = NoRequest
       /\ slot' \in Requests \ out
       /\ UNCHANGED <<out, ran, done>>

Send == /\ slot # NoRequest /\ slot \notin out
        /\ out' = out \cup {slot}
        /\ UNCHANGED <<slot, ran, done>>

\* The node may run a sent request at any time, whoever still waits for it.
Run == /\ \E q \in out \ ran : ran' = ran \cup {q}
       /\ UNCHANGED <<slot, out, done>>

Settle == /\ slot \in ran
          /\ done' = done \cup {slot}
          /\ slot' = NoRequest
          /\ UNCHANGED <<out, ran>>

Withdraw == /\ slot # NoRequest /\ slot \notin out
            /\ slot' = NoRequest
            /\ UNCHANGED <<out, ran, done>>

Next == Arm \/ Send \/ Run \/ Settle \/ Withdraw

Spec == Init /\ [][Next]_slotVars
=============================================================================
