--------------------------- MODULE MessageLifecycle ---------------------------
(***************************************************************************)
(* What the service promises a customer about accepted messages, whatever  *)
(* crashes, retries and deferrals happen inside: every recipient is open   *)
(* until it gets one final outcome; "delivered" is only ever said of a     *)
(* recipient whose MX took a copy; copies only go to open recipients of    *)
(* open messages; a message closes with its last recipient, unless it is   *)
(* abandoned, and a closed message stays as it is until it is removed.     *)
(***************************************************************************)
EXTENDS Naturals

CONSTANTS Messages, Addresses, To

VARIABLES status,   \* "open", then "delivered", "bounced" or "failed"
          outcome,  \* of each recipient: "open" or final
          copies,   \* copies an MX has taken for each recipient
          removed   \* messages whose record has been deleted

vars == <<status, outcome, copies, removed>>

Final == {"delivered", "bounced", "failed"}

TypeOK == /\ status \in [Messages -> {"open"} \cup Final]
          /\ outcome \in [Messages -> [Addresses -> {"open"} \cup Final]]
          /\ copies \in [Messages -> [Addresses -> Nat]]
          /\ removed \subseteq Messages

Init == /\ status = [m \in Messages |-> "open"]
        /\ outcome = [m \in Messages |-> [a \in Addresses |-> "open"]]
        /\ copies = [m \in Messages |-> [a \in Addresses |-> 0]]
        /\ removed = {}

Open(m) == status[m] = "open" /\ m \notin removed

(* An MX takes a copy for the recipients in A. *)
Transmit(m, A) ==
    /\ Open(m)
    /\ \A a \in A : a \in To[m] /\ outcome[m][a] = "open"
    /\ copies' = [copies EXCEPT ![m] = [a \in Addresses |->
                                          IF a \in A THEN @[a] + 1 ELSE @[a]]]
    /\ UNCHANGED <<status, outcome, removed>>

(* Recipients get their final outcome, and the message with the last one.   *)
Settle(m) ==
    /\ Open(m)
    /\ \E next \in [To[m] -> {"open"} \cup Final] :
          /\ \A a \in To[m] :
                /\ outcome[m][a] # "open" => next[a] = outcome[m][a]
                /\ next[a] = "delivered" => copies[m][a] > 0
          /\ outcome' = [outcome EXCEPT ![m] = [a \in Addresses |->
                                IF a \in To[m] THEN next[a] ELSE @[a]]]
          /\ \E s \in {"open"} \cup Final :
                /\ s # "open" => \A a \in To[m] : next[a] # "open"
                /\ s = "delivered" => \E a \in To[m] : next[a] = "delivered"
                /\ s = "bounced" => \A a \in To[m] : next[a] = "bounced"
                /\ status' = [status EXCEPT ![m] = s]
    /\ UNCHANGED <<copies, removed>>

(* The content of an unfinished message runs out of its retention time. *)
Abandon(m) == /\ Open(m)
              /\ status' = [status EXCEPT ![m] = "failed"]
              /\ UNCHANGED <<outcome, copies, removed>>

(* Records of closed messages are deleted. *)
Remove(M) == /\ \A m \in M : status[m] # "open"
             /\ removed' = removed \cup M
             /\ UNCHANGED <<status, outcome, copies>>

Next == \/ \E m \in Messages : \/ \E A \in SUBSET To[m] : Transmit(m, A)
                               \/ Settle(m)
                               \/ Abandon(m)
        \/ \E M \in SUBSET Messages : Remove(M)

Spec == Init /\ [][Next]_vars
=============================================================================
