--------------------------- MODULE AckedDelivery ---------------------------
(***************************************************************************)
(* What a sender of the websocket package is promised.  A call of Send     *)
(* returns nil only after the remote payload handler has been given this   *)
(* call's payload (and, when the remote host is configured to block the    *)
(* acknowledge on an error, only after it succeeded).  An error says       *)
(* nothing: the payload may never arrive, may have been handled, or may be *)
(* handled later.  A payload is handled at most once.                      *)
(***************************************************************************)
CONSTANTS Calls,              \* the calls of Send
          NeedsSuccess        \* TRUE: a failed handling is never acknowledged

VARIABLES status,             \* status[c]: what the caller of c has seen
          outcome             \* outcome[c]: what the remote handler did with c

Confirmable(c) == outcome[c] \in (IF NeedsSuccess THEN {"ok"} ELSE {"ok", "error"})

Init == /\ status = [c \in Calls |-> "idle"]
        /\ outcome = [c \in Calls |-> "none"]

Begin(c) == /\ status[c] = "idle"
            /\ status' = [status EXCEPT ![c] = "pending"]
            /\ UNCHANGED outcome

(* The remote handler runs; the caller may have given up already.          *)
Handle(c) == /\ status[c] # "idle"
             /\ outcome[c] = "none"
             /\ \E o \in {"ok", "error"} : outcome' = [outcome EXCEPT ![c] = o]
             /\ UNCHANGED status

ReturnNil(c) == /\ status[c] = "pending"
                /\ Confirmable(c)
                /\ status' = [status EXCEPT ![c] = "confirmed"]
                /\ UNCHANGED outcome

ReturnError(c) == /\ status[c] = "pending"
                  /\ status' = [status EXCEPT ![c] = "failed"]
                  /\ UNCHANGED outcome

Next == \E c \in Calls : Begin(c) \/ Handle(c) \/ ReturnNil(c) \/ ReturnError(c)

vars == <<status, outcome>>
Spec == Init /\ [][Next]_vars
=============================================================================
