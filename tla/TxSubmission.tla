---------------------------- MODULE TxSubmission ----------------------------
(***************************************************************************)
(* What ContractBackend promises to a caller that submits a transaction:   *)
(* it is handed to the network at most once and only before the call       *)
(* returns; nil means that it has been executed (or, for a call that does  *)
(* not wait for a confirmation, that it has been sent).  An error means    *)
(* nothing about its fate.  Funder relies on exactly this.                 *)
(***************************************************************************)
CONSTANTS Call,         \* the calls
          Unconfirmed   \* those that do not wait for a confirmation

VARIABLES phase,  \* of each call: "idle", "pending", "ok" or "err"
          fate    \* of its transaction: "unsent", "inflight", "executed" or "void"

vars == <<phase, fate>>

Init ==
    /\ phase = [c \in Call |-> "idle"]
    /\ fate  = [c \in Call |-> "unsent"]

Begin(c) ==
    /\ phase[c] = "idle"
    /\ phase' = [phase EXCEPT ![c] = "pending"]
    /\ UNCHANGED fate

\* The transaction is sent; the call may end in the same step.
Submit(c) ==
    /\ phase[c] = "pending" /\ fate[c] = "unsent"
    /\ fate' = [fate EXCEPT ![c] = "inflight"]
    /\ \/ UNCHANGED phase
       \/ \E r \in {"ok", "err"} :
            /\ r = "ok" => c \in Unconfirmed
            /\ phase' = [phase EXCEPT ![c] = r]

\* The network executes the transaction, or never will.
Settle(c) ==
    /\ fate[c] = "inflight"
    /\ \E f \in {"executed", "void"} : fate' = [fate EXCEPT ![c] = f]
    /\ UNCHANGED phase

Return(c, r) ==
    /\ phase[c] = "pending"
    /\ r = "ok" => fate[c] = "executed"
    /\ phase' = [phase EXCEPT ![c] = r]
    /\ UNCHANGED fate

Next ==
    \E c \in Call :
        \/ Begin(c) \/ Submit(c) \/ Settle(c)
        \/ \E r \in {"ok", "err"} : Return(c, r)

Spec == Init /\ [][Next]_vars

=============================================================================
