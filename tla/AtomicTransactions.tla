-------------------------- MODULE AtomicTransactions --------------------------
(***************************************************************************)
(* What Backend.execute promises its callers, without connections, pools   *)
(* or threads: the writes of a transaction become permanent all together,  *)
(* at one moment, or not at all.  Only transactions annotated              *)
(* @Isolation(Level.NONE) write through to the database.                   *)
(***************************************************************************)
EXTENDS Naturals

CONSTANTS Transactions, Unisolated, MaxWrites

VARIABLES
    status,   \* status[t]: "new", "active", "committed" or "aborted"
    staged,   \* staged[t]: writes of t only t itself can see
    durable   \* the permanent writes

vars == <<status, staged, durable>>

Init ==
    /\ status = [t \in Transactions |-> "new"]
    /\ staged = [t \in Transactions |-> {}]
    /\ durable = {}

Begin(t) ==
    /\ status[t] = "new"
    /\ status' = [status EXCEPT ![t] = "active"]
    /\ UNCHANGED <<staged, durable>>

Writes(t, i) ==
    /\ status[t] = "active"
    /\ <<t, i>> \notin staged[t] \cup durable
    /\ IF t \in Unisolated
       THEN /\ durable' = durable \cup {<<t, i>>}
            /\ UNCHANGED staged
       ELSE /\ staged' = [staged EXCEPT ![t] = @ \cup {<<t, i>>}]
            /\ UNCHANGED durable
    /\ UNCHANGED status

Commit(t) ==
    /\ status[t] = "active"
    /\ status' = [status EXCEPT ![t] = "committed"]
    /\ staged' = [staged EXCEPT ![t] = {}]
    /\ durable' = durable \cup staged[t]

Abort(t) ==
    /\ status[t] = "active"
    /\ status' = [status EXCEPT ![t] = "aborted"]
    /\ staged' = [staged EXCEPT ![t] = {}]
    /\ UNCHANGED durable

Next ==
    \E t \in Transactions :
        \/ Begin(t)
        \/ \E i \in 1 .. MaxWrites : Writes(t, i)
        \/ Commit(t)
        \/ Abort(t)

Spec == Init /\ [][Next]_vars

=============================================================================
