----------------------------- MODULE JobLedger ------------------------------
(***************************************************************************)
(* What the execution plane promises of a job message: at-least-once       *)
(* processing with durable evidence. A job is published once; while it is  *)
(* pending its verdict rows only grow; it is finished only when at least   *)
(* one row exists; the one way to leave the ledger without a row is a      *)
(* purge, and nothing brings a finished or dropped job back.               *)
(***************************************************************************)
EXTENDS Naturals, Sequences

CONSTANTS Jobs, Rows

VARIABLES
    place,   \* "absent", "pending", "finished" or "dropped"
    rows     \* the job's committed rows

ledgerVars == <<place, rows>>

LedgerInit ==
    /\ place = [j \in Jobs |-> "absent"]
    /\ rows = [j \in Jobs |-> <<>>]

Publish(j) ==
    /\ place[j] = "absent"
    /\ place' = [place EXCEPT ![j] = "pending"]
    /\ UNCHANGED rows

\* Some row is appended; written without a quantifier over the infinite Rows.
Record(j) ==
    /\ place[j] = "pending"
    /\ Len(rows'[j]) = Len(rows[j]) + 1
    /\ rows'[j][Len(rows'[j])] \in Rows
    /\ rows' = [rows EXCEPT ![j] = Append(@, rows'[j][Len(rows'[j])])]
    /\ UNCHANGED place

Finish(j) ==
    /\ place[j] = "pending"
    /\ rows[j] # <<>>
    /\ place' = [place EXCEPT ![j] = "finished"]
    /\ UNCHANGED rows

Drop(S) ==
    /\ \A j \in S : place[j] = "pending"
    /\ place' = [j \in Jobs |-> IF j \in S THEN "dropped" ELSE place[j]]
    /\ UNCHANGED rows

LedgerNext ==
    \/ \E j \in Jobs : \/ Publish(j)
                       \/ Record(j)
                       \/ Finish(j)
    \/ \E S \in SUBSET Jobs : Drop(S)

LedgerSpec == LedgerInit /\ [][LedgerNext]_ledgerVars
=============================================================================
