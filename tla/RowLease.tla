------------------------------- MODULE RowLease -------------------------------
(***************************************************************************)
(* What DirectKVRequestPool (src/directkv/directkv_request_pool.py)        *)
(* promises its caller: every row of the pool is leased to at most one     *)
(* request id at a time, an id holds at most one row, a new lease takes an *)
(* unleased row, and only the holder's own release ends a lease.  How the  *)
(* free rows are remembered is left out.                                   *)
(***************************************************************************)
CONSTANTS
  Rids,     \* request ids (SGLang's req_pool_indices)
  Rows,     \* rows of the pool
  Nobody    \* the holder of an unleased row

VARIABLE owner

LeaseInit == owner = [row \in Rows |-> Nobody]

\* Id takes an unleased row; ids that already hold a row never get here.
Acquire(id) ==
  /\ \A row \in Rows : owner[row] # id
  /\ \E row \in Rows :
       /\ owner[row] = Nobody
       /\ owner' = [owner EXCEPT ![row] = id]

Relinquish(id) ==
  \E row \in Rows :
    /\ owner[row] = id
    /\ owner' = [owner EXCEPT ![row] = Nobody]

LeaseNext == \E id \in Rids : Acquire(id) \/ Relinquish(id)

LeaseSpec == LeaseInit /\ [][LeaseNext]_owner
===============================================================================
