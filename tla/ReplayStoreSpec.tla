-------------------------- MODULE ReplayStoreSpec --------------------------
(***************************************************************************)
(* The replay buffer under any clients: what the ReplayBuffer actor        *)
(* promises them, as the behaviours of the store alone.  The item pushed   *)
(* is the number of the push, since each trajectory is an object of its    *)
(* own.                                                                    *)
(***************************************************************************)
EXTENDS ReplayStore

CONSTANT Versions       \* weight versions the clients name

StoreNext ==
    \/ \E g, t \in Versions : Push(arrivals + 1, g, t)
    \/ \E cur \in Versions : \E T \in SUBSET Intended(cur) : Sample(cur, T)
    \/ Clear

StoreSpec == StoreInit /\ [][StoreNext]_storeVars
=============================================================================
