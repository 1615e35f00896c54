----------------------------- MODULE FileStore ------------------------------
(***************************************************************************)
(* What the file functions of the driver promise about the file system of  *)
(* a device, however many packets a transfer takes and whatever fails on   *)
(* the way: a file changes as a whole or not at all, only a firmware       *)
(* update deletes files, loading a module never deletes the base firmware, *)
(* and a transfer that reports success has put its file in place.          *)
(*                                                                         *)
(* A request that failed is not undone: the device may still carry it out  *)
(* later, so such requests are kept in lost.                               *)
(***************************************************************************)
CONSTANTS Request,          \* r.ch, r.name, r.data and r.kind are used
          Removes(_, _, _)  \* Removes(r, c, n): request r may delete n in c

VARIABLES store,            \* store[c]: the files of channel c by name
          open,             \* the request being carried out, if any
          lost              \* failed requests

storeVars == <<store, open, lost>>

StoreInit == open = {} /\ lost = {}

(* The application calls the driver. *)
Begin == /\ open = {}
         /\ \E r \in Request : open' = {r}
         /\ UNCHANGED <<store, lost>>

(* The device puts a file in place, completely. *)
Place == \E r \in open \cup lost :
           /\ r.kind = "write"
           /\ store' = [store EXCEPT ![r.ch] =
                          [n \in DOMAIN @ \cup {r.name} |->
                             IF n = r.name THEN r.data ELSE @[n]]]
           /\ UNCHANGED <<open, lost>>

(* The device deletes a file that a firmware update removes. *)
Delete == \E r \in open \cup lost, c \in DOMAIN store :
            \E n \in DOMAIN store[c] :
              /\ Removes(r, c, n)
              /\ store' = [store EXCEPT ![c] = [m \in DOMAIN @ \ {n} |-> @[m]]]
              /\ UNCHANGED <<open, lost>>

Succeed == /\ open # {}
           /\ \A r \in open : r.kind = "write" =>
                r.name \in DOMAIN store[r.ch] /\ store[r.ch][r.name] = r.data
           /\ open' = {}
           /\ UNCHANGED <<store, lost>>

Fail == open # {} /\ open' = {} /\ lost' = lost \cup open /\ UNCHANGED store

StoreNext == Begin \/ Place \/ Delete \/ Succeed \/ Fail

StoreSpec == StoreInit /\ [][StoreNext]_storeVars
=============================================================================
