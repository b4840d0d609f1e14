----------------------------- MODULE SlotLease ------------------------------
(***************************************************************************)
(* What the server of detectwang promises of its slots, as if each had an  *)
(* owner: a free slot is granted to one client at a time, is opened before *)
(* anybody may use it, gets the address of its client once, is closed and  *)
(* forgets the address, and only then is free again.  No slot is lost on   *)
(* the way: one that is not free is open, about to be opened, or about to  *)
(* be freed.                                                               *)
(***************************************************************************)
CONSTANTS
  Slot,    \* the slots
  NoOne    \* the address of a slot without one

VARIABLES
  lease,   \* per slot: "free", "granted", "open" or "closing"
  client   \* per slot: the address it reports to

vars == <<lease, client>>

Init ==
  /\ lease = [k \in Slot |-> "free"]
  /\ client = [k \in Slot |-> NoOne]

Becomes(k, was, is) ==
  /\ lease[k] = was
  /\ lease' = [lease EXCEPT ![k] = is]

\* One client at a time is granted a slot.
Grant(k) ==
  /\ \A j \in Slot : lease[j] # "granted"
  /\ Becomes(k, "free", "granted")
  /\ UNCHANGED client

Open(k) == Becomes(k, "granted", "open") /\ UNCHANGED client

\* The first datagram.
Address(k) ==
  /\ lease[k] = "open"
  /\ client[k] = NoOne
  /\ client' = [client EXCEPT ![k] = client'[k]]
  /\ UNCHANGED lease

Close(k) ==
  /\ Becomes(k, "open", "closing")
  /\ client' = [client EXCEPT ![k] = NoOne]

Free(k) == Becomes(k, "closing", "free") /\ UNCHANGED client

Next == \E k \in Slot : Grant(k) \/ Open(k) \/ Address(k) \/ Close(k) \/ Free(k)

Spec == Init /\ [][Next]_vars

-----------------------------------------------------------------------------
\* What that comes to: no slot is anywhere else, one at a time is being granted, and
\* only an open slot has the address of a client.
Sound ==
  /\ lease \in [Slot -> {"free", "granted", "open", "closing"}]
  /\ DOMAIN client = Slot
  /\ \A j, k \in Slot : lease[j] = "granted" /\ lease[k] = "granted" => j = k
  /\ \A k \in Slot : client[k] # NoOne => lease[k] = "open"
=============================================================================
