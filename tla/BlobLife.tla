------------------------------ MODULE BlobLife ------------------------------
(***************************************************************************)
(* What one device promises about the life of a blob, with the cache files,  *)
(* the messages, the sessions, the worker and every fault abstracted away:    *)
(*   - a blob that is put is first copied into the cache, then stored, and     *)
(*     only then said to be stored,                                         *)
(*   - a blob that is wanted is said to be here only when the store has it,    *)
(*     and nothing but a copy of this device's own is ever stored,            *)
(*   - no step goes back: what is stored stays, what is kept is not forgotten, *)
(*     and a blob that was put becomes a download only after its upload.      *)
(* BlobSync implements it (BlobSync!ImplementsBlobLife).                     *)
(***************************************************************************)

CONSTANT Blobs

VARIABLES
    life,           \* how far each blob has come
    store           \* blobs of which the store has every byte

lifeVars == <<life, store>>

Lives == {"none", "put", "kept", "stored", "wanted", "here"}

LifeInit == life = [b \in Blobs |-> "none"] /\ store \subseteq Blobs

\* b goes from one of the lives in before to next.
Moves(b, before, next) ==
    /\ life[b] \in before
    /\ life' = [life EXCEPT ![b] = next]
    /\ UNCHANGED store

LifePut(b) == Moves(b, {"none"}, "put")
LifeKeep(b) == Moves(b, {"put"}, "kept")
LifeSettle(b) == b \in store /\ Moves(b, {"kept"}, "stored")
LifeWant(b) == Moves(b, {"none", "stored"}, "wanted")
LifeArrive(b) == b \in store /\ Moves(b, {"stored", "wanted"}, "here")

LifeStore(b) ==
    /\ life[b] = "kept"
    /\ store' = store \cup {b}
    /\ UNCHANGED life

LifeNext ==
    \E b \in Blobs :
        \/ LifePut(b) \/ LifeKeep(b) \/ LifeStore(b) \/ LifeSettle(b)
        \/ LifeWant(b) \/ LifeArrive(b)

LifeSpec == LifeInit /\ [][LifeNext]_lifeVars
=============================================================================
