-------------------------- MODULE RealtimeDatabase --------------------------
(***************************************************************************)
(* The attendance subtree of the Firebase database, scannables/attendances,*)
(* and the SDK's client of each device (the pod FirebaseDatabase).  A node *)
(* attendances/<coupon>/couponUidList/<uid> that exists is a record        *)
(* <<uid, coupon>>.                                                        *)
(*                                                                         *)
(* A client that listens to "scannables" keeps a complete copy of it and   *)
(* answers every read below it from that copy and from its own writes that *)
(* the server has not acknowledged.  A read that it cannot answer waits    *)
(* for the listen, or for a listen of its own when there is none.  The     *)
(* server may refuse a listen, at first or when it is sent again, and may  *)
(* revoke it: the copy and the observers are then gone.                    *)
(*                                                                         *)
(* Losing the network is the absence of the actions marked (network):      *)
(* writes, reads and listens are kept and resent by the SDK, except that   *)
(* nothing of a client survives its process.                               *)
(*                                                                         *)
(* These are actions of components that EXTEND this module; each leaves    *)
(* their own variables to them.                                            *)
(***************************************************************************)
EXTENDS Naturals, Sequences

CONSTANTS
    Devices, Users, Coupons,
    Refused      \* records that the server's rules may refuse (the rules
                 \* are not in the repository)

Records == Users \X Coupons

ASSUME RefusedAssumption == Refused \subseteq Records

VARIABLES
    records,     \* the records on the server
    listen,      \* listen[d]: "none", "wait" or "synced", of d's listen
    cache,       \* cache[d]: the server data that d's client holds
    pending,     \* pending[d]: d's writes not yet acknowledged
    waiting,     \* waiting[d][r]: who waits on d for an answer to a read of r
    refused      \* history: the writes that the rules have refused

dbVars == <<records, listen, cache, pending, waiting, refused>>

ServerTypeOK(Askers) ==
    /\ records \subseteq Records
    /\ listen \in [Devices -> {"none", "wait", "synced"}]
    /\ cache \in [Devices -> SUBSET Records]
    /\ pending \in [Devices -> SUBSET Records]
    /\ waiting \in [Devices -> [Records -> Seq(Askers)]]
    /\ refused \subseteq Refused

NoReads == [r \in Records |-> <<>>]

DatabaseInit ==
    /\ records = {}
    /\ listen = [d \in Devices |-> "none"]
    /\ cache = [d \in Devices |-> {}]
    /\ pending = [d \in Devices |-> {}]
    /\ waiting = [d \in Devices |-> NoReads]
    /\ refused = {}

\* (mutant) reads see the server's data only
ServerData(d) == cache[d]

\* What a read on device d sees.
LocalData(d) == cache[d] \cup pending[d]

\* d has a complete copy and so raises an event when its local data changes.
Synced(d) == listen[d] = "synced"

\* d can answer a read of r without the server: its own write of the whole
\* node will do, too.
Answerable(d, r) == Synced(d) \/ r \in pending[d]

\* The reads that wait on d, each with its place among those of its record.
Reads(d) == UNION {{r} \X DOMAIN waiting[d][r] : r \in Records}

\* What the server would answer now, with d's own writes on top of it.
Current(d) == records \cup pending[d]

\* d's first registration sends a listen; later ones share it.  Reads that
\* had listens of their own now wait for this one.
Observe(d) ==
    /\ listen' = [listen EXCEPT ![d] = IF @ = "none" THEN "wait" ELSE @]
    /\ UNCHANGED <<records, cache, pending, waiting, refused>>

\* (mutant) the reads below the listen are not told
ListenAnsweredAlone(d) ==
    /\ listen[d] = "wait"
    /\ listen' = [listen EXCEPT ![d] = "synced"]
    /\ cache' = [cache EXCEPT ![d] = records]
    /\ UNCHANGED <<records, pending, waiting, refused>>

\* (network) the server answers the listen with the whole subtree, and the
\* client with it every read that waits
ListenAnswered(d) ==
    /\ listen[d] = "wait"
    /\ listen' = [listen EXCEPT ![d] = "synced"]
    /\ cache' = [cache EXCEPT ![d] = records]
    /\ waiting' = [waiting EXCEPT ![d] = NoReads]
    /\ UNCHANGED <<records, pending, refused>>

\* (network) the listen is refused, at first or when sent again, or revoked:
\* its observers are removed, and waiting reads get listens of their own
ListenLost(d) ==
    /\ listen[d] # "none"
    /\ listen' = [listen EXCEPT ![d] = "none"]
    /\ cache' = [cache EXCEPT ![d] = {}]
    /\ UNCHANGED <<records, pending, waiting, refused>>

\* (network) the server answers, or refuses, the reads of r
ReadAnswered(d, r) ==
    /\ listen[d] = "none" /\ waiting[d][r] # <<>>
    /\ waiting' = [waiting EXCEPT ![d][r] = <<>>]
    /\ UNCHANGED <<records, listen, cache, pending, refused>>

\* (network) the server pushes a record that d does not hold yet
DataUpdate(d, r) ==
    /\ Synced(d)
    /\ r \in records \ cache[d]
    /\ cache' = [cache EXCEPT ![d] = @ \cup {r}]
    /\ UNCHANGED <<records, listen, pending, waiting, refused>>

\* The write is visible on d at once, to reads that wait as well.
SetValue(d, r) ==
    /\ pending' = [pending EXCEPT ![d] = @ \cup {r}]
    /\ waiting' = [waiting EXCEPT ![d][r] = <<>>]
    /\ UNCHANGED <<records, listen, cache, refused>>

\* (network) the server carries out a put of d
ServerPut(d, r) ==
    /\ r \in pending[d]
    /\ records' = records \cup {r}
    /\ UNCHANGED <<listen, cache, pending, waiting, refused>>

\* The outcome of a put is held back while a listen is not answered.
NothingAsked(d) == listen[d] # "wait" /\ \A r \in Records : waiting[d][r] = <<>>

\* (mutants) a write is struck off when it is sent; or before its update came
AckWriteAtOnce(d, r) ==
    /\ r \in pending[d]
    /\ pending' = [pending EXCEPT ![d] = @ \ {r}]
    /\ UNCHANGED <<records, listen, cache, waiting, refused>>
AckWriteBeforeUpdate(d, r) ==
    /\ r \in pending[d] \cap records
    /\ pending' = [pending EXCEPT ![d] = @ \ {r}]
    /\ UNCHANGED <<records, listen, cache, waiting, refused>>

\* (network) the put is acknowledged, after the update that it caused
AckWrite(d, r) ==
    /\ r \in pending[d] \cap records
    /\ NothingAsked(d) /\ (Synced(d) => r \in cache[d])
    /\ pending' = [pending EXCEPT ![d] = @ \ {r}]
    /\ UNCHANGED <<records, listen, cache, waiting, refused>>

\* (network) the put is refused: the write is undone on d
RevertWrite(d, r) ==
    /\ r \in pending[d] \cap Refused
    /\ NothingAsked(d)
    /\ pending' = [pending EXCEPT ![d] = @ \ {r}]
    /\ refused' = refused \cup {r}
    /\ UNCHANGED <<records, listen, cache, waiting>>

\* The process of d is gone; all that its client held was in its memory.
ForgetClient(d) ==
    /\ listen' = [listen EXCEPT ![d] = "none"]
    /\ cache' = [cache EXCEPT ![d] = {}]
    /\ pending' = [pending EXCEPT ![d] = {}]
    /\ waiting' = [waiting EXCEPT ![d] = NoReads]
    /\ UNCHANGED <<records, refused>>
=============================================================================
