--------------------------- MODULE RequestLedger ---------------------------
(***************************************************************************)
(* What the Add endpoint promises, without saying how.                     *)
(*                                                                         *)
(* A request is identified by its key, the pair (user_id, request_id), and *)
(* carries a payload (session and messages).  The first payload stored     *)
(* under a key is the only one that ever counts: it is stored in one step, *)
(* with every one of its messages and one tick of its user's revision, and *)
(* never changes afterwards.  A client is told "success" only for a        *)
(* payload that is stored.                                                 *)
(***************************************************************************)
EXTENDS Naturals

CONSTANTS
    Keys,          \* (user_id, request_id) pairs
    Users,
    UserOf,        \* the user_id of a key
    Payloads,      \* session and messages of an AddRequest
    MessageCount,  \* the number of messages of a payload
    None

VARIABLES
    ledger,        \* the payload stored under each key, or None
    rows,          \* the stored messages, as <<key, ordinal>>
    revision,      \* the number of requests stored for each user
    acked          \* the requests a client was told are stored

vars == <<ledger, rows, revision, acked>>

\* The messages of a request are numbered from 0.
RowsOf(key, payload) == {key} \X (0 .. MessageCount[payload] - 1)

Init ==
    /\ ledger = [key \in Keys |-> None]
    /\ rows = {}
    /\ revision = [user \in Users |-> 0]
    /\ acked = {}

\* A payload becomes the one of its key: all of it, in one step.
Store(key, payload) ==
    /\ ledger[key] = None
    /\ ledger' = [ledger EXCEPT ![key] = payload]
    /\ rows' = rows \cup RowsOf(key, payload)
    /\ revision' = [revision EXCEPT ![UserOf[key]] = @ + 1]
    /\ UNCHANGED acked

\* Success is reported for the stored payload only, as often as it is asked.
Acknowledge(key, payload) ==
    /\ ledger[key] = payload
    /\ acked' = acked \cup {[key |-> key, payload |-> payload]}
    /\ UNCHANGED <<ledger, rows, revision>>

Next ==
    \E key \in Keys, payload \in Payloads :
        Store(key, payload) \/ Acknowledge(key, payload)

Spec == Init /\ [][Next]_vars
=============================================================================
