----------------------------- MODULE NidService -----------------------------
(***************************************************************************)
(* What the writers need from an identifier service, with no mention of    *)
(* counters: an identifier is granted to one caller at most, whether the   *)
(* service picks it or the caller claims it by value, and a request for    *)
(* "any identifier of this type" is turned down only when every identifier *)
(* of that type's pool is in use.                                          *)
(***************************************************************************)
CONSTANTS
  Types,       \* the types a caller may ask for
  Ids,         \* the values a caller may claim
  Pool,        \* Pool[t]: the identifiers the service may pick for type t
  WellFormed,  \* the members of Ids that are identifiers at all
  PreGranted   \* in use before the first call

VARIABLES
  used,        \* the identifiers in use
  answer       \* the outcome of the last call

vars == <<used, answer>>

Granted(id) == [ok |-> TRUE, nid |-> id]
Refused     == [ok |-> FALSE, nid |-> 0]

Init == used = PreGranted /\ answer = Refused

Grant(id) ==
  /\ id \notin used
  /\ used' = used \cup {id}
  /\ answer' = Granted(id)

Refuse ==
  /\ answer' = Refused
  /\ UNCHANGED used

Pick(t) == \E id \in Pool[t] : Grant(id)

TurnDown(t) == Pool[t] \subseteq used /\ Refuse

Claim(id) == id \in WellFormed /\ Grant(id)

Reject(id) == id \notin WellFormed \ used /\ Refuse

Next ==
  \/ \E t \in Types : Pick(t) \/ TurnDown(t)
  \/ \E id \in Ids : Claim(id) \/ Reject(id)

Spec == Init /\ [][Next]_vars

=============================================================================
