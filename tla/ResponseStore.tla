--------------------------- MODULE ResponseStore ---------------------------
(***************************************************************************)
(* What the response cache promises, without files, awaits or failures: a  *)
(* register per key.  It only ever holds a response the origin has given   *)
(* in full for that very key, it may lose it at any time, and a client     *)
(* that is answered from the cache gets what the register held at one      *)
(* instant of its request.                                                 *)
(***************************************************************************)
CONSTANTS Keys, Slots, Versions, Nothing

VARIABLES
    given,   \* given[k]: the responses the origin has given for k
    stored,  \* stored[k]: the response in the store, or Nothing
    reply    \* reply[s]: what slot s is sending from the store, or Nothing

svars == <<given, stored, reply>>

Init ==
    /\ given = [k \in Keys |-> {}]
    /\ stored = [k \in Keys |-> Nothing]
    /\ reply = [s \in Slots |-> Nothing]

Give(k, v) ==
    /\ given' = [given EXCEPT ![k] = @ \cup {v}]
    /\ UNCHANGED <<stored, reply>>

Put(k, v) ==
    /\ v \in given[k]
    /\ stored' = [stored EXCEPT ![k] = v]
    /\ UNCHANGED <<given, reply>>

Lose(D) ==
    /\ stored' = [k \in Keys |-> IF k \in D THEN Nothing ELSE stored[k]]
    /\ UNCHANGED <<given, reply>>

Answer(s, k) ==
    /\ reply[s] = Nothing
    /\ stored[k] # Nothing
    /\ reply' = [reply EXCEPT ![s] = stored[k]]
    /\ UNCHANGED <<given, stored>>

Close(C) ==
    /\ reply' = [s \in Slots |-> IF s \in C THEN Nothing ELSE reply[s]]
    /\ UNCHANGED <<given, stored>>

Next ==
    \/ \E k \in Keys, v \in Versions : Give(k, v) \/ Put(k, v)
    \/ \E D \in SUBSET Keys : Lose(D)
    \/ \E s \in Slots, k \in Keys : Answer(s, k)
    \/ \E C \in SUBSET Slots : Close(C)

Spec == Init /\ [][Next]_svars
=============================================================================
