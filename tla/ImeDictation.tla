---------------------------- MODULE ImeDictation ----------------------------
(***************************************************************************)
(* What native delivery promises of its dictations (README.md:110-115 of    *)
(* the repository), as far as the bridge keeps it: each opens in the field  *)
(* that has the focus, hands over its text at most once, after that field   *)
(* was found to have the focus and before it is closed; one is under way at *)
(* a time; and the daemon believes a text delivered only if it was handed   *)
(* over.  It may believe such a text lost: no answer, no delivery.          *)
(*                                                                          *)
(* Finding the focus and handing over are two steps (engine.py:488 and      *)
(* 608-609).  If the focus moves in between, the dictation has strayed, and *)
(* then only its text may go elsewhere: "misplaced".                        *)
(***************************************************************************)
CONSTANTS Contexts, None, Dictations

VARIABLES
    focus,      \* the field with the focus, or None
    field,      \* of each dictation, the field it was opened in
    fate,       \* "unborn", under way, "inserted", "misplaced" or "closed"
    verdict     \* what the daemon makes of it: "pending", "delivered" or "failed"

vars == <<focus, field, fate, verdict>>

UnderWay == {"open", "confirmed", "strayed"}

Init ==
    /\ focus \in Contexts \cup {None}
    /\ field = [d \in Dictations |-> None]
    /\ fate = [d \in Dictations |-> "unborn"]
    /\ verdict = [d \in Dictations |-> "pending"]

\* The fates after the focus moved.
Strayed == [d \in Dictations |-> IF fate[d] = "confirmed" THEN "strayed" ELSE fate[d]]

Move ==
    /\ focus' \in (Contexts \cup {None}) \ {focus}
    /\ fate' = Strayed
    /\ UNCHANGED <<field, verdict>>

Open(d) ==
    /\ focus # None
    /\ fate[d] = "unborn" /\ \A e \in Dictations : fate[e] \notin UnderWay
    /\ field' = [field EXCEPT ![d] = focus]
    /\ fate' = [fate EXCEPT ![d] = "open"]
    /\ UNCHANGED <<focus, verdict>>

\* A text is to be handed over, and its field has the focus.
Confirm(d) ==
    /\ fate[d] = "open" /\ focus = field[d]
    /\ fate' = [fate EXCEPT ![d] = "confirmed"]
    /\ UNCHANGED <<focus, field, verdict>>

Insert(d) ==
    /\ fate[d] \in {"confirmed", "strayed"} /\ focus = field[d]
    /\ fate' = [fate EXCEPT ![d] = "inserted"]
    /\ UNCHANGED <<focus, field, verdict>>

Misplace(d) ==
    /\ fate[d] = "strayed" /\ focus # field[d]
    /\ fate' = [fate EXCEPT ![d] = "misplaced"]
    /\ UNCHANGED <<focus, field, verdict>>

Close(d) ==
    /\ fate[d] \in UnderWay
    /\ fate' = [fate EXCEPT ![d] = "closed"]
    /\ UNCHANGED <<focus, field, verdict>>

Believe(d, v) ==
    /\ verdict[d] = "pending"
    /\ v = "delivered" => fate[d] \in {"inserted", "misplaced"}
    /\ verdict' = [verdict EXCEPT ![d] = v]
    /\ UNCHANGED <<focus, field, fate>>

Next ==
    \/ Move
    \/ \E d \in Dictations :
        \/ Open(d) \/ Confirm(d) \/ Insert(d) \/ Misplace(d) \/ Close(d)
        \/ \E v \in {"delivered", "failed"} : Believe(d, v)

Spec == Init /\ [][Next]_vars
=============================================================================
