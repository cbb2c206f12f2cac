---------------------------- MODULE SessionFamilies ----------------------------
(***************************************************************************)
(* What refresh-token rotation promises, without transactions or locks: a  *)
(* login opens a family with one token that may be exchanged; an exchange  *)
(* replaces it by a token never seen before, while the owner is active; a   *)
(* closed family never opens again.                                        *)
(***************************************************************************)
CONSTANTS Families, Tokens, NoToken

VARIABLES current,  \* the token of a family that the next refresh may present
          seen,     \* tokens that were current
          closed,   \* families ended by replay, logout or a disabled account
          barred    \* families of accounts that are disabled

Init == current = [f \in Families |-> NoToken] /\ seen = {} /\ closed = {} /\ barred = {}

(* A login opens a family; a refresh exchanges its current token.           *)
Open(f, t) ==
    /\ current[f] = NoToken /\ f \notin closed /\ t \notin seen
    /\ current' = [current EXCEPT ![f] = t]
    /\ seen' = seen \union {t}
    /\ barred' \in {barred, barred \union {f}}
    /\ UNCHANGED closed

Exchange(f, t) ==
    /\ current[f] # NoToken /\ f \notin barred /\ t \notin seen
    /\ current' = [current EXCEPT ![f] = t]
    /\ seen' = seen \union {t}
    /\ UNCHANGED <<closed, barred>>

(* Closing ends the current token, whichever it is by then.                 *)
Close(f) ==
    /\ current[f] # NoToken
    /\ current' = [current EXCEPT ![f] = NoToken]
    /\ closed' = closed \union {f}
    /\ UNCHANGED <<seen, barred>>

(* An account is disabled: its families can no longer be extended.          *)
Bar ==
    /\ \E owned \in SUBSET Families : barred' = barred \union owned
    /\ UNCHANGED <<current, seen, closed>>

Next == Bar \/ \E f \in Families : Close(f) \/ \E t \in Tokens : Open(f, t) \/ Exchange(f, t)

Spec == Init /\ [][Next]_<<current, seen, closed, barred>>
=============================================================================
