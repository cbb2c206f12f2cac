---------------------------- MODULE RefreshSessions ----------------------------
(***************************************************************************)
(* Login, refresh and logout: the refresh_sessions table and the requests  *)
(* that mutate it, each a READ COMMITTED transaction that resolves the     *)
(* family without a lock, takes the family's advisory lock, locks the      *)
(* token row and, to rotate, the user row.  Writes become visible at       *)
(* commit; a revocation updates the rows its statement saw.  A request may *)
(* present any token ever issued (a stolen, replayed or outdated cookie),  *)
(* a worker may die at any step, accounts may be disabled by an operator.  *)
(***************************************************************************)
EXTENDS Naturals, FiniteSets

CONSTANTS Users, Families,
          Tokens,       \* bounds the tokens ever generated
          Requests,     \* concurrently served HTTP requests
          Nobody,       \* no holder, no user, no family
          NoToken       \* no token, or one the database does not know

ASSUME NamesAssumption ==
    Nobody \notin Families \union Users \union Requests /\ NoToken \notin Tokens

VARIABLES
    family,        \* committed rows: token -> family_id, Nobody if not issued
    used, revoked, expired,  \* tokens with used_at, with revoked_at, past expires_at
    owner,         \* family -> user_id
    active,        \* users with status ACTIVE
    issued,        \* tokens generated so far: generate_opaque_token never repeats
    familyLock, tokenLock, userLock,
    request

table == <<family, used, revoked, owner>>
locks == <<familyLock, tokenLock, userLock>>
vars == <<table, expired, active, issued, locks, request>>

Phases == {"idle", "login", "begin", "resolved", "locked", "user", "rotate", "revoke",
           "invalid"}
Request == [phase : Phases, op : {"login", "refresh", "logout"}, token : Tokens \union {NoToken},
            family : Families \union {Nobody}, user : Users \union {Nobody},
            child : Tokens \union {NoToken}, targets : SUBSET Tokens]
IdleRequest == [phase |-> "idle", op |-> "login", token |-> NoToken, family |-> Nobody,
                user |-> Nobody, child |-> NoToken, targets |-> {}]

Init ==
    /\ family = [t \in Tokens |-> Nobody] /\ used = {} /\ revoked = {} /\ expired = {}
    /\ owner = [f \in Families |-> Nobody] /\ active = Users /\ issued = {}
    /\ familyLock = [f \in Families |-> Nobody] /\ tokenLock = [t \in Tokens |-> Nobody]
    /\ userLock = [u \in Users |-> Nobody]
    /\ request = [r \in Requests |-> IdleRequest]

TypeOK ==
    /\ family \in [Tokens -> Families \union {Nobody}]
    /\ used \in SUBSET Tokens /\ revoked \in SUBSET Tokens /\ expired \in SUBSET Tokens
    /\ owner \in [Families -> Users \union {Nobody}]
    /\ active \in SUBSET Users /\ issued \in SUBSET Tokens
    /\ familyLock \in [Families -> Requests \union {Nobody}]
    /\ tokenLock \in [Tokens -> Requests \union {Nobody}]
    /\ userLock \in [Users -> Requests \union {Nobody}]
    /\ request \in [Requests -> Request]

Move(r, phase) == request' = [request EXCEPT ![r].phase = phase]

(* The end of a transaction releases its row and advisory locks.            *)
Released(lock, r) == [x \in DOMAIN lock |-> IF lock[x] = r THEN Nobody ELSE lock[x]]
ReleaseLocks(r) == /\ familyLock' = Released(familyLock, r)
                   /\ tokenLock' = Released(tokenLock, r)
                   /\ userLock' = Released(userLock, r)
End(r) == ReleaseLocks(r) /\ request' = [request EXCEPT ![r] = IdleRequest]

-----------------------------------------------------------------------------
(* Bounds: a request starts only if the token or family it may need exists. *)
Busy(op) == {r \in Requests : request[r].phase # "idle" /\ request[r].op = op}
TokenLeft == Cardinality(issued) + Cardinality(Busy("login") \union Busy("refresh"))
               < Cardinality(Tokens)
FamilyLeft == Cardinality({f \in Families : owner[f] # Nobody}) + Cardinality(Busy("login"))
                < Cardinality(Families)

(* authenticate_and_issue_tokens reads an active account without a lock...  *)
Authenticate(r, u) ==
    /\ request[r].phase = "idle" /\ u \in active
    /\ TokenLeft /\ FamilyLeft
    /\ request' = [request EXCEPT ![r] = [IdleRequest EXCEPT !.phase = "login", !.user = u]]
    /\ UNCHANGED <<table, expired, active, issued, locks>>

(* ... and _issue_tokens commits the first token of a new family.           *)
IssueTokens(r, f, t) ==
    /\ request[r].phase = "login"
    /\ owner[f] = Nobody /\ t \notin issued
    /\ family' = [family EXCEPT ![t] = f]
    /\ owner' = [owner EXCEPT ![f] = request[r].user]
    /\ issued' = issued \union {t}
    /\ End(r)
    /\ UNCHANGED <<used, revoked, expired, active>>

(* A token that was used, revoked or has expired is a replay.               *)
TrustsUsed(t) == t \in revoked \union expired
Replayed(t) == t \in used \union revoked \union expired

(* refresh_tokens and logout share their beginning.  A raw token leaves the *)
(* server after its commit; NoToken is an unknown one, and a missing cookie *)
(* never reaches the database.                                              *)
Begin(r, op, t) ==
    /\ request[r].phase = "idle" /\ (t # NoToken => family[t] # Nobody)
    /\ op = "refresh" => TokenLeft \/ Replayed(t)
    /\ request' = [request EXCEPT ![r] =
                      [IdleRequest EXCEPT !.phase = "begin", !.op = op, !.token = t]]
    /\ UNCHANGED <<table, expired, active, issued, locks>>

(* _refresh_family_id: a plain read; a row not yet committed is not seen.   *)
FamilyOf(t) == IF t = NoToken THEN Nobody ELSE family[t]
ResolveFamily(r) ==
    /\ request[r].phase = "begin"
    /\ request' = [request EXCEPT ![r].phase = "resolved",
                                  ![r].family = FamilyOf(request[r].token)]
    /\ UNCHANGED <<table, expired, active, issued, locks>>

(* _lock_refresh_family: the advisory lock, when a family was found.        *)
SkipFamilyLock(r) == UNCHANGED familyLock
TakeFamilyLock(r) ==
    LET f == request[r].family
    IN IF f = Nobody THEN UNCHANGED familyLock
       ELSE familyLock[f] = Nobody /\ familyLock' = [familyLock EXCEPT ![f] = r]
LockRefreshFamily(r) ==
    /\ request[r].phase = "resolved"
    /\ TakeFamilyLock(r)
    /\ Move(r, "locked")
    /\ UNCHANGED <<table, expired, active, issued, tokenLock, userLock>>

(* _revoke_family: the rows visible to the UPDATE statement.                *)
RevokeTargets(f) == {t \in Tokens : family[t] = f} \ revoked

(* The authoritative read FOR UPDATE of the token row and the branch taken. *)
LockToken(r) ==
    LET t == request[r].token
        revoking == [request EXCEPT ![r].phase = "revoke",
                                    ![r].targets = RevokeTargets(FamilyOf(t))]
    IN /\ request[r].phase = "locked"
       /\ \/ /\ FamilyOf(t) = Nobody
             /\ Move(r, "invalid") /\ UNCHANGED tokenLock
          \/ /\ FamilyOf(t) # Nobody /\ tokenLock[t] = Nobody
             /\ tokenLock' = [tokenLock EXCEPT ![t] = r]
             /\ IF request[r].op = "logout" \/ Replayed(t) THEN request' = revoking
                                                           ELSE Move(r, "user")
       /\ UNCHANGED <<table, expired, active, issued, familyLock, userLock>>

(* The user row FOR UPDATE: a disabled account closes the family, an active *)
(* one gets a new token, still invisible to others.                         *)
LockUser(r, u) == userLock[u] = Nobody /\ userLock' = [userLock EXCEPT ![u] = r]
CheckUser(r) ==
    LET f == FamilyOf(request[r].token)
    IN /\ request[r].phase = "user"
       /\ LockUser(r, owner[f])
       /\ IF owner[f] \in active
            THEN \E t \in Tokens \ issued :
                    /\ issued' = issued \union {t}
                    /\ request' = [request EXCEPT ![r].phase = "rotate", ![r].child = t]
            ELSE /\ request' = [request EXCEPT ![r].phase = "revoke",
                                               ![r].targets = RevokeTargets(f)]
                 /\ UNCHANGED issued
       /\ UNCHANGED <<table, expired, active, familyLock, tokenLock>>

(* Commit of a rotation: the old token is used, the new one exists.         *)
CommitRotation(r) ==
    LET t == request[r].token
    IN /\ request[r].phase = "rotate"
       /\ used' = used \union {t}
       /\ family' = [family EXCEPT ![request[r].child] = family[t]]
       /\ End(r)
       /\ UNCHANGED <<revoked, owner, expired, active, issued>>

(* The UPDATE of a revocation waits for rows locked by others, then commits.*)
CommitRevocation(r) ==
    /\ request[r].phase = "revoke"
    /\ \A t \in request[r].targets : tokenLock[t] \in {r, Nobody}
    /\ revoked' = revoked \union request[r].targets
    /\ End(r)
    /\ UNCHANGED <<family, used, owner, expired, active, issued>>

(* An unknown token changes nothing.                                        *)
CommitInvalid(r) ==
    /\ request[r].phase = "invalid"
    /\ End(r)
    /\ UNCHANGED <<table, expired, active, issued>>

(* A worker dies or its connection drops: the transaction rolls back.  A    *)
(* token it generated is lost.                                              *)
Rollback(r) ==
    /\ request[r].phase # "idle"
    /\ End(r)
    /\ UNCHANGED <<table, expired, active, issued>>

-----------------------------------------------------------------------------
(* Time passes a token's expires_at; an operator disables an account in SQL *)
(* (external), waiting for the user row.                                    *)
Expire(t) ==
    /\ t \notin expired /\ family[t] # Nobody
    /\ expired' = expired \union {t}
    /\ UNCHANGED <<table, active, issued, locks, request>>

DisableUser(u) ==
    /\ u \in active /\ userLock[u] = Nobody
    /\ active' = active \ {u}
    /\ UNCHANGED <<table, expired, issued, locks, request>>

RequestStep(r) ==
    \/ ResolveFamily(r) \/ LockRefreshFamily(r) \/ LockToken(r) \/ CheckUser(r)
    \/ CommitRotation(r) \/ CommitRevocation(r) \/ CommitInvalid(r)
    \/ \E f \in Families, t \in Tokens : IssueTokens(r, f, t)

Next ==
    \/ \E r \in Requests :
         \/ RequestStep(r) \/ Rollback(r)
         \/ \E u \in Users : Authenticate(r, u)
         \/ \E op \in {"refresh", "logout"}, t \in Tokens \union {NoToken} : Begin(r, op, t)
    \/ \E t \in Tokens : Expire(t)
    \/ \E u \in Users : DisableUser(u)

Spec == Init /\ [][Next]_vars

-----------------------------------------------------------------------------
(* Properties.                                                              *)

Members(f) == {t \in Tokens : family[t] = f}
Live(f) == Members(f) \ (used \union revoked)

(* "replay revokes every token in its family": once any token of a family   *)
(* is revoked none can be exchanged, although a concurrent rotation may be  *)
(* committing a child the revocation's statement did not see.               *)
RevocationIsTotal ==
    \A f \in Families : Members(f) \intersect revoked # {} => Live(f) = {}

(* What the abstract SessionFamilies sees of the rows.                      *)
Exchangeable(live) == IF live = {} THEN NoToken ELSE CHOOSE t \in live : TRUE
CurrentTokens == [f \in Families |-> Exchangeable(Live(f))]
SeenTokens == {t \in Tokens : family[t] # Nobody}
ClosedFamilies == {f \in Families : Members(f) \intersect revoked # {}}
BarredFamilies == {f \in Families : owner[f] # Nobody /\ owner[f] \notin active}

(* Refresh, replay and logout transactions implement SessionFamilies:       *)
(* rotation is atomic, a token is exchanged at most once, a refresh that    *)
(* races the disabling of its account never extends the session, and one    *)
(* that ended by replay, logout or a disabled owner never comes back.       *)
Promise == INSTANCE SessionFamilies WITH
    current <- CurrentTokens, seen <- SeenTokens, closed <- ClosedFamilies, barred <- BarredFamilies
FamiliesKept == Promise!Spec

(* Family, token row, user row and the rows of a revocation are locked in   *)
(* an order in which no requests wait for each other in a cycle.            *)
Blockers(r) ==
    LET t == request[r].token
    IN CASE request[r].phase = "resolved" /\ request[r].family # Nobody ->
              {familyLock[request[r].family]}
         [] request[r].phase = "locked" /\ t # NoToken -> {tokenLock[t]}
         [] request[r].phase = "user" -> {userLock[owner[FamilyOf(t)]]}
         [] request[r].phase = "revoke" -> {tokenLock[x] : x \in request[r].targets} \ {r}
         [] OTHER -> {}
RequestsNeverDeadlock ==
    \A S \in SUBSET Requests : S # {} => \E r \in S : Blockers(r) \intersect S = {}
=============================================================================
