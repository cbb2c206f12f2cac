------------------------- MODULE RefreshSessionsProofs -------------------------
(***************************************************************************)
(* Proofs about RefreshSessions for any users, families, tokens and any    *)
(* number of concurrent requests.                                          *)
(***************************************************************************)
EXTENDS RefreshSessions, TLAPS

Committed(t) == family[t] # Nobody
Resolved == {"resolved", "locked", "user", "rotate", "revoke", "invalid"}
Locked == {"locked", "user", "rotate", "revoke"}
Holding == {"user", "rotate", "revoke"}

(* The rows: a committed token was generated and belongs to a family with   *)
(* an owner; only committed tokens are used or revoked; a family has one    *)
(* live token at most, and one as long as nothing of it was revoked.        *)
RowsInv ==
    /\ \A t \in Tokens : Committed(t) => t \in issued /\ owner[family[t]] # Nobody
    /\ \A t \in used \union revoked : Committed(t)
    /\ \A f \in Families : \A t, u \in Live(f) : t = u
    /\ \A f \in Families : owner[f] # Nobody /\ Members(f) \intersect revoked = {} => Live(f) # {}

(* Who holds a lock is where its transaction needs it.                      *)
LocksInv ==
    /\ \A f \in Families : familyLock[f] # Nobody =>
         request[familyLock[f]].phase \in Locked /\ request[familyLock[f]].family = f
    /\ \A t \in Tokens : tokenLock[t] # Nobody =>
         request[tokenLock[t]].phase \in Holding /\ request[tokenLock[t]].token = t
    /\ \A u \in Users : userLock[u] # Nobody => request[userLock[u]].phase \in {"rotate", "revoke"}

(* What a request knows under its locks is still so.                        *)
RequestInv(r) ==
    LET q == request[r] IN
    /\ q.phase = "login" => q.user # Nobody
    /\ q.phase \in {"begin"} \union Resolved => (q.token # NoToken => Committed(q.token))
    /\ q.phase \in Resolved => q.family = FamilyOf(q.token)
    /\ q.phase \in Locked /\ q.family # Nobody => familyLock[q.family] = r
    /\ q.phase \in Holding => q.token # NoToken
    /\ q.phase \in {"user", "rotate"} => q.token \notin used \union revoked
    /\ q.phase = "rotate" =>
         /\ q.child \in issued /\ ~Committed(q.child)
         /\ userLock[owner[q.family]] = r /\ owner[q.family] \in active
    /\ q.phase = "revoke" => q.targets = RevokeTargets(q.family)

(* Two rotations never carry the same new token.                            *)
ChildrenDistinct ==
    \A r, s \in Requests :
        request[r].phase = "rotate" /\ request[s].phase = "rotate" /\ r # s =>
            request[r].child # request[s].child

SessionsInv ==
    /\ TypeOK /\ RowsInv /\ LocksInv /\ ChildrenDistinct /\ RevocationIsTotal
    /\ \A r \in Requests : RequestInv(r)

-----------------------------------------------------------------------------
(* The operators of the model.                                              *)

(* The family a token resolves to.                                          *)
LEMMA FamilyOfType ==
    ASSUME TypeOK, NEW t \in Tokens \union {NoToken}
    PROVE  FamilyOf(t) \in Families \union {Nobody} /\ (t # NoToken => FamilyOf(t) = family[t])
BY DEF FamilyOf, TypeOK

(* Ending a transaction frees exactly the locks it holds.                   *)
LEMMA ReleasedLock ==
    ASSUME NEW D, NEW lock \in [D -> Requests \union {Nobody}], NEW r \in Requests
    PROVE  /\ Released(lock, r) \in [D -> Requests \union {Nobody}]
           /\ \A x \in D : /\ Released(lock, r)[x] # r
                           /\ Released(lock, r)[x] # Nobody => Released(lock, r)[x] = lock[x]
                           /\ lock[x] # r => Released(lock, r)[x] = lock[x]
BY NamesAssumption DEF Released

(* The idle request is well formed and knows nothing.                       *)
LEMMA IdleRequestType == IdleRequest \in Request /\ IdleRequest.phase = "idle"
BY DEF IdleRequest, Request, Phases

(* Ending a transaction keeps the types, the owners of all other locks and  *)
(* every other request.                                                     *)
LEMMA EndEffect ==
    ASSUME TypeOK, NEW r \in Requests, End(r)
    PROVE  /\ familyLock' \in [Families -> Requests \union {Nobody}]
           /\ tokenLock' \in [Tokens -> Requests \union {Nobody}]
           /\ userLock' \in [Users -> Requests \union {Nobody}]
           /\ request' \in [Requests -> Request]
           /\ request'[r] = IdleRequest
           /\ \A s \in Requests \ {r} : request'[s] = request[s]
           /\ \A f \in Families : /\ familyLock'[f] # r
                                  /\ familyLock'[f] # Nobody => familyLock'[f] = familyLock[f]
                                  /\ familyLock[f] # r => familyLock'[f] = familyLock[f]
           /\ \A t \in Tokens : /\ tokenLock'[t] # r
                                /\ tokenLock'[t] # Nobody => tokenLock'[t] = tokenLock[t]
                                /\ tokenLock[t] # r => tokenLock'[t] = tokenLock[t]
           /\ \A u \in Users : /\ userLock'[u] # r
                               /\ userLock'[u] # Nobody => userLock'[u] = userLock[u]
                               /\ userLock[u] # r => userLock'[u] = userLock[u]
<1>1. request' \in [Requests -> Request] /\ request'[r] = IdleRequest
      /\ \A s \in Requests \ {r} : request'[s] = request[s]
  BY IdleRequestType DEF End, TypeOK
<1>2. /\ familyLock' = Released(familyLock, r) /\ tokenLock' = Released(tokenLock, r)
      /\ userLock' = Released(userLock, r)
  BY DEF End, ReleaseLocks
<1>3. /\ familyLock \in [Families -> Requests \union {Nobody}]
      /\ tokenLock \in [Tokens -> Requests \union {Nobody}]
      /\ userLock \in [Users -> Requests \union {Nobody}]
  BY DEF TypeOK
<1>4. /\ familyLock' \in [Families -> Requests \union {Nobody}]
      /\ \A f \in Families : /\ familyLock'[f] # r
                             /\ familyLock'[f] # Nobody => familyLock'[f] = familyLock[f]
                             /\ familyLock[f] # r => familyLock'[f] = familyLock[f]
  BY <1>2, <1>3, ReleasedLock
<1>5. /\ tokenLock' \in [Tokens -> Requests \union {Nobody}]
      /\ \A t \in Tokens : /\ tokenLock'[t] # r
                           /\ tokenLock'[t] # Nobody => tokenLock'[t] = tokenLock[t]
                           /\ tokenLock[t] # r => tokenLock'[t] = tokenLock[t]
  BY <1>2, <1>3, ReleasedLock
<1>6. /\ userLock' \in [Users -> Requests \union {Nobody}]
      /\ \A u \in Users : /\ userLock'[u] # r
                          /\ userLock'[u] # Nobody => userLock'[u] = userLock[u]
                          /\ userLock[u] # r => userLock'[u] = userLock[u]
  BY <1>2, <1>3, ReleasedLock
<1> QED BY <1>1, <1>4, <1>5, <1>6

(* So the lock invariant survives the end of any transaction.               *)
LEMMA EndLocks ==
    ASSUME TypeOK, LocksInv, NEW r \in Requests, End(r)
    PROVE  LocksInv'
<1>1. ASSUME NEW f \in Families, familyLock'[f] # Nobody
      PROVE  request'[familyLock'[f]].phase \in Locked /\ request'[familyLock'[f]].family = f
  <2>1. familyLock'[f] = familyLock[f] /\ familyLock'[f] \in Requests \ {r}
    BY <1>1, EndEffect DEF TypeOK
  <2> QED BY <1>1, <2>1, EndEffect DEF LocksInv
<1>2. ASSUME NEW t \in Tokens, tokenLock'[t] # Nobody
      PROVE  request'[tokenLock'[t]].phase \in Holding /\ request'[tokenLock'[t]].token = t
  <2>1. tokenLock'[t] = tokenLock[t] /\ tokenLock'[t] \in Requests \ {r}
    BY <1>2, EndEffect DEF TypeOK
  <2> QED BY <1>2, <2>1, EndEffect DEF LocksInv
<1>3. ASSUME NEW u \in Users, userLock'[u] # Nobody
      PROVE  request'[userLock'[u]].phase \in {"rotate", "revoke"}
  <2>1. userLock'[u] = userLock[u] /\ userLock'[u] \in Requests \ {r}
    BY <1>3, EndEffect DEF TypeOK
  <2> QED BY <1>3, <2>1, EndEffect DEF LocksInv
<1> QED BY <1>1, <1>2, <1>3 DEF LocksInv

(* What keeps the knowledge of a request that does not move: its committed  *)
(* token stays, nobody touches the rows of a family it has locked, its own  *)
(* locks stay, and a user whose row it holds is not disabled.               *)
Undisturbed(s) ==
    LET q == request[s] IN
    /\ request'[s] = q
    /\ \A t \in Tokens : Committed(t) => family'[t] = family[t]
    /\ q.phase \in Locked /\ q.family # Nobody =>
         /\ familyLock'[q.family] = familyLock[q.family]
         /\ \A t \in Tokens : family[t] = q.family =>
               (t \in used' <=> t \in used) /\ (t \in revoked' <=> t \in revoked)
         /\ \A t \in Tokens : family'[t] = q.family => family[t] = q.family
         /\ owner'[q.family] = owner[q.family]
    /\ q.phase = "rotate" =>
         /\ q.child \in issued' /\ family'[q.child] = family[q.child]
         /\ userLock'[owner[q.family]] = userLock[owner[q.family]]
         /\ owner[q.family] \in active'

LEMMA UndisturbedKeeps ==
    ASSUME SessionsInv, NEW s \in Requests, Undisturbed(s)
    PROVE  RequestInv(s)'
<1> DEFINE q == request[s]
<1>0. /\ q \in Request /\ RequestInv(s) /\ request'[s] = q
      /\ q.token \in Tokens \union {NoToken} /\ q.child \in Tokens \union {NoToken}
  BY DEF SessionsInv, TypeOK, Undisturbed, Request
<1>1. q.phase \in {"begin"} \union Resolved => (q.token # NoToken => Committed(q.token)')
  BY <1>0 DEF RequestInv, Undisturbed, Committed
<1>2. q.phase \in Resolved => q.family = FamilyOf(q.token)'
  BY <1>0 DEF RequestInv, Undisturbed, Committed, FamilyOf
<1>3. q.phase \in Locked /\ q.family # Nobody => familyLock'[q.family] = s
  BY <1>0 DEF RequestInv, Undisturbed
<1>4. q.phase \in Holding =>
        /\ q.token # NoToken /\ q.token \in Tokens
        /\ q.family = family[q.token] /\ q.family # Nobody /\ q.phase \in Locked
  BY <1>0 DEF RequestInv, Holding, Locked, Resolved, FamilyOf, Committed
<1>5. q.phase \in {"user", "rotate"} => q.token \notin used' \union revoked'
  BY <1>0, <1>4 DEF RequestInv, Undisturbed, Holding
<1>6. q.phase = "rotate" =>
        /\ q.child \in issued' /\ ~Committed(q.child)'
        /\ userLock'[owner'[q.family]] = s /\ owner'[q.family] \in active'
  BY <1>0, <1>4 DEF RequestInv, Undisturbed, Holding, Committed
<1>7. q.phase = "revoke" => q.targets = RevokeTargets(q.family)'
  <2> SUFFICES ASSUME q.phase = "revoke" PROVE q.targets = RevokeTargets(q.family)' OBVIOUS
  <2>1. q.targets = RevokeTargets(q.family) /\ q.family # Nobody /\ q.phase \in Locked
    BY <1>0, <1>4 DEF RequestInv, Holding
  <2>2. \A t \in Tokens : family'[t] = q.family <=> family[t] = q.family
    BY <2>1 DEF Undisturbed, Committed
  <2>3. \A t \in Tokens : family[t] = q.family => (t \in revoked' <=> t \in revoked)
    BY <2>1 DEF Undisturbed
  <2> QED BY <1>0, <2>1, <2>2, <2>3 DEF RevokeTargets
<1> HIDE DEF q
<1> QED BY <1>0, <1>1, <1>2, <1>3, <1>4, <1>5, <1>6, <1>7 DEF RequestInv, q

(* A step that leaves the committed rows alone.                             *)
LEMMA RowsKept ==
    ASSUME SessionsInv, UNCHANGED table, issued \subseteq issued'
    PROVE  RowsInv' /\ RevocationIsTotal'
<1>1. \A f \in Families : Members(f)' = Members(f) /\ Live(f)' = Live(f)
  BY DEF table, Members, Live
<1>2. RevocationIsTotal' BY <1>1 DEF SessionsInv, RevocationIsTotal, table
<1>3. RowsInv' BY <1>1 DEF SessionsInv, RowsInv, Committed, table
<1> QED BY <1>2, <1>3

(* A step of one request that leaves rows, accounts and the locks of the    *)
(* others alone, and generates no token.                                    *)
LEMMA OthersKept ==
    ASSUME SessionsInv, NEW r \in Requests, UNCHANGED <<table, active>>, issued \subseteq issued',
           \A s \in Requests \ {r} : request'[s] = request[s],
           \A s \in Requests \ {r} : \A f \in Families : familyLock[f] = s => familyLock'[f] = s,
           \A s \in Requests \ {r} : \A u \in Users : userLock[u] = s => userLock'[u] = s
    PROVE  \A s \in Requests \ {r} : RequestInv(s)'
<1> SUFFICES ASSUME NEW s \in Requests \ {r} PROVE Undisturbed(s) BY UndisturbedKeeps
<1> DEFINE q == request[s]
<1>0. q \in Request /\ RequestInv(s) /\ q.family \in Families \union {Nobody}
  BY DEF SessionsInv, TypeOK, Request
<1>1. q.phase \in Locked /\ q.family # Nobody => familyLock'[q.family] = familyLock[q.family]
  BY <1>0 DEF RequestInv
<1>2. q.phase = "rotate" =>
        /\ q.child \in issued' /\ owner[q.family] \in active'
        /\ userLock'[owner[q.family]] = userLock[owner[q.family]]
  BY <1>0 DEF RequestInv, SessionsInv, TypeOK
<1> QED BY <1>1, <1>2 DEF Undisturbed, table

(* When no request starts a rotation, new tokens stay distinct.             *)
LEMMA ChildrenKept ==
    ASSUME SessionsInv, NEW r \in Requests, request'[r].phase # "rotate",
           \A s \in Requests \ {r} : request'[s] = request[s]
    PROVE  ChildrenDistinct'
BY DEF SessionsInv, ChildrenDistinct

-----------------------------------------------------------------------------
(* One lemma per group of actions: the invariant survives.                  *)

(* A transaction that ends without writing.                                 *)
LEMMA EndWithoutWriting ==
    ASSUME SessionsInv, NEW r \in Requests, CommitInvalid(r) \/ Rollback(r)
    PROVE  SessionsInv'
<1>0. End(r) /\ UNCHANGED <<table, expired, active, issued>> BY DEF CommitInvalid, Rollback
<1>1. TypeOK' BY <1>0, EndEffect DEF SessionsInv, TypeOK, table
<1>2. LocksInv' BY <1>0, EndLocks DEF SessionsInv
<1>3. RowsInv' /\ RevocationIsTotal' BY <1>0, RowsKept
<1>4. /\ request'[r].phase = "idle" /\ \A s \in Requests \ {r} : request'[s] = request[s]
      /\ \A s \in Requests \ {r} : \A f \in Families : familyLock[f] = s => familyLock'[f] = s
      /\ \A s \in Requests \ {r} : \A u \in Users : userLock[u] = s => userLock'[u] = s
  BY <1>0, EndEffect, IdleRequestType DEF SessionsInv
<1>5. ChildrenDistinct' BY <1>4, ChildrenKept
<1>6. \A s \in Requests \ {r} : RequestInv(s)' BY <1>0, <1>4, OthersKept
<1>7. RequestInv(r)' BY <1>4 DEF RequestInv, Resolved, Locked, Holding
<1> QED BY <1>1, <1>2, <1>3, <1>5, <1>6, <1>7 DEF SessionsInv

(* A request arrives.                                                       *)
LEMMA Arrives ==
    ASSUME SessionsInv, NEW r \in Requests,
           \/ \E u \in Users : Authenticate(r, u)
           \/ \E op \in {"refresh", "logout"}, t \in Tokens \union {NoToken} : Begin(r, op, t)
    PROVE  SessionsInv'
<1>0. UNCHANGED <<table, expired, active, issued, locks>> BY DEF Authenticate, Begin
<1>1. PICK q \in Request : /\ request' = [request EXCEPT ![r] = q]
                           /\ request[r].phase = "idle"
                           /\ \/ q.phase = "login" /\ q.user \in Users
                              \/ q.phase = "begin" /\ (q.token # NoToken => Committed(q.token))
  <2>1. ASSUME NEW u \in Users
        PROVE  [IdleRequest EXCEPT !.phase = "login", !.user = u] \in Request
    BY IdleRequestType DEF Request, Phases
  <2>2. ASSUME NEW op \in {"refresh", "logout"}, NEW t \in Tokens \union {NoToken}
        PROVE  [IdleRequest EXCEPT !.phase = "begin", !.op = op, !.token = t] \in Request
    BY IdleRequestType DEF Request, Phases
  <2>3. CASE \E u \in Users : Authenticate(r, u)
    BY <2>1, <2>3 DEF Authenticate, IdleRequest
  <2>4. CASE \E op \in {"refresh", "logout"}, t \in Tokens \union {NoToken} : Begin(r, op, t)
    BY <2>2, <2>4 DEF Begin, IdleRequest, Committed
  <2> QED BY <2>3, <2>4
<1>2. request' \in [Requests -> Request] /\ request'[r] = q
      /\ \A s \in Requests \ {r} : request'[s] = request[s]
  BY <1>1 DEF SessionsInv, TypeOK
<1>3. TypeOK' BY <1>0, <1>2 DEF SessionsInv, TypeOK, table, locks
<1>4. RowsInv' /\ RevocationIsTotal' BY <1>0, RowsKept
<1>5. ChildrenDistinct' BY <1>1, <1>2, ChildrenKept
<1>6. \A s \in Requests \ {r} : RequestInv(s)' BY <1>0, <1>2, OthersKept DEF locks
<1>7. RequestInv(r)'
  BY <1>0, <1>1, <1>2, NamesAssumption
     DEF RequestInv, Resolved, Locked, Holding, Committed, table
<1>8. LocksInv'
  BY <1>0, <1>1, <1>2 DEF SessionsInv, LocksInv, TypeOK, locks, Locked, Holding
<1> QED BY <1>3, <1>4, <1>5, <1>6, <1>7, <1>8 DEF SessionsInv

(* The family is resolved, then locked.                                     *)
LEMMA ResolvesFamily ==
    ASSUME SessionsInv, NEW r \in Requests, ResolveFamily(r)
    PROVE  SessionsInv'
<1> DEFINE q == [request[r] EXCEPT !.phase = "resolved", !.family = FamilyOf(request[r].token)]
<1>0. /\ request[r] \in Request /\ request[r].phase = "begin" /\ RequestInv(r)
      /\ request[r].token \in Tokens \union {NoToken}
      /\ UNCHANGED <<table, expired, active, issued, locks>>
  BY DEF ResolveFamily, SessionsInv, TypeOK, Request
<1>1. q \in Request /\ q.phase = "resolved" /\ q.token = request[r].token
      /\ q.family = FamilyOf(request[r].token)
  BY <1>0, FamilyOfType DEF SessionsInv, Request, Phases
<1>2. request' = [request EXCEPT ![r] = q] BY DEF ResolveFamily
<1> HIDE DEF q
<1>3. request' \in [Requests -> Request] /\ request'[r] = q
      /\ \A s \in Requests \ {r} : request'[s] = request[s]
  BY <1>1, <1>2 DEF SessionsInv, TypeOK
<1>4. TypeOK' BY <1>0, <1>3 DEF SessionsInv, TypeOK, table, locks
<1>5. RowsInv' /\ RevocationIsTotal' BY <1>0, RowsKept
<1>6. ChildrenDistinct' BY <1>1, <1>3, ChildrenKept
<1>7. \A s \in Requests \ {r} : RequestInv(s)' BY <1>0, <1>3, OthersKept DEF locks
<1>8. RequestInv(r)'
  BY <1>0, <1>1, <1>3 DEF RequestInv, Resolved, Locked, Holding, Committed, FamilyOf, table
<1>9. LocksInv'
  BY <1>0, <1>1, <1>3 DEF SessionsInv, LocksInv, TypeOK, locks, Locked, Holding
<1> QED BY <1>4, <1>5, <1>6, <1>7, <1>8, <1>9 DEF SessionsInv

LEMMA LocksFamily ==
    ASSUME SessionsInv, NEW r \in Requests, LockRefreshFamily(r)
    PROVE  SessionsInv'
<1> DEFINE q == [request[r] EXCEPT !.phase = "locked"]
           f == request[r].family
<1>0. /\ request[r] \in Request /\ request[r].phase = "resolved" /\ RequestInv(r)
      /\ f \in Families \union {Nobody}
      /\ UNCHANGED <<table, expired, active, issued, tokenLock, userLock>>
  BY DEF LockRefreshFamily, SessionsInv, TypeOK, Request
<1>1. q \in Request /\ q.phase = "locked" /\ q.token = request[r].token /\ q.family = f
  BY <1>0 DEF Request, Phases
<1>2. request' = [request EXCEPT ![r] = q] BY DEF LockRefreshFamily, Move
<1>3. /\ f = Nobody => familyLock' = familyLock
      /\ f # Nobody => familyLock[f] = Nobody /\ familyLock' = [familyLock EXCEPT ![f] = r]
  BY DEF LockRefreshFamily, TakeFamilyLock
<1> HIDE DEF q, f
<1>4. request' \in [Requests -> Request] /\ request'[r] = q
      /\ \A s \in Requests \ {r} : request'[s] = request[s]
  BY <1>1, <1>2 DEF SessionsInv, TypeOK
<1>5. /\ familyLock' \in [Families -> Requests \union {Nobody}]
      /\ f # Nobody => familyLock'[f] = r
      /\ \A g \in Families : g # f => familyLock'[g] = familyLock[g]
      /\ \A g \in Families : familyLock[g] # Nobody => familyLock'[g] = familyLock[g]
  BY <1>0, <1>3 DEF SessionsInv, TypeOK
<1>6. TypeOK' BY <1>0, <1>4, <1>5 DEF SessionsInv, TypeOK, table
<1>7. RowsInv' /\ RevocationIsTotal' BY <1>0, RowsKept
<1>8. ChildrenDistinct' BY <1>1, <1>4, ChildrenKept
<1>9. \A s \in Requests \ {r} : RequestInv(s)'
  <2>1. \A s \in Requests \ {r} : \A g \in Families : familyLock[g] = s => familyLock'[g] = s
    BY <1>5, NamesAssumption
  <2> QED BY <1>0, <1>4, <2>1, OthersKept
<1>10. RequestInv(r)'
  BY <1>0, <1>1, <1>4, <1>5
     DEF RequestInv, Resolved, Locked, Holding, Committed, FamilyOf, table, f
<1>11. LocksInv'
  <2>1. ASSUME NEW g \in Families, familyLock'[g] # Nobody
        PROVE  request'[familyLock'[g]].phase \in Locked /\ request'[familyLock'[g]].family = g
    <3>1. CASE g = f BY <1>1, <1>4, <1>5, <2>1, <3>1, NamesAssumption DEF Locked
    <3>2. CASE g # f
      <4>1. familyLock'[g] = familyLock[g] /\ request[familyLock[g]].phase \in Locked
            /\ request[familyLock[g]].family = g
        BY <1>5, <2>1, <3>2 DEF SessionsInv, LocksInv
      <4>2. familyLock[g] # r /\ familyLock[g] \in Requests
        BY <1>0, <2>1, <4>1 DEF SessionsInv, TypeOK, Locked
      <4> QED BY <1>4, <4>1, <4>2
    <3> QED BY <3>1, <3>2
  <2>2. ASSUME NEW t \in Tokens, tokenLock'[t] # Nobody
        PROVE  request'[tokenLock'[t]].phase \in Holding /\ request'[tokenLock'[t]].token = t
    BY <1>0, <1>4, <2>2 DEF SessionsInv, LocksInv, TypeOK, Holding
  <2>3. ASSUME NEW u \in Users, userLock'[u] # Nobody
        PROVE  request'[userLock'[u]].phase \in {"rotate", "revoke"}
    BY <1>0, <1>4, <2>3 DEF SessionsInv, LocksInv, TypeOK
  <2> QED BY <2>1, <2>2, <2>3 DEF LocksInv
<1> QED BY <1>6, <1>7, <1>8, <1>9, <1>10, <1>11 DEF SessionsInv

(* The authoritative read of the token row.                                 *)
LEMMA LocksToken ==
    ASSUME SessionsInv, NEW r \in Requests, LockToken(r)
    PROVE  SessionsInv'
<1> DEFINE t == request[r].token
           f == FamilyOf(t)
<1>0. /\ request[r] \in Request /\ request[r].phase = "locked" /\ RequestInv(r)
      /\ t \in Tokens \union {NoToken} /\ f \in Families \union {Nobody}
      /\ request[r].family = f
      /\ UNCHANGED <<table, expired, active, issued, familyLock, userLock>>
  BY FamilyOfType DEF LockToken, SessionsInv, TypeOK, Request, RequestInv, Resolved
<1>1. PICK q \in Request :
        /\ request' = [request EXCEPT ![r] = q]
        /\ q.token = t /\ q.family = f /\ q.phase \in {"invalid", "revoke", "user"}
        /\ q.phase = "invalid" => f = Nobody /\ UNCHANGED tokenLock
        /\ q.phase # "invalid" => /\ f # Nobody /\ tokenLock[t] = Nobody
                                  /\ tokenLock' = [tokenLock EXCEPT ![t] = r]
        /\ q.phase = "revoke" => q.targets = RevokeTargets(f)
        /\ q.phase = "user" => ~Replayed(t)
  <2>1. RevokeTargets(f) \in SUBSET Tokens BY DEF RevokeTargets
  <2>2. CASE f = Nobody /\ Move(r, "invalid") /\ UNCHANGED tokenLock
    <3>1. [request[r] EXCEPT !.phase = "invalid"] \in Request BY <1>0 DEF Request, Phases
    <3> QED BY <1>0, <2>2, <3>1 DEF Move, Request
  <2>3. CASE /\ f # Nobody /\ tokenLock[t] = Nobody /\ tokenLock' = [tokenLock EXCEPT ![t] = r]
             /\ request' = [request EXCEPT ![r].phase = "revoke", ![r].targets = RevokeTargets(f)]
    <3> DEFINE q == [request[r] EXCEPT !.phase = "revoke", !.targets = RevokeTargets(f)]
    <3>1. q \in Request /\ q.phase = "revoke" /\ q.targets = RevokeTargets(f) /\ q.token = t
          /\ q.family = f
      BY <1>0, <2>1 DEF Request, Phases
    <3>2. request' = [request EXCEPT ![r] = q] BY <2>3
    <3> HIDE DEF q
    <3> QED BY <2>3, <3>1, <3>2
  <2>4. CASE /\ f # Nobody /\ tokenLock[t] = Nobody /\ tokenLock' = [tokenLock EXCEPT ![t] = r]
             /\ Move(r, "user") /\ ~Replayed(t)
    <3>1. [request[r] EXCEPT !.phase = "user"] \in Request BY <1>0 DEF Request, Phases
    <3> QED BY <1>0, <2>4, <3>1 DEF Move, Request
  <2> QED BY <2>2, <2>3, <2>4 DEF LockToken
<1>2. request' \in [Requests -> Request] /\ request'[r] = q
      /\ \A s \in Requests \ {r} : request'[s] = request[s]
  BY <1>1 DEF SessionsInv, TypeOK
<1>3. q.phase # "invalid" => t \in Tokens /\ t # NoToken
  BY <1>0, <1>1, NamesAssumption DEF FamilyOf
<1>4. /\ tokenLock' \in [Tokens -> Requests \union {Nobody}]
      /\ q.phase # "invalid" => tokenLock'[t] = r
      /\ \A x \in Tokens : tokenLock'[x] # tokenLock[x] => x = t /\ q.phase # "invalid"
  BY <1>1, <1>3 DEF SessionsInv, TypeOK
<1>5. TypeOK' BY <1>0, <1>2, <1>4 DEF SessionsInv, TypeOK, table
<1>6. RowsInv' /\ RevocationIsTotal' BY <1>0, RowsKept
<1>7. ChildrenDistinct' BY <1>1, <1>2, ChildrenKept
<1>8. \A s \in Requests \ {r} : RequestInv(s)' BY <1>0, <1>2, OthersKept
<1>9. RequestInv(r)'
  <2>1. FamilyOf(q.token)' = q.family /\ RevokeTargets(q.family)' = RevokeTargets(q.family)
        /\ (q.token # NoToken => Committed(q.token)')
    BY <1>0, <1>1 DEF FamilyOf, RevokeTargets, table, RequestInv, Resolved, Committed
  <2>2. q.family # Nobody => familyLock'[q.family] = r BY <1>0, <1>1 DEF RequestInv, Locked
  <2>3. q.phase = "user" => q.token \notin used' \union revoked'
    BY <1>0, <1>1 DEF Replayed, table
  <2>4. q.phase # "invalid" => q.token # NoToken BY <1>1, <1>3
  <2>5. q.phase \in {"invalid", "revoke", "user"}
        /\ (q.phase = "revoke" => q.targets = RevokeTargets(q.family))
    BY <1>1
  <2> QED BY <1>2, <2>1, <2>2, <2>3, <2>4, <2>5 DEF RequestInv, Resolved, Locked, Holding
<1>10. LocksInv'
  <2>1. ASSUME NEW g \in Families, familyLock'[g] # Nobody
        PROVE  request'[familyLock'[g]].phase \in Locked /\ request'[familyLock'[g]].family = g
    <3>1. familyLock'[g] = familyLock[g] /\ request[familyLock[g]].phase \in Locked
          /\ request[familyLock[g]].family = g /\ familyLock[g] \in Requests
      BY <1>0, <2>1 DEF SessionsInv, LocksInv, TypeOK
    <3>2. CASE familyLock[g] = r BY <1>0, <1>1, <1>2, <3>1, <3>2, NamesAssumption DEF Locked
    <3>3. CASE familyLock[g] # r BY <1>2, <3>1, <3>3
    <3> QED BY <3>2, <3>3
  <2>2. ASSUME NEW x \in Tokens, tokenLock'[x] # Nobody
        PROVE  request'[tokenLock'[x]].phase \in Holding /\ request'[tokenLock'[x]].token = x
    <3>1. CASE tokenLock'[x] = tokenLock[x]
      <4>1. tokenLock[x] # r /\ tokenLock[x] \in Requests
        BY <1>0, <2>2, <3>1 DEF SessionsInv, LocksInv, TypeOK, Holding
      <4> QED BY <1>2, <2>2, <3>1, <4>1 DEF SessionsInv, LocksInv
    <3>2. CASE tokenLock'[x] # tokenLock[x]
      <4>1. x = t /\ q.phase # "invalid" /\ tokenLock'[x] = r BY <1>4, <3>2
      <4> QED BY <1>1, <1>2, <4>1 DEF Holding
    <3> QED BY <3>1, <3>2
  <2>3. ASSUME NEW u \in Users, userLock'[u] # Nobody
        PROVE  request'[userLock'[u]].phase \in {"rotate", "revoke"}
    BY <1>0, <1>2, <2>3 DEF SessionsInv, LocksInv, TypeOK
  <2> QED BY <2>1, <2>2, <2>3 DEF LocksInv
<1> QED BY <1>5, <1>6, <1>7, <1>8, <1>9, <1>10 DEF SessionsInv

(* The user row is locked; a new token is generated for an active account.  *)
LEMMA ChecksUser ==
    ASSUME SessionsInv, NEW r \in Requests, CheckUser(r)
    PROVE  SessionsInv'
<1> DEFINE t == request[r].token
           f == FamilyOf(t)
           u == owner[f]
<1>0. /\ request[r] \in Request /\ request[r].phase = "user" /\ RequestInv(r)
      /\ t \in Tokens /\ t # NoToken /\ f \in Families /\ f # Nobody /\ f = family[t]
      /\ request[r].family = f /\ familyLock[f] = r /\ t \notin used \union revoked
      /\ UNCHANGED <<table, expired, active, familyLock, tokenLock>>
  <2>1. request[r] \in Request /\ request[r].phase = "user" /\ RequestInv(r)
        /\ t \in Tokens \union {NoToken}
    BY DEF CheckUser, SessionsInv, TypeOK, Request
  <2>2. t \in Tokens /\ t # NoToken /\ Committed(t) /\ request[r].family = f
    BY <2>1 DEF RequestInv, Resolved, Holding
  <2>3. f = family[t] /\ f \in Families /\ f # Nobody
    BY <2>2 DEF FamilyOf, Committed, SessionsInv, TypeOK
  <2> QED BY <2>1, <2>2, <2>3, NamesAssumption DEF RequestInv, Locked, CheckUser
<1>1. u \in Users /\ userLock[u] = Nobody /\ userLock' = [userLock EXCEPT ![u] = r]
  <2>1. u # Nobody BY <1>0 DEF SessionsInv, RowsInv, Committed
  <2> QED BY <1>0, <2>1 DEF CheckUser, LockUser, SessionsInv, TypeOK
<1>2. PICK q \in Request :
        /\ request' = [request EXCEPT ![r] = q] /\ q.token = t /\ q.family = f
        /\ \/ /\ q.phase = "rotate" /\ u \in active
              /\ q.child \in Tokens \ issued /\ issued' = issued \union {q.child}
           \/ /\ q.phase = "revoke" /\ q.targets = RevokeTargets(f) /\ UNCHANGED issued
  <2>1. CASE u \in active
    <3>1. PICK c \in Tokens \ issued :
            /\ issued' = issued \union {c}
            /\ request' = [request EXCEPT ![r].phase = "rotate", ![r].child = c]
      BY <2>1 DEF CheckUser
    <3> DEFINE q == [request[r] EXCEPT !.phase = "rotate", !.child = c]
    <3>2. q \in Request /\ q.phase = "rotate" /\ q.child = c /\ q.token = t /\ q.family = f
      BY <1>0 DEF Request, Phases
    <3>3. request' = [request EXCEPT ![r] = q] BY <3>1
    <3> HIDE DEF q
    <3> QED BY <2>1, <3>1, <3>2, <3>3
  <2>2. CASE u \notin active
    <3> DEFINE q == [request[r] EXCEPT !.phase = "revoke", !.targets = RevokeTargets(f)]
    <3>1. RevokeTargets(f) \in SUBSET Tokens BY DEF RevokeTargets
    <3>2. q \in Request /\ q.phase = "revoke" /\ q.targets = RevokeTargets(f) /\ q.token = t
          /\ q.family = f
      BY <1>0, <3>1 DEF Request, Phases
    <3>3. request' = [request EXCEPT ![r] = q] /\ UNCHANGED issued BY <2>2 DEF CheckUser
    <3> HIDE DEF q
    <3> QED BY <3>2, <3>3
  <2> QED BY <2>1, <2>2
<1>3. request' \in [Requests -> Request] /\ request'[r] = q
      /\ \A s \in Requests \ {r} : request'[s] = request[s]
  BY <1>2 DEF SessionsInv, TypeOK
<1>4. /\ userLock' \in [Users -> Requests \union {Nobody}] /\ userLock'[u] = r
      /\ \A v \in Users : v # u => userLock'[v] = userLock[v]
  BY <1>1 DEF SessionsInv, TypeOK
<1>5. issued \subseteq issued' /\ issued' \in SUBSET Tokens BY <1>2 DEF SessionsInv, TypeOK
<1>6. TypeOK' BY <1>0, <1>3, <1>4, <1>5 DEF SessionsInv, TypeOK, table
<1>7. RowsInv' /\ RevocationIsTotal' BY <1>0, <1>5, RowsKept
<1>8. \A s \in Requests \ {r} : RequestInv(s)'
  <2>1. \A s \in Requests \ {r} : \A v \in Users : userLock[v] = s => userLock'[v] = s
    BY <1>1, <1>4, NamesAssumption
  <2>2. \A s \in Requests \ {r} : \A g \in Families : familyLock[g] = s => familyLock'[g] = s
    BY <1>0
  <2> QED BY <1>0, <1>3, <1>5, <2>1, <2>2, OthersKept
<1>9. ChildrenDistinct'
  <2>1. \A s \in Requests \ {r} : request[s].phase = "rotate" => request[s].child \in issued
    BY DEF SessionsInv, RequestInv
  <2>2. q.phase = "rotate" => q.child \notin issued BY <1>2
  <2> QED BY <1>3, <2>1, <2>2 DEF SessionsInv, ChildrenDistinct
<1>10. RequestInv(r)'
  <2>1. FamilyOf(q.token)' = q.family /\ RevokeTargets(q.family)' = RevokeTargets(q.family)
        /\ Committed(q.token)' /\ q.token # NoToken
    BY <1>0, <1>2, NamesAssumption DEF FamilyOf, RevokeTargets, table, Committed
  <2>2. familyLock'[q.family] = r /\ q.token \notin used' \union revoked'
    BY <1>0, <1>2 DEF table
  <2>3. q.phase = "rotate" =>
          /\ q.child \in issued' /\ ~Committed(q.child)'
          /\ userLock'[owner'[q.family]] = r /\ owner'[q.family] \in active'
    BY <1>0, <1>2, <1>4 DEF SessionsInv, RowsInv, Committed, table
  <2>4. q.phase \in {"rotate", "revoke"}
        /\ (q.phase = "revoke" => q.targets = RevokeTargets(q.family))
    BY <1>2
  <2> QED BY <1>3, <2>1, <2>2, <2>3, <2>4 DEF RequestInv, Resolved, Locked, Holding
<1>11. LocksInv'
  <2>0. q.phase \in {"rotate", "revoke"} /\ q.family = request[r].family
        /\ q.token = request[r].token
    BY <1>0, <1>2
  <2>1. ASSUME NEW g \in Families, familyLock'[g] # Nobody
        PROVE  request'[familyLock'[g]].phase \in Locked /\ request'[familyLock'[g]].family = g
    <3>1. familyLock'[g] = familyLock[g] /\ request[familyLock[g]].phase \in Locked
          /\ request[familyLock[g]].family = g /\ familyLock[g] \in Requests
      BY <1>0, <2>1 DEF SessionsInv, LocksInv, TypeOK
    <3> QED BY <1>3, <2>0, <3>1 DEF Locked
  <2>2. ASSUME NEW x \in Tokens, tokenLock'[x] # Nobody
        PROVE  request'[tokenLock'[x]].phase \in Holding /\ request'[tokenLock'[x]].token = x
    <3>1. tokenLock'[x] = tokenLock[x] /\ request[tokenLock[x]].phase \in Holding
          /\ request[tokenLock[x]].token = x /\ tokenLock[x] \in Requests
      BY <1>0, <2>2 DEF SessionsInv, LocksInv, TypeOK
    <3> QED BY <1>3, <2>0, <3>1 DEF Holding
  <2>3. ASSUME NEW v \in Users, userLock'[v] # Nobody
        PROVE  request'[userLock'[v]].phase \in {"rotate", "revoke"}
    <3>1. CASE v = u BY <1>3, <1>4, <2>0, <3>1
    <3>2. CASE v # u
      BY <1>3, <1>4, <2>0, <2>3, <3>2 DEF SessionsInv, LocksInv, TypeOK
    <3> QED BY <3>1, <3>2
  <2> QED BY <2>1, <2>2, <2>3 DEF LocksInv
<1> QED BY <1>6, <1>7, <1>8, <1>9, <1>10, <1>11 DEF SessionsInv

(* Time and the operator change no request and no row; an account whose row *)
(* a rotation holds is not disabled.                                        *)
LEMMA TimePasses ==
    ASSUME SessionsInv, (\E t \in Tokens : Expire(t)) \/ (\E u \in Users : DisableUser(u))
    PROVE  SessionsInv'
<1>0. UNCHANGED <<table, issued, locks, request>> BY DEF Expire, DisableUser
<1>1. /\ expired' \in SUBSET Tokens /\ active' \in SUBSET Users
      /\ \A u \in active \ active' : u \in Users /\ userLock[u] = Nobody
  BY DEF Expire, DisableUser, SessionsInv, TypeOK
<1>2. TypeOK' BY <1>0, <1>1 DEF SessionsInv, TypeOK, table, locks
<1>3. RowsInv' /\ RevocationIsTotal' BY <1>0, RowsKept
<1>4. LocksInv' /\ ChildrenDistinct'
  BY <1>0 DEF SessionsInv, LocksInv, ChildrenDistinct, locks
<1>5. ASSUME NEW s \in Requests PROVE RequestInv(s)'
  <2>1. request[s].phase = "rotate" =>
          request[s].child \in issued' /\ owner[request[s].family] \in active'
    BY <1>0, <1>1, NamesAssumption DEF SessionsInv, RequestInv
  <2>2. Undisturbed(s) BY <1>0, <2>1 DEF Undisturbed, table, locks
  <2> QED BY <2>2, UndisturbedKeeps
<1> QED BY <1>2, <1>3, <1>4, <1>5 DEF SessionsInv

-----------------------------------------------------------------------------
(* What the three writing commits do to the rows.                           *)

(* A login writes the only token of a family nobody has.                    *)
LEMMA IssueEffect ==
    ASSUME SessionsInv, NEW r \in Requests, NEW f \in Families, NEW t \in Tokens,
           IssueTokens(r, f, t)
    PROVE  /\ ~Committed(t) /\ t \notin used \union revoked
           /\ Members(f) = {} /\ Members(f)' = {t} /\ Live(f)' = {t}
           /\ \A g \in Families \ {f} : Members(g)' = Members(g) /\ Live(g)' = Live(g)
           /\ \A x \in Tokens : x # t => family'[x] = family[x]
           /\ family'[t] = f /\ owner'[f] = request[r].user /\ owner'[f] \in Users
           /\ \A g \in Families \ {f} : owner'[g] = owner[g]
<1>1. ~Committed(t) /\ t \notin used \union revoked
  BY DEF IssueTokens, SessionsInv, RowsInv
<1>2. Members(f) = {}
  BY NamesAssumption DEF IssueTokens, SessionsInv, RowsInv, Members, Committed
<1>3. family' = [family EXCEPT ![t] = f] /\ used' = used /\ revoked' = revoked
      /\ owner' = [owner EXCEPT ![f] = request[r].user]
  BY DEF IssueTokens
<1>4. family'[t] = f /\ \A x \in Tokens : x # t => family'[x] = family[x]
  BY <1>3 DEF SessionsInv, TypeOK
<1>5. Members(f)' = {t} BY <1>2, <1>4 DEF Members
<1>6. Live(f)' = {t} BY <1>1, <1>3, <1>5 DEF Live
<1>7. ASSUME NEW g \in Families \ {f} PROVE Members(g)' = Members(g) /\ Live(g)' = Live(g)
  <2>1. family[t] # g BY <1>1, NamesAssumption DEF Committed
  <2>2. Members(g)' = Members(g) BY <1>4, <2>1 DEF Members
  <2> QED BY <1>3, <2>2 DEF Live
<1>8. request[r].user \in Users
  BY DEF IssueTokens, SessionsInv, RequestInv, TypeOK, Request
<1>9. owner'[f] = request[r].user /\ \A g \in Families \ {f} : owner'[g] = owner[g]
  BY <1>3 DEF SessionsInv, TypeOK
<1> QED BY <1>1, <1>2, <1>4, <1>5, <1>6, <1>7, <1>8, <1>9

(* A rotation exchanges the live token of its family for its child.         *)
LEMMA RotationEffect ==
    ASSUME SessionsInv, NEW r \in Requests, CommitRotation(r)
    PROVE  \E f \in Families, t, c \in Tokens :
              /\ f = request[r].family /\ t = request[r].token /\ c = request[r].child
              /\ familyLock[f] = r /\ owner[f] \in active
              /\ family[t] = f /\ Live(f) = {t}
              /\ c \in issued /\ ~Committed(c) /\ family'[c] = f /\ c \notin used \union revoked
              /\ Members(f) \intersect revoked = {}
              /\ Members(f)' = Members(f) \union {c} /\ Live(f)' = {c}
              /\ used' = used \union {t} /\ revoked' = revoked
              /\ \A x \in Tokens : x # c => family'[x] = family[x]
              /\ \A g \in Families \ {f} : Members(g)' = Members(g) /\ Live(g)' = Live(g)
<1>1. /\ RequestInv(r) /\ request[r].phase = "rotate"
      /\ request[r].token \in Tokens \union {NoToken}
      /\ request[r].child \in Tokens \union {NoToken}
  BY DEF CommitRotation, SessionsInv, TypeOK, Request
<1>2. PICK f, t, c : f = request[r].family /\ t = request[r].token /\ c = request[r].child
  OBVIOUS
<1>3. /\ t \in Tokens /\ t # NoToken /\ Committed(t) /\ f = FamilyOf(t)
      /\ t \notin used \union revoked /\ c \in issued /\ ~Committed(c) /\ owner[f] \in active
  BY <1>1, <1>2 DEF RequestInv, Resolved, Holding
<1>4. f = family[t] /\ f \in Families /\ c \in Tokens
  BY <1>3, NamesAssumption DEF FamilyOf, Committed, SessionsInv, TypeOK
<1>5. familyLock[f] = r BY <1>1, <1>2, <1>4, NamesAssumption DEF RequestInv, Locked
<1>6. t \in Live(f) /\ Live(f) = {t} BY <1>3, <1>4 DEF Live, Members, SessionsInv, RowsInv
<1>7. Members(f) \intersect revoked = {} BY <1>4, <1>6 DEF SessionsInv, RevocationIsTotal
<1>8. c \notin used \union revoked BY <1>3 DEF SessionsInv, RowsInv
<1>9. family' = [family EXCEPT ![c] = f] /\ used' = used \union {t} /\ revoked' = revoked
  BY <1>2, <1>4 DEF CommitRotation
<1>10. family'[c] = f /\ \A x \in Tokens : x # c => family'[x] = family[x]
  BY <1>4, <1>9 DEF SessionsInv, TypeOK
<1>11. Members(f)' = Members(f) \union {c} BY <1>4, <1>10 DEF Members
<1>12. Live(f)' = {c}
  <2>1. c # t BY <1>3
  <2>2. Members(f) \ (used \union revoked) = {t} BY <1>6 DEF Live
  <2> QED BY <1>8, <1>9, <1>11, <2>1, <2>2 DEF Live
<1>13. ASSUME NEW g \in Families \ {f} PROVE Members(g)' = Members(g) /\ Live(g)' = Live(g)
  <2>1. \A x \in Tokens : family'[x] = g <=> family[x] = g
    BY <1>3, <1>10, NamesAssumption DEF Committed
  <2>2. Members(g)' = Members(g) BY <2>1 DEF Members
  <2>3. t \notin Members(g) BY <1>4 DEF Members
  <2> QED BY <1>9, <2>2, <2>3 DEF Live
<1> QED
  BY <1>2, <1>3, <1>4, <1>5, <1>6, <1>7, <1>8, <1>9, <1>10, <1>11, <1>12, <1>13

(* A revocation ends every token of its family, also one that became live   *)
(* after the request began, and touches no other family.                    *)
LEMMA RevocationEffect ==
    ASSUME SessionsInv, NEW r \in Requests, CommitRevocation(r)
    PROVE  \E f \in Families :
              /\ f = request[r].family /\ familyLock[f] = r
              /\ revoked' = revoked \union Members(f) /\ Members(f) # {}
              /\ owner[f] # Nobody /\ Live(f)' = {}
              /\ \A g \in Families : Members(g)' = Members(g)
              /\ \A g \in Families \ {f} : /\ Live(g)' = Live(g)
                                           /\ Members(g) \intersect Members(f) = {}
<1>1. /\ RequestInv(r) /\ request[r].phase = "revoke"
      /\ request[r].token \in Tokens \union {NoToken}
  BY DEF CommitRevocation, SessionsInv, TypeOK, Request
<1>2. PICK f, t : f = request[r].family /\ t = request[r].token OBVIOUS
<1>3. /\ t \in Tokens /\ t # NoToken /\ Committed(t) /\ f = FamilyOf(t)
      /\ request[r].targets = RevokeTargets(f)
  BY <1>1, <1>2 DEF RequestInv, Resolved, Holding
<1>4. f = family[t] /\ f \in Families /\ owner[f] # Nobody
  BY <1>3, NamesAssumption DEF FamilyOf, Committed, SessionsInv, TypeOK, RowsInv
<1>5. familyLock[f] = r BY <1>1, <1>2, <1>4, NamesAssumption DEF RequestInv, Locked
<1>6. t \in Members(f) BY <1>3, <1>4 DEF Members
<1>7. revoked' = revoked \union Members(f) /\ family' = family /\ used' = used
  BY <1>3 DEF CommitRevocation, RevokeTargets, Members
<1>8. \A g \in Families : Members(g)' = Members(g) BY <1>7 DEF Members
<1>9. Live(f)' = {} BY <1>4, <1>7, <1>8 DEF Live
<1>10. ASSUME NEW g \in Families \ {f}
       PROVE  Live(g)' = Live(g) /\ Members(g) \intersect Members(f) = {}
  <2>1. Members(g) \intersect Members(f) = {} BY DEF Members
  <2> QED BY <1>7, <1>8, <2>1 DEF Live
<1> QED BY <1>2, <1>4, <1>5, <1>6, <1>7, <1>8, <1>9, <1>10

(* After a commit that writes the rows of one family, the requests that     *)
(* hold another family, or none yet, know what they knew.                   *)
LEMMA OtherFamiliesKept ==
    ASSUME SessionsInv, NEW r \in Requests, End(r), NEW f \in Families,
           familyLock[f] = r \/ owner[f] = Nobody,
           UNCHANGED active, issued \subseteq issued',
           \A g \in Families \ {f} : owner'[g] = owner[g],
           \A x \in Tokens : Committed(x) => family'[x] = family[x],
           \A x \in Tokens : ~Committed(x) => family'[x] \in {Nobody, f},
           \A x \in Tokens : family[x] # f /\ Committed(x) =>
              (x \in used' <=> x \in used) /\ (x \in revoked' <=> x \in revoked),
           \A s \in Requests \ {r} : request[s].phase = "rotate" =>
              family'[request[s].child] = family[request[s].child]
    PROVE  \A s \in Requests : RequestInv(s)'
<1>1. RequestInv(r)'
  BY EndEffect, IdleRequestType DEF SessionsInv, RequestInv, Resolved, Locked, Holding
<1>2. ASSUME NEW s \in Requests \ {r} PROVE RequestInv(s)'
  <2> DEFINE q == request[s]
  <2>0. /\ q \in Request /\ RequestInv(s) /\ q.family \in Families \union {Nobody}
        /\ request'[s] = q /\ q.token \in Tokens \union {NoToken}
    BY EndEffect DEF SessionsInv, TypeOK, Request
  <2>1. q.phase \in Locked /\ q.family # Nobody =>
          /\ q.family \in Families \ {f} /\ familyLock[q.family] = s
          /\ familyLock'[q.family] = familyLock[q.family]
    <3> SUFFICES ASSUME q.phase \in Locked, q.family # Nobody
                 PROVE  /\ q.family \in Families \ {f} /\ familyLock[q.family] = s
                        /\ familyLock'[q.family] = familyLock[q.family]
      OBVIOUS
    <3>1. q.family \in Families /\ familyLock[q.family] = s BY <2>0 DEF RequestInv
    <3>2. q.token # NoToken /\ q.token \in Tokens /\ Committed(q.token) /\ q.family = family[q.token]
      BY <2>0 DEF RequestInv, Locked, Resolved, FamilyOf
    <3>3. owner[q.family] # Nobody BY <3>2 DEF SessionsInv, RowsInv
    <3> QED BY <3>1, <3>3, EndEffect DEF SessionsInv
  <2>2. q.phase = "rotate" =>
          /\ q.child \in issued' /\ family'[q.child] = family[q.child]
          /\ userLock'[owner[q.family]] = userLock[owner[q.family]]
          /\ owner[q.family] \in active'
    BY <2>0, EndEffect DEF RequestInv, SessionsInv, TypeOK
  <2>3. ASSUME q.phase \in Locked, q.family # Nobody, NEW t \in Tokens
        PROVE  /\ family[t] = q.family =>
                    (t \in used' <=> t \in used) /\ (t \in revoked' <=> t \in revoked)
               /\ family'[t] = q.family => family[t] = q.family
    <3>1. q.family # f BY <2>1, <2>3
    <3>2. CASE Committed(t) BY <2>3, <3>1, <3>2
    <3>3. CASE ~Committed(t) BY <2>3, <3>1, <3>3 DEF Committed
    <3> QED BY <3>2, <3>3
  <2>4. Undisturbed(s) BY <2>0, <2>1, <2>2, <2>3 DEF Undisturbed
  <2> QED BY <2>4, UndisturbedKeeps
<1> QED BY <1>1, <1>2

(* New tokens stay distinct when a transaction ends.                        *)
LEMMA EndChildren ==
    ASSUME SessionsInv, NEW r \in Requests, End(r)
    PROVE  ChildrenDistinct'
BY EndEffect, IdleRequestType, ChildrenKept DEF SessionsInv

LEMMA Issues ==
    ASSUME SessionsInv, NEW r \in Requests, NEW f \in Families, NEW t \in Tokens,
           IssueTokens(r, f, t)
    PROVE  SessionsInv'
<1>0. /\ End(r) /\ owner[f] = Nobody /\ t \notin issued /\ issued' = issued \union {t}
      /\ UNCHANGED <<used, revoked, expired, active>>
      /\ family' = [family EXCEPT ![t] = f] /\ owner' = [owner EXCEPT ![f] = request[r].user]
  BY DEF IssueTokens
<1>1. TypeOK' BY <1>0, IssueEffect, EndEffect DEF SessionsInv, TypeOK
<1>2. LocksInv' /\ ChildrenDistinct' BY <1>0, EndLocks, EndChildren DEF SessionsInv
<1>3. RevocationIsTotal'
  BY <1>0, IssueEffect DEF SessionsInv, RevocationIsTotal
<1>4. RowsInv'
  <2>1. ASSUME NEW x \in Tokens, Committed(x)' PROVE x \in issued' /\ owner'[family'[x]] # Nobody
    <3>1. CASE x = t BY <1>0, <3>1, IssueEffect, NamesAssumption
    <3>2. CASE x # t
      <4>1. Committed(x) /\ family'[x] = family[x] BY <2>1, <3>2, IssueEffect DEF Committed
      <4>2. x \in issued /\ owner[family[x]] # Nobody BY <4>1 DEF SessionsInv, RowsInv
      <4>3. family[x] \in Families \ {f} BY <1>0, <4>1, <4>2 DEF Committed, SessionsInv, TypeOK
      <4> QED BY <1>0, <4>1, <4>2, <4>3, IssueEffect
    <3> QED BY <3>1, <3>2
  <2>2. \A x \in used' \union revoked' : Committed(x)'
    BY <1>0, IssueEffect DEF SessionsInv, RowsInv, TypeOK, Committed
  <2>3. ASSUME NEW g \in Families
        PROVE  /\ \A x, y \in Live(g)' : x = y
               /\ owner'[g] # Nobody /\ Members(g)' \intersect revoked' = {} => Live(g)' # {}
    <3>1. CASE g = f BY <3>1, IssueEffect
    <3>2. CASE g # f BY <1>0, <3>2, IssueEffect DEF SessionsInv, RowsInv
    <3> QED BY <3>1, <3>2
  <2> QED BY <2>1, <2>2, <2>3 DEF RowsInv
<1>5. \A s \in Requests : RequestInv(s)'
  <2>1. \A s \in Requests \ {r} : request[s].phase = "rotate" => request[s].child \in issued \ {t}
    BY <1>0 DEF SessionsInv, RequestInv
  <2>2. \A s \in Requests \ {r} : request[s].phase = "rotate" =>
          family'[request[s].child] = family[request[s].child]
    BY <2>1, IssueEffect DEF SessionsInv, TypeOK
  <2>3. \A x \in Tokens : /\ Committed(x) => family'[x] = family[x]
                          /\ ~Committed(x) => family'[x] \in {Nobody, f}
    BY IssueEffect DEF Committed
  <2> QED BY <1>0, <2>2, <2>3, IssueEffect, OtherFamiliesKept
<1> QED BY <1>1, <1>2, <1>3, <1>4, <1>5 DEF SessionsInv

LEMMA Rotates ==
    ASSUME SessionsInv, NEW r \in Requests, CommitRotation(r)
    PROVE  SessionsInv'
<1>0. End(r) /\ UNCHANGED <<revoked, owner, expired, active, issued>> BY DEF CommitRotation
<1>1. PICK f \in Families, t \in Tokens, c \in Tokens :
              /\ f = request[r].family /\ t = request[r].token /\ c = request[r].child
              /\ familyLock[f] = r /\ owner[f] \in active
              /\ family[t] = f /\ Live(f) = {t}
              /\ c \in issued /\ ~Committed(c) /\ family'[c] = f /\ c \notin used \union revoked
              /\ Members(f) \intersect revoked = {}
              /\ Members(f)' = Members(f) \union {c} /\ Live(f)' = {c}
              /\ used' = used \union {t} /\ revoked' = revoked
              /\ \A x \in Tokens : x # c => family'[x] = family[x]
              /\ \A g \in Families \ {f} : Members(g)' = Members(g) /\ Live(g)' = Live(g)
  BY RotationEffect
<1>2. family' \in [Tokens -> Families \union {Nobody}]
  BY <1>1 DEF CommitRotation, SessionsInv, TypeOK
<1>3. TypeOK' BY <1>0, <1>1, <1>2, EndEffect DEF SessionsInv, TypeOK
<1>4. LocksInv' /\ ChildrenDistinct' BY <1>0, EndLocks, EndChildren DEF SessionsInv
<1>5. RevocationIsTotal'
  <2> SUFFICES ASSUME NEW g \in Families, Members(g)' \intersect revoked' # {} PROVE Live(g)' = {}
    BY DEF RevocationIsTotal
  <2>1. g # f BY <1>1
  <2> QED BY <1>1, <2>1 DEF SessionsInv, RevocationIsTotal
<1>6. RowsInv'
  <2>1. ASSUME NEW x \in Tokens, Committed(x)' PROVE x \in issued' /\ owner'[family'[x]] # Nobody
    <3>1. CASE x = c BY <1>0, <1>1, <3>1, NamesAssumption DEF SessionsInv, TypeOK
    <3>2. CASE x # c
      BY <1>0, <1>1, <2>1, <3>2 DEF Committed, SessionsInv, RowsInv
    <3> QED BY <3>1, <3>2
  <2>2. ASSUME NEW x \in used' \union revoked' PROVE Committed(x)'
    <3>1. x \in Tokens /\ Committed(x) /\ x # c
      BY <1>1, NamesAssumption DEF SessionsInv, RowsInv, TypeOK, Committed
    <3> QED BY <1>1, <3>1 DEF Committed
  <2>3. ASSUME NEW g \in Families
        PROVE  /\ \A x, y \in Live(g)' : x = y
               /\ owner'[g] # Nobody /\ Members(g)' \intersect revoked' = {} => Live(g)' # {}
    <3>1. CASE g = f BY <1>1, <3>1
    <3>2. CASE g # f BY <1>0, <1>1, <3>2 DEF SessionsInv, RowsInv
    <3> QED BY <3>1, <3>2
  <2> QED BY <2>1, <2>2, <2>3 DEF RowsInv
<1>7. \A s \in Requests : RequestInv(s)'
  <2>1. \A s \in Requests \ {r} : request[s].phase = "rotate" =>
          /\ request[s].child \in Tokens /\ request[s].child # c
    BY <1>1 DEF SessionsInv, RequestInv, ChildrenDistinct, TypeOK, CommitRotation
  <2>2. \A s \in Requests \ {r} : request[s].phase = "rotate" =>
          family'[request[s].child] = family[request[s].child]
    BY <1>1, <2>1
  <2>3. \A x \in Tokens : /\ Committed(x) => family'[x] = family[x]
                          /\ ~Committed(x) => family'[x] \in {Nobody, f}
    BY <1>1 DEF Committed
  <2>4. \A x \in Tokens : family[x] # f /\ Committed(x) =>
              (x \in used' <=> x \in used) /\ (x \in revoked' <=> x \in revoked)
    BY <1>1
  <2> QED BY <1>0, <1>1, <2>2, <2>3, <2>4, OtherFamiliesKept
<1> QED BY <1>3, <1>4, <1>5, <1>6, <1>7 DEF SessionsInv

LEMMA Revokes ==
    ASSUME SessionsInv, NEW r \in Requests, CommitRevocation(r)
    PROVE  SessionsInv'
<1>0. End(r) /\ UNCHANGED <<family, used, owner, expired, active, issued>>
  BY DEF CommitRevocation
<1>1. PICK f \in Families :
              /\ f = request[r].family /\ familyLock[f] = r
              /\ revoked' = revoked \union Members(f) /\ Members(f) # {}
              /\ owner[f] # Nobody /\ Live(f)' = {}
              /\ \A g \in Families : Members(g)' = Members(g)
              /\ \A g \in Families \ {f} : /\ Live(g)' = Live(g)
                                           /\ Members(g) \intersect Members(f) = {}
  BY RevocationEffect
<1>2. TypeOK' BY <1>0, <1>1, EndEffect DEF SessionsInv, TypeOK, Members
<1>3. LocksInv' /\ ChildrenDistinct' BY <1>0, EndLocks, EndChildren DEF SessionsInv
<1>4. \A g \in Families \ {f} : Members(g)' \intersect revoked' = Members(g) \intersect revoked
  BY <1>1
<1>5. RevocationIsTotal' BY <1>1, <1>4 DEF SessionsInv, RevocationIsTotal
<1>6. RowsInv'
  <2>1. \A x \in Tokens : Committed(x)' => x \in issued' /\ owner'[family'[x]] # Nobody
    BY <1>0 DEF Committed, SessionsInv, RowsInv
  <2>2. \A x \in used' \union revoked' : Committed(x)'
    BY <1>0, <1>1, NamesAssumption DEF SessionsInv, RowsInv, Committed, Members
  <2>3. ASSUME NEW g \in Families
        PROVE  /\ \A x, y \in Live(g)' : x = y
               /\ owner'[g] # Nobody /\ Members(g)' \intersect revoked' = {} => Live(g)' # {}
    <3>1. CASE g = f BY <1>1, <3>1
    <3>2. CASE g # f BY <1>0, <1>1, <1>4, <3>2 DEF SessionsInv, RowsInv
    <3> QED BY <3>1, <3>2
  <2> QED BY <2>1, <2>2, <2>3 DEF RowsInv
<1>7. \A s \in Requests : RequestInv(s)'
  <2>1. \A x \in Tokens : family[x] # f /\ Committed(x) =>
              (x \in used' <=> x \in used) /\ (x \in revoked' <=> x \in revoked)
    BY <1>0, <1>1 DEF Members
  <2>2. \A x \in Tokens : ~Committed(x) => family'[x] \in {Nobody, f} BY <1>0 DEF Committed
  <2> QED BY <1>0, <1>1, <2>1, <2>2, OtherFamiliesKept
<1> QED BY <1>2, <1>3, <1>5, <1>6, <1>7 DEF SessionsInv

-----------------------------------------------------------------------------
LEMMA SessionsInit == Init => SessionsInv
<1> SUFFICES ASSUME Init PROVE SessionsInv OBVIOUS
<1>1. TypeOK BY IdleRequestType DEF Init, TypeOK
<1>2. \A f \in Families : Members(f) = {} BY NamesAssumption DEF Init, Members
<1>3. RowsInv BY <1>2 DEF Init, RowsInv, Live, Committed
<1>4. RevocationIsTotal BY <1>2 DEF RevocationIsTotal, Live
<1>5. LocksInv BY DEF Init, LocksInv
<1>6. ChildrenDistinct BY IdleRequestType DEF Init, ChildrenDistinct
<1>7. \A r \in Requests : RequestInv(r)
  BY IdleRequestType DEF Init, RequestInv, Resolved, Locked, Holding
<1> QED BY <1>1, <1>3, <1>4, <1>5, <1>6, <1>7 DEF SessionsInv

LEMMA SessionsStep == SessionsInv /\ [Next]_vars => SessionsInv'
<1> SUFFICES ASSUME SessionsInv, [Next]_vars PROVE SessionsInv' OBVIOUS
<1>1. CASE UNCHANGED vars
  BY <1>1 DEF vars, table, locks, SessionsInv, TypeOK, RowsInv, LocksInv, ChildrenDistinct,
              RevocationIsTotal, RequestInv, Live, Members, Committed, FamilyOf, RevokeTargets
<1>2. ASSUME NEW r \in Requests, RequestStep(r) PROVE SessionsInv'
  BY <1>2, ResolvesFamily, LocksFamily, LocksToken, ChecksUser, Rotates, Revokes, Issues,
     EndWithoutWriting DEF RequestStep
<1> QED BY <1>1, <1>2, EndWithoutWriting, Arrives, TimePasses DEF Next

(* The inductive invariant: lock ownership, the rows, and what each request *)
(* knows under its locks, for any number of requests.                       *)
THEOREM SessionsInvariant == Spec => []SessionsInv
BY SessionsInit, SessionsStep, PTL DEF Spec

(* Every reachable state of the session tables is well typed.               *)
THEOREM SessionsTypeCorrect == Spec => []TypeOK
<1>1. SessionsInv => TypeOK BY DEF SessionsInv
<1> QED BY <1>1, SessionsInvariant, PTL

(* After a replay, a logout or a refresh of a disabled account no token of  *)
(* the family can be exchanged, whatever rotations were under way.          *)
THEOREM RevocationStaysTotal == Spec => []RevocationIsTotal
<1>1. SessionsInv => RevocationIsTotal BY DEF SessionsInv
<1> QED BY <1>1, SessionsInvariant, PTL

(* A request that is past its family lock finds no token row locked by      *)
(* another: only the user row can still make it wait.                       *)
LEMMA OnlyFamilyAndUserWait ==
    ASSUME SessionsInv, NEW r \in Requests, request[r].phase \notin {"resolved", "user"}
    PROVE  Blockers(r) \intersect Requests = {}
<1>0. /\ request[r] \in Request /\ RequestInv(r) /\ request[r].token \in Tokens \union {NoToken}
      /\ request[r].targets \subseteq Tokens
  BY DEF SessionsInv, TypeOK, Request
<1>1. ASSUME NEW t \in Tokens, family[t] = request[r].family, Committed(t),
             request[r].phase \in Locked, tokenLock[t] \in Requests
      PROVE  tokenLock[t] = r /\ request[r].phase \in Holding
  <2> DEFINE x == tokenLock[t]
  <2>1. x \in Requests /\ request[x].phase \in Holding /\ request[x].token = t /\ RequestInv(x)
    BY <1>1, NamesAssumption DEF SessionsInv, LocksInv
  <2>2. request[x].family = family[t] /\ family[t] # Nobody
    BY <1>1, <2>1, NamesAssumption DEF RequestInv, Holding, Resolved, FamilyOf, Committed
  <2>3. familyLock[family[t]] = x BY <2>1, <2>2 DEF RequestInv, Holding, Locked
  <2>4. familyLock[family[t]] = r BY <1>0, <1>1, <2>2 DEF RequestInv
  <2> QED BY <2>1, <2>3, <2>4
<1>2. CASE request[r].phase = "locked" /\ request[r].token # NoToken
  <2>1. /\ request[r].token \in Tokens /\ Committed(request[r].token)
        /\ family[request[r].token] = request[r].family
    BY <1>0, <1>2 DEF RequestInv, Resolved, FamilyOf
  <2>2. tokenLock[request[r].token] \notin Requests
    BY <1>1, <1>2, <2>1 DEF Locked, Holding
  <2> QED BY <1>2, <2>2 DEF Blockers
<1>3. CASE request[r].phase = "revoke"
  <2>1. request[r].targets = RevokeTargets(request[r].family) /\ request[r].family # Nobody
    BY <1>0, <1>3 DEF RequestInv, Holding, Resolved, FamilyOf, Committed
  <2>2. ASSUME NEW t \in request[r].targets, tokenLock[t] \in Requests PROVE tokenLock[t] = r
    <3>1. t \in Tokens /\ family[t] = request[r].family /\ Committed(t)
      BY <2>1 DEF RevokeTargets, Committed
    <3> QED BY <1>1, <1>3, <2>2, <3>1 DEF Locked
  <2>3. Blockers(r) = {tokenLock[x] : x \in request[r].targets} \ {r} BY <1>3 DEF Blockers
  <2> QED BY <2>2, <2>3
<1>4. CASE /\ request[r].phase # "revoke"
           /\ ~(request[r].phase = "locked" /\ request[r].token # NoToken)
  BY <1>4 DEF Blockers
<1> QED BY <1>2, <1>3, <1>4

(* Requests never wait for each other in a cycle: a token row is locked     *)
(* only under its family's lock, and who holds a user row waits for nobody. *)
THEOREM SessionsNeverDeadlock == Spec => []RequestsNeverDeadlock
<1>1. ASSUME SessionsInv, NEW S \in SUBSET Requests, S # {}
      PROVE  \E r \in S : Blockers(r) \intersect S = {}
  <2> SUFFICES ASSUME \A r \in S : Blockers(r) \intersect S # {} PROVE FALSE OBVIOUS
  <2>0. Nobody \notin S BY NamesAssumption
  <2>1. \A r \in S : request[r].phase \in {"resolved", "user"} BY <1>1, OnlyFamilyAndUserWait
  <2>2. ASSUME NEW r \in S, request[r].phase = "user" PROVE FALSE
    <3>1. PICK x \in S : x \in Blockers(r) OBVIOUS
    <3>2. x = userLock[owner[FamilyOf(request[r].token)]] BY <2>2, <3>1 DEF Blockers
    <3>3. owner[FamilyOf(request[r].token)] \in Users
      <4>1. request[r].token \in Tokens /\ Committed(request[r].token)
            /\ FamilyOf(request[r].token) = family[request[r].token]
        BY <1>1, <2>2 DEF SessionsInv, TypeOK, Request, RequestInv, Holding, Resolved, FamilyOf
      <4> QED BY <1>1, <4>1 DEF SessionsInv, RowsInv, TypeOK, Committed
    <3>4. request[x].phase \in {"rotate", "revoke"}
      BY <1>1, <2>0, <3>2, <3>3 DEF SessionsInv, LocksInv
    <3> QED BY <2>1, <3>4
  <2>3. ASSUME NEW r \in S, request[r].phase = "resolved" PROVE FALSE
    <3>1. PICK x \in S : x \in Blockers(r) OBVIOUS
    <3>2. request[r].family \in Families /\ x = familyLock[request[r].family]
      BY <1>1, <2>3, <3>1 DEF Blockers, SessionsInv, TypeOK, Request
    <3>3. request[x].phase \in Locked BY <1>1, <2>0, <3>2 DEF SessionsInv, LocksInv
    <3> QED BY <2>1, <2>2, <3>3 DEF Locked
  <2> QED BY <1>1, <2>1, <2>2, <2>3
<1>2. SessionsInv => RequestsNeverDeadlock BY <1>1 DEF RequestsNeverDeadlock
<1> QED BY <1>2, SessionsInvariant, PTL

-----------------------------------------------------------------------------
(* Refinement of SessionFamilies.                                           *)

abstract == <<CurrentTokens, SeenTokens, ClosedFamilies, BarredFamilies>>

(* The token a set of exchangeable ones stands for.                         *)
LEMMA ExchangeableOfOne == ASSUME NEW L, NEW t, L = {t} PROVE Exchangeable(L) = t
BY DEF Exchangeable
LEMMA ExchangeableOfNone == Exchangeable({}) = NoToken
BY DEF Exchangeable
LEMMA ExchangeableOfSome == ASSUME NEW L, L # {} PROVE Exchangeable(L) \in L
BY DEF Exchangeable

(* A step that changes what may be exchanged in one family changes one      *)
(* entry of the mapped function.                                            *)
LEMMA OneFamilyChanges ==
    ASSUME NEW f \in Families, NEW v, Exchangeable(Live(f)') = v,
           \A g \in Families \ {f} : Live(g)' = Live(g)
    PROVE  CurrentTokens' = [CurrentTokens EXCEPT ![f] = v]
<1>1. \A g \in Families \ {f} : Exchangeable(Live(g)') = Exchangeable(Live(g)) OBVIOUS
<1>2. CurrentTokens' = [g \in Families |-> Exchangeable(Live(g)')] BY DEF CurrentTokens
<1>3. \A g \in Families : Exchangeable(Live(g)') = IF g = f THEN v ELSE CurrentTokens[g]
  BY <1>1 DEF CurrentTokens
<1>4. [g \in Families |-> Exchangeable(Live(g)')]
        = [g \in Families |-> IF g = f THEN v ELSE CurrentTokens[g]]
  BY <1>3
<1>5. CurrentTokens = [g \in Families |-> CurrentTokens[g]] BY DEF CurrentTokens
<1> QED BY <1>2, <1>4, <1>5

LEMMA NoFamilyChanges ==
    ASSUME \A g \in Families : Live(g)' = Live(g)
    PROVE  CurrentTokens' = CurrentTokens
<1>1. \A g \in Families : Exchangeable(Live(g)') = Exchangeable(Live(g)) OBVIOUS
<1>2. CurrentTokens' = [g \in Families |-> Exchangeable(Live(g)')] BY DEF CurrentTokens
<1>3. [g \in Families |-> Exchangeable(Live(g)')] = [g \in Families |-> Exchangeable(Live(g))]
  BY <1>1
<1> QED BY <1>2, <1>3 DEF CurrentTokens

(* A login opens a family.                                                  *)
LEMMA IssueOpens ==
    ASSUME SessionsInv, NEW r \in Requests, NEW f \in Families, NEW t \in Tokens,
           IssueTokens(r, f, t)
    PROVE  Promise!Open(f, t)
<1>0. UNCHANGED <<revoked, active>> /\ owner[f] = Nobody BY DEF IssueTokens
<1>1. CurrentTokens[f] = NoToken /\ f \notin ClosedFamilies /\ t \notin SeenTokens
  <2>1. Live(f) = {} BY IssueEffect DEF Live
  <2>2. CurrentTokens[f] = NoToken BY <2>1, ExchangeableOfNone DEF CurrentTokens
  <2> QED BY <2>2, IssueEffect DEF ClosedFamilies, SeenTokens, Committed
<1>2. CurrentTokens' = [CurrentTokens EXCEPT ![f] = t]
  <2>1. Exchangeable(Live(f)') = t BY IssueEffect, ExchangeableOfOne
  <2>2. \A g \in Families \ {f} : Live(g)' = Live(g) BY IssueEffect
  <2> QED BY <2>1, <2>2, OneFamilyChanges
<1>3. SeenTokens' = SeenTokens \union {t}
  BY IssueEffect, NamesAssumption DEF SeenTokens, Committed
<1>4. ClosedFamilies' = ClosedFamilies
  BY <1>0, IssueEffect DEF ClosedFamilies
<1>5. BarredFamilies' \in {BarredFamilies, BarredFamilies \union {f}}
  <2>1. \A g \in Families \ {f} : g \in BarredFamilies' <=> g \in BarredFamilies
    BY <1>0, IssueEffect DEF BarredFamilies
  <2>2. f \notin BarredFamilies BY <1>0 DEF BarredFamilies
  <2>3. BarredFamilies \subseteq Families /\ BarredFamilies' \subseteq Families
    BY DEF BarredFamilies
  <2>4. CASE f \in BarredFamilies' BY <2>1, <2>2, <2>3, <2>4
  <2>5. CASE f \notin BarredFamilies' BY <2>1, <2>2, <2>3, <2>5
  <2> QED BY <2>4, <2>5
<1> QED BY <1>1, <1>2, <1>3, <1>4, <1>5 DEF Promise!Open

(* A rotation exchanges the current token while the owner is active.        *)
LEMMA RotationExchanges ==
    ASSUME SessionsInv, NEW r \in Requests, CommitRotation(r)
    PROVE  \E f \in Families, c \in Tokens : Promise!Exchange(f, c)
<1>0. UNCHANGED <<revoked, owner, active>> BY DEF CommitRotation
<1>1. PICK f \in Families, t \in Tokens, c \in Tokens :
              /\ owner[f] \in active
              /\ family[t] = f /\ Live(f) = {t}
              /\ ~Committed(c) /\ family'[c] = f /\ c \notin used \union revoked
              /\ Members(f) \intersect revoked = {}
              /\ Members(f)' = Members(f) \union {c} /\ Live(f)' = {c}
              /\ \A x \in Tokens : x # c => family'[x] = family[x]
              /\ \A g \in Families \ {f} : Members(g)' = Members(g) /\ Live(g)' = Live(g)
  BY RotationEffect
<1>2. CurrentTokens[f] # NoToken
  <2>1. CurrentTokens[f] = t BY <1>1, ExchangeableOfOne DEF CurrentTokens
  <2> QED BY <2>1, NamesAssumption
<1>3. f \notin BarredFamilies /\ c \notin SeenTokens
  BY <1>1 DEF BarredFamilies, SeenTokens, Committed
<1>4. CurrentTokens' = [CurrentTokens EXCEPT ![f] = c]
  <2>1. Exchangeable(Live(f)') = c BY <1>1, ExchangeableOfOne
  <2> QED BY <1>1, <2>1, OneFamilyChanges
<1>5. SeenTokens' = SeenTokens \union {c}
  BY <1>1, NamesAssumption DEF SeenTokens, Committed
<1>6. ClosedFamilies' = ClosedFamilies BY <1>0, <1>1 DEF ClosedFamilies
<1>7. BarredFamilies' = BarredFamilies BY <1>0 DEF BarredFamilies
<1> QED BY <1>2, <1>3, <1>4, <1>5, <1>6, <1>7 DEF Promise!Exchange

(* A revocation closes its family, or finds it closed.                      *)
LEMMA RevocationCloses ==
    ASSUME SessionsInv, NEW r \in Requests, CommitRevocation(r)
    PROVE  (\E f \in Families : Promise!Close(f)) \/ UNCHANGED abstract
<1>0. UNCHANGED <<family, owner, active>> BY DEF CommitRevocation
<1>1. PICK f \in Families :
              /\ revoked' = revoked \union Members(f) /\ Members(f) # {}
              /\ owner[f] # Nobody /\ Live(f)' = {}
              /\ \A g \in Families : Members(g)' = Members(g)
              /\ \A g \in Families \ {f} : /\ Live(g)' = Live(g)
                                           /\ Members(g) \intersect Members(f) = {}
  BY RevocationEffect
<1>2. SeenTokens' = SeenTokens /\ BarredFamilies' = BarredFamilies
  BY <1>0 DEF SeenTokens, BarredFamilies
<1>3. CurrentTokens' = [CurrentTokens EXCEPT ![f] = NoToken]
  <2>1. Exchangeable(Live(f)') = NoToken BY <1>1, ExchangeableOfNone
  <2>2. \A g \in Families \ {f} : Live(g)' = Live(g) BY <1>1
  <2> QED BY <2>1, <2>2, OneFamilyChanges
<1>4. ClosedFamilies' = ClosedFamilies \union {f}
  <2>1. Members(f)' \intersect revoked' # {} BY <1>1
  <2>2. \A g \in Families \ {f} : Members(g)' \intersect revoked' = Members(g) \intersect revoked
    BY <1>1
  <2> QED BY <2>1, <2>2 DEF ClosedFamilies
<1>5. CASE Live(f) = {}
  <2>1. CurrentTokens[f] = NoToken BY <1>5, ExchangeableOfNone DEF CurrentTokens
  <2>2. f \in ClosedFamilies BY <1>1, <1>5 DEF SessionsInv, RowsInv, ClosedFamilies
  <2>3. CurrentTokens' = CurrentTokens BY <1>3, <2>1 DEF CurrentTokens
  <2>4. ClosedFamilies' = ClosedFamilies BY <1>4, <2>2
  <2> QED BY <1>2, <2>3, <2>4 DEF abstract
<1>6. CASE Live(f) # {}
  <2>1. CurrentTokens[f] \in Live(f) BY <1>6, ExchangeableOfSome DEF CurrentTokens
  <2>2. CurrentTokens[f] # NoToken BY <2>1, NamesAssumption DEF Live, Members
  <2> QED BY <1>2, <1>3, <1>4, <2>2 DEF Promise!Close
<1> QED BY <1>5, <1>6

(* Every step of the transactions is a step of SessionFamilies or changes   *)
(* nothing it sees.                                                         *)
LEMMA SessionsSimulate ==
    ASSUME SessionsInv, [Next]_vars
    PROVE  Promise!Next \/ UNCHANGED abstract
<1>1. CASE UNCHANGED <<table, active>>
  <2>1. \A f \in Families : Members(f)' = Members(f) /\ Live(f)' = Live(f)
    BY <1>1 DEF table, Members, Live
  <2>2. CurrentTokens' = CurrentTokens BY <2>1, NoFamilyChanges
  <2> QED BY <1>1, <2>1, <2>2
          DEF abstract, SeenTokens, ClosedFamilies, BarredFamilies, table
<1>2. ASSUME NEW u \in Users, DisableUser(u) PROVE Promise!Next
  <2>1. UNCHANGED table /\ active' = active \ {u} BY <1>2 DEF DisableUser
  <2>2. \A f \in Families : Members(f)' = Members(f) /\ Live(f)' = Live(f)
    BY <2>1 DEF table, Members, Live
  <2>3. UNCHANGED <<CurrentTokens, SeenTokens, ClosedFamilies>>
    BY <2>1, <2>2, NoFamilyChanges DEF SeenTokens, ClosedFamilies, table
  <2> DEFINE owned == {f \in Families : owner[f] = u}
  <2>4. BarredFamilies' = BarredFamilies \union owned
    BY <2>1, NamesAssumption DEF BarredFamilies, table
  <2>5. owned \in SUBSET Families OBVIOUS
  <2> HIDE DEF owned
  <2> QED BY <2>3, <2>4, <2>5 DEF Promise!Next, Promise!Bar
<1>3. ASSUME NEW r \in Requests, RequestStep(r) PROVE Promise!Next \/ UNCHANGED abstract
  <2>1. ASSUME NEW f \in Families, NEW t \in Tokens, IssueTokens(r, f, t) PROVE Promise!Next
    BY <2>1, IssueOpens DEF Promise!Next
  <2>2. CASE CommitRotation(r) BY <2>2, RotationExchanges DEF Promise!Next
  <2>3. CASE CommitRevocation(r) BY <2>3, RevocationCloses DEF Promise!Next
  <2> QED BY <1>1, <1>3, <2>1, <2>2, <2>3
          DEF RequestStep, ResolveFamily, LockRefreshFamily, LockToken, CheckUser, CommitInvalid
<1> QED BY <1>1, <1>2, <1>3 DEF Next, vars, Rollback, Authenticate, Begin, Expire

(* Refresh, replay and logout transactions, with their locks and rollbacks, *)
(* implement SessionFamilies.                                               *)
THEOREM SessionsImplementFamilies == Spec => FamiliesKept
<1>1. Init => Promise!Init
  <2> SUFFICES ASSUME Init PROVE Promise!Init OBVIOUS
  <2>1. \A f \in Families : Members(f) = {} /\ Live(f) = {}
    BY NamesAssumption DEF Init, Members, Live
  <2>2. CurrentTokens = [f \in Families |-> NoToken]
    BY <2>1, ExchangeableOfNone DEF CurrentTokens
  <2> QED BY <2>1, <2>2 DEF Init, Promise!Init, SeenTokens, ClosedFamilies, BarredFamilies
<1>2. SessionsInv /\ [Next]_vars => [Promise!Next]_abstract BY SessionsSimulate
<1> QED BY <1>1, <1>2, SessionsInvariant, PTL DEF Spec, FamiliesKept, Promise!Spec, abstract
=============================================================================
