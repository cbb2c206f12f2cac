------------------------------- MODULE Accounts -------------------------------
(***************************************************************************)
(* First installation and accounts: the installation_setup row and the     *)
(* host's token file, invitations, and the users table whose usernames and *)
(* e-mail addresses share one login namespace.  Every writer is one        *)
(* transaction that takes locks step by step: the first-administrator      *)
(* advisory lock, the invitation row, the advisory locks of both login     *)
(* identifiers.  A process may die at any step; the token file, unlike the *)
(* tables, is not rolled back.                                             *)
(***************************************************************************)
EXTENDS Naturals, FiniteSets, AccountRows

tables == <<users, invitation, setup>>
host == <<file, printed, delivered>>
locks == <<adminLock, inviteLock, identLock>>
vars == <<tables, lapsed, host, locks, writer>>

Ops == {"register", "bootstrap", "complete", "prepare", "rotate"}
Phases == {"idle", "begin", "locked", "reserve", "insert", "written"}
Writer == [phase : Phases, op : Ops, username : Idents \union {None},
           email : Idents \union {None}, invite : Invitations \union {None},
           token : SetupTokens \union {None}]
IdleWriter == [phase |-> "idle", op |-> "register", username |-> None, email |-> None,
               invite |-> None, token |-> None]

Init ==
    /\ users = {} /\ lapsed = {}
    /\ invitation = [i \in Invitations |-> [status |-> "none", email |-> None]]
    /\ setup = [state |-> "none", token_hash |-> None]
    /\ file = None /\ printed = {} /\ delivered = {}
    /\ adminLock = None /\ inviteLock = [i \in Invitations |-> None]
    /\ identLock = [x \in Idents |-> None]
    /\ writer = [w \in Writers |-> IdleWriter]

TypeOK ==
    /\ users \in SUBSET User /\ lapsed \in SUBSET Invitations
    /\ invitation \in [Invitations -> Invitation] /\ setup \in Setup
    /\ file \in SetupTokens \union {None}
    /\ printed \in SUBSET SetupTokens /\ delivered \in SUBSET SetupTokens
    /\ adminLock \in Writers \union {None}
    /\ inviteLock \in [Invitations -> Writers \union {None}]
    /\ identLock \in [Idents -> Writers \union {None}]
    /\ writer \in [Writers -> Writer]

Move(w, phase) == writer' = [writer EXCEPT ![w].phase = phase]
End(w) ==
    /\ adminLock' = IF adminLock = w THEN None ELSE adminLock
    /\ inviteLock' = [i \in Invitations |-> IF inviteLock[i] = w THEN None ELSE inviteLock[i]]
    /\ identLock' = [x \in Idents |-> IF identLock[x] = w THEN None ELSE identLock[x]]
    /\ writer' = [writer EXCEPT ![w] = IdleWriter]

-----------------------------------------------------------------------------
(* create_invitation by an administrator, one insert.                       *)
CreateInvitation(i, email) ==
    /\ Administrators # {} /\ invitation[i].status = "none"
    /\ invitation' = [invitation EXCEPT ![i] = [status |-> "PENDING", email |-> email]]
    /\ UNCHANGED <<users, setup, lapsed, host, locks, writer>>

Expire(i) ==
    /\ invitation[i].status # "none" /\ i \notin lapsed
    /\ lapsed' = lapsed \union {i}
    /\ UNCHANGED <<tables, host, locks, writer>>

(* A request or a command arrives.                                          *)
Begin(w, request) ==
    /\ writer[w].phase = "idle"
    /\ writer' = [writer EXCEPT ![w] = request]
    /\ UNCHANGED <<tables, lapsed, host, locks>>

BeginRegister(w, i, username, email) ==
    Begin(w, [IdleWriter EXCEPT !.phase = "begin", !.op = "register", !.invite = i,
                                !.username = username, !.email = email])
BeginBootstrap(w, username, email) ==
    Begin(w, [IdleWriter EXCEPT !.phase = "begin", !.op = "bootstrap",
                                !.username = username, !.email = email])
BeginComplete(w, token, username, email) ==
    Begin(w, [IdleWriter EXCEPT !.phase = "begin", !.op = "complete", !.token = token,
                                !.username = username, !.email = email])
BeginPrepare(w, op) ==
    Begin(w, [IdleWriter EXCEPT !.phase = "begin", !.op = op])

(* register_user locks the invitation row and validates it.  An expired     *)
(* invitation is marked in the same transaction that refuses the request.   *)
Acceptable(i, email) ==
    invitation[i].status = "PENDING" /\ i \notin lapsed
      /\ email \in {None, invitation[i].email}

LockInvitation(w) ==
    LET i == writer[w].invite
    IN /\ writer[w].phase = "begin" /\ writer[w].op = "register"
       /\ inviteLock[i] = None
       /\ IF Acceptable(i, writer[w].email)
            THEN /\ inviteLock' = [inviteLock EXCEPT ![i] = w]
                 /\ writer' = [writer EXCEPT ![w].phase = "reserve",
                                             ![w].email = invitation[i].email]
                 /\ UNCHANGED <<invitation, adminLock, identLock>>
            ELSE /\ invitation' = IF invitation[i].status = "PENDING" /\ i \in lapsed
                                    THEN [invitation EXCEPT ![i].status = "EXPIRED"]
                                    ELSE invitation
                 /\ End(w)
       /\ UNCHANGED <<users, setup, lapsed, host>>

(* _lock_bootstrap_admin: serialises every first-administrator transaction. *)
NoAdminLock(w) == UNCHANGED adminLock
TakeAdminLock(w) == adminLock = None /\ adminLock' = w
LockBootstrapAdmin(w) ==
    /\ writer[w].phase = "begin" /\ writer[w].op # "register"
    /\ TakeAdminLock(w)
    /\ Move(w, "locked")
    /\ UNCHANGED <<tables, lapsed, host, inviteLock, identLock>>

(* What bootstrap_admin and complete_setup check under that lock: setup is  *)
(* open, the presented token is the stored one, there is no administrator.  *)
MayCreateAdmin(w) ==
    /\ setup.state # "COMPLETED" /\ Administrators = {}
    /\ writer[w].op = "complete" =>
         setup.state = "PENDING" /\ setup.token_hash = writer[w].token
CheckSetup(w) ==
    /\ writer[w].phase = "locked" /\ writer[w].op \in {"bootstrap", "complete"}
    /\ IF MayCreateAdmin(w) THEN Move(w, "reserve") /\ UNCHANGED locks ELSE End(w)
    /\ UNCHANGED <<tables, lapsed, host>>

(* _reserve_login_identifiers: both identifiers are locked in sort order... *)
Wanted(w) == {writer[w].username, writer[w].email}
InRequestOrder(w, x) ==
    /\ x \in Wanted(w) /\ identLock[x] # w
    /\ x = writer[w].username \/ identLock[writer[w].username] = w
InSortOrder(w, x) ==
    /\ x \in Wanted(w) /\ identLock[x] # w
    /\ \A y \in Wanted(w) : identLock[y] = w \/ x <= y
LockIdentifier(w, x) ==
    /\ writer[w].phase = "reserve" /\ InSortOrder(w, x)
    /\ identLock[x] = None
    /\ identLock' = [identLock EXCEPT ![x] = w]
    /\ UNCHANGED <<tables, lapsed, host, adminLock, inviteLock, writer>>

(* ... and then no committed user may have either, in either column.        *)
SameColumn(w) == \E u \in users : u.username = writer[w].username \/ u.email = writer[w].email
Conflict(w) == \E u \in users : {u.username, u.email} \intersect Wanted(w) # {}
CheckConflict(w) ==
    /\ writer[w].phase = "reserve"
    /\ \A x \in Wanted(w) : identLock[x] = w
    /\ IF Conflict(w) THEN End(w) ELSE Move(w, "insert") /\ UNCHANGED locks
    /\ UNCHANGED <<tables, lapsed, host>>

(* Commit of a registration: the invitation is consumed with the insert.    *)
Consumed(i) == [invitation EXCEPT ![i].status = "ACCEPTED"]
CommitRegister(w) ==
    /\ writer[w].phase = "insert" /\ writer[w].op = "register"
    /\ users' = users \union {[username |-> writer[w].username, email |-> writer[w].email,
                               role |-> "USER", invite |-> writer[w].invite]}
    /\ invitation' = Consumed(writer[w].invite)
    /\ End(w)
    /\ UNCHANGED <<setup, lapsed, host>>

(* Commit of the first administrator: setup closes with the insert.         *)
SetupClosed == [state |-> "COMPLETED", token_hash |-> None]
CommitAdmin(w) ==
    /\ writer[w].phase = "insert" /\ writer[w].op \in {"bootstrap", "complete"}
    /\ users' = users \union {[username |-> writer[w].username, email |-> writer[w].email,
                               role |-> "ADMIN", invite |-> None]}
    /\ setup' = SetupClosed
    /\ End(w)
    /\ UNCHANGED <<invitation, lapsed, host>>

-----------------------------------------------------------------------------
(* prepare_setup: nothing to do, close, reuse or refuse a pending token...  *)
ReuseToken(w) ==
    LET rotate == writer[w].op = "rotate"
    IN /\ writer[w].phase = "locked" /\ writer[w].op \in {"prepare", "rotate"}
       /\ \/ /\ setup.state = "COMPLETED" /\ UNCHANGED setup
          \/ /\ setup.state # "COMPLETED" /\ Administrators # {}
             /\ setup' = SetupClosed
          \/ /\ setup.state = "PENDING" /\ Administrators = {} /\ ~rotate
             /\ UNCHANGED setup
       /\ End(w)
       /\ UNCHANGED <<users, invitation, lapsed, host>>

(* ... or a new one: _write_setup_token replaces the file durably first...  *)
WriteSetupToken(w, t) ==
    /\ writer[w].phase = "locked" /\ writer[w].op \in {"prepare", "rotate"}
    /\ setup.state = "none" \/ (setup.state = "PENDING" /\ writer[w].op = "rotate")
    /\ Administrators = {} /\ t \notin printed
    /\ printed' = printed \union {t}
    /\ file' = t /\ delivered' = delivered \union {t}
    /\ writer' = [writer EXCEPT ![w].phase = "written", ![w].token = t]
    /\ UNCHANGED <<tables, lapsed, locks>>

(* ... and the hash commits after it.                                       *)
HashOfNext(w) == CHOOSE t \in SetupTokens : t # writer[w].token
HashOfWritten(w) == writer[w].token
CommitToken(w) ==
    /\ writer[w].phase = "written"
    /\ setup' = [state |-> "PENDING", token_hash |-> HashOfWritten(w)]
    /\ End(w)
    /\ UNCHANGED <<users, invitation, lapsed, host>>

(* A process dies or its connection drops: tables roll back, files do not.  *)
Rollback(w) ==
    /\ writer[w].phase # "idle"
    /\ End(w)
    /\ UNCHANGED <<tables, lapsed, host>>

WriterStep(w) ==
    \/ LockInvitation(w) \/ LockBootstrapAdmin(w) \/ CheckSetup(w)
    \/ \E x \in Idents : LockIdentifier(w, x)
    \/ CheckConflict(w) \/ CommitRegister(w) \/ CommitAdmin(w)
    \/ ReuseToken(w) \/ CommitToken(w)
    \/ \E t \in SetupTokens : WriteSetupToken(w, t)

(* Bound: a command that may need a new token starts while one is left.     *)
Preparing == {w \in Writers : writer[w].op \in {"prepare", "rotate"}}
TokenLeft == Cardinality(printed) + Cardinality(Preparing) < Cardinality(SetupTokens)

Arrival(w) ==
    \/ \E i \in Invitations, username \in Idents, email \in Idents \union {None} :
         BeginRegister(w, i, username, email)
    \/ \E username, email \in Idents : BeginBootstrap(w, username, email)
    \/ \E t \in SetupTokens, username, email \in Idents : BeginComplete(w, t, username, email)
    \/ \E op \in {"prepare", "rotate"} : TokenLeft /\ BeginPrepare(w, op)

Next ==
    \/ \E w \in Writers : Arrival(w) \/ WriterStep(w) \/ Rollback(w)
    \/ \E i \in Invitations : Expire(i) \/ \E email \in Idents : CreateInvitation(i, email)

Spec == Init /\ [][Next]_vars

-----------------------------------------------------------------------------
(* Properties.                                                              *)

(* Whatever transactions overlap, some blocked one waits for a transaction  *)
(* that is not itself blocked: username and e-mail of two registrations may *)
(* be each other's, and both are locked.                                    *)
Blockers(w) ==
    {inviteLock[i] : i \in {i \in Invitations : writer[w].phase = "begin" /\ writer[w].invite = i}}
      \union {identLock[x] : x \in {x \in Idents : writer[w].phase = "reserve" /\ InSortOrder(w, x)}}
      \union (IF writer[w].phase = "begin" /\ writer[w].op # "register" THEN {adminLock} ELSE {})
WritersNeverDeadlock ==
    \A S \in SUBSET Writers : S # {} => \E w \in S : Blockers(w) \intersect S = {}
=============================================================================
