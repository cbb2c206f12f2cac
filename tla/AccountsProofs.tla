---------------------------- MODULE AccountsProofs ----------------------------
(***************************************************************************)
(* First-administrator setup and registration, proved for any number of    *)
(* transactions, identifiers, invitations and setup tokens.                 *)
(***************************************************************************)
EXTENDS Accounts, FiniteSetTheorems, WellFoundedInduction, NaturalsInduction, TLAPS

(* Transactions that hold the first-administrator lock, and those that are  *)
(* about to insert a user.                                                  *)
HoldsAdmin(w) ==
    writer[w].op # "register" /\ writer[w].phase \in {"locked", "reserve", "insert", "written"}
Inserting(w) == writer[w].phase \in {"reserve", "insert"}

(* What a transaction has checked stays true until it ends: the lock it     *)
(* checked it under is still its own.                                       *)
WriterInv(w) ==
    /\ writer[w].op = "register" =>
         /\ writer[w].phase \in {"idle", "begin", "reserve", "insert"}
         /\ writer[w].phase # "idle" => writer[w].invite \in Invitations /\ writer[w].username \in Idents
    /\ writer[w].op \in {"bootstrap", "complete"} =>
         writer[w].username \in Idents /\ writer[w].email \in Idents
    /\ Inserting(w) => writer[w].op \in {"register", "bootstrap", "complete"} /\ writer[w].email \in Idents
    /\ HoldsAdmin(w) => adminLock = w
    /\ Inserting(w) /\ HoldsAdmin(w) => Administrators = {}
    /\ Inserting(w) /\ writer[w].op = "register" =>
         inviteLock[writer[w].invite] = w /\ invitation[writer[w].invite].status = "PENDING"
    /\ writer[w].phase = "written" => Administrators = {} /\ writer[w].token \in delivered
    /\ writer[w].phase = "reserve" =>
         \A x, y \in Wanted(w) : identLock[x] = w /\ identLock[y] # w => x < y
    /\ writer[w].phase = "insert" => ~Conflict(w) /\ \A x \in Wanted(w) : identLock[x] = w

(* An invitation makes one account, although registrations with it overlap. *)
InvitationsSpentOnce ==
    /\ \A u \in users : u.invite # None => invitation[u.invite].status = "ACCEPTED"
    /\ \A u, v \in users : u.invite = v.invite /\ u.invite # None => u = v

(* Every lock has a holder that will release it.                            *)
LocksInv ==
    /\ adminLock # None => HoldsAdmin(adminLock)
    /\ \A i \in Invitations : inviteLock[i] # None => Inserting(inviteLock[i])
    /\ \A x \in Idents : identLock[x] # None => Inserting(identLock[x]) /\ x \in Wanted(identLock[x])

RowsInv ==
    /\ \A i \in Invitations : invitation[i].status # "none" => invitation[i].email \in Idents
    /\ \A u, v \in Administrators : u = v
    /\ Administrators # {} <=> setup.state = "COMPLETED"
    /\ TokenWasDelivered
    /\ LoginNamesDistinct
    /\ InvitationsSpentOnce

AccountsInv == TypeOK /\ RowsInv /\ LocksInv /\ \A w \in Writers : WriterInv(w)

-----------------------------------------------------------------------------
(* Lemmas.                                                                  *)

LEMMA IdleIsWriter == IdleWriter \in Writer
BY DEF IdleWriter, Writer, Phases, Ops

(* A transaction that another one's step leaves alone keeps what it knows,  *)
(* if the step neither took its locks nor changed the rows they guard.      *)
LEMMA OthersKeep ==
    ASSUME AccountsInv, NEW v \in Writers,
           writer'[v] = writer[v],
           adminLock = v => adminLock' = v,
           \A x \in Idents : identLock'[x] = v <=> identLock[x] = v,
           \A i \in Invitations : inviteLock[i] = v =>
                inviteLock'[i] = v /\ invitation'[i] = invitation[i],
           delivered \subseteq delivered',
           adminLock = v => Administrators' = Administrators,
           Conflict(v)' => Conflict(v) \/ writer[v].phase # "insert"
    PROVE  WriterInv(v)'
<1>0. WriterInv(v) BY DEF AccountsInv
<1>1. (HoldsAdmin(v)' <=> HoldsAdmin(v)) /\ (Inserting(v)' <=> Inserting(v)) /\ Wanted(v)' = Wanted(v)
  BY DEF HoldsAdmin, Inserting, Wanted
<1>2. HoldsAdmin(v) => adminLock' = v BY <1>0 DEF WriterInv
<1>3. Inserting(v) /\ HoldsAdmin(v) => Administrators' = {} BY <1>0 DEF WriterInv
<1>4. writer[v].phase = "written" => Administrators' = {} /\ writer[v].token \in delivered'
  <2> HAVE writer[v].phase = "written"
  <2>1. HoldsAdmin(v) BY <1>0 DEF WriterInv, HoldsAdmin
  <2> QED BY <1>0, <2>1 DEF WriterInv
<1>5. Inserting(v) => Wanted(v) \subseteq Idents BY <1>0 DEF WriterInv, Inserting, Wanted
<1>6. writer[v].phase = "reserve" =>
         \A x, y \in Wanted(v) : identLock'[x] = v /\ identLock'[y] # v => x < y
  BY <1>0, <1>5 DEF WriterInv, Inserting
<1>7. writer[v].phase = "insert" => ~Conflict(v)' /\ \A x \in Wanted(v) : identLock'[x] = v
  BY <1>0, <1>5 DEF WriterInv, Inserting
<1>8. Inserting(v) /\ writer[v].op = "register" =>
        inviteLock'[writer[v].invite] = v /\ invitation'[writer[v].invite].status = "PENDING"
  BY <1>0 DEF WriterInv, Inserting
<1> QED BY <1>0, <1>1, <1>2, <1>3, <1>4, <1>6, <1>7, <1>8 DEF WriterInv

(* The end of a transaction: its locks are free, the others' are kept.      *)
LEMMA EndEffect ==
    ASSUME AccountsInv, NEW w \in Writers, End(w)
    PROVE  /\ adminLock' \in Writers \union {None}
           /\ inviteLock' \in [Invitations -> Writers \union {None}]
           /\ identLock' \in [Idents -> Writers \union {None}]
           /\ writer' \in [Writers -> Writer]
           /\ WriterInv(w)' /\ LocksInv'
           /\ \A v \in Writers \ {w} :
                /\ writer'[v] = writer[v]
                /\ adminLock = v => adminLock' = v
                /\ \A x \in Idents : identLock'[x] = v <=> identLock[x] = v
                /\ \A i \in Invitations : inviteLock[i] = v => inviteLock'[i] = v
<1>0. TypeOK /\ LocksInv BY DEF AccountsInv
<1>1. writer' \in [Writers -> Writer] /\ writer'[w] = IdleWriter
      /\ \A v \in Writers \ {w} : writer'[v] = writer[v]
  BY <1>0, IdleIsWriter DEF End, TypeOK
<1>2. /\ adminLock' \in Writers \union {None} /\ adminLock' # w
      /\ adminLock' # None => adminLock' = adminLock
      /\ \A v \in Writers \ {w} : adminLock = v => adminLock' = v
  BY <1>0, RowsAssumption DEF End, TypeOK
<1>3. /\ inviteLock' \in [Invitations -> Writers \union {None}]
      /\ \A i \in Invitations : inviteLock'[i] # w /\ (inviteLock'[i] # None => inviteLock'[i] = inviteLock[i])
      /\ \A v \in Writers \ {w} : \A i \in Invitations : inviteLock[i] = v => inviteLock'[i] = v
  BY <1>0, RowsAssumption DEF End, TypeOK
<1>4. /\ identLock' \in [Idents -> Writers \union {None}]
      /\ \A x \in Idents : /\ identLock'[x] # w
                           /\ identLock'[x] # None => identLock'[x] = identLock[x]
      /\ \A v \in Writers \ {w} : \A x \in Idents : identLock'[x] = v <=> identLock[x] = v
  BY <1>0, RowsAssumption DEF End, TypeOK
<1>5. WriterInv(w)' BY <1>1 DEF WriterInv, IdleWriter, Inserting, HoldsAdmin
<1>6. LocksInv'
  <2>1. adminLock' # None => HoldsAdmin(adminLock)'
    BY <1>0, <1>1, <1>2 DEF LocksInv, HoldsAdmin
  <2>2. ASSUME NEW i \in Invitations, inviteLock'[i] # None PROVE Inserting(inviteLock[i])'
    <3>1. inviteLock'[i] = inviteLock[i] /\ inviteLock[i] \in Writers \ {w}
      BY <1>0, <1>3, <2>2 DEF TypeOK
    <3> QED BY <1>0, <1>1, <2>2, <3>1 DEF LocksInv, Inserting
  <2>3. ASSUME NEW x \in Idents, identLock'[x] # None
        PROVE  Inserting(identLock[x])' /\ x \in Wanted(identLock[x])'
    <3>1. identLock'[x] = identLock[x] /\ identLock[x] \in Writers \ {w}
      BY <1>0, <1>4, <2>3 DEF TypeOK
    <3> QED BY <1>0, <1>1, <2>3, <3>1 DEF LocksInv, Inserting, Wanted
  <2> QED BY <2>1, <2>2, <2>3 DEF LocksInv
<1> QED BY <1>1, <1>2, <1>3, <1>4, <1>5, <1>6

(* A transaction that ends without touching a row leaves the invariant.     *)
LEMMA PlainEnd ==
    ASSUME AccountsInv, NEW w \in Writers, End(w), UNCHANGED <<users, lapsed, host>>,
           invitation' \in [Invitations -> Invitation], setup' \in Setup, RowsInv',
           \A i \in Invitations : inviteLock[i] # None => invitation'[i] = invitation[i]
    PROVE  AccountsInv'
<1>1. TypeOK' BY EndEffect DEF AccountsInv, TypeOK, host
<1>2. ASSUME NEW v \in Writers \ {w} PROVE WriterInv(v)'
  <2>1. Administrators' = Administrators BY DEF Administrators
  <2>2. writer'[v] = writer[v] BY EndEffect
  <2>3. Conflict(v)' => Conflict(v) BY <2>2 DEF Conflict, Wanted
  <2>4. \A i \in Invitations : inviteLock[i] = v => invitation'[i] = invitation[i]
    BY RowsAssumption
  <2> QED BY <2>1, <2>2, <2>3, <2>4, EndEffect, OthersKeep DEF host
<1> QED BY <1>1, <1>2, EndEffect DEF AccountsInv

(* What an arriving transaction knows.                                      *)
Arrived(r) ==
    /\ r.phase = "begin"
    /\ r.op = "register" => r.invite \in Invitations /\ r.username \in Idents
    /\ r.op \in {"bootstrap", "complete"} => r.username \in Idents /\ r.email \in Idents

(* A transaction arrives: it holds nothing yet.                             *)
LEMMA ArrivalKeeps ==
    ASSUME AccountsInv, NEW w \in Writers, Arrival(w)
    PROVE  AccountsInv'
<1>0. TypeOK /\ RowsInv /\ LocksInv BY DEF AccountsInv
<1>1. PICK r \in Writer : Begin(w, r) /\ Arrived(r)
  <2>1. ASSUME NEW i \in Invitations, NEW username \in Idents, NEW email \in Idents \union {None},
               BeginRegister(w, i, username, email)
        PROVE  \E r \in Writer : Begin(w, r) /\ Arrived(r)
    <3> DEFINE r == [IdleWriter EXCEPT !.phase = "begin", !.op = "register", !.invite = i,
                                       !.username = username, !.email = email]
    <3>1. r \in Writer /\ Arrived(r) BY DEF Arrived, IdleWriter, Writer, Phases, Ops
    <3> QED BY <2>1, <3>1 DEF BeginRegister
  <2>2. ASSUME NEW username \in Idents, NEW email \in Idents, BeginBootstrap(w, username, email)
        PROVE  \E r \in Writer : Begin(w, r) /\ Arrived(r)
    <3> DEFINE r == [IdleWriter EXCEPT !.phase = "begin", !.op = "bootstrap",
                                       !.username = username, !.email = email]
    <3>1. r \in Writer /\ Arrived(r) BY DEF Arrived, IdleWriter, Writer, Phases, Ops
    <3> QED BY <2>2, <3>1 DEF BeginBootstrap
  <2>3. ASSUME NEW t \in SetupTokens, NEW username \in Idents, NEW email \in Idents,
               BeginComplete(w, t, username, email)
        PROVE  \E r \in Writer : Begin(w, r) /\ Arrived(r)
    <3> DEFINE r == [IdleWriter EXCEPT !.phase = "begin", !.op = "complete", !.token = t,
                                       !.username = username, !.email = email]
    <3>1. r \in Writer /\ Arrived(r) BY DEF Arrived, IdleWriter, Writer, Phases, Ops
    <3> QED BY <2>3, <3>1 DEF BeginComplete
  <2>4. ASSUME NEW op \in {"prepare", "rotate"}, BeginPrepare(w, op)
        PROVE  \E r \in Writer : Begin(w, r) /\ Arrived(r)
    <3> DEFINE r == [IdleWriter EXCEPT !.phase = "begin", !.op = op]
    <3>1. r \in Writer /\ Arrived(r) BY DEF Arrived, IdleWriter, Writer, Phases, Ops
    <3> QED BY <2>4, <3>1 DEF BeginPrepare
  <2> QED BY <2>1, <2>2, <2>3, <2>4 DEF Arrival
<1>2. /\ writer[w].phase = "idle" /\ writer' \in [Writers -> Writer] /\ writer'[w] = r
      /\ \A v \in Writers \ {w} : writer'[v] = writer[v]
      /\ UNCHANGED <<tables, lapsed, host, locks>>
  BY <1>0, <1>1 DEF Begin, TypeOK
<1>3. TypeOK' BY <1>0, <1>2 DEF TypeOK, tables, host, locks
<1>4. RowsInv' BY <1>0, <1>2 DEF RowsInv, Administrators, TokenWasDelivered, LoginNamesDistinct, InvitationsSpentOnce,
                                 tables, host
<1>5. LocksInv'
  <2>1. ~HoldsAdmin(w) /\ ~Inserting(w) BY <1>2 DEF HoldsAdmin, Inserting
  <2>2. \A v \in Writers \ {w} : /\ HoldsAdmin(v)' <=> HoldsAdmin(v)
                                 /\ Inserting(v)' <=> Inserting(v)
                                 /\ Wanted(v)' = Wanted(v)
    BY <1>2 DEF HoldsAdmin, Inserting, Wanted
  <2>3. /\ adminLock # None => adminLock \in Writers \ {w}
        /\ \A i \in Invitations : inviteLock[i] # None => inviteLock[i] \in Writers \ {w}
        /\ \A x \in Idents : identLock[x] # None => identLock[x] \in Writers \ {w}
    BY <1>0, <2>1 DEF LocksInv, TypeOK
  <2> QED BY <1>0, <1>2, <2>2, <2>3 DEF LocksInv, locks, HoldsAdmin, Inserting, Wanted
<1>6. WriterInv(w)' BY <1>1, <1>2 DEF WriterInv, HoldsAdmin, Inserting, Arrived
<1>7. ASSUME NEW v \in Writers \ {w} PROVE WriterInv(v)'
  <2>1. Conflict(v)' => Conflict(v) BY <1>2 DEF Conflict, Wanted, tables
  <2>2. Administrators' = Administrators BY <1>2 DEF Administrators, tables
  <2> QED BY <1>2, <2>1, <2>2, OthersKeep DEF host, locks, tables
<1> QED BY <1>3, <1>4, <1>5, <1>6, <1>7 DEF AccountsInv

(* register_user's invitation row.                                          *)
LEMMA LockInvitationKeeps ==
    ASSUME AccountsInv, NEW w \in Writers, LockInvitation(w)
    PROVE  AccountsInv'
<1>0. TypeOK /\ RowsInv /\ LocksInv /\ WriterInv(w) BY DEF AccountsInv
<1> DEFINE i == writer[w].invite
<1>1. /\ writer[w].phase = "begin" /\ writer[w].op = "register" /\ inviteLock[i] = None
      /\ UNCHANGED <<users, setup, lapsed, host>>
  BY DEF LockInvitation
<1>2. i \in Invitations /\ writer[w].username \in Idents BY <1>0, <1>1 DEF WriterInv
<1>3. CASE Acceptable(i, writer[w].email)
  <2>1. /\ inviteLock' = [inviteLock EXCEPT ![i] = w]
        /\ writer' = [writer EXCEPT ![w].phase = "reserve", ![w].email = invitation[i].email]
        /\ UNCHANGED <<invitation, adminLock, identLock>>
    BY <1>3 DEF LockInvitation
  <2>2. invitation[i].email \in Idents BY <1>0, <1>2, <1>3 DEF Acceptable, RowsInv
  <2>3. /\ writer' \in [Writers -> Writer]
        /\ writer'[w].phase = "reserve" /\ writer'[w].op = "register" /\ writer'[w].invite = i
        /\ writer'[w].username = writer[w].username /\ writer'[w].email = invitation[i].email
        /\ \A v \in Writers \ {w} : writer'[v] = writer[v]
    <3> DEFINE r == [writer[w] EXCEPT !.phase = "reserve", !.email = invitation[i].email]
    <3>1. writer[w] \in Writer BY <1>0 DEF TypeOK
    <3>2. /\ r \in Writer /\ r.phase = "reserve" /\ r.op = "register" /\ r.invite = i
          /\ r.username = writer[w].username /\ r.email = invitation[i].email
      BY <1>1, <2>2, <3>1 DEF Writer, Phases
    <3>3. writer' = [writer EXCEPT ![w] = r] BY <1>0, <2>1 DEF TypeOK
    <3> HIDE DEF r
    <3> QED BY <1>0, <3>2, <3>3 DEF TypeOK
  <2>4. inviteLock' \in [Invitations -> Writers \union {None}] BY <1>0, <2>1 DEF TypeOK
  <2>5. TypeOK' BY <1>0, <1>1, <2>1, <2>3, <2>4 DEF TypeOK, host
  <2>6. RowsInv' BY <1>0, <1>1, <2>1 DEF RowsInv, Administrators, TokenWasDelivered, LoginNamesDistinct, InvitationsSpentOnce, host
  <2>7. ~HoldsAdmin(w) /\ ~Inserting(w) BY <1>1 DEF HoldsAdmin, Inserting
  <2>8. /\ adminLock # None => adminLock \in Writers \ {w}
        /\ \A x \in Idents : identLock[x] # None => identLock[x] \in Writers \ {w}
    BY <1>0, <2>7 DEF LocksInv, TypeOK
  <2>9. LocksInv'
    <3>1. adminLock' # None => HoldsAdmin(adminLock)' BY <1>0, <2>1, <2>3, <2>8 DEF LocksInv, HoldsAdmin
    <3>2. \A x \in Idents : identLock'[x] # None => /\ Inserting(identLock[x])'
                                                    /\ x \in Wanted(identLock[x])'
      BY <1>0, <2>1, <2>3, <2>8 DEF LocksInv, Inserting, Wanted
    <3>3. Inserting(w)' BY <2>3 DEF Inserting
    <3>4. \A v \in Writers : Inserting(v) => Inserting(v)' BY <2>3, <2>7 DEF Inserting
    <3>5. ASSUME NEW j \in Invitations, inviteLock'[j] # None PROVE Inserting(inviteLock[j])'
      <4>1. CASE j = i
        <5>1. inviteLock'[j] = w BY <1>0, <1>2, <2>1, <4>1 DEF TypeOK
        <5> QED BY <3>3, <5>1 DEF Inserting
      <4>2. CASE j # i
        <5>1. inviteLock'[j] = inviteLock[j] /\ inviteLock[j] \in Writers
          BY <1>0, <2>1, <3>5, <4>2 DEF TypeOK
        <5>2. Inserting(inviteLock[j]) BY <1>0, <3>5, <5>1 DEF LocksInv
        <5> QED BY <3>4, <5>1, <5>2 DEF Inserting
      <4> QED BY <4>1, <4>2
    <3> QED BY <3>1, <3>2, <3>5 DEF LocksInv
  <2>10. WriterInv(w)'
    <3>1. Wanted(w)' \subseteq Idents BY <1>2, <2>2, <2>3 DEF Wanted
    <3>2. \A x \in Idents : identLock'[x] # w BY <2>1, <2>8, RowsAssumption
    <3>3. inviteLock'[i] = w /\ invitation'[i].status = "PENDING"
      BY <1>0, <1>2, <1>3, <2>1 DEF TypeOK, Acceptable
    <3> QED BY <1>2, <2>2, <2>3, <3>1, <3>2, <3>3 DEF WriterInv, HoldsAdmin, Inserting
  <2>11. ASSUME NEW v \in Writers \ {w} PROVE WriterInv(v)'
    <3>1. Conflict(v)' => Conflict(v) BY <1>1, <2>3 DEF Conflict, Wanted
    <3>2. Administrators' = Administrators BY <1>1 DEF Administrators
    <3>3. \A j \in Invitations : inviteLock[j] = v => inviteLock'[j] = v
      BY <1>0, <1>1, <1>2, <2>1, RowsAssumption DEF TypeOK
    <3> QED BY <1>1, <2>1, <2>3, <3>1, <3>2, <3>3, OthersKeep DEF host
  <2> QED BY <2>5, <2>6, <2>9, <2>10, <2>11 DEF AccountsInv
<1>4. CASE ~Acceptable(i, writer[w].email)
  <2>1. End(w) /\ invitation' \in {invitation, [invitation EXCEPT ![i].status = "EXPIRED"]}
    BY <1>4 DEF LockInvitation
  <2>2. /\ invitation' \in [Invitations -> Invitation]
        /\ \A j \in Invitations : invitation'[j].email = invitation[j].email
        /\ \A j \in Invitations : invitation'[j].status = "none" \/ invitation[j].status # "none" \/ j = i
    BY <1>0, <1>2, <2>1 DEF TypeOK, Invitation
  <2>3. invitation'[i].status # "none" => invitation[i].email \in Idents
    BY <1>0, <1>2, <1>4 DEF LockInvitation, RowsInv
  <2>4. \A j \in Invitations : invitation'[j].status # "none" => invitation'[j].email \in Idents
    BY <1>0, <2>2, <2>3 DEF RowsInv
  <2>6. \A j \in Invitations : inviteLock[j] # None => invitation'[j] = invitation[j]
    BY <1>0, <1>1, <2>1 DEF TypeOK
  <2>7. \A j \in Invitations : invitation[j].status = "ACCEPTED" => invitation'[j].status = "ACCEPTED"
    BY <1>0, <1>2, <1>4 DEF LockInvitation, TypeOK
  <2>8. \A u \in users : u.invite # None => u.invite \in Invitations BY <1>0 DEF TypeOK, User
  <2>9. InvitationsSpentOnce' BY <1>0, <1>1, <2>7, <2>8 DEF RowsInv, InvitationsSpentOnce
  <2>5. RowsInv' BY <1>0, <1>1, <2>4, <2>9 DEF RowsInv, Administrators, TokenWasDelivered, LoginNamesDistinct, host
  <2> QED BY <1>0, <1>1, <2>1, <2>2, <2>5, <2>6, PlainEnd DEF TypeOK
<1> QED BY <1>3, <1>4

(* _lock_bootstrap_admin: the only way to the first-administrator phases.   *)
LEMMA LockBootstrapAdminKeeps ==
    ASSUME AccountsInv, NEW w \in Writers, LockBootstrapAdmin(w)
    PROVE  AccountsInv'
<1>0. TypeOK /\ RowsInv /\ LocksInv /\ WriterInv(w) BY DEF AccountsInv
<1>1. /\ writer[w].phase = "begin" /\ writer[w].op # "register" /\ adminLock = None /\ adminLock' = w
      /\ UNCHANGED <<tables, lapsed, host, inviteLock, identLock>>
  BY DEF LockBootstrapAdmin, TakeAdminLock
<1>2. /\ writer' \in [Writers -> Writer] /\ writer'[w] = [writer[w] EXCEPT !.phase = "locked"]
      /\ writer'[w].phase = "locked" /\ writer'[w].op = writer[w].op
      /\ writer'[w].username = writer[w].username /\ writer'[w].email = writer[w].email
      /\ \A v \in Writers \ {w} : writer'[v] = writer[v]
  BY <1>0 DEF LockBootstrapAdmin, Move, TypeOK, Writer, Phases
<1>3. TypeOK' BY <1>0, <1>1, <1>2 DEF TypeOK, tables, host
<1>4. RowsInv' BY <1>0, <1>1 DEF RowsInv, Administrators, TokenWasDelivered, LoginNamesDistinct, InvitationsSpentOnce,
                                 tables, host
<1>5. LocksInv'
  <2>1. HoldsAdmin(w)' BY <1>1, <1>2 DEF HoldsAdmin
  <2>2. ~Inserting(w) BY <1>1 DEF Inserting
  <2>3. \A v \in Writers : Inserting(v) => Inserting(v)' /\ Wanted(v)' = Wanted(v)
    BY <1>2, <2>2 DEF Inserting, Wanted
  <2>4. /\ \A i \in Invitations : inviteLock[i] # None => inviteLock[i] \in Writers
        /\ \A x \in Idents : identLock[x] # None => identLock[x] \in Writers
    BY <1>0 DEF TypeOK
  <2> QED BY <1>0, <1>1, <2>1, <2>3, <2>4 DEF LocksInv, HoldsAdmin, Inserting, Wanted
<1>6. WriterInv(w)' BY <1>0, <1>1, <1>2 DEF WriterInv, HoldsAdmin, Inserting
<1>7. ASSUME NEW v \in Writers \ {w} PROVE WriterInv(v)'
  <2>1. Conflict(v)' => Conflict(v) BY <1>1, <1>2 DEF Conflict, Wanted, tables
  <2>2. Administrators' = Administrators BY <1>1 DEF Administrators, tables
  <2>3. adminLock # v BY <1>1, RowsAssumption
  <2> QED BY <1>1, <1>2, <2>1, <2>2, <2>3, OthersKeep DEF host, tables
<1> QED BY <1>3, <1>4, <1>5, <1>6, <1>7 DEF AccountsInv

(* A step within a transaction that changes no row and no lock.             *)
LEMMA MoveKeeps ==
    ASSUME AccountsInv, NEW w \in Writers, UNCHANGED <<tables, lapsed, locks>>,
           writer' \in [Writers -> Writer], \A v \in Writers \ {w} : writer'[v] = writer[v],
           file' \in SetupTokens \union {None},
           printed' \in SUBSET SetupTokens, delivered' \in SUBSET SetupTokens,
           delivered \subseteq delivered',
           HoldsAdmin(w) => HoldsAdmin(w)',
           Inserting(w) => Inserting(w)' /\ Wanted(w)' = Wanted(w),
           WriterInv(w)'
    PROVE  AccountsInv'
<1>0. TypeOK /\ RowsInv /\ LocksInv BY DEF AccountsInv
<1>1. TypeOK' BY <1>0 DEF TypeOK, tables, locks
<1>2. RowsInv' BY <1>0 DEF RowsInv, Administrators, TokenWasDelivered, LoginNamesDistinct, InvitationsSpentOnce, tables
<1>3. LocksInv'
  <2>1. \A v \in Writers : /\ HoldsAdmin(v) => HoldsAdmin(v)'
                           /\ Inserting(v) => Inserting(v)' /\ Wanted(v)' = Wanted(v)
    BY DEF HoldsAdmin, Inserting, Wanted
  <2>2. /\ adminLock # None => adminLock \in Writers
        /\ \A i \in Invitations : inviteLock[i] # None => inviteLock[i] \in Writers
        /\ \A x \in Idents : identLock[x] # None => identLock[x] \in Writers
    BY <1>0 DEF TypeOK
  <2> QED BY <1>0, <2>1, <2>2 DEF LocksInv, locks, HoldsAdmin, Inserting, Wanted
<1>4. ASSUME NEW v \in Writers \ {w} PROVE WriterInv(v)'
  <2>1. Conflict(v)' => Conflict(v) BY DEF Conflict, Wanted, tables
  <2>2. Administrators' = Administrators BY DEF Administrators, tables
  <2> QED BY <2>1, <2>2, OthersKeep DEF locks, tables
<1> QED BY <1>1, <1>2, <1>3, <1>4 DEF AccountsInv

(* Move changes the phase of one transaction.                               *)
LEMMA MoveEffect ==
    ASSUME TypeOK, NEW w \in Writers, NEW phase \in Phases, Move(w, phase)
    PROVE  /\ writer' \in [Writers -> Writer]
           /\ writer'[w].phase = phase /\ writer'[w].op = writer[w].op
           /\ writer'[w].username = writer[w].username /\ writer'[w].email = writer[w].email
           /\ writer'[w].invite = writer[w].invite /\ writer'[w].token = writer[w].token
           /\ \A v \in Writers \ {w} : writer'[v] = writer[v]
<1> DEFINE r == [writer[w] EXCEPT !.phase = phase]
<1>1. writer[w] \in Writer BY DEF TypeOK
<1>2. /\ r \in Writer /\ r.phase = phase /\ r.op = writer[w].op /\ r.username = writer[w].username
      /\ r.email = writer[w].email /\ r.invite = writer[w].invite /\ r.token = writer[w].token
  BY <1>1 DEF Writer
<1>3. writer' = [writer EXCEPT ![w] = r] BY DEF Move, TypeOK
<1> HIDE DEF r
<1> QED BY <1>2, <1>3 DEF TypeOK

(* What bootstrap_admin and complete_setup check stays true under the lock. *)
LEMMA CheckSetupKeeps ==
    ASSUME AccountsInv, NEW w \in Writers, CheckSetup(w)
    PROVE  AccountsInv'
<1>0. TypeOK /\ RowsInv /\ LocksInv /\ WriterInv(w) BY DEF AccountsInv
<1>1. /\ writer[w].phase = "locked" /\ writer[w].op \in {"bootstrap", "complete"}
      /\ UNCHANGED <<tables, lapsed, host>>
  BY DEF CheckSetup
<1>2. CASE MayCreateAdmin(w)
  <2>1. Move(w, "reserve") /\ UNCHANGED locks BY <1>2 DEF CheckSetup
  <2>2. /\ writer' \in [Writers -> Writer]
        /\ writer'[w].phase = "reserve" /\ writer'[w].op = writer[w].op
        /\ writer'[w].username = writer[w].username /\ writer'[w].email = writer[w].email
        /\ \A v \in Writers \ {w} : writer'[v] = writer[v]
    BY <1>0, <2>1, MoveEffect DEF Phases
  <2>3. ~Inserting(w) /\ HoldsAdmin(w) /\ HoldsAdmin(w)' /\ Inserting(w)'
    BY <1>1, <2>2 DEF HoldsAdmin, Inserting
  <2>4. \A x \in Idents : identLock[x] # w BY <1>0, <2>3, RowsAssumption DEF LocksInv, TypeOK
  <2>5. Wanted(w)' \subseteq Idents /\ Administrators' = {}
    BY <1>0, <1>1, <1>2, <2>2 DEF WriterInv, Wanted, MayCreateAdmin, Administrators, tables
  <2>6. adminLock' = w /\ identLock' = identLock BY <1>0, <2>1, <2>3 DEF WriterInv, locks
  <2>7. WriterInv(w)'
    BY <1>0, <1>1, <2>2, <2>3, <2>4, <2>5, <2>6 DEF WriterInv, Inserting
  <2> QED BY <1>0, <1>1, <2>1, <2>2, <2>3, <2>7, MoveKeeps DEF TypeOK, host
<1>3. CASE ~MayCreateAdmin(w)
  <2>1. End(w) BY <1>3 DEF CheckSetup
  <2>2. RowsInv' BY <1>0, <1>1 DEF RowsInv, Administrators, TokenWasDelivered, LoginNamesDistinct, InvitationsSpentOnce,
                                   tables, host
  <2> QED BY <1>0, <1>1, <2>1, <2>2, PlainEnd DEF TypeOK, tables
<1> QED BY <1>2, <1>3

(* _reserve_login_identifiers, one advisory lock.                           *)
LEMMA LockIdentifierKeeps ==
    ASSUME AccountsInv, NEW w \in Writers, NEW x \in Idents, LockIdentifier(w, x)
    PROVE  AccountsInv'
<1>0. TypeOK /\ RowsInv /\ LocksInv /\ WriterInv(w) BY DEF AccountsInv
<1>1. /\ writer[w].phase = "reserve" /\ InSortOrder(w, x) /\ identLock[x] = None
      /\ identLock' = [identLock EXCEPT ![x] = w]
      /\ UNCHANGED <<tables, lapsed, host, adminLock, inviteLock, writer>>
  BY DEF LockIdentifier
<1>2. identLock' \in [Idents -> Writers \union {None}] /\ identLock'[x] = w
      /\ \A y \in Idents \ {x} : identLock'[y] = identLock[y]
  BY <1>0, <1>1 DEF TypeOK
<1>3. Inserting(w) /\ Wanted(w) \subseteq Idents
  BY <1>0, <1>1 DEF Inserting, WriterInv, Wanted
<1>4. TypeOK' BY <1>0, <1>1, <1>2 DEF TypeOK, tables, host
<1>5. RowsInv' BY <1>0, <1>1 DEF RowsInv, Administrators, TokenWasDelivered, LoginNamesDistinct, InvitationsSpentOnce,
                                 tables, host
<1>6. LocksInv'
  <2>1. x \in Wanted(w) BY <1>1 DEF InSortOrder
  <2>2. ASSUME NEW y \in Idents, identLock'[y] # None
        PROVE  Inserting(identLock'[y]) /\ y \in Wanted(identLock'[y])
    <3>1. CASE y = x BY <1>2, <1>3, <2>1, <3>1
    <3>2. CASE y # x BY <1>0, <1>2, <2>2, <3>2 DEF LocksInv
    <3> QED BY <3>1, <3>2
  <2> QED BY <1>0, <1>1, <2>2 DEF LocksInv, HoldsAdmin, Inserting, Wanted
<1>7. WriterInv(w)'
  <2>1. Wanted(w)' = Wanted(w) /\ Administrators' = Administrators
    BY <1>1 DEF Wanted, Administrators, tables
  <2>2. ASSUME NEW a \in Wanted(w), NEW b \in Wanted(w), identLock'[a] = w, identLock'[b] # w
        PROVE  a < b
    <3>1. a \in Nat /\ b \in Nat /\ b # x /\ identLock[b] # w BY <1>2, <1>3, <2>2, RowsAssumption DEF Idents
    <3>2. CASE a = x BY <1>1, <3>1, <3>2 DEF InSortOrder
    <3>3. CASE a # x BY <1>0, <1>1, <1>2, <1>3, <2>2, <3>1, <3>3 DEF WriterInv
    <3> QED BY <3>2, <3>3
  <2>3. \A a, b \in Wanted(w) : identLock'[a] = w /\ identLock'[b] # w => a < b BY <2>2
  <2> QED BY <1>0, <1>1, <2>1, <2>3 DEF WriterInv, HoldsAdmin, Inserting, host, tables
<1>8. ASSUME NEW v \in Writers \ {w} PROVE WriterInv(v)'
  <2>1. Conflict(v)' => Conflict(v) BY <1>1 DEF Conflict, Wanted, tables
  <2>2. Administrators' = Administrators BY <1>1 DEF Administrators, tables
  <2>3. \A y \in Idents : identLock'[y] = v <=> identLock[y] = v
    BY <1>1, <1>2, RowsAssumption
  <2> QED BY <1>1, <2>1, <2>2, <2>3, OthersKeep DEF host, tables
<1> QED BY <1>4, <1>5, <1>6, <1>7, <1>8 DEF AccountsInv

(* The conflict check under both locks.                                     *)
LEMMA CheckConflictKeeps ==
    ASSUME AccountsInv, NEW w \in Writers, CheckConflict(w)
    PROVE  AccountsInv'
<1>0. TypeOK /\ RowsInv /\ LocksInv /\ WriterInv(w) BY DEF AccountsInv
<1>1. /\ writer[w].phase = "reserve" /\ \A x \in Wanted(w) : identLock[x] = w
      /\ UNCHANGED <<tables, lapsed, host>>
  BY DEF CheckConflict
<1>2. CASE ~Conflict(w)
  <2>1. Move(w, "insert") /\ UNCHANGED locks BY <1>2 DEF CheckConflict
  <2>2. /\ writer' \in [Writers -> Writer]
        /\ writer'[w].phase = "insert" /\ writer'[w].op = writer[w].op
        /\ writer'[w].username = writer[w].username /\ writer'[w].email = writer[w].email
        /\ writer'[w].invite = writer[w].invite
        /\ \A v \in Writers \ {w} : writer'[v] = writer[v]
    BY <1>0, <2>1, MoveEffect DEF Phases
  <2>3. /\ Inserting(w) /\ Inserting(w)' /\ Wanted(w)' = Wanted(w)
        /\ HoldsAdmin(w)' <=> HoldsAdmin(w)
    BY <1>1, <2>2 DEF HoldsAdmin, Inserting, Wanted
  <2>4. ~Conflict(w)' /\ Administrators' = Administrators
    BY <1>1, <1>2, <2>3 DEF Conflict, Administrators, tables
  <2>5. UNCHANGED <<adminLock, identLock, inviteLock, invitation>> BY <1>1, <2>1 DEF locks, tables
  <2>6. WriterInv(w)'
    BY <1>0, <1>1, <2>2, <2>3, <2>4, <2>5 DEF WriterInv
  <2> QED BY <1>0, <1>1, <2>1, <2>2, <2>3, <2>6, MoveKeeps DEF TypeOK, host
<1>3. CASE Conflict(w)
  <2>1. End(w) BY <1>3 DEF CheckConflict
  <2>2. RowsInv' BY <1>0, <1>1 DEF RowsInv, Administrators, TokenWasDelivered, LoginNamesDistinct, InvitationsSpentOnce,
                                   tables, host
  <2> QED BY <1>0, <1>1, <2>1, <2>2, PlainEnd DEF TypeOK, tables
<1> QED BY <1>2, <1>3

(* An insert under both identifier locks: the new account shares no         *)
(* identifier with another, nor with what another transaction is inserting. *)
LEMMA InsertIsDistinct ==
    ASSUME AccountsInv, NEW w \in Writers, writer[w].phase = "insert", NEW u,
           u.username = writer[w].username, u.email = writer[w].email, users' = users \union {u},
           \A v \in Writers \ {w} : writer'[v] = writer[v]
    PROVE  /\ LoginNamesDistinct'
           /\ \A v \in Writers \ {w} : Conflict(v)' => Conflict(v) \/ writer[v].phase # "insert"
<1>0. LoginNamesDistinct /\ \A v \in Writers : WriterInv(v) BY DEF AccountsInv, RowsInv
<1>1. \A a \in users : {a.username, a.email} \intersect {u.username, u.email} = {}
  BY <1>0 DEF WriterInv, Conflict, Wanted
<1>2. LoginNamesDistinct'
  <2> SUFFICES ASSUME NEW a \in users \union {u}, NEW b \in users \union {u}, a # b
               PROVE  {a.username, a.email} \intersect {b.username, b.email} = {}
    BY DEF LoginNamesDistinct
  <2>1. CASE a \in users /\ b \in users BY <1>0, <2>1 DEF LoginNamesDistinct
  <2>2. CASE a = u /\ b \in users BY <1>1, <2>2
  <2>3. CASE a \in users /\ b = u BY <1>1, <2>3
  <2> QED BY <2>1, <2>2, <2>3
<1>3. ASSUME NEW v \in Writers \ {w}, writer[v].phase = "insert", Conflict(v)' PROVE FALSE
  <2>1. Wanted(v)' = Wanted(v) BY DEF Wanted
  <2>2. PICK a \in users \union {u} : {a.username, a.email} \intersect Wanted(v) # {}
    BY <1>3, <2>1 DEF Conflict
  <2>3. ~Conflict(v) BY <1>0, <1>3 DEF WriterInv
  <2>4. a = u BY <2>2, <2>3 DEF Conflict
  <2>5. PICK x \in Wanted(w) : x \in Wanted(v) BY <2>2, <2>4 DEF Wanted
  <2>6. identLock[x] = w BY <1>0, <2>5 DEF WriterInv
  <2>7. identLock[x] = v BY <1>0, <1>3, <2>5 DEF WriterInv
  <2> QED BY <2>6, <2>7
<1> QED BY <1>2, <1>3

(* Commit of a registration: a user, never an administrator.                *)
LEMMA CommitRegisterKeeps ==
    ASSUME AccountsInv, NEW w \in Writers, CommitRegister(w)
    PROVE  AccountsInv'
<1>0. TypeOK /\ RowsInv /\ LocksInv /\ WriterInv(w) BY DEF AccountsInv
<1> DEFINE u == [username |-> writer[w].username, email |-> writer[w].email,
                 role |-> "USER", invite |-> writer[w].invite]
<1>1. /\ writer[w].phase = "insert" /\ writer[w].op = "register" /\ users' = users \union {u}
      /\ invitation' = Consumed(writer[w].invite) /\ End(w) /\ UNCHANGED <<setup, lapsed, host>>
  BY DEF CommitRegister
<1>2. writer[w].invite \in Invitations /\ writer[w].username \in Idents /\ writer[w].email \in Idents
  BY <1>0, <1>1 DEF WriterInv, Inserting
<1>3. u \in User /\ u.username = writer[w].username /\ u.email = writer[w].email /\ u.role = "USER"
  BY <1>2 DEF User
<1> HIDE DEF u
<1>4. Administrators' = Administrators BY <1>1, <1>3 DEF Administrators
<1>5. LoginNamesDistinct' /\ \A v \in Writers \ {w} : Conflict(v)' => Conflict(v) \/ writer[v].phase # "insert"
  BY <1>1, <1>3, InsertIsDistinct, EndEffect
<1>6. /\ invitation' \in [Invitations -> Invitation]
      /\ \A i \in Invitations : invitation'[i].email = invitation[i].email
      /\ \A i \in Invitations \ {writer[w].invite} : invitation'[i] = invitation[i]
  BY <1>0, <1>1 DEF Consumed, TypeOK, Invitation
<1>7. inviteLock[writer[w].invite] = w /\ invitation[writer[w].invite].status = "PENDING"
  BY <1>0, <1>1 DEF WriterInv, Inserting
<1>8. InvitationsSpentOnce'
  <2>1. \A a \in users : a.invite # writer[w].invite BY <1>0, <1>2, <1>7, RowsAssumption DEF RowsInv, InvitationsSpentOnce
  <2>2. \A a \in users : a.invite # None => a.invite \in Invitations BY <1>0 DEF TypeOK, User
  <2>3. invitation'[writer[w].invite].status = "ACCEPTED" /\ u.invite = writer[w].invite
    BY <1>0, <1>1, <1>2 DEF Consumed, TypeOK, u
  <2> QED BY <1>0, <1>1, <1>6, <2>1, <2>2, <2>3 DEF RowsInv, InvitationsSpentOnce
<1>9. RowsInv' BY <1>0, <1>1, <1>4, <1>5, <1>6, <1>7, <1>8 DEF RowsInv, TokenWasDelivered, host
<1>10. TypeOK' BY <1>0, <1>1, <1>3, <1>6, EndEffect DEF TypeOK, host
<1>11. ASSUME NEW v \in Writers \ {w} PROVE WriterInv(v)'
  <2>1. \A i \in Invitations : inviteLock[i] = v => invitation'[i] = invitation[i] BY <1>6, <1>7
  <2> QED BY <1>1, <1>4, <1>5, <2>1, EndEffect, OthersKeep DEF host
<1> QED BY <1>1, <1>9, <1>10, <1>11, EndEffect DEF AccountsInv

(* Commit of the first administrator: there was none, and setup closes.     *)
LEMMA CommitAdminKeeps ==
    ASSUME AccountsInv, NEW w \in Writers, CommitAdmin(w)
    PROVE  AccountsInv'
<1>0. TypeOK /\ RowsInv /\ LocksInv /\ WriterInv(w) BY DEF AccountsInv
<1> DEFINE u == [username |-> writer[w].username, email |-> writer[w].email,
                 role |-> "ADMIN", invite |-> None]
<1>1. /\ writer[w].phase = "insert" /\ writer[w].op \in {"bootstrap", "complete"}
      /\ users' = users \union {u} /\ setup' = SetupClosed /\ End(w)
      /\ UNCHANGED <<invitation, lapsed, host>>
  BY DEF CommitAdmin
<1>2. writer[w].username \in Idents /\ writer[w].email \in Idents
  BY <1>0, <1>1 DEF WriterInv
<1>3. u \in User /\ u.username = writer[w].username /\ u.email = writer[w].email
      /\ u.role = "ADMIN" /\ u.invite = None
  BY <1>2 DEF User
<1> HIDE DEF u
<1>4. adminLock = w /\ Administrators = {}
  BY <1>0, <1>1 DEF WriterInv, HoldsAdmin, Inserting
<1>5. Administrators' = {u} BY <1>1, <1>3, <1>4 DEF Administrators
<1>6. LoginNamesDistinct' /\ \A v \in Writers \ {w} : Conflict(v)' => Conflict(v) \/ writer[v].phase # "insert"
  BY <1>1, <1>3, InsertIsDistinct, EndEffect
<1>7. setup' \in Setup /\ setup'.state = "COMPLETED" /\ setup'.token_hash = None
  BY <1>1 DEF SetupClosed, Setup
<1>8. InvitationsSpentOnce' BY <1>0, <1>1, <1>3 DEF RowsInv, InvitationsSpentOnce
<1>9. RowsInv' BY <1>0, <1>1, <1>5, <1>6, <1>7, <1>8 DEF RowsInv, TokenWasDelivered
<1>10. TypeOK' BY <1>0, <1>1, <1>3, <1>7, EndEffect DEF TypeOK, host
<1>11. \A v \in Writers \ {w} : WriterInv(v)' BY <1>1, <1>4, <1>6, EndEffect, OthersKeep DEF host
<1> QED BY <1>1, <1>9, <1>10, <1>11, EndEffect DEF AccountsInv

(* prepare_setup that needs no new token.                                   *)
LEMMA ReuseTokenKeeps ==
    ASSUME AccountsInv, NEW w \in Writers, ReuseToken(w)
    PROVE  AccountsInv'
<1>0. TypeOK /\ RowsInv BY DEF AccountsInv
<1>1. /\ End(w) /\ UNCHANGED <<users, invitation, lapsed, host>>
      /\ setup' = setup \/ (setup' = SetupClosed /\ Administrators # {})
  BY DEF ReuseToken
<1>2. setup' \in Setup BY <1>0, <1>1 DEF TypeOK, SetupClosed, Setup
<1>3. RowsInv'
  BY <1>0, <1>1 DEF RowsInv, Administrators, TokenWasDelivered, LoginNamesDistinct,
                    InvitationsSpentOnce, host, SetupClosed
<1> QED BY <1>0, <1>1, <1>2, <1>3, PlainEnd DEF TypeOK

(* The file first: the token is delivered before its hash commits.          *)
LEMMA WriteSetupTokenKeeps ==
    ASSUME AccountsInv, NEW w \in Writers, NEW t \in SetupTokens, WriteSetupToken(w, t)
    PROVE  AccountsInv'
<1>0. TypeOK /\ RowsInv /\ WriterInv(w) BY DEF AccountsInv
<1>1. /\ writer[w].phase = "locked" /\ writer[w].op \in {"prepare", "rotate"} /\ Administrators = {}
      /\ printed' = printed \union {t} /\ file' = t /\ delivered' = delivered \union {t}
      /\ writer' = [writer EXCEPT ![w].phase = "written", ![w].token = t]
      /\ UNCHANGED <<tables, lapsed, locks>>
  BY DEF WriteSetupToken
<1>2. /\ writer' \in [Writers -> Writer] /\ writer'[w].phase = "written"
      /\ writer'[w].op = writer[w].op /\ writer'[w].token = t
      /\ \A v \in Writers \ {w} : writer'[v] = writer[v]
  <2> DEFINE r == [writer[w] EXCEPT !.phase = "written", !.token = t]
  <2>1. writer[w] \in Writer BY <1>0 DEF TypeOK
  <2>2. r \in Writer /\ r.phase = "written" /\ r.op = writer[w].op /\ r.token = t
    BY <2>1 DEF Writer, Phases
  <2>3. writer' = [writer EXCEPT ![w] = r] BY <1>0, <1>1 DEF TypeOK
  <2> HIDE DEF r
  <2> QED BY <1>0, <2>2, <2>3 DEF TypeOK
<1>3. HoldsAdmin(w) /\ HoldsAdmin(w)' /\ ~Inserting(w) /\ ~Inserting(w)'
  BY <1>1, <1>2 DEF HoldsAdmin, Inserting
<1>4. adminLock' = w /\ Administrators' = {}
  BY <1>0, <1>1, <1>3 DEF WriterInv, locks, tables, Administrators
<1>5. WriterInv(w)' BY <1>1, <1>2, <1>3, <1>4 DEF WriterInv
<1>6. /\ file' \in SetupTokens \union {None} /\ delivered \subseteq delivered'
      /\ printed' \in SUBSET SetupTokens /\ delivered' \in SUBSET SetupTokens
  BY <1>0, <1>1 DEF TypeOK
<1> QED BY <1>1, <1>2, <1>3, <1>5, <1>6, MoveKeeps

(* The commit of the hash.                                                  *)
LEMMA CommitTokenKeeps ==
    ASSUME AccountsInv, NEW w \in Writers, CommitToken(w)
    PROVE  AccountsInv'
<1>0. TypeOK /\ RowsInv /\ WriterInv(w) BY DEF AccountsInv
<1>1. /\ writer[w].phase = "written" /\ End(w) /\ UNCHANGED <<users, invitation, lapsed, host>>
      /\ setup' = [state |-> "PENDING", token_hash |-> writer[w].token]
  BY DEF CommitToken, HashOfWritten
<1>2. Administrators = {} /\ writer[w].token \in delivered BY <1>0, <1>1 DEF WriterInv
<1>3. setup' \in Setup BY <1>0, <1>1 DEF TypeOK, Writer, Setup
<1>4. RowsInv'
  BY <1>0, <1>1, <1>2 DEF RowsInv, Administrators, TokenWasDelivered, LoginNamesDistinct,
                          InvitationsSpentOnce, host
<1> QED BY <1>0, <1>1, <1>3, <1>4, PlainEnd DEF TypeOK

LEMMA RollbackKeeps ==
    ASSUME AccountsInv, NEW w \in Writers, Rollback(w)
    PROVE  AccountsInv'
<1>0. TypeOK /\ RowsInv BY DEF AccountsInv
<1>1. End(w) /\ UNCHANGED <<tables, lapsed, host>> BY DEF Rollback
<1>2. RowsInv' BY <1>0, <1>1 DEF RowsInv, Administrators, TokenWasDelivered, LoginNamesDistinct, InvitationsSpentOnce,
                                 tables, host
<1> QED BY <1>0, <1>1, <1>2, PlainEnd DEF TypeOK, tables

(* A new invitation and the passing of time touch no transaction.           *)
LEMMA InvitationKeeps ==
    ASSUME AccountsInv, NEW i \in Invitations,
           Expire(i) \/ \E email \in Idents : CreateInvitation(i, email)
    PROVE  AccountsInv'
<1>0. TypeOK /\ RowsInv /\ LocksInv BY DEF AccountsInv
<1>1. /\ UNCHANGED <<users, setup, host, locks, writer>> /\ lapsed' \in SUBSET Invitations
      /\ invitation' \in [Invitations -> Invitation]
      /\ \A j \in Invitations :
           invitation'[j] = invitation[j]
             \/ (invitation[j].status = "none" /\ invitation'[j].email \in Idents)
  <2>1. CASE Expire(i) BY <1>0, <2>1 DEF Expire, TypeOK, tables
  <2>2. ASSUME NEW email \in Idents, CreateInvitation(i, email)
        PROVE  /\ UNCHANGED <<users, setup, host, locks, writer, lapsed>>
               /\ invitation' \in [Invitations -> Invitation]
               /\ \A j \in Invitations :
                    invitation'[j] = invitation[j]
                      \/ (invitation[j].status = "none" /\ invitation'[j].email \in Idents)
    <3>1. [status |-> "PENDING", email |-> email] \in Invitation BY DEF Invitation
    <3> QED BY <1>0, <2>2, <3>1 DEF CreateInvitation, TypeOK
  <2>3. lapsed \in SUBSET Invitations BY <1>0 DEF TypeOK
  <2> QED BY <2>1, <2>2, <2>3
<1>2. TypeOK' BY <1>0, <1>1 DEF TypeOK, host, locks
<1>3. \A u \in users : u.invite # None => u.invite \in Invitations BY <1>0 DEF TypeOK, User
<1>4. InvitationsSpentOnce' BY <1>0, <1>1, <1>3 DEF RowsInv, InvitationsSpentOnce
<1>5. RowsInv' BY <1>0, <1>1, <1>4 DEF RowsInv, Administrators, TokenWasDelivered, LoginNamesDistinct, host
<1>6. LocksInv' BY <1>0, <1>1 DEF LocksInv, locks, HoldsAdmin, Inserting, Wanted
<1>7. ASSUME NEW v \in Writers PROVE WriterInv(v)'
  <2>1. WriterInv(v) BY DEF AccountsInv
  <2>2. Conflict(v)' = Conflict(v) /\ Wanted(v)' = Wanted(v) /\ Administrators' = Administrators
    BY <1>1 DEF Conflict, Wanted, Administrators
  <2>3. Inserting(v) /\ writer[v].op = "register" => invitation'[writer[v].invite].status = "PENDING"
    BY <1>1, <2>1 DEF WriterInv, Inserting
  <2> QED BY <1>1, <2>1, <2>2, <2>3 DEF WriterInv, Inserting, HoldsAdmin, host, locks
<1> QED BY <1>2, <1>5, <1>6, <1>7 DEF AccountsInv

-----------------------------------------------------------------------------
(* Theorems.                                                                *)

LEMMA AccountsInvariant == Spec => []AccountsInv
<1>1. Init => AccountsInv
  <2> SUFFICES ASSUME Init PROVE AccountsInv OBVIOUS
  <2>1. TypeOK BY IdleIsWriter DEF Init, TypeOK, Setup, Invitation
  <2>2. RowsInv BY DEF Init, RowsInv, Administrators, TokenWasDelivered, LoginNamesDistinct, InvitationsSpentOnce
  <2>3. LocksInv BY DEF Init, LocksInv
  <2>4. \A w \in Writers : WriterInv(w) BY DEF Init, WriterInv, IdleWriter, HoldsAdmin, Inserting
  <2> QED BY <2>1, <2>2, <2>3, <2>4 DEF AccountsInv
<1>2. AccountsInv /\ [Next]_vars => AccountsInv'
  <2> SUFFICES ASSUME AccountsInv, [Next]_vars PROVE AccountsInv' OBVIOUS
  <2>1. CASE UNCHANGED vars
    <3>1. TypeOK' BY <2>1 DEF AccountsInv, TypeOK, vars, tables, host, locks
    <3>2. RowsInv' BY <2>1 DEF AccountsInv, RowsInv, Administrators, TokenWasDelivered, LoginNamesDistinct,
                               InvitationsSpentOnce, vars, tables, host
    <3>3. LocksInv' BY <2>1 DEF AccountsInv, LocksInv, vars, locks, HoldsAdmin, Inserting, Wanted
    <3>4. \A w \in Writers : WriterInv(w)'
      BY <2>1 DEF AccountsInv, WriterInv, vars, tables, host, locks, HoldsAdmin, Inserting, Wanted,
                  Conflict, Administrators
    <3> QED BY <3>1, <3>2, <3>3, <3>4 DEF AccountsInv
  <2>2. ASSUME NEW w \in Writers, WriterStep(w) PROVE AccountsInv'
    BY <2>2, LockInvitationKeeps, LockBootstrapAdminKeeps, CheckSetupKeeps, LockIdentifierKeeps,
       CheckConflictKeeps, CommitRegisterKeeps, CommitAdminKeeps, ReuseTokenKeeps, CommitTokenKeeps,
       WriteSetupTokenKeeps DEF WriterStep
  <2> QED BY <2>1, <2>2, ArrivalKeeps, RollbackKeeps, InvitationKeeps DEF Next
<1> QED BY <1>1, <1>2, PTL DEF Spec

(* The tables, the locks and the transactions keep their types.             *)
THEOREM AccountsTypeCorrect == Spec => []TypeOK
BY AccountsInvariant, PTL DEF AccountsInv

(* However setups, commands, retries and crashes interleave, there is never *)
(* a second administrator, and with the first one setup is closed: the      *)
(* check of bootstrap_admin and complete_setup is still true at the commit, *)
(* because every transaction that could change it needs the same lock.      *)
THEOREM OneAdministratorOnly == Spec => []OneAdministrator
<1>1. AccountsInv => OneAdministrator
  <2> SUFFICES ASSUME AccountsInv PROVE OneAdministrator OBVIOUS
  <2>1. (\A u, v \in Administrators : u = v) /\ (Administrators # {} => setup.state = "COMPLETED")
    BY DEF AccountsInv, RowsInv
  <2>2. CASE Administrators = {} BY <2>2, FS_EmptySet DEF OneAdministrator
  <2>3. CASE Administrators # {}
    <3>1. PICK a \in Administrators : Administrators = {a} BY <2>1, <2>3
    <3>2. Cardinality(Administrators) = 1 BY <3>1, FS_Singleton
    <3> QED BY <2>1, <3>2 DEF OneAdministrator
  <2> QED BY <2>2, <2>3
<1> QED BY <1>1, AccountsInvariant, PTL

(* A setup that is COMPLETED stays closed, with no token: not even a token  *)
(* rotation that wrote its file before the administrator was created can    *)
(* commit a new hash.                                                       *)
ClosedSetupStays == setup.state = "COMPLETED" => UNCHANGED setup
THEOREM SetupClosesForGood == Spec => [][ClosedSetupStays]_vars
<1>1. AccountsInv /\ [Next]_vars => [ClosedSetupStays]_vars
  <2> SUFFICES ASSUME AccountsInv, [Next]_vars, setup.state = "COMPLETED" PROVE UNCHANGED setup
    BY DEF ClosedSetupStays
  <2>0. Administrators # {} BY DEF AccountsInv, RowsInv
  <2>1. ASSUME NEW w \in Writers, CommitAdmin(w) PROVE FALSE
    BY <2>0, <2>1 DEF AccountsInv, WriterInv, Inserting, HoldsAdmin, CommitAdmin
  <2>2. ASSUME NEW w \in Writers, CommitToken(w) PROVE FALSE
    BY <2>0, <2>2 DEF AccountsInv, WriterInv, CommitToken
  <2>3. ASSUME NEW w \in Writers, Arrival(w) \/ Rollback(w) PROVE UNCHANGED setup
    BY <2>3 DEF Arrival, Rollback, BeginRegister, BeginBootstrap, BeginComplete, BeginPrepare, Begin, tables
  <2>4. ASSUME NEW w \in Writers, WriterStep(w) PROVE UNCHANGED setup
    BY <2>1, <2>2, <2>4 DEF WriterStep, LockInvitation, LockBootstrapAdmin, CheckSetup, LockIdentifier,
       CheckConflict, CommitRegister, ReuseToken, WriteSetupToken, tables
  <2>5. ASSUME NEW i \in Invitations, Expire(i) \/ \E email \in Idents : CreateInvitation(i, email)
        PROVE  UNCHANGED setup
    BY <2>5 DEF Expire, CreateInvitation, tables
  <2> QED BY <2>3, <2>4, <2>5 DEF Next, vars, tables
<1> QED BY <1>1, AccountsInvariant, PTL DEF Spec

(* The setup token the server accepts has been in the host's file, wherever *)
(* a process died between the file and the commit.                          *)
THEOREM AcceptedTokenWasDelivered == Spec => []TokenWasDelivered
BY AccountsInvariant, PTL DEF AccountsInv, RowsInv

(* No two accounts share a login identifier in either column: both          *)
(* identifiers stay locked from the conflict check to the insert.           *)
THEOREM LoginNamesStayDistinct == Spec => []LoginNamesDistinct
BY AccountsInvariant, PTL DEF AccountsInv, RowsInv

(* One invitation makes one account: the row stays locked and PENDING from  *)
(* its validation to the commit that accepts it.                            *)
THEOREM InvitationsMakeOneAccount == Spec => []InvitationsSpentOnce
BY AccountsInvariant, PTL DEF AccountsInv, RowsInv

(* A set of identifiers has a last one in their sort order.                 *)
LEMMA LastIdentExists ==
    ASSUME NEW X \in SUBSET Idents, X # {}
    PROVE  \E x \in X : \A y \in X : y <= x
<1> DEFINE Above == {MaxIdent - x : x \in X}
<1>1. Above \subseteq Nat /\ Above # {}
  <2>1. \A x \in X : MaxIdent - x \in Nat BY RowsAssumption DEF Idents
  <2>2. \A x \in X : MaxIdent - x \in Above OBVIOUS
  <2> QED BY <2>1, <2>2
<1>2. PICK m \in Above : \A n \in Above : ~(<<n, m>> \in OpToRel(<, Nat))
  BY <1>1, NatLessThanWellFounded, WFMin
<1>3. ASSUME NEW n \in Above PROVE m <= n
  <2>1. n \in Nat /\ m \in Nat BY <1>1
  <2>2. n < m => <<n, m>> \in OpToRel(<, Nat) BY <2>1 DEF OpToRel
  <2>3. ~(n < m) BY <1>2, <2>2, Zenon
  <2> QED BY <2>1, <2>3
<1>4. PICK x \in X : m = MaxIdent - x OBVIOUS
<1>5. ASSUME NEW y \in X PROVE y <= x
  <2>1. MaxIdent - y \in Above OBVIOUS
  <2>2. MaxIdent - x <= MaxIdent - y BY <1>3, <1>4, <2>1
  <2> QED BY <2>2, RowsAssumption DEF Idents
<1> QED BY <1>5

(* Transactions never wait for each other in a cycle: one that holds a lock *)
(* waits for identifiers only, in sort order, so along a chain of waits the *)
(* identifier waited for grows.                                             *)
THEOREM WritersNeverWaitInCycle == Spec => []WritersNeverDeadlock
<1>1. ASSUME AccountsInv, NEW S \in SUBSET Writers, S # {}
      PROVE  \E w \in S : Blockers(w) \intersect S = {}
  <2> SUFFICES ASSUME \A w \in S : \E v \in S : v \in Blockers(w) PROVE FALSE OBVIOUS
  <2>0. TypeOK /\ LocksInv /\ None \notin S BY <1>1, RowsAssumption DEF AccountsInv
  <2>1. ASSUME NEW w \in S PROVE writer[w].phase \in {"begin", "reserve"}
    BY DEF Blockers
  <2>2. ASSUME NEW w \in S, NEW v \in S, v \in Blockers(w) PROVE writer[v].phase = "reserve"
    <3>1. Inserting(v) \/ HoldsAdmin(v) BY <2>0, <2>2 DEF Blockers, LocksInv
    <3> QED BY <2>1, <3>1 DEF Inserting, HoldsAdmin
  <2>3. PICK r \in S : writer[r].phase = "reserve" BY <1>1, <2>2
  <2> DEFINE Awaited == {x \in Idents : \E w \in S : /\ writer[w].phase = "reserve"
                                                     /\ InSortOrder(w, x) /\ identLock[x] \in S}
  <2>4. ASSUME NEW w \in S, writer[w].phase = "reserve"
        PROVE  \E x \in Awaited : InSortOrder(w, x)
    <3>1. PICK v \in S : v \in Blockers(w) OBVIOUS
    <3>2. PICK x \in Idents : InSortOrder(w, x) /\ v = identLock[x] BY <2>4, <3>1 DEF Blockers
    <3> QED BY <2>4, <3>2
  <2>5. Awaited # {} BY <2>3, <2>4
  <2>6. PICK m \in Awaited : \A y \in Awaited : y <= m
    <3> HIDE DEF Awaited
    <3>1. Awaited \in SUBSET Idents BY DEF Awaited
    <3> QED BY <2>5, <3>1, LastIdentExists
  <2>7. m \in Idents /\ identLock[m] \in S OBVIOUS
  <2> DEFINE v == identLock[m]
  <2>8. v \in S /\ Inserting(v) /\ m \in Wanted(v) BY <2>0, <2>7 DEF LocksInv
  <2>9. writer[v].phase = "reserve" BY <2>1, <2>8 DEF Inserting
  <2>10. PICK x \in Awaited : InSortOrder(v, x) BY <2>4, <2>8, <2>9
  <2>11. m < x BY <1>1, <2>8, <2>9, <2>10 DEF AccountsInv, WriterInv, InSortOrder
  <2>12. x <= m /\ x \in Nat /\ m \in Nat BY <2>6, <2>10, RowsAssumption DEF Idents
  <2> QED BY <2>11, <2>12
<1>2. AccountsInv => WritersNeverDeadlock BY <1>1 DEF WritersNeverDeadlock
<1> QED BY <1>2, AccountsInvariant, PTL
=============================================================================
