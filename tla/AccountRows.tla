------------------------------ MODULE AccountRows ------------------------------
(***************************************************************************)
(* The rows, the host's token file and the locks that the transactions of  *)
(* Accounts share, and what must hold of them whichever transactions run:  *)
(* setup, command line and registration each see the same tables.          *)
(***************************************************************************)
EXTENDS Naturals, FiniteSets

CONSTANTS MaxIdent,     \* normalised login identifiers, in their sort order
          Invitations,
          SetupTokens,  \* bounds the setup tokens ever generated
          Writers,      \* concurrently running transactions
          None

Idents == 1..MaxIdent

ASSUME RowsAssumption ==
    MaxIdent \in Nat /\ None \notin Idents \union Invitations \union SetupTokens \union Writers

VARIABLES
    users, invitation, lapsed,     \* users; invitation rows; those past expires_at
    setup,                         \* the installation_setup row with id 1
    file,                          \* content of the host's setup token file
    printed, delivered,            \* tokens generated; tokens some file version held
    adminLock, inviteLock, identLock,
    writer

User == [username : Idents, email : Idents, role : {"ADMIN", "USER"},
         invite : Invitations \union {None}]
Invitation == [status : {"none", "PENDING", "ACCEPTED", "EXPIRED"},
               email : Idents \union {None}]
Setup == [state : {"none", "PENDING", "COMPLETED"}, token_hash : SetupTokens \union {None}]

Administrators == {u \in users : u.role = "ADMIN"}

-----------------------------------------------------------------------------
(* Properties.                                                              *)

(* Web setup, command line and their repetitions race for the first         *)
(* administrator: there is never a second one, and with the first setup is  *)
(* closed for good ("permanently close web setup"), so no token still in a  *)
(* file can create another.                                                 *)
OneAdministrator ==
    Cardinality(Administrators) <= 1 /\ (Administrators # {} => setup.state = "COMPLETED")

(* No two accounts share a login identifier, across usernames and e-mail    *)
(* addresses, which no unique index expresses.                              *)
LoginNamesDistinct ==
    \A u, v \in users : u # v => {u.username, u.email} \intersect {v.username, v.email} = {}

(* Whatever dies between the file and the commit: a token the server        *)
(* accepts has been in the host's file, so setup is never locked out by a   *)
(* hash nobody can present.                                                 *)
TokenWasDelivered == setup.token_hash # None => setup.token_hash \in delivered
=============================================================================
