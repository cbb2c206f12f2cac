------------------------------- MODULE MCAccess -------------------------------
(***************************************************************************)
(* Small instances of RefreshSessions and Accounts.  The initial state     *)
(* picks a scenario; the variables of the other module stay as they are.   *)
(* The sessions are RefreshSessions itself; the transactions of Accounts   *)
(* run twice on AccountRows, for the first administrator and for           *)
(* registrations.                                                          *)
(***************************************************************************)
EXTENDS RefreshSessions, AccountRows, TLC

VARIABLE scenario
accounts == <<users, invitation, lapsed, setup, file, printed, delivered,
              adminLock, inviteLock, identLock, writer>>

\* First administrator: web setup, command line and token rotation.
FirstRun == INSTANCE Accounts WITH Invitations <- {}
\* Registrations whose usernames and e-mail addresses collide.
Registration == INSTANCE Accounts WITH SetupTokens <- {}

MCInit ==
    \/ scenario = "sessions" /\ Init /\ FirstRun!Init
    \/ scenario = "setup" /\ FirstRun!Init /\ Init
    \/ scenario = "registration" /\ Registration!Init /\ Init

MCNext ==
    \/ scenario = "sessions" /\ Next /\ UNCHANGED <<scenario, accounts>>
    \/ scenario = "setup" /\ FirstRun!Next /\ UNCHANGED <<scenario, vars>>
    \/ scenario = "registration" /\ Registration!Next /\ UNCHANGED <<scenario, vars>>

MCSpec == MCInit /\ [][MCNext]_<<scenario, vars, accounts>>

\* Requests, tokens and invitations are interchangeable; the setup tokens take the
\* names of the session tokens.
Interchangeable ==
    Permutations(Requests) \union Permutations(Tokens) \union Permutations(Invitations)

\* RequestsNeverDeadlock of RefreshSessions and WritersNeverDeadlock of Accounts: no
\* order of their locks makes requests wait for each other in a cycle.
NoCircularWait ==
    /\ scenario = "sessions" => RequestsNeverDeadlock
    /\ scenario = "registration" => Registration!WritersNeverDeadlock
=============================================================================
