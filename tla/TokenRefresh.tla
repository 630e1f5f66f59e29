---------------------------- MODULE TokenRefresh ----------------------------
(***************************************************************************)
(* The OAuth credential of one integration and the clients that use it:    *)
(* AsanaClient and run_sync of apps/connectors/asana, the shape some ten   *)
(* OAuth connectors share, with the callback that connects an account and  *)
(* the disconnect view of apps/data_access.                                *)
(*                                                                         *)
(* A client reads the stored tokens once, when it is made. On a 401 it     *)
(* exchanges its refresh token for new tokens, saves them and repeats the  *)
(* request once. Clients overlap, an admin may connect the account again   *)
(* or disconnect it, answers may be lost and any process may die. Every    *)
(* statement is a database transaction of its own.                         *)
(*                                                                         *)
(* Tokens are numbers in the order the provider issues them. A provider    *)
(* that rotates accepts a refresh token once; another keeps accepting it.  *)
(***************************************************************************)
EXTENDS Naturals

CONSTANTS
    Clients,     \* clients, one for each run of run_sync
    MaxIssued    \* bound: token pairs the provider issues

ASSUME IssuedAssumption == MaxIssued \in Nat

VARIABLES
    rotates,    \* whether the provider rotates refresh tokens
    issued,     \* number of token pairs issued
    access,     \* access tokens the provider accepts
    refresh,    \* refresh tokens the provider accepts
    active,     \* Integration.is_active
    cred,       \* the tokens of the Credential row
    admin,      \* the OAuth callback: where it stands, the tokens it holds
    client,     \* client[c]: where client c stands, the tokens it holds
    orphans     \* history: refresh tokens whose successor was never saved

vars == <<rotates, issued, access, refresh, active, cred, admin, client, orphans>>
provider == <<rotates, issued, access, refresh>>

-----------------------------------------------------------------------------
Tokens == [access : Nat, refresh : Nat]

\* NoRow: there is no Credential. Blank: get_or_create made one and no tokens
\* are in it yet, so that get_tokens raises.
NoRow == [access |-> 0, refresh |-> 0]
Blank == [access |-> 0, refresh |-> MaxIssued + 1]

HasTokens == cred \notin {NoRow, Blank}

ClientState ==
    [pc     : {"idle", "connecting", "calling", "refreshing", "saving",
               "retrying", "over"},
     tokens : Tokens,
     listed : BOOLEAN,   \* list_workspaces has succeeded
     spent  : Nat]       \* the refresh token it exchanged for those it holds

AdminState == [pc : {"idle", "exchanged", "activated", "created"}, tokens : Tokens]

TypeOK ==
    /\ rotates \in BOOLEAN
    /\ issued \in 0..MaxIssued
    /\ access \subseteq 1..issued
    /\ refresh \subseteq 1..issued
    /\ active \in BOOLEAN
    /\ cred \in Tokens
    /\ HasTokens => cred.access \in 1..issued /\ cred.refresh \in 1..issued
    /\ admin \in AdminState
    /\ client \in [Clients -> ClientState]
    /\ orphans \subseteq 1..issued

Idle == [pc |-> "idle", tokens |-> NoRow, listed |-> FALSE, spent |-> 0]
Over == [Idle EXCEPT !.pc = "over"]
AdminIdle == [pc |-> "idle", tokens |-> NoRow]

Init ==
    /\ rotates \in BOOLEAN
    /\ issued = 0
    /\ access = {}
    /\ refresh = {}
    /\ active = FALSE
    /\ cred = NoRow
    /\ admin = AdminIdle
    /\ client = [c \in Clients |-> Idle]
    /\ orphans = {}

-----------------------------------------------------------------------------
(* The provider.                                                           *)

\* An access token expires.
Expire(a) ==
    /\ access' = access \ {a}
    /\ UNCHANGED <<rotates, issued, refresh, active, cred, admin, client, orphans>>

\* The token endpoint exchanges refresh token old: a new access token and, when
\* the provider rotates, a new refresh token in place of the old.
Exchange(old) ==
    /\ issued < MaxIssued
    /\ issued' = issued + 1
    /\ access' = access \cup {issued'}
    /\ refresh' = IF rotates THEN (refresh \ {old}) \cup {issued'} ELSE refresh
    /\ UNCHANGED rotates

\* refresh_tokens merges the answer into the tokens it was given: the old
\* refresh token stays when the answer has none.
Merged(old) == [access |-> issued', refresh |-> IF rotates THEN issued' ELSE old]

-----------------------------------------------------------------------------
(* The OAuth callback and the disconnect view.                             *)

\* exchange_code: a grant of its own, besides any earlier one.
ExchangeCode ==
    /\ admin.pc = "idle"
    /\ issued < MaxIssued
    /\ issued' = issued + 1
    /\ access' = access \cup {issued'}
    /\ refresh' = refresh \cup {issued'}
    /\ admin' = [pc |-> "exchanged", tokens |-> [access |-> issued', refresh |-> issued']]
    /\ UNCHANGED <<rotates, active, cred, client, orphans>>

\* integration.is_active = True, saved before there is a credential.
Activate ==
    /\ admin.pc = "exchanged"
    /\ active' = TRUE
    /\ admin' = [admin EXCEPT !.pc = "activated"]
    /\ UNCHANGED <<provider, cred, client, orphans>>

\* Credential.objects.get_or_create.
CreateCredential ==
    /\ admin.pc = "activated"
    /\ cred' = IF cred = NoRow THEN Blank ELSE cred
    /\ admin' = [admin EXCEPT !.pc = "created"]
    /\ UNCHANGED <<provider, active, client, orphans>>

StoreTokens ==
    /\ admin.pc = "created"
    /\ cred' = admin.tokens
    /\ admin' = AdminIdle
    /\ UNCHANGED <<provider, active, client, orphans>>

\* The request of the callback dies.
CallbackDies ==
    /\ admin.pc # "idle"
    /\ admin' = AdminIdle
    /\ UNCHANGED <<provider, active, cred, client, orphans>>

\* disconnect: the credential stays.
Disconnect ==
    /\ active' = FALSE
    /\ UNCHANGED <<provider, cred, admin, client, orphans>>

-----------------------------------------------------------------------------
(* run_sync and its client.                                                *)

At(c, where) == client[c].pc = where
Goes(c, where) == client' = [client EXCEPT ![c].pc = where]

\* The integration is looked up; only an active one is synced.
Start(c) ==
    /\ At(c, "idle")
    /\ active
    /\ Goes(c, "connecting")
    /\ UNCHANGED <<provider, active, cred, admin, orphans>>

\* The client is made: it keeps the tokens it reads here. Without a row, or
\* without tokens in it, the constructor raises and the run is over.
ReadTokens(c) ==
    /\ At(c, "connecting")
    /\ client' = [client EXCEPT ![c] =
                    IF HasTokens THEN [Idle EXCEPT !.pc = "calling", !.tokens = cred]
                    ELSE Over]
    /\ UNCHANGED <<provider, active, cred, admin, orphans>>

\* Where an exception of a request leads: run_sync gives up when it cannot list
\* the workspaces, and skips the item otherwise.
Raised(c) ==
    client' = [client EXCEPT ![c] =
                 IF client[c].listed THEN [@ EXCEPT !.pc = "calling"] ELSE Over]

\* A request that answers, the first time or when it is repeated.
Answered(c) ==
    /\ At(c, "calling") \/ At(c, "retrying")
    /\ client[c].tokens.access \in access
    /\ client' = [client EXCEPT ![c].pc = "calling", ![c].listed = TRUE]
    /\ UNCHANGED <<provider, active, cred, admin, orphans>>

\* A request that fails with another status, or on its repetition with any.
RequestFails(c) ==
    /\ At(c, "calling") \/ At(c, "retrying")
    /\ Raised(c)
    /\ UNCHANGED <<provider, active, cred, admin, orphans>>

\* 401.
Unauthorized(c) ==
    /\ At(c, "calling")
    /\ client[c].tokens.access \notin access
    /\ Goes(c, "refreshing")
    /\ UNCHANGED <<provider, active, cred, admin, orphans>>

\* The exchange succeeds and its answer arrives.
Refreshed(c) ==
    /\ At(c, "refreshing")
    /\ client[c].tokens.refresh \in refresh
    /\ Exchange(client[c].tokens.refresh)
    /\ client' = [client EXCEPT ![c].pc = "saving",
                                ![c].spent = client[c].tokens.refresh,
                                ![c].tokens = Merged(client[c].tokens.refresh)]
    /\ UNCHANGED <<active, cred, admin, orphans>>

\* The exchange succeeds and its answer is lost: the request times out.
AnswerLost(c) ==
    /\ At(c, "refreshing")
    /\ client[c].tokens.refresh \in refresh
    /\ Exchange(client[c].tokens.refresh)
    /\ orphans' = orphans \cup {client[c].tokens.refresh}
    /\ Raised(c)
    /\ UNCHANGED <<active, cred, admin>>

\* The provider refuses the refresh token, or cannot be reached.
RefreshFails(c) ==
    /\ At(c, "refreshing")
    /\ Raised(c)
    /\ UNCHANGED <<provider, active, cred, admin, orphans>>

\* The row cannot be saved: the client keeps the new tokens for itself.
SaveFails(c) ==
    /\ At(c, "saving")
    /\ orphans' = orphans \cup {client[c].spent}
    /\ Raised(c)
    /\ UNCHANGED <<provider, active, cred, admin>>

\* Mutation: the new tokens are used and never saved.
SaveNothing(c) ==
    /\ At(c, "saving")
    /\ Goes(c, "retrying")
    /\ UNCHANGED <<provider, active, cred, admin, orphans>>

\* Mutation: only a changed access token is written to the row.
SaveAccessOnly(c) ==
    /\ At(c, "saving")
    /\ cred' = [cred EXCEPT !.access = client[c].tokens.access]
    /\ Goes(c, "retrying")
    /\ UNCHANGED <<provider, active, admin, orphans>>

\* credential.save(): the row gets the tokens of this client, whatever it holds.
SaveTokens(c) ==
    /\ At(c, "saving")
    /\ cred' = client[c].tokens
    /\ Goes(c, "retrying")
    /\ UNCHANGED <<provider, active, admin, orphans>>

\* Mutation: the integration row read at the start is saved with all columns.
FinishSavesRow(c) ==
    /\ At(c, "calling") /\ client[c].listed
    /\ client' = [client EXCEPT ![c] = Over]
    /\ active' = TRUE
    /\ UNCHANGED <<provider, cred, admin, orphans>>

\* The snapshot is written and last_sync_at, alone, is saved.
Finish(c) ==
    /\ At(c, "calling") /\ client[c].listed
    /\ client' = [client EXCEPT ![c] = Over]
    /\ UNCHANGED <<provider, active, cred, admin, orphans>>

\* The worker dies. Tokens it has not saved die with it.
Dies(c) ==
    /\ client[c].pc \notin {"idle", "over"}
    /\ client' = [client EXCEPT ![c] = Over]
    /\ orphans' = IF At(c, "saving") THEN orphans \cup {client[c].spent} ELSE orphans
    /\ UNCHANGED <<provider, active, cred, admin>>

-----------------------------------------------------------------------------
AdminStep ==
    \/ ExchangeCode
    \/ Activate
    \/ CreateCredential
    \/ StoreTokens
    \/ CallbackDies
    \/ Disconnect

ClientStep(c) ==
    \/ Start(c)
    \/ ReadTokens(c)
    \/ Answered(c)
    \/ RequestFails(c)
    \/ Unauthorized(c)
    \/ Refreshed(c)
    \/ AnswerLost(c)
    \/ RefreshFails(c)
    \/ SaveTokens(c)
    \/ SaveFails(c)
    \/ Finish(c)
    \/ Dies(c)

Next ==
    \/ \E a \in access : Expire(a)
    \/ AdminStep
    \/ \E c \in Clients : ClientStep(c)

Spec == Init /\ [][Next]_vars

-----------------------------------------------------------------------------
(* Properties.                                                             *)

\* The stored refresh token is one the provider accepts, or its successor is in
\* the hands of a client about to save it, or that successor was lost with a
\* dead worker or a lost answer. However clients and the callback overlap and
\* overwrite the row, they never lock the account out: with a provider that
\* rotates, only the one client whose exchange succeeded saves.
AccountIsNotLockedOut ==
    HasTokens =>
        \/ cred.refresh \in refresh \cup orphans
        \/ \E c \in Clients : At(c, "saving") /\ client[c].spent = cred.refresh

\* The row never pairs the tokens of two answers: when the stored access token
\* came with a refresh token of its own, that is the one stored.
PairIsOfOneAnswer == HasTokens /\ rotates => cred.access = cred.refresh

\* A disconnected integration stays so until an admin connects it again,
\* whatever runs were under way.
OnlyTheCallbackActivates == [][active' /\ ~active => admin'.pc = "activated"]_vars
=============================================================================
