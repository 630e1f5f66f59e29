---------------------------- MODULE SnapshotSync ----------------------------
(***************************************************************************)
(* One integration of one tenant, from the connection of an account to the *)
(* snapshots made of it: the views of apps/connectors that connect an      *)
(* account, and run_sync as the sync tasks run it, for the provider chosen *)
(* initially. What sets the providers apart is in ConnectorProfiles. Any   *)
(* number of sync tasks may come: by the beat, and by hand.                *)
(*                                                                         *)
(* Sync tasks overlap, and so do the requests of the admins: one may       *)
(* connect another account or paste another key at any moment, while the   *)
(* callback or the form of another is being worked on. Any process may die *)
(* between two statements: every statement is a transaction of its own.    *)
(*                                                                         *)
(* An account, a key and the tokens of an account are known by the number  *)
(* of the connection that brought them: a refresh leaves them what they    *)
(* are (TokenRefresh has what happens to the tokens themselves). Whether   *)
(* the provider accepts them is decided at each request anew.              *)
(***************************************************************************)
EXTENDS ConnectorProfiles, FiniteSets, TLC

CONSTANTS
    Providers,    \* the providers a behaviour may be about
    Workers,      \* celery workers
    Admins,       \* admins, each with a session and a request at a time
    MaxAccounts   \* bound: accounts connected, or keys pasted

ASSUME ProvidersAssumption == Providers \subseteq DOMAIN Packages
ASSUME AccountsAssumption == MaxAccounts \in Nat

VARIABLES
    provider,   \* the provider
    accounts,   \* number of accounts connected
    row,        \* the Integration row
    cred,       \* the tokens of the Credential row
    admin,      \* admin[a]: where the request stands, what it holds
    worker,     \* worker[w]: where its sync task stands, what it holds
    checked,    \* history: keys that answered a ping of the wizard
    died,       \* history: keys whose request died before it recorded
    overtaken,  \* history: accounts whose meta an older callback replaced
    overlooked  \* history: keys whose record the answer to another key hid

history == <<checked, died, overtaken, overlooked>>
vars == <<provider, accounts, row, cred, admin, worker, history>>

-----------------------------------------------------------------------------
Views == Packages[provider].views
OAuth == Packages[provider].oauth
Client == Packages[provider].client
Sync == Packages[provider].sync
Calls == Sync.calls

\* NoRow: there is no Credential. Blank: get_or_create made one that holds no
\* tokens yet.
NoRow == [account |-> 0, fields |-> {}]
Blank == [account |-> 0, fields |-> {"blank"}]
HasTokens == cred.account # 0

\* What a connection to the account just made stores.
Granted == [account |-> accounts',
            fields |-> IF Views.flow = "key" THEN Views.asks ELSE OAuth.gives]

AdminIdle == [pc |-> "idle", tokens |-> NoRow]

\* account: what the worker read in Integration.meta; call: the call it is at;
\* of: the accounts that answered; hidden, flagged: whether a call failed whose
\* metric is stored with ok True, or with ok False.
WorkerIdle == [pc |-> "idle", account |-> 0, tokens |-> NoRow, call |-> 1,
               of |-> {}, hidden |-> FALSE, flagged |-> FALSE]

TypeOK ==
    /\ provider \in Providers
    /\ accounts \in 0..MaxAccounts
    /\ row \in [active : BOOLEAN, account : 0..accounts, error : BOOLEAN, synced : BOOLEAN]
    /\ cred \in {NoRow, Blank} \/ cred.account \in 1..accounts
    /\ \A a \in Admins :
          /\ admin[a].pc \in {"idle", "away", "exchanged", "looked up", "activated",
                              "created", "pasted", "keyed", "stored", "pinging",
                              "rejected", "answered", "cleared"}
          /\ admin[a].tokens.account \in 0..accounts
    /\ \A w \in Workers :
          /\ worker[w].pc \in {"idle", "making", "calling", "refreshing", "renewed",
                               "retrying", "stored"}
          /\ worker[w].call \in 1..(Len(Calls) + 1)
          /\ worker[w].of \subseteq 1..accounts
          /\ worker[w].pc = "stored" => worker[w].call = Len(Calls) + 1
    /\ \A keys \in {checked, died, overtaken, overlooked} : keys \subseteq 1..accounts

Init ==
    /\ provider \in Providers
    /\ accounts = 0
    /\ row = [active |-> FALSE, account |-> 0, error |-> FALSE, synced |-> FALSE]
    /\ cred = NoRow
    /\ admin = [a \in Admins |-> AdminIdle]
    /\ worker = [w \in Workers |-> WorkerIdle]
    /\ checked = {} /\ died = {} /\ overtaken = {} /\ overlooked = {}

-----------------------------------------------------------------------------
(* Connecting an account by OAuth: connect, and the callback.              *)

AdminAt(a, pc) == admin[a].pc = pc
AdminIs(a, holds) == admin' = [admin EXCEPT ![a] = holds]
AdminTo(a, pc) == AdminIs(a, [admin[a] EXCEPT !.pc = pc])

\* connect leaves a state, and with PKCE a verifier, in the session and sends
\* the admin to the provider.
Connect(a) ==
    /\ Views.flow = "oauth"
    /\ AdminAt(a, "idle")
    /\ AdminTo(a, "away")
    /\ UNCHANGED <<provider, accounts, row, cred, worker, history>>

\* The callback is refused: the provider reports an error, the state is not the
\* session's, there is no code, or the exchange fails. Or it never comes.
CallbackRefused(a) ==
    /\ AdminAt(a, "away")
    /\ AdminIs(a, AdminIdle)
    /\ UNCHANGED <<provider, accounts, row, cred, worker, history>>

\* exchange_code: the provider issues tokens for an account.
ExchangeCode(a) ==
    /\ AdminAt(a, "away")
    /\ accounts < MaxAccounts
    /\ accounts' = accounts + 1
    /\ AdminIs(a, [pc |-> IF OAuth.lookup THEN "exchanged" ELSE "looked up",
                   tokens |-> Granted])
    /\ UNCHANGED <<provider, row, cred, worker, history>>

\* The second request of exchange_code: which account, site or data center the
\* tokens are for. Nothing is stored when it fails.
LookUpAccount(a) ==
    /\ AdminAt(a, "exchanged")
    /\ AdminTo(a, "looked up")
    /\ UNCHANGED <<provider, accounts, row, cred, worker, history>>

\* is_active, connected_at and, where the callback fills it, meta: one save,
\* before there is a credential. It replaces whatever meta is there.
Activate(a) ==
    LET account == admin[a].tokens.account
    IN  /\ AdminAt(a, "looked up")
        /\ row' = [row EXCEPT !.active = TRUE, !.account = IF Views.saves THEN account ELSE @]
        /\ overtaken' = overtaken \cup {k \in (account + 1)..row.account : Views.saves}
        /\ AdminTo(a, "activated")
        /\ UNCHANGED <<provider, accounts, cred, worker, checked, died, overlooked>>

\* Credential.objects.get_or_create, in the callback and in the wizard.
CreateCredential(a) ==
    /\ AdminAt(a, "activated") \/ AdminAt(a, "pasted")
    /\ cred' = IF cred = NoRow THEN Blank ELSE cred
    /\ AdminTo(a, IF AdminAt(a, "pasted") THEN "keyed" ELSE "created")
    /\ UNCHANGED <<provider, accounts, row, worker, history>>

StoreTokens(a) ==
    /\ AdminAt(a, "created") \/ AdminAt(a, "keyed")
    /\ cred' = admin[a].tokens
    /\ AdminIs(a, IF AdminAt(a, "keyed") THEN [admin[a] EXCEPT !.pc = "stored"] ELSE AdminIdle)
    /\ UNCHANGED <<provider, accounts, row, worker, history>>

-----------------------------------------------------------------------------
(* Connecting an account by a key: save_credentials of the wizard.         *)

\* The form is complete.
Paste(a) ==
    /\ Views.flow = "key"
    /\ AdminAt(a, "idle")
    /\ accounts < MaxAccounts
    /\ accounts' = accounts + 1
    /\ AdminIs(a, [pc |-> "pasted", tokens |-> Granted])
    /\ UNCHANGED <<provider, row, cred, worker, history>>

\* A field is empty: the attempt is recorded, no key is stored.
PasteIncomplete(a) ==
    /\ Views.flow = "key"
    /\ AdminAt(a, "idle")
    /\ row' = [row EXCEPT !.error = TRUE]
    /\ UNCHANGED <<provider, accounts, cred, admin, worker, history>>

\* The client of the ping is made, of the key it finds in the credential: by
\* now it may be that of another request.
ReadKey(a) ==
    /\ AdminAt(a, "stored")
    /\ AdminIs(a, [pc |-> "pinging", tokens |-> cred])
    /\ UNCHANGED <<provider, accounts, row, cred, worker, history>>

PingAnswered(a) ==
    /\ AdminAt(a, "pinging")
    /\ checked' = checked \cup {admin[a].tokens.account}
    /\ AdminTo(a, "answered")
    /\ UNCHANGED <<provider, accounts, row, cred, worker, died, overtaken, overlooked>>

\* The ping is rejected or does not come through.
PingRejected(a) ==
    /\ AdminAt(a, "pinging")
    /\ AdminTo(a, "rejected")
    /\ UNCHANGED <<provider, accounts, row, cred, worker, history>>

\* Mutation: a rejected key leaves no record.
RecordNothing(a) ==
    /\ AdminAt(a, "rejected")
    /\ AdminIs(a, AdminIdle)
    /\ UNCHANGED <<provider, accounts, row, cred, worker, history>>

\* record_setup_attempt. is_active stays as it was, and so does the key.
RecordAttempt(a) ==
    /\ AdminAt(a, "rejected")
    /\ row' = [row EXCEPT !.error = TRUE]
    /\ AdminIs(a, AdminIdle)
    /\ UNCHANGED <<provider, accounts, cred, worker, history>>

\* Where save_credentials has stored a key, or tries one, and has not settled
\* what it is.
Unverified == {"stored", "pinging", "rejected"}
Unsettled(key) == \E a \in Admins : admin[a].pc \in Unverified /\ admin[a].tokens.account = key

\* The key in the credential, when the key that answered this request is
\* another, and nobody is about to say what the one in the credential is.
Overlooks(a) ==
    {key \in {cred.account} :
        key \notin checked /\ key # admin[a].tokens.account /\ ~Unsettled(key)}

\* clear_setup_attempt, a save of its own.
ClearAttempt(a) ==
    /\ AdminAt(a, "answered")
    /\ row' = [row EXCEPT !.error = FALSE]
    /\ overlooked' = overlooked \cup Overlooks(a)
    /\ AdminTo(a, "cleared")
    /\ UNCHANGED <<provider, accounts, cred, worker, checked, died, overtaken>>

ActivateKey(a) ==
    /\ AdminAt(a, "cleared")
    /\ row' = [row EXCEPT !.active = TRUE]
    /\ overlooked' = overlooked \cup Overlooks(a)
    /\ AdminIs(a, AdminIdle)
    /\ UNCHANGED <<provider, accounts, cred, worker, checked, died, overtaken>>

-----------------------------------------------------------------------------
(* Other requests, and the end of one.                                     *)

\* The request dies, or exchange_code fails after the provider issued tokens.
AdminDies(a) ==
    /\ admin[a].pc \notin {"idle", "away"}
    /\ died' = died \cup {key \in {admin[a].tokens.account} : admin[a].pc \in Unverified}
    /\ AdminIs(a, AdminIdle)
    /\ UNCHANGED <<provider, accounts, row, cred, worker, checked, overtaken, overlooked>>

\* disconnect: the credential stays.
Disconnect ==
    /\ row' = [row EXCEPT !.active = FALSE]
    /\ UNCHANGED <<provider, accounts, cred, admin, worker, history>>

\* reset_setup, which the wizards offer.
ResetSetup ==
    /\ Views.flow = "key"
    /\ row' = [row EXCEPT !.active = FALSE, !.error = FALSE]
    /\ UNCHANGED <<provider, accounts, cred, admin, worker, history>>

-----------------------------------------------------------------------------
(* The sync task: run_sync.                                                *)

At(w, pc) == worker[w].pc = pc
AtCall(w) == worker[w].call <= Len(Calls)
Hold(w, holds) == worker' = [worker EXCEPT ![w] = holds]

\* The call(s) that may come after call i: the next one; for a call made once
\* per item, also the start of its loop, and the first call after the loop.
After(i) ==
    LET each(k) == Calls[k].many = "each"
    IN  {j \in 1..(Len(Calls) + 1) :
           \/ j > i /\ (\A k \in (i + 1)..(j - 1) : each(k))
                    /\ (j = i + 1 \/ j > Len(Calls) \/ ~each(j))
           \/ j <= i /\ \A k \in j..i : each(k)
           \/ j = i /\ Calls[i].many = "pages"}

\* A failed call is over, whatever pages of it were answered.
AfterFailure(i) == IF Calls[i].many = "pages" THEN {i + 1} ELSE After(i)

\* A sync task starts and reads the integration, if it is active still.
StartSync(w) ==
    /\ At(w, "idle")
    /\ row.active
    /\ Hold(w, [WorkerIdle EXCEPT !.pc = "making", !.account = row.account])
    /\ UNCHANGED <<provider, accounts, row, cred, admin, history>>

\* Mutation: a client is made of whatever is there.
MakeClientOfAnything(w) ==
    /\ At(w, "making")
    /\ Hold(w, [worker[w] EXCEPT !.pc = "calling", !.tokens = cred])
    /\ UNCHANGED <<provider, accounts, row, cred, admin, history>>

\* The client reads the credential. Without tokens, or without a field it
\* demands, the run ends there.
MakeClient(w) ==
    /\ At(w, "making")
    /\ Hold(w, IF HasTokens /\ Client.demands \subseteq cred.fields
               THEN [worker[w] EXCEPT !.pc = "calling", !.tokens = cred]
               ELSE WorkerIdle)
    /\ UNCHANGED <<provider, accounts, row, cred, admin, history>>

NewClient(w, j) == Client.made = "call" /\ j # worker[w].call /\ j <= Len(Calls)

\* Mutation: a client is made for each call.
AnsweredByNewClient(w, j) ==
    [worker[w] EXCEPT !.pc = IF j <= Len(Calls) THEN "making" ELSE "calling",
                      !.of = @ \cup {worker[w].tokens.account}, !.call = j]

\* What the worker holds when its call has been answered and j is next.
Answered(w, j) ==
    [worker[w] EXCEPT !.pc = IF NewClient(w, j) THEN "making" ELSE "calling",
                      !.tokens = IF NewClient(w, j) THEN NoRow ELSE @,
                      !.of = @ \cup {worker[w].tokens.account},
                      !.call = j]

\* The call is answered, at once or after the refresh.
Answer(w) ==
    /\ At(w, "calling") \/ At(w, "retrying")
    /\ AtCall(w)
    /\ \E j \in After(worker[w].call) : Hold(w, Answered(w, j))
    /\ UNCHANGED <<provider, accounts, row, cred, admin, history>>

\* Mutation: no failure ends the run.
FailedHidden(w, j) ==
    [worker[w] EXCEPT !.pc = "calling", !.call = j, !.hidden = TRUE]

\* What it holds when the call has failed.
Failed(w, j) ==
    LET fails == Calls[worker[w].call].fails
        goesOn == [worker[w] EXCEPT !.pc = "calling", !.call = j]
    IN  CASE fails \in {Quits, Raises} -> WorkerIdle
          [] fails = Hides -> [goesOn EXCEPT !.hidden = TRUE]
          [] fails = Flags -> [goesOn EXCEPT !.flagged = TRUE]

\* The call fails: no answer, an error status other than 401, an answer that
\* cannot be read; or a 401 that the client does not, or no longer, handle;
\* or the refresh itself fails.
Fail(w) ==
    /\ worker[w].pc \in {"calling", "refreshing", "retrying"}
    /\ AtCall(w)
    /\ \E j \in AfterFailure(worker[w].call) : Hold(w, Failed(w, j))
    /\ UNCHANGED <<provider, accounts, row, cred, admin, history>>

\* A 401: the client refreshes.
Unauthorised(w) ==
    /\ At(w, "calling") /\ AtCall(w)
    /\ Client.renews
    /\ Hold(w, [worker[w] EXCEPT !.pc = "refreshing"])
    /\ UNCHANGED <<provider, accounts, row, cred, admin, history>>

\* Mutation: the answer of the token endpoint replaces the tokens.
RenewedUnmerged(w) == [worker[w].tokens EXCEPT !.fields = OAuth.keeps]

\* {**old, **new}
Renewed(w) == [worker[w].tokens EXCEPT !.fields = @ \cup OAuth.keeps]

\* refresh_tokens: another token for the account the client has tokens of.
Refresh(w) ==
    /\ At(w, "refreshing")
    /\ Hold(w, [worker[w] EXCEPT !.pc = "renewed", !.tokens = Renewed(w)])
    /\ UNCHANGED <<provider, accounts, row, cred, admin, history>>

\* set_tokens, save.
SaveTokens(w) ==
    /\ At(w, "renewed")
    /\ cred' = worker[w].tokens
    /\ Hold(w, [worker[w] EXCEPT !.pc = "retrying"])
    /\ UNCHANGED <<provider, accounts, row, admin, history>>

\* DataSnapshot.objects.create, of what the worker holds.
Store(w) ==
    /\ At(w, "calling") /\ ~AtCall(w)
    /\ Hold(w, [worker[w] EXCEPT !.pc = "stored"])
    /\ UNCHANGED <<provider, accounts, row, cred, admin, history>>

\* Mutation: the row is saved whole.
SaveRowWhole(w) ==
    /\ At(w, "stored")
    /\ row' = [row EXCEPT !.synced = TRUE, !.account = worker[w].account]
    /\ Hold(w, WorkerIdle)
    /\ UNCHANGED <<provider, accounts, cred, admin, history>>

\* last_sync_at and, for the runs that refresh the catalogue of tools, the meta
\* read when the run began.
SaveRow(w) ==
    /\ At(w, "stored")
    /\ row' = [row EXCEPT !.synced = TRUE,
                          !.account = IF Sync.meta THEN worker[w].account ELSE @]
    /\ Hold(w, WorkerIdle)
    /\ UNCHANGED <<provider, accounts, cred, admin, history>>

WorkerDies(w) ==
    /\ ~At(w, "idle")
    /\ Hold(w, WorkerIdle)
    /\ UNCHANGED <<provider, accounts, row, cred, admin, history>>

-----------------------------------------------------------------------------
ByOAuth(a) ==
    \/ Connect(a) \/ CallbackRefused(a) \/ ExchangeCode(a) \/ LookUpAccount(a) \/ Activate(a)

ByKey(a) ==
    \/ Paste(a) \/ PasteIncomplete(a) \/ ReadKey(a) \/ PingAnswered(a) \/ PingRejected(a)
    \/ RecordAttempt(a) \/ ClearAttempt(a) \/ ActivateKey(a)

Request(a) ==
    \/ ByOAuth(a) \/ ByKey(a) \/ CreateCredential(a) \/ StoreTokens(a) \/ AdminDies(a)

RunSync(w) ==
    \/ StartSync(w) \/ MakeClient(w) \/ Answer(w) \/ Fail(w) \/ Unauthorised(w)
    \/ Refresh(w) \/ SaveTokens(w) \/ Store(w) \/ SaveRow(w) \/ WorkerDies(w)

Next ==
    \/ Disconnect \/ ResetSetup
    \/ \E a \in Admins : Request(a)
    \/ \E w \in Workers : RunSync(w)

Spec == Init /\ [][Next]_vars

-----------------------------------------------------------------------------
(* Properties.                                                             *)

\* What a worker has just stored as a snapshot.
Stored(w) == At(w, "stored")

\* What a snapshot counts comes from one account, whoever connects another
\* account or refreshes the tokens while the run goes on. Slack, whose
\* pipeline makes a client for each stage, is the exception.
OneAccountPerSnapshot ==
    \A w \in Workers :
       Stored(w) /\ Client.made = "run" => Cardinality(worker[w].of) <= 1

\* Integration.meta falls behind the credential by nothing but an overlapping
\* callback: one that exchanged its code earlier and saves its meta later than
\* the callback of the account of the credential, for meta and tokens are
\* saved one after the other. No run of a sync brings back the meta of an
\* account connected earlier, whatever it read before the new connection, for
\* run_sync saves last_sync_at alone. The runs of the MCP providers, which save
\* the meta they read at their beginning, are the exception.
MetaKeepsUp ==
    Views.saves /\ ~Sync.meta /\ HasTokens
    => row.account >= cred.account \/ cred.account \in overtaken

\* A refresh takes the account's own fields along: whatever tokens are in the
\* credential, a client can be made of them and reaches the account.
CredentialIsComplete == HasTokens => Client.reads \subseteq cred.fields

\* A key that never answered is not in use unnoticed: an active integration
\* with such a key shows the error, or a request is about to settle the key.
\* Two things alone hide it: the request that stored or tried the key died
\* before it could record anything, or another one, whose own key answered in
\* the meantime, then cleared the record or activated the integration, for the
\* record is not kept by key.
UnverifiedKeyIsShown ==
    Views.flow = "key" /\ row.active /\ HasTokens /\ cred.account \notin checked
    => \/ row.error \/ Unsettled(cred.account)
       \/ cred.account \in died \/ cred.account \in overlooked

\* The providers whose run_sync has no call it can do without.
AllOrNothing ==
    {"basecamp", "caflou", "calendly", "fapi", "hubspot", "jira", "pipedrive",
     "raynet", "salesforce", "slack"}

\* With these providers a metric stored with ok True rests on an answer: a
\* failed call, refresh or retry never ends up as a zero in a snapshot.
OkIsAnswered ==
    \A w \in Workers : Stored(w) /\ provider \in AllOrNothing => ~worker[w].hidden
=============================================================================
