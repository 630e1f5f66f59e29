------------------------- MODULE SnapshotSyncProofs -------------------------
(***************************************************************************)
(* Proofs about SnapshotSync for every set of the providers, of workers    *)
(* and of admins, and for any number of connected accounts.                *)
(*                                                                         *)
(* Tokens travel: from the callback or the form to the credential, from    *)
(* there to any number of clients, and back with a refresh. The invariant  *)
(* therefore speaks of the tokens that may be anywhere: they are complete, *)
(* of an account that is connected, and no newer than Integration.meta but *)
(* where an older callback has replaced it. A worker may only stand in a   *)
(* state that keeps this, and a request of an admin only where its flow    *)
(* leads. What the providers have in common is looked up in                *)
(* ConnectorProfiles, provider by provider.                                *)
(***************************************************************************)
EXTENDS SnapshotSync, FiniteSetTheorems, TLAPS

Fields == Views.asks \cup OAuth.gives \cup OAuth.keeps \cup {"blank"}

Tokens == [account : Nat, fields : SUBSET Fields]

Row == [active : BOOLEAN, account : Nat, error : BOOLEAN, synced : BOOLEAN]

OAuthPcs == {"away", "exchanged", "looked up", "activated", "created"}
KeyPcs == {"pasted", "keyed", "stored", "pinging", "rejected", "answered", "cleared"}

Admin == [pc : {"idle"} \cup OAuthPcs \cup KeyPcs, tokens : Tokens]

Worker ==
    [pc : {"idle", "making", "calling", "refreshing", "renewed", "retrying", "stored"},
     account : Nat, tokens : Tokens, call : Nat, of : SUBSET Nat,
     hidden : BOOLEAN, flagged : BOOLEAN]

Typed ==
    /\ provider \in Providers /\ accounts \in Nat
    /\ row \in Row /\ cred \in Tokens /\ admin \in [Admins -> Admin]
    /\ worker \in [Workers -> Worker]
    /\ checked \subseteq Nat /\ died \subseteq Nat
    /\ overtaken \subseteq Nat /\ overlooked \subseteq Nat

\* Providers whose callback writes meta, which no run writes back.
MetaLeads == Views.saves /\ ~Sync.meta

\* Tokens of a connected account that a client can be made of.
Issued == {x \in Tokens : /\ x.account <= accounts
                          /\ x.account # 0 => Client.reads \subseteq x.fields}

\* Those no newer than the meta, for the providers where it leads, but where an
\* older callback has replaced it.
Known ==
    {x \in Issued : MetaLeads => x.account <= row.account \/ x.account \in overtaken}

\* Where a worker may stand.
Sound ==
    {x \in Worker :
        /\ x.account <= accounts
        /\ x.tokens \in Known
        /\ Client.made = "run" => /\ x.of \subseteq {x.tokens.account}
                                  /\ x.pc = "making" => x.of = {}
        /\ ~Client.renews => x.pc \notin {"refreshing", "renewed", "retrying"}
        /\ x.call \in 1..(Len(Calls) + 1)
        /\ provider \in AllOrNothing => ~x.hidden}

\* Where a request of an admin may stand.
Placed ==
    {x \in Admin :
        /\ x.pc \in OAuthPcs => Views.flow = "oauth"
        /\ x.pc \in KeyPcs => Views.flow = "key"
        /\ x.tokens \in Issued
        /\ x.pc \in {"activated", "created"} => x.tokens \in Known
        /\ x.pc \in {"answered", "cleared"} => x.tokens.account \in checked}

IInv ==
    /\ Typed
    /\ row.account <= accounts
    /\ cred \in Known
    /\ \A a \in Admins : admin[a] \in Placed
    /\ \A w \in Workers : worker[w] \in Sound
    /\ UnverifiedKeyIsShown

-----------------------------------------------------------------------------
(* What the providers have in common.                                      *)

\* A client reads what the connection stores, and only one connected by OAuth
\* renews, or has its account in Integration.meta.
Connects(views, oauth, client) ==
    /\ views.flow \in {"oauth", "key"}
    /\ client.reads \subseteq IF views.flow = "key" THEN views.asks ELSE oauth.gives
    /\ views.flow = "key" => ~client.renews /\ ~views.saves

FailsOneOf(calls, kinds) == \A i \in 1..Len(calls) : calls[i].fails \in kinds

Lists(sync) ==
    /\ Len(sync.calls) \in Nat
    /\ FailsOneOf(sync.calls, {Quits, Raises, Flags, Hides})

\* No call hides its failure.
Firm(sync) == FailsOneOf(sync.calls, {Quits, Raises, Flags})

Fits(p) ==
    /\ Connects(Packages[p].views, Packages[p].oauth, Packages[p].client)
    /\ Lists(Packages[p].sync)
    /\ p \in AllOrNothing => Firm(Packages[p].sync)

LEMMA PackagesFit ==
    ASSUME NEW p \in DOMAIN Packages
    PROVE  Fits(p)
<1>1. CASE p = "asana"
  <2>1. Packages[p] = Package(AsanaViews, AsanaOAuth, AsanaClient, AsanaSync,
                              AsanaIntegration)
    BY <1>1 DEF Packages
  <2>2. Connects(AsanaViews, AsanaOAuth, AsanaClient)
    BY DEF Connects, AsanaViews, AsanaOAuth, AsanaClient, OAuthViews,
             Renewable, Renewing
  <2>3. Lists(AsanaSync)
    BY SMT DEF Lists, FailsOneOf, AsanaSync, Run, One, Each, Quits, Raises,
             Flags, Hides
  <2> QED
    BY <1>1, <2>1, <2>2, <2>3 DEF Fits, Package, AllOrNothing
<1>2. CASE p = "basecamp"
  <2>1. Packages[p] = Package(BasecampViews, BasecampOAuth, BasecampClient, BasecampSync,
                              BasecampIntegration)
    BY <1>2 DEF Packages
  <2>2. Connects(BasecampViews, BasecampOAuth, BasecampClient)
    BY DEF Connects, BasecampViews, BasecampOAuth, BasecampClient, OAuthViews,
             Renewable, Renewing
  <2>3. Lists(BasecampSync) /\ Firm(BasecampSync)
    BY SMT DEF Lists, Firm, FailsOneOf, BasecampSync, Run, One, Quits, Raises,
             Flags, Hides
  <2> QED
    BY <1>2, <2>1, <2>2, <2>3 DEF Fits, Package
<1>3. CASE p = "caflou"
  <2>1. Packages[p] = Package(CaflouViews, NoOAuth, CaflouClient, CaflouSync,
                              CaflouIntegration)
    BY <1>3 DEF Packages
  <2>2. Connects(CaflouViews, NoOAuth, CaflouClient)
    BY DEF Connects, CaflouViews, NoOAuth, Lasting, CaflouClient, KeyViews,
             Fixed
  <2>3. Lists(CaflouSync) /\ Firm(CaflouSync)
    BY SMT DEF Lists, Firm, FailsOneOf, CaflouSync, Run, One, Quits, Raises,
             Flags, Hides
  <2> QED
    BY <1>3, <2>1, <2>2, <2>3 DEF Fits, Package
<1>4. CASE p = "calendly"
  <2>1. Packages[p] = Package(CalendlyViews, CalendlyOAuth, CalendlyClient, CalendlySync,
                              CalendlyIntegration)
    BY <1>4 DEF Packages
  <2>2. Connects(CalendlyViews, CalendlyOAuth, CalendlyClient)
    BY DEF Connects, CalendlyViews, CalendlyOAuth, CalendlyClient, OAuthViews,
             Renewable, Renewing
  <2>3. Lists(CalendlySync) /\ Firm(CalendlySync)
    BY SMT DEF Lists, Firm, FailsOneOf, CalendlySync, Run, Paged, Quits,
             Raises, Flags, Hides
  <2> QED
    BY <1>4, <2>1, <2>2, <2>3 DEF Fits, Package
<1>5. CASE p = "canva"
  <2>1. Packages[p] = Package(CanvaViews, CanvaOAuth, CanvaClient, CanvaSync,
                              CanvaIntegration)
    BY <1>5 DEF Packages
  <2>2. Connects(CanvaViews, CanvaOAuth, CanvaClient)
    BY DEF Connects, CanvaViews, CanvaOAuth, CanvaClient, OAuthViews,
             Renewable, Fixed
  <2>3. Lists(CanvaSync)
    BY SMT DEF Lists, FailsOneOf, CanvaSync, Run, One, Quits, Raises, Flags,
             Hides
  <2> QED
    BY <1>5, <2>1, <2>2, <2>3 DEF Fits, Package, AllOrNothing
<1>6. CASE p = "dropbox"
  <2>1. Packages[p] = Package(DropboxViews, DropboxOAuth, DropboxClient, DropboxSync,
                              DropboxIntegration)
    BY <1>6 DEF Packages
  <2>2. Connects(DropboxViews, DropboxOAuth, DropboxClient)
    BY DEF Connects, DropboxViews, DropboxOAuth, DropboxClient, OAuthViews,
             Renewable, Fixed
  <2>3. Lists(DropboxSync)
    BY SMT DEF Lists, FailsOneOf, DropboxSync, Run, One, Quits, Raises, Flags,
             Hides
  <2> QED
    BY <1>6, <2>1, <2>2, <2>3 DEF Fits, Package, AllOrNothing
<1>7. CASE p = "ecomail"
  <2>1. Packages[p] = Package(EcomailViews, NoOAuth, EcomailClient, EcomailSync,
                              EcomailIntegration)
    BY <1>7 DEF Packages
  <2>2. Connects(EcomailViews, NoOAuth, EcomailClient)
    BY DEF Connects, EcomailViews, NoOAuth, Lasting, EcomailClient, KeyViews,
             Fixed
  <2>3. Lists(EcomailSync)
    BY SMT DEF Lists, FailsOneOf, EcomailSync, Run, One, Each, Quits, Raises,
             Flags, Hides
  <2> QED
    BY <1>7, <2>1, <2>2, <2>3 DEF Fits, Package, AllOrNothing
<1>8. CASE p = "fapi"
  <2>1. Packages[p] = Package(FapiViews, NoOAuth, FapiClient, FapiSync,
                              FapiIntegration)
    BY <1>8 DEF Packages
  <2>2. Connects(FapiViews, NoOAuth, FapiClient)
    BY DEF Connects, FapiViews, NoOAuth, Lasting, FapiClient, KeyViews, Fixed
  <2>3. Lists(FapiSync) /\ Firm(FapiSync)
    BY SMT DEF Lists, Firm, FailsOneOf, FapiSync, Run, One, Quits, Raises,
             Flags, Hides
  <2> QED
    BY <1>8, <2>1, <2>2, <2>3 DEF Fits, Package
<1>9. CASE p = "hubspot"
  <2>1. Packages[p] = Package(HubspotViews, HubspotOAuth, HubspotClient, HubspotSync,
                              HubspotIntegration)
    BY <1>9 DEF Packages
  <2>2. Connects(HubspotViews, HubspotOAuth, HubspotClient)
    BY DEF Connects, HubspotViews, HubspotOAuth, HubspotClient, OAuthViews,
             Renewable, Renewing
  <2>3. Lists(HubspotSync) /\ Firm(HubspotSync)
    BY SMT DEF Lists, Firm, FailsOneOf, HubspotSync, Run, One, Paged, Quits,
             Raises, Flags, Hides
  <2> QED
    BY <1>9, <2>1, <2>2, <2>3 DEF Fits, Package
<1>10. CASE p = "jira"
  <2>1. Packages[p] = Package(JiraViews, JiraOAuth, JiraClient, JiraSync,
                              JiraIntegration)
    BY <1>10 DEF Packages
  <2>2. Connects(JiraViews, JiraOAuth, JiraClient)
    BY DEF Connects, JiraViews, JiraOAuth, JiraClient, OAuthViews, Renewable,
             Renewing
  <2>3. Lists(JiraSync) /\ Firm(JiraSync)
    BY SMT DEF Lists, Firm, FailsOneOf, JiraSync, Run, One, Quits, Raises,
             Flags, Hides
  <2> QED
    BY <1>10, <2>1, <2>2, <2>3 DEF Fits, Package
<1>11. CASE p = "mailchimp"
  <2>1. Packages[p] = Package(MailchimpViews, MailchimpOAuth, MailchimpClient, MailchimpSync,
                              MailchimpIntegration)
    BY <1>11 DEF Packages
  <2>2. Connects(MailchimpViews, MailchimpOAuth, MailchimpClient)
    BY DEF Connects, MailchimpViews, MailchimpOAuth, MailchimpClient,
             OAuthViews, Lasting, Fixed
  <2>3. Lists(MailchimpSync)
    BY SMT DEF Lists, FailsOneOf, MailchimpSync, Run, One, Each, Quits,
             Raises, Flags, Hides
  <2> QED
    BY <1>11, <2>1, <2>2, <2>3 DEF Fits, Package, AllOrNothing
<1>12. CASE p = "microsoft365"
  <2>1. Packages[p] = Package(Microsoft365Views, Microsoft365OAuth, Microsoft365Client, Microsoft365Sync,
                              Microsoft365Integration)
    BY <1>12 DEF Packages
  <2>2. Connects(Microsoft365Views, Microsoft365OAuth, Microsoft365Client)
    BY DEF Connects, Microsoft365Views, Microsoft365OAuth, Microsoft365Client,
             OAuthViews, Renewable, Renewing
  <2>3. Lists(Microsoft365Sync)
    BY SMT DEF Lists, FailsOneOf, Microsoft365Sync, Run, One, Quits, Raises,
             Flags, Hides
  <2> QED
    BY <1>12, <2>1, <2>2, <2>3 DEF Fits, Package, AllOrNothing
<1>13. CASE p = "notion"
  <2>1. Packages[p] = Package(NotionViews, NotionOAuth, NotionClient, NotionSync,
                              NotionIntegration)
    BY <1>13 DEF Packages
  <2>2. Connects(NotionViews, NotionOAuth, NotionClient)
    BY DEF Connects, NotionViews, NotionOAuth, NotionClient, OAuthViews,
             Lasting, Fixed
  <2>3. Lists(NotionSync)
    BY SMT DEF Lists, FailsOneOf, NotionSync, Run, One, Quits, Raises, Flags,
             Hides
  <2> QED
    BY <1>13, <2>1, <2>2, <2>3 DEF Fits, Package, AllOrNothing
<1>14. CASE p = "pipedrive"
  <2>1. Packages[p] = Package(PipedriveViews, PipedriveOAuth, PipedriveClient, PipedriveSync,
                              PipedriveIntegration)
    BY <1>14 DEF Packages
  <2>2. Connects(PipedriveViews, PipedriveOAuth, PipedriveClient)
    BY DEF Connects, PipedriveViews, PipedriveOAuth, PipedriveClient,
             OAuthViews, Renewable, Renewing
  <2>3. Lists(PipedriveSync) /\ Firm(PipedriveSync)
    BY SMT DEF Lists, Firm, FailsOneOf, PipedriveSync, Run, One, Paged, Quits,
             Raises, Flags, Hides
  <2> QED
    BY <1>14, <2>1, <2>2, <2>3 DEF Fits, Package
<1>15. CASE p = "raynet"
  <2>1. Packages[p] = Package(RaynetViews, NoOAuth, RaynetClient, RaynetSync,
                              RaynetIntegration)
    BY <1>15 DEF Packages
  <2>2. Connects(RaynetViews, NoOAuth, RaynetClient)
    BY DEF Connects, RaynetViews, NoOAuth, Lasting, RaynetClient, KeyViews,
             Fixed
  <2>3. Lists(RaynetSync) /\ Firm(RaynetSync)
    BY SMT DEF Lists, Firm, FailsOneOf, RaynetSync, Run, One, Quits, Raises,
             Flags, Hides
  <2> QED
    BY <1>15, <2>1, <2>2, <2>3 DEF Fits, Package
<1>16. CASE p = "salesforce"
  <2>1. Packages[p] = Package(SalesforceViews, SalesforceOAuth, SalesforceClient, SalesforceSync,
                              SalesforceIntegration)
    BY <1>16 DEF Packages
  <2>2. Connects(SalesforceViews, SalesforceOAuth, SalesforceClient)
    BY DEF Connects, SalesforceViews, SalesforceOAuth, SalesforceClient,
             OAuthViews, Renewable, Renewing
  <2>3. Lists(SalesforceSync) /\ Firm(SalesforceSync)
    BY SMT DEF Lists, Firm, FailsOneOf, SalesforceSync, Run, One, Quits,
             Raises, Flags, Hides
  <2> QED
    BY <1>16, <2>1, <2>2, <2>3 DEF Fits, Package
<1>17. CASE p = "slack"
  <2>1. Packages[p] = Package(SlackViews, SlackOAuth, SlackClient, SlackSync,
                              SlackIntegration)
    BY <1>17 DEF Packages
  <2>2. Connects(SlackViews, SlackOAuth, SlackClient)
    BY DEF Connects, SlackViews, SlackOAuth, SlackClient, OAuthViews, Lasting,
             Fixed
  <2>3. Lists(SlackSync) /\ Firm(SlackSync)
    BY SMT DEF Lists, Firm, FailsOneOf, SlackSync, Run, One, Each, Quits,
             Raises, Flags, Hides
  <2> QED
    BY <1>17, <2>1, <2>2, <2>3 DEF Fits, Package
<1>18. CASE p = "smartemailing"
  <2>1. Packages[p] = Package(SmartEmailingViews, NoOAuth, SmartEmailingClient, SmartEmailingSync,
                              SmartEmailingIntegration)
    BY <1>18 DEF Packages
  <2>2. Connects(SmartEmailingViews, NoOAuth, SmartEmailingClient)
    BY DEF Connects, SmartEmailingViews, NoOAuth, Lasting,
             SmartEmailingClient, KeyViews, Fixed
  <2>3. Lists(SmartEmailingSync)
    BY SMT DEF Lists, FailsOneOf, SmartEmailingSync, Run, One, Paged, Each,
             Quits, Raises, Flags, Hides
  <2> QED
    BY <1>18, <2>1, <2>2, <2>3 DEF Fits, Package, AllOrNothing
<1>19. CASE p = "trello"
  <2>1. Packages[p] = Package(TrelloViews, NoOAuth, TrelloClient, TrelloSync,
                              TrelloIntegration)
    BY <1>19 DEF Packages
  <2>2. Connects(TrelloViews, NoOAuth, TrelloClient)
    BY DEF Connects, TrelloViews, NoOAuth, Lasting, TrelloClient, KeyViews,
             Fixed
  <2>3. Lists(TrelloSync)
    BY SMT DEF Lists, FailsOneOf, TrelloSync, Run, One, Each, Quits, Raises,
             Flags, Hides
  <2> QED
    BY <1>19, <2>1, <2>2, <2>3 DEF Fits, Package, AllOrNothing
<1>20. CASE p = "google_workspace"
  <2>1. Packages[p] = Package(GoogleWorkspaceViews, GoogleWorkspaceOAuth, GoogleWorkspaceClient, GoogleWorkspaceSync,
                              GoogleWorkspaceIntegration)
    BY <1>20 DEF Packages
  <2>2. Connects(GoogleWorkspaceViews, GoogleWorkspaceOAuth, GoogleWorkspaceClient)
    BY DEF Connects, GoogleWorkspaceViews, GoogleWorkspaceOAuth,
             GoogleWorkspaceClient, OAuthViews, Renewable, Fixed
  <2>3. Lists(GoogleWorkspaceSync)
    BY SMT DEF Lists, FailsOneOf, GoogleWorkspaceSync, Run, One, Quits,
             Raises, Flags, Hides
  <2> QED
    BY <1>20, <2>1, <2>2, <2>3 DEF Fits, Package, AllOrNothing
<1> QED
  BY <1>1, <1>2, <1>3, <1>4, <1>5, <1>6, <1>7, <1>8, <1>9, <1>10, <1>11,
     <1>12, <1>13, <1>14, <1>15, <1>16, <1>17, <1>18, <1>19, <1>20 DEF
     Packages

\* The same, of the provider of the behaviour.
LEMMA Profile ==
    ASSUME ProvidersAssumption, provider \in Providers
    PROVE  /\ Connects(Views, OAuth, Client)
           /\ Lists(Sync)
           /\ provider \in AllOrNothing => Firm(Sync)
  BY PackagesFit DEF ProvidersAssumption, Fits, Views, OAuth, Client, Sync

-----------------------------------------------------------------------------
(* What every step keeps of the sets.                                      *)

\* Accounts are connected and meta moves forward, or an account is overtaken:
\* what holds of tokens, of workers and of requests goes on to hold.
Onward ==
    /\ provider' = provider
    /\ accounts' \in Nat /\ accounts <= accounts'
    /\ checked \subseteq checked' /\ overtaken \subseteq overtaken'
    /\ MetaLeads => \A n \in Nat : n <= row.account => n <= row'.account \/ n \in overtaken'

LEMMA SetsGrow ==
    ASSUME Typed, Onward
    PROVE  /\ Tokens' = Tokens /\ Admin' = Admin /\ Worker' = Worker
           /\ Issued \subseteq Issued' /\ Known \subseteq Known' /\ Sound \subseteq Sound'
           /\ Placed \subseteq Placed'
<1>1. /\ Views' = Views /\ OAuth' = OAuth /\ Client' = Client /\ Sync' = Sync
      /\ Calls' = Calls /\ MetaLeads' = MetaLeads
  BY DEF Onward, Views, OAuth, Client, Sync, Calls, MetaLeads
<1>2. Tokens' = Tokens
  BY <1>1 DEF Tokens, Fields
<1>3. Admin' = Admin /\ Worker' = Worker
  BY <1>2 DEF Admin, Worker
<1>4. Issued \subseteq Issued'
  <2> SUFFICES ASSUME NEW x \in Issued
               PROVE  x \in Issued'
    OBVIOUS
  <2>1. x \in Tokens /\ x.account \in Nat
    BY DEF Issued, Tokens
  <2> QED
    BY <1>1, <1>2, <2>1 DEF Issued, Onward, Typed
<1>5. Known \subseteq Known'
  <2> SUFFICES ASSUME NEW x \in Known
               PROVE  x \in Known'
    OBVIOUS
  <2>1. x.account \in Nat
    BY DEF Known, Issued, Tokens
  <2>2. MetaLeads => x.account <= row'.account \/ x.account \in overtaken'
    BY <2>1 DEF Known, Onward
  <2> QED
    BY <1>1, <1>4, <2>2 DEF Known
<1>6. Sound \subseteq Sound'
  <2> SUFFICES ASSUME NEW x \in Sound
               PROVE  x \in Sound'
    OBVIOUS
  <2>1. x.account \in Nat
    BY DEF Sound, Worker
  <2>2. x.account <= accounts'
    BY <2>1 DEF Sound, Onward, Typed
  <2> QED
    BY <1>1, <1>3, <1>5, <2>2 DEF Sound, Onward
<1>7. Placed \subseteq Placed'
  BY <1>1, <1>3, <1>4, <1>5 DEF Placed, Onward
<1> QED
  BY <1>2, <1>3, <1>4, <1>5, <1>6, <1>7

\* A step that touches neither what is connected nor what is stored of it.
LEMMA NothingConnected ==
    ASSUME Typed, provider' = provider, accounts' = accounts, row'.account = row.account,
           checked \subseteq checked', overtaken \subseteq overtaken'
    PROVE  Onward
  BY DEF Onward, Typed, Row

\* A step of a worker alone, to where it may stand.
LEMMA WorkerStep ==
    ASSUME IInv, NEW w \in Workers, NEW x \in Sound, Hold(w, x),
           UNCHANGED <<provider, accounts, row, cred, admin, history>>
    PROVE  IInv'
<1>0. UNCHANGED <<checked, died, overtaken, overlooked>>
  BY DEF history
<1>1. Onward
  BY <1>0, NothingConnected DEF IInv
<1>2. /\ Tokens' = Tokens /\ Admin' = Admin /\ Worker' = Worker
      /\ Issued \subseteq Issued' /\ Known \subseteq Known' /\ Sound \subseteq Sound'
      /\ Placed \subseteq Placed'
  BY <1>1, SetsGrow DEF IInv
<1>3. x \in Worker /\ worker' \in [Workers -> Worker]
  BY DEF Sound, Hold, IInv, Typed
<1>4. Typed'
  BY <1>0, <1>2, <1>3 DEF IInv, Typed, Row
<1>5. \A v \in Workers : worker'[v] \in Sound'
  BY <1>2 DEF IInv, Typed, Hold
<1>6. \A a \in Admins : admin'[a] \in Placed'
  BY <1>2 DEF IInv
<1>7. UnverifiedKeyIsShown'
  BY <1>0 DEF IInv, UnverifiedKeyIsShown, Unsettled, Views, HasTokens
<1> QED
  BY <1>2, <1>4, <1>5, <1>6, <1>7 DEF IInv

\* A step of a request leaves the workers and the other requests where they are.
LEMMA RequestStep ==
    ASSUME IInv, Onward, NEW a \in Admins, NEW x, AdminIs(a, x), x \in Placed',
           row' \in Row, row'.account <= accounts', cred' \in Known', worker' = worker,
           checked' \subseteq Nat, died' \subseteq Nat,
           overtaken' \subseteq Nat, overlooked' \subseteq Nat,
           UnverifiedKeyIsShown'
    PROVE  IInv'
<1>1. /\ Tokens' = Tokens /\ Admin' = Admin /\ Worker' = Worker
      /\ Known \subseteq Known' /\ Sound \subseteq Sound' /\ Placed \subseteq Placed'
  BY SetsGrow DEF IInv
<1>2. cred' \in Tokens' /\ x \in Admin
  BY <1>1 DEF Known, Issued, Placed
<1>3. admin' \in [Admins -> Admin] /\ \A b \in Admins : admin'[b] \in Placed'
  BY <1>1, <1>2 DEF AdminIs, IInv, Typed
<1>4. Typed'
  <2>1. provider' \in Providers /\ accounts' \in Nat /\ worker' \in [Workers -> Worker']
    BY <1>1 DEF IInv, Typed, Onward
  <2>2. row' \in Row' /\ admin' \in [Admins -> Admin']
    BY <1>1, <1>3 DEF Row
  <2> QED
    BY <1>2, <2>1, <2>2 DEF Typed
<1>5. \A w \in Workers : worker'[w] \in Sound'
  BY <1>1 DEF IInv
<1> QED
  BY <1>3, <1>4, <1>5 DEF IInv

-----------------------------------------------------------------------------
(* The steps of a sync task.                                               *)

\* What is read in Sound, for a worker.
LEMMA WorkerIs ==
    ASSUME ProvidersAssumption, IInv, NEW w \in Workers
    PROVE  /\ worker[w] \in Sound /\ worker[w] \in Worker
           /\ worker[w].tokens \in Known /\ worker[w].tokens \in Tokens
           /\ worker[w].tokens.account \in Nat
           /\ worker[w].call \in 1..(Len(Calls) + 1) /\ Len(Calls) \in Nat
           /\ worker \in [Workers -> Worker]
  BY Profile DEF IInv, Typed, Sound, Known, Issued, Tokens, Lists, Calls

LEMMA IdleIsSound ==
    ASSUME ProvidersAssumption, IInv
    PROVE  NoRow \in Known /\ NoRow \in Tokens /\ Blank \in Known /\ WorkerIdle \in Sound
<1>1. NoRow \in Tokens /\ Blank \in Tokens
  BY DEF NoRow, Blank, Tokens, Fields
<1>2. NoRow \in Known /\ Blank \in Known
  BY <1>1 DEF Known, Issued, NoRow, Blank, IInv, Typed, Row
<1>3. WorkerIdle \in Worker
  BY <1>1 DEF WorkerIdle, Worker
<1>4. Len(Calls) \in Nat
  BY Profile DEF IInv, Typed, Lists, Calls
<1>5. /\ WorkerIdle.pc = "idle" /\ WorkerIdle.account = 0 /\ WorkerIdle.tokens = NoRow
      /\ WorkerIdle.call = 1 /\ WorkerIdle.of = {} /\ ~WorkerIdle.hidden
  BY DEF WorkerIdle
<1>6. 0 <= accounts /\ 1 \in 1..(Len(Calls) + 1)
  BY <1>4 DEF IInv, Typed
<1>7. WorkerIdle \in Sound
  BY <1>2, <1>3, <1>5, <1>6 DEF Sound
<1> QED
  BY <1>1, <1>2, <1>7

\* A worker that holds what it held, or a part of what there is to hold, and
\* goes on: the tokens, the accounts that answered and the call are sound.
LEMMA SoundAgain ==
    ASSUME ProvidersAssumption, IInv, NEW x \in Worker, x.account <= accounts, x.tokens \in Known,
           Client.made = "run" => /\ x.of \subseteq {x.tokens.account}
                                  /\ x.pc = "making" => x.of = {},
           x.pc \in {"refreshing", "renewed", "retrying"} => Client.renews,
           x.call \in 1..(Len(Calls) + 1),
           provider \in AllOrNothing => x.hidden = FALSE
    PROVE  x \in Sound
  BY DEF Sound

LEMMA StartSyncKeeps ==
    ASSUME ProvidersAssumption, IInv, NEW w \in Workers, StartSync(w)
    PROVE  IInv'
<1> DEFINE x == [WorkerIdle EXCEPT !.pc = "making", !.account = row.account]
<1>1. WorkerIdle \in Worker /\ row.account \in Nat /\ row.account <= accounts
  BY IdleIsSound DEF IInv, Typed, Row, Sound
<1>2. x \in Worker
  BY <1>1, ZenonT(40) DEF Worker
<1>3. /\ x.pc = "making" /\ x.account = row.account /\ x.tokens = NoRow
      /\ x.call = 1 /\ x.of = {} /\ x.hidden = FALSE
  BY DEF WorkerIdle
<1>4. Len(Calls) \in Nat
  BY Profile DEF IInv, Typed, Lists, Calls
<1>5. x \in Sound
  <2>1. 1 \in 1..(Len(Calls) + 1)
    BY <1>4
  <2>2. NoRow \in Known
    BY IdleIsSound
  <2> HIDE DEF x
  <2> QED
    BY <1>1, <1>2, <1>3, <2>1, <2>2 DEF Sound
<1>6. Hold(w, x)
  BY DEF StartSync
<1> QED
  BY <1>5, <1>6, WorkerStep DEF StartSync

LEMMA MakeClientKeeps ==
    ASSUME ProvidersAssumption, IInv, NEW w \in Workers, MakeClient(w)
    PROVE  IInv'
<1> DEFINE x == [worker[w] EXCEPT !.pc = "calling", !.tokens = cred]
<1>1. x \in Worker
  BY WorkerIs, ZenonT(40) DEF Worker, IInv, Typed
<1>2. /\ x.pc = "calling" /\ x.account = worker[w].account /\ x.tokens = cred
      /\ x.call = worker[w].call /\ x.of = worker[w].of /\ x.hidden = worker[w].hidden
  BY WorkerIs DEF Worker
<1>3. Client.made = "run" => worker[w].of = {}
  BY WorkerIs DEF Sound, MakeClient, At
<1>4. x \in Sound
  <2> HIDE DEF x
  <2>1. worker[w].account <= accounts /\ (provider \in AllOrNothing => worker[w].hidden = FALSE)
    BY WorkerIs DEF Sound
  <2> QED
    BY <1>1, <1>2, <1>3, <2>1, WorkerIs, SoundAgain DEF IInv
<1>5. CASE Hold(w, x)
  BY <1>4, <1>5, WorkerStep DEF MakeClient
<1>6. CASE Hold(w, WorkerIdle)
  BY <1>6, IdleIsSound, WorkerStep DEF MakeClient
<1> QED
  BY <1>5, <1>6 DEF MakeClient

LEMMA AfterIsACall ==
    ASSUME Len(Calls) \in Nat, NEW i \in 1..Len(Calls)
    PROVE  /\ After(i) \subseteq 1..(Len(Calls) + 1)
           /\ AfterFailure(i) \subseteq 1..(Len(Calls) + 1)
<1>1. After(i) \subseteq 1..(Len(Calls) + 1)
  BY DEF After
<1>2. {i + 1} \subseteq 1..(Len(Calls) + 1)
  OBVIOUS
<1> QED
  BY <1>1, <1>2 DEF AfterFailure

LEMMA AnswerKeeps ==
    ASSUME ProvidersAssumption, IInv, NEW w \in Workers, Answer(w)
    PROVE  IInv'
<1>1. PICK j \in After(worker[w].call) : Hold(w, Answered(w, j))
  BY DEF Answer
<1> DEFINE x == Answered(w, j)
<1>2. j \in 1..(Len(Calls) + 1)
  <2>1. worker[w].call \in 1..Len(Calls)
    BY WorkerIs DEF Answer, AtCall
  <2> QED
    BY <1>1, <2>1, AfterIsACall, WorkerIs
<1> DEFINE pc == IF NewClient(w, j) THEN "making" ELSE "calling"
           tokens == IF NewClient(w, j) THEN NoRow ELSE worker[w].tokens
           of == worker[w].of \cup {worker[w].tokens.account}
<1>3. /\ pc \in {"making", "calling"} /\ tokens \in Known /\ tokens \in Tokens
      /\ of \in SUBSET Nat /\ j \in Nat
  BY <1>2, WorkerIs, IdleIsSound DEF Worker
<1>4. Client.made = "run" => /\ of \subseteq {tokens.account}
                             /\ pc = "calling"
  BY WorkerIs DEF NewClient, Sound
<1>5. /\ x = [worker[w] EXCEPT !.pc = pc, !.tokens = tokens, !.of = of, !.call = j]
      /\ worker[w] \in Worker
  BY WorkerIs DEF Answered
<1>6. /\ x.pc = pc /\ x.tokens = tokens /\ x.of = of /\ x.call = j
      /\ x.account = worker[w].account /\ x.hidden = worker[w].hidden
  <2> HIDE DEF pc, tokens, of
  <2> QED
    BY <1>5 DEF Worker
<1>7. x \in Worker
  <2>1. pc \in {"idle", "making", "calling", "refreshing", "renewed", "retrying", "stored"}
    BY <1>3
  <2> HIDE DEF pc, tokens, of, x
  <2> QED
    BY <1>3, <1>5, <2>1, ZenonT(40) DEF Worker
<1>8. x \in Sound
  <2>1. worker[w].account <= accounts /\ (provider \in AllOrNothing => worker[w].hidden = FALSE)
    BY WorkerIs DEF Sound
  <2> HIDE DEF pc, tokens, of, x
  <2> QED
    BY <1>2, <1>3, <1>4, <1>6, <1>7, <2>1, SoundAgain
<1> QED
  BY <1>1, <1>8, WorkerStep DEF Answer

\* What a failure makes of the worker, by the kind of the call.
LEMMA FailedIs ==
    ASSUME NEW w, NEW j
    PROVE  LET fails  == Calls[worker[w].call].fails
               goesOn == [worker[w] EXCEPT !.pc = "calling", !.call = j]
           IN  /\ fails \in {Quits, Raises} => Failed(w, j) = WorkerIdle
               /\ fails = Hides => Failed(w, j) = [goesOn EXCEPT !.hidden = TRUE]
               /\ fails = Flags => Failed(w, j) = [goesOn EXCEPT !.flagged = TRUE]
<1> DEFINE fails == Calls[worker[w].call].fails
<1>1. CASE fails \in {Quits, Raises}
  BY <1>1 DEF Failed, Quits, Raises, Hides, Flags
<1>2. CASE fails = Hides
  BY <1>2 DEF Failed, Quits, Raises, Hides, Flags
<1>3. CASE fails = Flags
  BY <1>3 DEF Failed, Quits, Raises, Hides, Flags
<1> QED
  BY <1>1, <1>2, <1>3

LEMMA FailKeeps ==
    ASSUME ProvidersAssumption, IInv, NEW w \in Workers, Fail(w)
    PROVE  IInv'
<1>1. PICK j \in AfterFailure(worker[w].call) : Hold(w, Failed(w, j))
  BY DEF Fail
<1>2. worker[w].call \in 1..Len(Calls)
  BY WorkerIs DEF Fail, AtCall
<1>3. j \in 1..(Len(Calls) + 1) /\ j \in Nat
  BY <1>1, <1>2, AfterIsACall, WorkerIs
<1> DEFINE fails == Calls[worker[w].call].fails
           goesOn == [worker[w] EXCEPT !.pc = "calling", !.call = j]
           hidden == [goesOn EXCEPT !.hidden = TRUE]
           flagged == [goesOn EXCEPT !.flagged = TRUE]
<1>4. /\ fails \in {Quits, Raises, Flags, Hides}
      /\ provider \in AllOrNothing => fails \in {Quits, Raises, Flags}
  BY <1>2, Profile DEF IInv, Typed, Lists, Firm, FailsOneOf, Calls
<1>5. /\ goesOn.pc = "calling" /\ goesOn.tokens = worker[w].tokens
      /\ goesOn.of = worker[w].of /\ goesOn.call = j
      /\ goesOn.account = worker[w].account /\ goesOn.hidden = worker[w].hidden
      /\ goesOn \in Worker
  <2>1. goesOn \in Worker
    BY <1>3, WorkerIs, ZenonT(40) DEF Worker
  <2> QED
    BY <2>1, WorkerIs DEF Worker
<1>6. /\ Client.made = "run" => worker[w].of \subseteq {worker[w].tokens.account}
      /\ worker[w].account <= accounts
      /\ provider \in AllOrNothing => worker[w].hidden = FALSE
  BY WorkerIs DEF Sound
<1>7. CASE fails \in {Quits, Raises}
  <2>1. Failed(w, j) = WorkerIdle
    BY <1>7, FailedIs
  <2> QED
    BY <1>1, <2>1, IdleIsSound, WorkerStep DEF Fail
<1>8. CASE fails = Hides
  <2>1. Failed(w, j) = hidden
    BY <1>8, FailedIs
  <2>2. provider \notin AllOrNothing
    BY <1>4, <1>8 DEF Quits, Raises, Flags, Hides
  <2> HIDE DEF goesOn
  <2>3. /\ hidden.pc = "calling" /\ hidden.tokens = worker[w].tokens
        /\ hidden.of = worker[w].of /\ hidden.call = j
        /\ hidden.account = worker[w].account
    BY <1>5 DEF Worker
  <2>4. hidden \in Worker
    BY <1>5, ZenonT(40) DEF Worker
  <2> HIDE DEF hidden
  <2>5. hidden \in Sound
    BY <1>3, <1>6, <2>2, <2>3, <2>4, WorkerIs DEF Sound
  <2> QED
    BY <1>1, <2>1, <2>5, WorkerStep DEF Fail
<1>9. CASE fails = Flags
  <2>1. Failed(w, j) = flagged
    BY <1>9, FailedIs
  <2> HIDE DEF goesOn
  <2>2. /\ flagged.pc = "calling" /\ flagged.tokens = worker[w].tokens
        /\ flagged.of = worker[w].of /\ flagged.call = j
        /\ flagged.account = worker[w].account /\ flagged.hidden = worker[w].hidden
    BY <1>5 DEF Worker
  <2>3. flagged \in Worker
    BY <1>5, ZenonT(40) DEF Worker
  <2> HIDE DEF flagged
  <2>4. flagged \in Sound
    BY <1>3, <1>6, <2>2, <2>3, WorkerIs DEF Sound
  <2> QED
    BY <1>1, <2>1, <2>4, WorkerStep DEF Fail
<1> QED
  BY <1>4, <1>7, <1>8, <1>9

\* A worker that only goes to another place.
LEMMA PlaceIsSound ==
    ASSUME ProvidersAssumption, IInv, NEW w \in Workers,
           NEW pc \in {"calling", "refreshing", "renewed", "retrying", "stored"},
           pc \in {"refreshing", "renewed", "retrying"} => Client.renews
    PROVE  [worker[w] EXCEPT !.pc = pc] \in Sound
<1> DEFINE x == [worker[w] EXCEPT !.pc = pc]
<1>1. x \in Worker
  BY WorkerIs, ZenonT(40) DEF Worker
<1>2. /\ x.pc = pc /\ x.tokens = worker[w].tokens /\ x.of = worker[w].of
      /\ x.call = worker[w].call /\ x.account = worker[w].account
      /\ x.hidden = worker[w].hidden
  BY WorkerIs DEF Worker
<1> HIDE DEF x
<1>3. x \in Sound
  BY <1>1, <1>2, WorkerIs DEF Sound
<1> QED
  BY <1>3 DEF x

LEMMA UnauthorisedKeeps ==
    ASSUME ProvidersAssumption, IInv, NEW w \in Workers, Unauthorised(w)
    PROVE  IInv'
  BY PlaceIsSound, WorkerStep DEF Unauthorised

LEMMA StoreKeeps ==
    ASSUME ProvidersAssumption, IInv, NEW w \in Workers, Store(w)
    PROVE  IInv'
  BY PlaceIsSound, WorkerStep DEF Store

LEMMA WorkerDiesKeeps ==
    ASSUME ProvidersAssumption, IInv, NEW w \in Workers, WorkerDies(w)
    PROVE  IInv'
  BY IdleIsSound, WorkerStep DEF WorkerDies

\* Renewed tokens are of the same account, and lose no field.
LEMMA RefreshKeeps ==
    ASSUME ProvidersAssumption, IInv, NEW w \in Workers, Refresh(w)
    PROVE  IInv'
<1> DEFINE x == [worker[w] EXCEPT !.pc = "renewed", !.tokens = Renewed(w)]
<1>1. /\ Renewed(w).account = worker[w].tokens.account
      /\ Renewed(w).fields = worker[w].tokens.fields \cup OAuth.keeps
      /\ Renewed(w) \in Tokens
  <2>1. /\ worker[w].tokens.fields \cup OAuth.keeps \in SUBSET Fields
        /\ worker[w].tokens \in Tokens
    BY WorkerIs DEF Tokens, Fields
  <2>2. Renewed(w) = [worker[w].tokens EXCEPT !.fields = worker[w].tokens.fields \cup OAuth.keeps]
    BY DEF Renewed
  <2> QED
    BY <2>1, <2>2 DEF Tokens
<1>2. Renewed(w) \in Known
  BY <1>1, WorkerIs DEF Known, Issued
<1>3. x \in Worker
  BY <1>1, WorkerIs, ZenonT(40) DEF Worker
<1>4. /\ x.pc = "renewed" /\ x.tokens = Renewed(w) /\ x.of = worker[w].of
      /\ x.call = worker[w].call /\ x.account = worker[w].account
      /\ x.hidden = worker[w].hidden
  BY WorkerIs DEF Worker
<1>5. worker[w].pc = "refreshing"
  BY DEF Refresh, At
<1>6. x \in Sound
  <2> HIDE DEF x
  <2> QED
    BY <1>1, <1>2, <1>3, <1>4, <1>5, WorkerIs DEF Sound
<1> QED
  BY <1>6, WorkerStep DEF Refresh

\* What a worker writes back is in the credential of an account connected by
\* OAuth, where no key is looked for.
LEMMA SaveTokensKeeps ==
    ASSUME ProvidersAssumption, IInv, NEW w \in Workers, SaveTokens(w)
    PROVE  IInv'
<1>1. worker[w].pc = "renewed" /\ Client.renews
  BY WorkerIs DEF SaveTokens, At, Sound
<1>2. Views.flow = "oauth"
  BY <1>1, Profile DEF Connects, IInv, Typed
<1>3. [worker[w] EXCEPT !.pc = "retrying"] \in Sound
  BY <1>1, PlaceIsSound
<1>0. UNCHANGED <<checked, died, overtaken, overlooked>>
  BY DEF SaveTokens, history
<1>4. Onward
  BY <1>0, NothingConnected DEF SaveTokens, IInv
<1>5. /\ Tokens' = Tokens /\ Admin' = Admin /\ Worker' = Worker
      /\ Issued \subseteq Issued' /\ Known \subseteq Known' /\ Sound \subseteq Sound'
      /\ Placed \subseteq Placed'
  BY <1>4, SetsGrow DEF IInv
<1>6. cred' \in Known' /\ cred' \in Tokens'
  BY <1>5, WorkerIs DEF SaveTokens
<1>7. worker' \in [Workers -> Worker]
  <2>1. [worker[w] EXCEPT !.pc = "retrying"] \in Worker
    BY <1>3 DEF Sound
  <2> QED
    BY <2>1, WorkerIs DEF SaveTokens, Hold
<1>8. Typed'
  BY <1>0, <1>5, <1>6, <1>7 DEF SaveTokens, IInv, Typed, Row
<1>9. \A v \in Workers : worker'[v] \in Sound'
  BY <1>3, <1>5 DEF SaveTokens, IInv, Typed, Hold
<1>10. (\A a \in Admins : admin'[a] \in Placed') /\ UnverifiedKeyIsShown'
  BY <1>2, <1>5 DEF SaveTokens, IInv, UnverifiedKeyIsShown, Views
<1> QED
  BY <1>5, <1>6, <1>8, <1>9, <1>10 DEF SaveTokens, IInv

\* A run that writes the meta it read does so for a provider whose meta does
\* not lead.
LEMMA SaveRowKeeps ==
    ASSUME ProvidersAssumption, IInv, NEW w \in Workers, SaveRow(w)
    PROVE  IInv'
<1>1. worker[w].account \in Nat /\ worker[w].account <= accounts
  BY WorkerIs DEF Worker, Sound
<1> DEFINE to == IF Sync.meta THEN worker[w].account ELSE row.account
<1>2. to \in Nat /\ to <= accounts /\ (MetaLeads => to = row.account)
  BY <1>1 DEF MetaLeads, IInv, Typed, Row
<1>3. row' = [row EXCEPT !.synced = TRUE, !.account = to]
  BY DEF SaveRow
<1> HIDE DEF to
<1>4. row' \in Row
  BY <1>2, <1>3 DEF IInv, Typed, Row
<1>5. /\ row'.account = to /\ row'.active = row.active /\ row'.error = row.error
      /\ row'.account \in Nat
  BY <1>2, <1>3 DEF IInv, Typed, Row
<1>0. UNCHANGED <<checked, died, overtaken, overlooked>>
  BY DEF SaveRow, history
<1>6. Onward
  BY <1>0, <1>2, <1>5 DEF SaveRow, Onward, IInv, Typed
<1>7. /\ Tokens' = Tokens /\ Admin' = Admin /\ Worker' = Worker
      /\ Issued \subseteq Issued' /\ Known \subseteq Known' /\ Sound \subseteq Sound'
      /\ Placed \subseteq Placed'
  BY <1>6, SetsGrow DEF IInv
<1>8. worker' \in [Workers -> Worker] /\ \A v \in Workers : worker'[v] \in Sound'
  BY <1>7, WorkerIs, IdleIsSound DEF SaveRow, Hold, IInv, Typed, Sound
<1>9. Typed'
  BY <1>0, <1>4, <1>7, <1>8 DEF SaveRow, IInv, Typed, Row
<1>10. \A a \in Admins : admin'[a] \in Placed'
  BY <1>7 DEF SaveRow, IInv
<1>11. UnverifiedKeyIsShown'
  BY <1>0, <1>5 DEF SaveRow, IInv, UnverifiedKeyIsShown, Unsettled, Views, HasTokens
<1> QED
  BY <1>2, <1>5, <1>7, <1>8, <1>9, <1>10, <1>11 DEF SaveRow, IInv

-----------------------------------------------------------------------------
(* The requests of the admins.                                             *)

\* What a request finds.
LEMMA RequestIs ==
    ASSUME ProvidersAssumption, IInv, NEW a \in Admins
    PROVE  /\ admin[a] \in Placed /\ admin[a] \in Admin
           /\ admin[a].tokens \in Issued /\ admin[a].tokens \in Tokens
           /\ admin[a].tokens.account \in Nat /\ admin[a].tokens.account <= accounts
           /\ AdminIdle \in Placed /\ AdminIdle \in Admin
           /\ AdminIdle.pc = "idle" /\ AdminIdle.tokens = NoRow
           /\ row \in Row /\ row.account \in Nat /\ row.account <= accounts
           /\ cred \in Known /\ cred.account \in Nat
           /\ accounts \in Nat /\ Views.flow \in {"oauth", "key"}
<1>1. AdminIdle \in Admin /\ AdminIdle.pc = "idle" /\ AdminIdle.tokens = NoRow
  BY IdleIsSound DEF AdminIdle, Admin
<1>2. admin[a] \in Placed /\ admin[a].tokens \in Issued /\ admin[a].tokens \in Tokens
  BY DEF IInv, Placed, Issued
<1>3. admin[a].tokens.account \in Nat /\ admin[a].tokens.account <= accounts
  BY <1>2 DEF Issued, Tokens
<1>4. Views.flow \in {"oauth", "key"}
  BY Profile DEF IInv, Typed, Connects
<1>5. AdminIdle \in Placed
  <2>1. NoRow \in Issued
    BY IdleIsSound DEF Known
  <2> QED
    BY <1>1, <2>1 DEF Placed, OAuthPcs, KeyPcs
<1>6. cred.account \in Nat
  BY DEF IInv, Typed, Tokens
<1> QED
  BY <1>1, <1>2, <1>3, <1>4, <1>5, <1>6 DEF IInv, Typed, Row

\* What is at another place with the tokens it had.
LEMMA PlaceIs ==
    ASSUME NEW x \in Admin, NEW pc \in {"idle"} \cup OAuthPcs \cup KeyPcs
    PROVE  LET y == [x EXCEPT !.pc = pc]
           IN  y \in Admin /\ y.pc = pc /\ y.tokens = x.tokens
  BY DEF Admin

\* Where no key is asked for, none is looked for.
LEMMA NoKeyIsAsked ==
    ASSUME Views.flow = "oauth", provider' = provider
    PROVE  UnverifiedKeyIsShown'
  BY DEF UnverifiedKeyIsShown, Views

\* The other requests are where they were.
LEMMA OthersStay ==
    ASSUME Typed, NEW a \in Admins, NEW x, AdminIs(a, x)
    PROVE  admin'[a] = x /\ \A b \in Admins : b # a => admin'[b] = admin[b]
  BY DEF Typed, AdminIs

\* A request that leaves the key in use, its record and the activation alone
\* hides nothing, unless it was the one to settle the key.
LEMMA KeyStaysShown ==
    ASSUME IInv, NEW a \in Admins, NEW x, AdminIs(a, x), provider' = provider,
           cred' = cred, row'.active => row.active, row.error => row'.error,
           checked \subseteq checked', died \subseteq died', overlooked \subseteq overlooked',
           admin[a].pc \in Unverified /\ admin[a].tokens.account = cred.account
             => \/ x.pc \in Unverified /\ x.tokens.account = cred.account
                \/ cred.account \in checked' \/ cred.account \in died'
    PROVE  UnverifiedKeyIsShown'
<1> SUFFICES ASSUME Views.flow = "key", row.active, cred.account # 0,
                    cred.account \notin checked', cred.account \notin died',
                    cred.account \notin overlooked', ~row'.error
             PROVE  \E b \in Admins : admin'[b].pc \in Unverified
                                      /\ admin'[b].tokens.account = cred.account
  BY DEF UnverifiedKeyIsShown, Unsettled, Views, HasTokens
<1>1. PICK b \in Admins : admin[b].pc \in Unverified /\ admin[b].tokens.account = cred.account
  BY DEF IInv, UnverifiedKeyIsShown, Unsettled, HasTokens
<1>2. admin'[a] = x /\ (b # a => admin'[b] = admin[b])
  BY OthersStay DEF IInv
<1>3. CASE b = a
  BY <1>1, <1>2, <1>3
<1>4. CASE b # a
  BY <1>1, <1>2, <1>4
<1> QED
  BY <1>3, <1>4

\* A request whose own key answered says nothing of the key in use but what is
\* booked as overlooked.
LEMMA OverlookedIsBooked ==
    ASSUME IInv, NEW a \in Admins, NEW x, AdminIs(a, x), provider' = provider,
           cred' = cred, admin[a].pc \notin Unverified,
           admin[a].tokens.account \in checked, UNCHANGED <<checked, died>>,
           overlooked' = overlooked \cup Overlooks(a)
    PROVE  UnverifiedKeyIsShown'
<1> SUFFICES ASSUME cred.account \notin checked, cred.account \notin overlooked'
             PROVE  \E b \in Admins : admin'[b].pc \in Unverified
                                      /\ admin'[b].tokens.account = cred.account
  BY DEF UnverifiedKeyIsShown, Unsettled, Views, HasTokens
<1>1. Unsettled(cred.account)
  BY DEF Overlooks
<1>2. PICK b \in Admins : admin[b].pc \in Unverified /\ admin[b].tokens.account = cred.account
  BY <1>1 DEF Unsettled
<1>3. b # a
  BY <1>2
<1>4. admin'[b] = admin[b]
  BY <1>3, OthersStay DEF IInv
<1> QED
  BY <1>2, <1>4

\* A request that goes on and connects nothing.
LEMMA RequestGoesOn ==
    ASSUME ProvidersAssumption, IInv, NEW a \in Admins, NEW x, AdminIs(a, x),
           x \in Placed', provider' = provider, accounts' = accounts, worker' = worker,
           row' \in Row, row'.account = row.account, cred' \in Known,
           checked \subseteq checked', checked' \subseteq Nat,
           died' \subseteq Nat, overtaken' = overtaken, overlooked' \subseteq Nat,
           UnverifiedKeyIsShown'
    PROVE  IInv'
<1>1. Onward
  BY NothingConnected DEF IInv
<1>2. Known \subseteq Known'
  BY <1>1, SetsGrow DEF IInv
<1> QED
  BY <1>1, <1>2, RequestIs, RequestStep DEF IInv, Typed

\* Where a request may stand goes on to be a place to stand.
LEMMA PlaceStays ==
    ASSUME ProvidersAssumption, IInv, provider' = provider, accounts' = accounts,
           row'.account = row.account, checked \subseteq checked', overtaken' = overtaken
    PROVE  /\ Placed \subseteq Placed' /\ Known \subseteq Known' /\ Issued \subseteq Issued'
           /\ Admin' = Admin /\ Views' = Views
<1>1. Onward
  BY NothingConnected DEF IInv
<1> QED
  BY <1>1, SetsGrow DEF IInv, Views

LEMMA ConnectKeeps ==
    ASSUME ProvidersAssumption, IInv, NEW a \in Admins, Connect(a)
    PROVE  IInv'
<1> DEFINE x == [admin[a] EXCEPT !.pc = "away"]
<1>0. UNCHANGED <<checked, died, overtaken, overlooked>>
  BY DEF Connect, history
<1>1. x \in Admin /\ x.pc = "away" /\ x.tokens = admin[a].tokens
  BY RequestIs, PlaceIs DEF OAuthPcs
<1>2. AdminIs(a, x) /\ Views.flow = "oauth"
  BY DEF Connect, AdminTo
<1> HIDE DEF x
<1>3. x \in Placed
  BY <1>1, <1>2, RequestIs DEF Placed, KeyPcs
<1>4. UnverifiedKeyIsShown'
  BY <1>2, NoKeyIsAsked DEF Connect
<1> QED
  BY <1>0, <1>2, <1>3, <1>4, RequestIs, PlaceStays, RequestGoesOn DEF Connect, IInv, Typed

\* A request that is over, whatever it has done to the flags of the row.
LEMMA RequestIsOver ==
    ASSUME ProvidersAssumption, IInv, NEW a \in Admins, AdminIs(a, AdminIdle),
           died' \subseteq Nat, overlooked' \subseteq Nat,
           row' \in Row, row'.account = row.account,
           UNCHANGED <<provider, accounts, checked, cred, worker, overtaken>>,
           UnverifiedKeyIsShown'
    PROVE  IInv'
  BY RequestIs, PlaceStays, RequestGoesOn DEF IInv, Typed

LEMMA CallbackRefusedKeeps ==
    ASSUME ProvidersAssumption, IInv, NEW a \in Admins, CallbackRefused(a)
    PROVE  IInv'
<1>0. UNCHANGED <<checked, died, overtaken, overlooked>>
  BY DEF CallbackRefused, history
<1>1. UnverifiedKeyIsShown'
  BY <1>0, KeyStaysShown DEF CallbackRefused, AdminAt, Unverified
<1> QED
  BY <1>0, <1>1, RequestIsOver, RequestIs DEF CallbackRefused, IInv, Typed

\* The tokens of the account just connected.
LEMMA GrantedIsIssued ==
    ASSUME ProvidersAssumption, IInv, provider' = provider, accounts' = accounts + 1
    PROVE  Granted \in Issued' /\ Granted \in Tokens /\ Granted.account = accounts'
<1>0. accounts \in Nat
  BY DEF IInv, Typed
<1>1. /\ Views' = Views /\ OAuth' = OAuth /\ Client' = Client /\ Tokens' = Tokens
  BY DEF Views, OAuth, Client, Tokens, Fields
<1>2. Granted.account = accounts' /\ accounts' \in Nat
  BY <1>0 DEF Granted
<1>3. Granted \in Tokens
  BY <1>2 DEF Granted, Tokens, Fields
<1>4. Client.reads \subseteq Granted.fields
  BY Profile DEF Granted, Connects, IInv, Typed
<1> QED
  BY <1>1, <1>2, <1>3, <1>4 DEF Issued

LEMMA OneMore ==
    \A m, n \in Nat : n <= n + 1 /\ n + 1 \in Nat /\ (m <= n => m <= n + 1)
  OBVIOUS

\* A request that brings an account.
LEMMA AccountConnected ==
    ASSUME ProvidersAssumption, IInv, NEW a \in Admins,
           NEW pc \in {"exchanged", "looked up", "pasted"},
           AdminIs(a, [pc |-> pc, tokens |-> Granted]), accounts' = accounts + 1,
           UNCHANGED <<provider, row, cred, worker, checked, died, overtaken, overlooked>>,
           pc = "pasted" => Views.flow = "key",
           pc # "pasted" => Views.flow = "oauth",
           UnverifiedKeyIsShown'
    PROVE  IInv'
<1>1. Onward /\ row'.account <= accounts'
  <2>1. accounts <= accounts' /\ accounts' \in Nat /\ row'.account <= accounts'
    BY RequestIs, OneMore
  <2> QED
    BY <2>1 DEF Onward
<1>2. Admin' = Admin /\ Known \subseteq Known' /\ Views' = Views
  BY <1>1, SetsGrow DEF IInv, Views
<1>3. Granted \in Issued' /\ Granted \in Tokens
  BY GrantedIsIssued
<1> DEFINE x == [pc |-> pc, tokens |-> Granted]
<1>4. x.pc = pc /\ x.tokens = Granted /\ x \in Admin
  BY <1>3 DEF Admin, OAuthPcs, KeyPcs
<1>5. x \in Placed'
  BY <1>2, <1>3, <1>4 DEF Placed, OAuthPcs, KeyPcs
<1> QED
  BY <1>1, <1>2, <1>5, RequestStep DEF IInv, Typed

LEMMA ExchangeCodeKeeps ==
    ASSUME ProvidersAssumption, IInv, NEW a \in Admins, ExchangeCode(a)
    PROVE  IInv'
<1>0. UNCHANGED <<checked, died, overtaken, overlooked>>
  BY DEF ExchangeCode, history
<1>1. Views.flow = "oauth"
  BY RequestIs DEF ExchangeCode, Placed, AdminAt, OAuthPcs
<1>2. UnverifiedKeyIsShown'
  BY <1>1, NoKeyIsAsked DEF ExchangeCode
<1>3. CASE OAuth.lookup
  BY <1>0, <1>1, <1>2, <1>3, AccountConnected DEF ExchangeCode
<1>4. CASE ~OAuth.lookup
  BY <1>0, <1>1, <1>2, <1>4, AccountConnected DEF ExchangeCode
<1> QED
  BY <1>3, <1>4

LEMMA LookUpAccountKeeps ==
    ASSUME ProvidersAssumption, IInv, NEW a \in Admins, LookUpAccount(a)
    PROVE  IInv'
<1> DEFINE x == [admin[a] EXCEPT !.pc = "looked up"]
<1>0. UNCHANGED <<checked, died, overtaken, overlooked>>
  BY DEF LookUpAccount, history
<1>1. Views.flow = "oauth"
  BY RequestIs DEF LookUpAccount, Placed, AdminAt, OAuthPcs
<1>2. x \in Admin /\ x.pc = "looked up" /\ x.tokens = admin[a].tokens
  BY RequestIs, PlaceIs DEF OAuthPcs
<1>3. AdminIs(a, x)
  BY DEF LookUpAccount, AdminTo
<1> HIDE DEF x
<1>4. x \in Placed
  BY <1>1, <1>2, RequestIs DEF Placed, KeyPcs
<1>5. UnverifiedKeyIsShown'
  BY <1>1, NoKeyIsAsked DEF LookUpAccount
<1> QED
  BY <1>0, <1>3, <1>4, <1>5, RequestIs, PlaceStays, RequestGoesOn
     DEF LookUpAccount, IInv, Typed

\* The meta of the account of the callback comes in: those that are ahead of it
\* are overtaken.
LEMMA ActivateKeeps ==
    ASSUME ProvidersAssumption, IInv, NEW a \in Admins, Activate(a)
    PROVE  IInv'
<1> DEFINE x == [admin[a] EXCEPT !.pc = "activated"]
<1>1. Views.flow = "oauth"
  BY RequestIs DEF Activate, Placed, AdminAt, OAuthPcs
<1>2. PICK account \in Nat : account = admin[a].tokens.account
  BY RequestIs
<1>3. PICK to \in Nat : to = IF Views.saves THEN account ELSE row.account
  BY <1>2, RequestIs
<1>4. to <= accounts
  BY <1>2, <1>3, RequestIs
<1>5. row' = [row EXCEPT !.active = TRUE, !.account = to]
  BY <1>2, <1>3 DEF Activate
<1>6. row' \in Row /\ row'.account = to
  BY <1>5, RequestIs DEF Row
<1>7. overtaken' = overtaken \cup {k \in (account + 1)..row.account : Views.saves}
  BY <1>2 DEF Activate
<1>8. overtaken' \subseteq Nat
  <2>1. \A m, n \in Nat : (m + 1)..n \subseteq Nat
    OBVIOUS
  <2>2. (account + 1)..row.account \subseteq Nat
    BY <2>1, RequestIs
  <2> QED
    BY <1>7, <2>2 DEF IInv, Typed
<1>9. UNCHANGED <<provider, accounts, cred, worker, checked, died, overlooked>>
  BY DEF Activate
<1>10. Onward
  <2>1. MetaLeads => to = account /\ overtaken' = overtaken \cup (account + 1)..row.account
    BY <1>3, <1>7 DEF MetaLeads
  <2>2. \A n \in Nat : n <= row.account => n <= account \/ n \in (account + 1)..row.account
    BY RequestIs
  <2>3. MetaLeads => \A n \in Nat : n <= row.account => n <= row'.account \/ n \in overtaken'
    BY <1>6, <2>1, <2>2
  <2> QED
    BY <1>7, <1>9, <2>3, RequestIs DEF Onward
<1>11. /\ Admin' = Admin /\ Issued \subseteq Issued' /\ Known \subseteq Known'
       /\ Views' = Views /\ MetaLeads' = MetaLeads
  BY <1>9, <1>10, SetsGrow DEF IInv, Views, Sync, MetaLeads
<1>12. x \in Admin /\ x.pc = "activated" /\ x.tokens = admin[a].tokens
  BY RequestIs, PlaceIs DEF OAuthPcs
<1>13. AdminIs(a, x)
  BY DEF Activate, AdminTo
<1>14. admin[a].tokens \in Known'
  <2>1. MetaLeads => admin[a].tokens.account <= row'.account
    BY <1>2, <1>3, <1>6 DEF MetaLeads
  <2> QED
    BY <1>11, <2>1, RequestIs DEF Known
<1> HIDE DEF x
<1>15. x \in Placed'
  BY <1>1, <1>11, <1>12, <1>14, RequestIs DEF Placed, KeyPcs
<1>16. UnverifiedKeyIsShown'
  BY <1>1, <1>9, NoKeyIsAsked
<1>17. row'.account <= accounts'
  BY <1>4, <1>6, <1>9
<1>18. cred' \in Known' /\ checked' \subseteq Nat /\ died' \subseteq Nat /\ overlooked' \subseteq Nat
  BY <1>9, <1>11, RequestIs DEF IInv, Typed
<1> QED
  BY <1>6, <1>8, <1>9, <1>10, <1>13, <1>15, <1>16, <1>17, <1>18, RequestStep

LEMMA CreateCredentialKeeps ==
    ASSUME ProvidersAssumption, IInv, NEW a \in Admins, CreateCredential(a)
    PROVE  IInv'
<1> DEFINE pc == IF AdminAt(a, "pasted") THEN "keyed" ELSE "created"
           x == [admin[a] EXCEPT !.pc = pc]
<1>0. UNCHANGED <<provider, accounts, row, worker, checked, died, overtaken, overlooked>>
  BY DEF CreateCredential, history
<1>1. cred' \in Known
  BY IdleIsSound, RequestIs DEF CreateCredential
<1>2. /\ pc \in {"keyed", "created"}
      /\ pc = "keyed" => Views.flow = "key"
      /\ pc = "created" => Views.flow = "oauth" /\ admin[a].tokens \in Known
  BY RequestIs DEF Placed, AdminAt, OAuthPcs, KeyPcs, CreateCredential
<1>3. AdminIs(a, x)
  BY DEF CreateCredential, AdminTo
<1> HIDE DEF pc
<1>4. x \in Admin /\ x.pc = pc /\ x.tokens = admin[a].tokens
  BY <1>2, RequestIs, PlaceIs DEF OAuthPcs, KeyPcs
<1> HIDE DEF x
<1>5. x \in Placed
  BY <1>2, <1>4, RequestIs DEF Placed, OAuthPcs, KeyPcs
<1>6. UnverifiedKeyIsShown'
  <2>1. cred' = cred \/ cred'.account = 0
    BY DEF CreateCredential, Blank
  <2>2. admin[a].pc \notin Unverified
    BY DEF CreateCredential, AdminAt, Unverified
  <2>3. CASE cred' = cred
    BY <1>0, <1>3, <2>2, <2>3, KeyStaysShown
  <2>4. CASE cred'.account = 0
    BY <2>4 DEF UnverifiedKeyIsShown, HasTokens
  <2> QED
    BY <2>1, <2>3, <2>4
<1> QED
  BY <1>0, <1>1, <1>3, <1>5, <1>6, RequestIs, PlaceStays, RequestGoesOn DEF IInv, Typed

\* A key is not settled yet when it is stored.
LEMMA StoreTokensKeeps ==
    ASSUME ProvidersAssumption, IInv, NEW a \in Admins, StoreTokens(a)
    PROVE  IInv'
<1>0. UNCHANGED <<provider, accounts, row, worker, checked, died, overtaken, overlooked>>
  BY DEF StoreTokens, history
<1>1. cred' = admin[a].tokens
  BY DEF StoreTokens
<1>2. CASE AdminAt(a, "created")
  <2>1. Views.flow = "oauth" /\ admin[a].tokens \in Known
    BY <1>2, RequestIs DEF Placed, AdminAt, OAuthPcs
  <2>2. AdminIs(a, AdminIdle)
    BY <1>2 DEF StoreTokens, AdminAt
  <2>3. UnverifiedKeyIsShown'
    BY <1>0, <2>1, NoKeyIsAsked
  <2> QED
    BY <1>0, <1>1, <2>1, <2>2, <2>3, RequestIs, PlaceStays, RequestGoesOn DEF IInv, Typed
<1>3. CASE AdminAt(a, "keyed")
  <2> DEFINE x == [admin[a] EXCEPT !.pc = "stored"]
  <2>1. Views.flow = "key"
    BY <1>3, RequestIs DEF Placed, AdminAt, KeyPcs
  <2>2. ~MetaLeads
    BY <2>1, Profile DEF MetaLeads, Connects, IInv, Typed
  <2>3. admin[a].tokens \in Known
    BY <2>2, RequestIs DEF Known
  <2>4. AdminIs(a, x)
    BY <1>3 DEF StoreTokens
  <2>5. x \in Admin /\ x.pc = "stored" /\ x.tokens = admin[a].tokens
    BY RequestIs, PlaceIs DEF KeyPcs
  <2> HIDE DEF x
  <2>6. x \in Placed
    BY <2>1, <2>5, RequestIs DEF Placed, OAuthPcs
  <2>7. UnverifiedKeyIsShown'
    <3>1. admin'[a] = x
      BY <2>4, OthersStay DEF IInv
    <3>2. admin'[a].pc \in Unverified /\ admin'[a].tokens.account = cred'.account
      BY <1>1, <2>5, <3>1 DEF Unverified
    <3>3. Unsettled(cred.account)'
      BY <3>2 DEF Unsettled
    <3> QED
      BY <3>3 DEF UnverifiedKeyIsShown
  <2> QED
    BY <1>0, <1>1, <2>3, <2>4, <2>6, <2>7, RequestIs, PlaceStays, RequestGoesOn DEF IInv, Typed
<1> QED
  BY <1>2, <1>3 DEF StoreTokens

\* A request that changes flags of the row, and is not followed further.
LEMMA RowOnlyKeeps ==
    ASSUME ProvidersAssumption, IInv, row' \in Row, row'.account = row.account,
           UNCHANGED <<provider, accounts, cred, admin, worker, history>>,
           UnverifiedKeyIsShown'
    PROVE  IInv'
<1>0. UNCHANGED <<checked, died, overtaken, overlooked>>
  BY DEF history
<1>1. Onward
  BY <1>0, NothingConnected DEF IInv
<1>2. /\ Tokens' = Tokens /\ Admin' = Admin /\ Worker' = Worker
      /\ Known \subseteq Known' /\ Sound \subseteq Sound' /\ Placed \subseteq Placed'
  BY <1>1, SetsGrow DEF IInv
<1>3. Typed'
  BY <1>0, <1>2 DEF IInv, Typed, Row
<1> QED
  BY <1>2, <1>3 DEF IInv

LEMMA PasteKeeps ==
    ASSUME ProvidersAssumption, IInv, NEW a \in Admins, Paste(a)
    PROVE  IInv'
<1>0. UNCHANGED <<checked, died, overtaken, overlooked>>
  BY DEF Paste, history
<1>1. UnverifiedKeyIsShown'
  BY <1>0, KeyStaysShown DEF Paste, AdminAt, Unverified
<1> QED
  BY <1>0, <1>1, AccountConnected DEF Paste

LEMMA PasteIncompleteKeeps ==
    ASSUME ProvidersAssumption, IInv, NEW a \in Admins, PasteIncomplete(a)
    PROVE  IInv'
<1>1. row' \in Row /\ row'.account = row.account /\ row'.error
  BY RequestIs DEF PasteIncomplete, Row
<1>2. UnverifiedKeyIsShown'
  BY <1>1 DEF UnverifiedKeyIsShown
<1> QED
  BY <1>1, <1>2, RowOnlyKeeps DEF PasteIncomplete

LEMMA DisconnectKeeps ==
    ASSUME ProvidersAssumption, IInv, Disconnect
    PROVE  IInv'
<1>1. row' \in Row /\ row'.account = row.account /\ ~row'.active
  BY DEF Disconnect, Row, IInv, Typed
<1>2. UnverifiedKeyIsShown'
  BY <1>1 DEF UnverifiedKeyIsShown
<1> QED
  BY <1>1, <1>2, RowOnlyKeeps DEF Disconnect

LEMMA ResetSetupKeeps ==
    ASSUME ProvidersAssumption, IInv, ResetSetup
    PROVE  IInv'
<1>1. row' \in Row /\ row'.account = row.account /\ ~row'.active
  BY DEF ResetSetup, Row, IInv, Typed
<1>2. UnverifiedKeyIsShown'
  BY <1>1 DEF UnverifiedKeyIsShown
<1> QED
  BY <1>1, <1>2, RowOnlyKeeps DEF ResetSetup

\* The key in the credential is the one this request stored, or it is for
\* another one to settle.
LEMMA ReadKeyKeeps ==
    ASSUME ProvidersAssumption, IInv, NEW a \in Admins, ReadKey(a)
    PROVE  IInv'
<1> DEFINE x == [pc |-> "pinging", tokens |-> cred]
<1>0. UNCHANGED <<provider, accounts, row, cred, worker, checked, died, overtaken, overlooked>>
  BY DEF ReadKey, history
<1>1. Views.flow = "key"
  BY RequestIs DEF ReadKey, Placed, AdminAt, KeyPcs
<1>2. x \in Placed
  <2>1. cred \in Issued /\ cred \in Tokens
    BY RequestIs DEF Known, Issued
  <2>2. x \in Admin /\ x.pc = "pinging" /\ x.tokens = cred
    BY <2>1 DEF Admin, KeyPcs
  <2> HIDE DEF x
  <2> QED
    BY <1>1, <2>1, <2>2 DEF Placed, OAuthPcs
<1>3. AdminIs(a, x)
  BY DEF ReadKey
<1>4. UnverifiedKeyIsShown'
  BY <1>0, <1>3, KeyStaysShown DEF Unverified
<1> QED
  BY <1>0, <1>2, <1>3, <1>4, RequestIs, PlaceStays, RequestGoesOn DEF IInv, Typed

\* The key that answered is the one the client was made of.
LEMMA PingAnsweredKeeps ==
    ASSUME ProvidersAssumption, IInv, NEW a \in Admins, PingAnswered(a)
    PROVE  IInv'
<1> DEFINE x == [admin[a] EXCEPT !.pc = "answered"]
<1>1. Views.flow = "key"
  BY RequestIs DEF PingAnswered, Placed, AdminAt, KeyPcs
<1>2. x \in Admin /\ x.pc = "answered" /\ x.tokens = admin[a].tokens
  BY RequestIs, PlaceIs DEF KeyPcs
<1>3. AdminIs(a, x)
  BY DEF PingAnswered, AdminTo
<1>4. UNCHANGED <<provider, accounts, row, cred, worker, died, overtaken, overlooked>>
  BY DEF PingAnswered
<1>5. checked' \subseteq Nat /\ checked \subseteq checked' /\ admin[a].tokens.account \in checked'
  BY RequestIs DEF PingAnswered, IInv, Typed
<1> HIDE DEF x
<1>6. x \in Placed'
  BY <1>1, <1>2, <1>4, <1>5, RequestIs, PlaceStays DEF Placed, OAuthPcs
<1>7. UnverifiedKeyIsShown'
  BY <1>3, <1>4, <1>5, KeyStaysShown
<1> QED
  BY <1>3, <1>4, <1>5, <1>6, <1>7, RequestIs, RequestGoesOn DEF IInv, Typed

LEMMA PingRejectedKeeps ==
    ASSUME ProvidersAssumption, IInv, NEW a \in Admins, PingRejected(a)
    PROVE  IInv'
<1> DEFINE x == [admin[a] EXCEPT !.pc = "rejected"]
<1>0. UNCHANGED <<provider, accounts, row, cred, worker, checked, died, overtaken, overlooked>>
  BY DEF PingRejected, history
<1>1. Views.flow = "key"
  BY RequestIs DEF PingRejected, Placed, AdminAt, KeyPcs
<1>2. x \in Admin /\ x.pc = "rejected" /\ x.tokens = admin[a].tokens
  BY RequestIs, PlaceIs DEF KeyPcs
<1>3. AdminIs(a, x)
  BY DEF PingRejected, AdminTo
<1> HIDE DEF x
<1>4. x \in Placed
  BY <1>1, <1>2, RequestIs DEF Placed, OAuthPcs
<1>5. UnverifiedKeyIsShown'
  BY <1>0, <1>2, <1>3, KeyStaysShown DEF Unverified
<1> QED
  BY <1>0, <1>3, <1>4, <1>5, RequestIs, PlaceStays, RequestGoesOn DEF IInv, Typed

LEMMA RecordAttemptKeeps ==
    ASSUME ProvidersAssumption, IInv, NEW a \in Admins, RecordAttempt(a)
    PROVE  IInv'
<1>0. UNCHANGED <<checked, died, overtaken, overlooked>>
  BY DEF RecordAttempt, history
<1>1. row' \in Row /\ row'.account = row.account /\ row'.error
  BY RequestIs DEF RecordAttempt, Row
<1>2. UnverifiedKeyIsShown'
  BY <1>1 DEF UnverifiedKeyIsShown
<1> QED
  BY <1>0, <1>1, <1>2, RequestIsOver DEF RecordAttempt, IInv, Typed

LEMMA OverlooksIsOfKeys ==
    ASSUME ProvidersAssumption, IInv, NEW a \in Admins
    PROVE  overlooked \cup Overlooks(a) \subseteq Nat
  BY RequestIs DEF Overlooks, IInv, Typed

LEMMA ClearAttemptKeeps ==
    ASSUME ProvidersAssumption, IInv, NEW a \in Admins, ClearAttempt(a)
    PROVE  IInv'
<1> DEFINE x == [admin[a] EXCEPT !.pc = "cleared"]
<1>1. Views.flow = "key" /\ admin[a].tokens.account \in checked
  BY RequestIs DEF ClearAttempt, Placed, AdminAt, KeyPcs
<1>2. row' \in Row /\ row'.account = row.account
  BY RequestIs DEF ClearAttempt, Row
<1>3. x \in Admin /\ x.pc = "cleared" /\ x.tokens = admin[a].tokens
  BY RequestIs, PlaceIs DEF KeyPcs
<1>4. AdminIs(a, x)
  BY DEF ClearAttempt, AdminTo
<1>5. /\ UNCHANGED <<provider, accounts, cred, worker, checked, died, overtaken>>
      /\ overlooked' = overlooked \cup Overlooks(a)
  BY DEF ClearAttempt
<1> HIDE DEF x
<1>6. x \in Placed
  BY <1>1, <1>3, RequestIs DEF Placed, OAuthPcs
<1>7. UnverifiedKeyIsShown'
  <2>1. admin[a].pc \notin Unverified
    BY DEF ClearAttempt, AdminAt, Unverified
  <2> QED
    BY <1>1, <1>4, <1>5, <2>1, OverlookedIsBooked
<1>8. overlooked' \subseteq Nat
  BY <1>5, OverlooksIsOfKeys
<1> QED
  BY <1>2, <1>4, <1>5, <1>6, <1>7, <1>8, RequestIs, PlaceStays, RequestGoesOn DEF IInv, Typed

LEMMA ActivateKeyKeeps ==
    ASSUME ProvidersAssumption, IInv, NEW a \in Admins, ActivateKey(a)
    PROVE  IInv'
<1>1. admin[a].tokens.account \in checked /\ admin[a].pc \notin Unverified
  BY RequestIs DEF ActivateKey, Placed, AdminAt, Unverified
<1>2. row' \in Row /\ row'.account = row.account
  BY RequestIs DEF ActivateKey, Row
<1>3. /\ UNCHANGED <<provider, accounts, cred, worker, checked, died, overtaken>>
      /\ overlooked' = overlooked \cup Overlooks(a) /\ AdminIs(a, AdminIdle)
  BY DEF ActivateKey
<1>4. UnverifiedKeyIsShown'
  BY <1>1, <1>3, OverlookedIsBooked
<1>5. overlooked' \subseteq Nat /\ died' \subseteq Nat
  BY <1>3, OverlooksIsOfKeys DEF IInv, Typed
<1> QED
  BY <1>2, <1>3, <1>4, <1>5, RequestIsOver

LEMMA AdminDiesKeeps ==
    ASSUME ProvidersAssumption, IInv, NEW a \in Admins, AdminDies(a)
    PROVE  IInv'
<1>1. /\ UNCHANGED <<provider, accounts, row, cred, worker, checked, overtaken, overlooked>>
      /\ AdminIs(a, AdminIdle)
  BY DEF AdminDies
<1>2. died' \subseteq Nat /\ died \subseteq died'
  BY RequestIs DEF AdminDies, IInv, Typed
<1>3. admin[a].pc \in Unverified => admin[a].tokens.account \in died'
  BY DEF AdminDies
<1>4. UnverifiedKeyIsShown'
  BY <1>1, <1>2, <1>3, KeyStaysShown
<1> QED
  BY <1>1, <1>2, <1>4, RequestIs, RequestIsOver DEF IInv, Typed

-----------------------------------------------------------------------------
(* The invariant.                                                          *)

LEMMA InitIInv ==
    ASSUME ProvidersAssumption, Init
    PROVE  IInv
<1>1. NoRow \in Tokens
  BY DEF NoRow, Tokens, Fields
<1>2. /\ accounts \in Nat /\ row.account = 0 /\ row.account <= accounts /\ row \in Row
      /\ ~row.active
  BY DEF Init, Row
<1>3. cred \in Known /\ NoRow \in Known /\ NoRow \in Issued
  BY <1>1, <1>2 DEF Known, Issued, NoRow, Init
<1>4. AdminIdle \in Admin /\ AdminIdle.pc = "idle" /\ AdminIdle.tokens = NoRow
  BY <1>1 DEF AdminIdle, Admin
<1>5. AdminIdle \in Placed
  BY <1>3, <1>4 DEF Placed, OAuthPcs, KeyPcs
<1>6. WorkerIdle \in Worker
  BY <1>1 DEF WorkerIdle, Worker
<1>7. Typed
  BY <1>1, <1>2, <1>4, <1>6 DEF Typed, Init
<1>8. WorkerIdle \in Sound
  <2>1. Len(Calls) \in Nat
    BY Profile DEF Init, Lists, Calls
  <2>2. 0 <= accounts /\ 1 \in 1..(Len(Calls) + 1)
    BY <1>2, <2>1
  <2>3. /\ WorkerIdle.pc = "idle" /\ WorkerIdle.account = 0 /\ WorkerIdle.tokens = NoRow
        /\ WorkerIdle.call = 1 /\ WorkerIdle.of = {} /\ ~WorkerIdle.hidden
    BY DEF WorkerIdle
  <2> QED
    BY <1>3, <1>6, <2>2, <2>3 DEF Sound
<1>9. (\A w \in Workers : worker[w] \in Sound) /\ (\A a \in Admins : admin[a] \in Placed)
  BY <1>5, <1>8 DEF Init
<1>10. UnverifiedKeyIsShown
  BY <1>2 DEF UnverifiedKeyIsShown
<1> QED
  BY <1>2, <1>3, <1>7, <1>9, <1>10 DEF IInv

LEMMA NextIInv ==
    ASSUME ProvidersAssumption, IInv, [Next]_vars
    PROVE  IInv'
<1>1. ASSUME NEW a \in Admins, Request(a)
      PROVE  IInv'
  <2>1. CASE ByOAuth(a)
    BY <2>1, ConnectKeeps, CallbackRefusedKeeps, ExchangeCodeKeeps, LookUpAccountKeeps,
       ActivateKeeps DEF ByOAuth
  <2>2. CASE ByKey(a)
    BY <2>2, PasteKeeps, PasteIncompleteKeeps, ReadKeyKeeps, PingAnsweredKeeps,
       PingRejectedKeeps, RecordAttemptKeeps, ClearAttemptKeeps, ActivateKeyKeeps DEF ByKey
  <2>3. CASE CreateCredential(a) \/ StoreTokens(a) \/ AdminDies(a)
    BY <2>3, CreateCredentialKeeps, StoreTokensKeeps, AdminDiesKeeps
  <2> QED
    BY <1>1, <2>1, <2>2, <2>3 DEF Request
<1>2. CASE Disconnect \/ ResetSetup
  BY <1>2, DisconnectKeeps, ResetSetupKeeps
<1>3. ASSUME NEW w \in Workers, RunSync(w)
      PROVE  IInv'
  BY <1>3, StartSyncKeeps, MakeClientKeeps, AnswerKeeps, FailKeeps, UnauthorisedKeeps,
     RefreshKeeps, SaveTokensKeeps, StoreKeeps, SaveRowKeeps, WorkerDiesKeeps DEF RunSync
<1>4. CASE UNCHANGED vars
  <2>1. UNCHANGED <<provider, accounts, row, cred, admin, worker, history>>
    BY <1>4 DEF vars
  <2>2. UNCHANGED <<checked, died, overtaken, overlooked>>
    BY <2>1 DEF history
  <2>3. UnverifiedKeyIsShown'
    BY <2>1, <2>2 DEF IInv, UnverifiedKeyIsShown, Unsettled, Views, HasTokens
  <2>4. row \in Row
    BY DEF IInv, Typed
  <2> QED
    BY <2>1, <2>3, <2>4, RowOnlyKeeps
<1> QED
  BY <1>1, <1>2, <1>3, <1>4 DEF Next

LEMMA InvariantHolds == Spec => []IInv
  BY ProvidersAssumption, InitIInv, NextIInv, PTL DEF Spec

-----------------------------------------------------------------------------

\* A snapshot is made of one account: whatever is connected and whatever is
\* refreshed while a run goes on, the client keeps the tokens it was made with,
\* or tokens of the same account, and only answers to those are counted.
THEOREM SnapshotsAreOfOneAccount == Spec => []OneAccountPerSnapshot
<1>1. ASSUME IInv
      PROVE  OneAccountPerSnapshot
  <2> SUFFICES ASSUME NEW w \in Workers, Client.made = "run"
               PROVE  Cardinality(worker[w].of) <= 1
    BY DEF OneAccountPerSnapshot
  <2>1. worker[w].of \subseteq {worker[w].tokens.account}
    BY <1>1 DEF IInv, Sound
  <2>2. CASE worker[w].of = {}
    BY <2>2, FS_EmptySet
  <2>3. CASE worker[w].of = {worker[w].tokens.account}
    <3>1. Cardinality({worker[w].tokens.account}) = 1
      BY FS_Singleton
    <3> QED
      BY <2>3, <3>1
  <2> QED
    BY <2>1, <2>2, <2>3
<1> QED
  BY <1>1, InvariantHolds, PTL

\* Integration.meta is of an account connected before that of the credential
\* only where an older callback saved its meta after the newer one had: tokens
\* reach the credential only after the meta of their account has been saved,
\* and no run of a sync brings an earlier meta back.
THEOREM MetaIsNotBehind == Spec => []MetaKeepsUp
<1>1. ASSUME IInv
      PROVE  MetaKeepsUp
  <2>1. cred \in Known /\ cred.account \in Nat /\ row.account \in Nat
    BY <1>1 DEF IInv, Known, Issued, Tokens, Typed, Row
  <2> QED
    BY <2>1 DEF MetaKeepsUp, MetaLeads, Known
<1> QED
  BY <1>1, InvariantHolds, PTL

\* The credential always has the fields a client is made from, for the callback
\* and the form store them all and a refresh, which adds the fields of its
\* answer to those it found, takes none away.
THEOREM CredentialsAreComplete == Spec => []CredentialIsComplete
<1>1. ASSUME IInv
      PROVE  CredentialIsComplete
  BY <1>1 DEF IInv, CredentialIsComplete, HasTokens, Known, Issued
<1> QED
  BY <1>1, InvariantHolds, PTL

\* An active integration whose key never answered a ping shows the error or is
\* about to, however the requests of the wizard overlap, but where a request
\* that had stored or tried the key died before it could record it, or one with
\* another key, which did answer, cleared the record or activated after it.
THEOREM UnverifiedKeysAreShown == Spec => []UnverifiedKeyIsShown
<1>1. ASSUME IInv
      PROVE  UnverifiedKeyIsShown
  BY <1>1 DEF IInv
<1> QED
  BY <1>1, InvariantHolds, PTL

\* With the providers whose run_sync has no call it can do without, no snapshot
\* says ok of a metric whose call, refresh or retry failed: such a failure ends
\* the run, or is said in the metric.
THEOREM FailuresAreNotHidden == Spec => []OkIsAnswered
<1>1. ASSUME IInv
      PROVE  OkIsAnswered
  BY <1>1 DEF IInv, OkIsAnswered, Sound
<1> QED
  BY <1>1, InvariantHolds, PTL
=============================================================================
