------------------------- MODULE ConnectorProfiles -------------------------
(***************************************************************************)
(* What tells the providers of apps/connectors apart. The packages share   *)
(* one shape (docs/CONNECTORS.md, "Conventions"): views that connect an    *)
(* account, an OAuth module, an API client, a run_sync and an integration  *)
(* for the MCP gateway. SnapshotSync and McpGateway have that shape; this  *)
(* module has, for each provider and file, the choices that change what    *)
(* may happen.                                                             *)
(***************************************************************************)
EXTENDS Naturals, Sequences

(* Views. asks: the fields of a paste-key form; saves: whether the callback *)
(* replaces Integration.meta by what it learnt of the account. All OAuth    *)
(* callbacks take a state out of the session, some a PKCE verifier too, and *)
(* refuse without.                                                          *)
OAuthViews(saves) == [flow |-> "oauth", asks |-> {}, saves |-> saves]
KeyViews(asks) == [flow |-> "key", asks |-> asks, saves |-> FALSE]

(* OAuth. gives: the fields exchange_code returns that clients read;        *)
(* renews, keeps: whether refresh_tokens asks for a new access token, and   *)
(* the fields of its answer; lookup: whether exchange_code asks the         *)
(* provider for the account in a second request, which may fail too.        *)
Renewable(gives, keeps, lookup) ==
    [gives |-> gives \cup {"access_token"}, renews |-> TRUE,
     keeps |-> keeps \cup {"access_token"}, lookup |-> lookup]
Lasting(gives, lookup) ==
    [gives |-> gives, renews |-> FALSE, keeps |-> gives, lookup |-> lookup]
NoOAuth == Lasting({}, FALSE)

(* Clients. reads: the fields of the credential a client is made from;      *)
(* demands: those it refuses to be made without; renews: whether it         *)
(* refreshes on a 401 and asks once more; made: once in a run, or anew      *)
(* for each call of it.                                                     *)
Renewing(reads, demands) ==
    [reads |-> reads \cup {"access_token"}, demands |-> demands,
     renews |-> TRUE, made |-> "run"]
Fixed(reads, made) ==
    [reads |-> reads, demands |-> reads, renews |-> FALSE, made |-> made]

(* Runs. calls: the calls of run_sync in order, many: whether the call is   *)
(* one request, several pages, or made for each item of an earlier answer;  *)
(* fails: what its failure does. Quits: run_sync logs it and returns None.  *)
(* Raises: the exception ends the task. Flags: the metric is stored with    *)
(* ok False. Hides: the metric is stored with ok True all the same, over    *)
(* what was answered. meta: whether the run saves Integration.meta too.     *)
Quits == "quits"
Raises == "raises"
Flags == "flags"
Hides == "hides"
One(call, fails) == [call |-> call, many |-> "one", fails |-> fails]
Paged(call, fails) == [call |-> call, many |-> "pages", fails |-> fails]
Each(call, fails) == [call |-> call, many |-> "each", fails |-> fails]
Run(calls, meta) == [calls |-> calls, meta |-> meta]

(* Integrations, as the MCP gateway calls them. renews: whether call asks    *)
(* for another access token after a 401, through the client or by itself,   *)
(* and stores it; raises: whether a failure may leave call as an exception. *)
ByClient(client) == [renews |-> client.renews, raises |-> FALSE]
ByServer(oauth) == [renews |-> oauth.renews, raises |-> FALSE]
ByProxy == [renews |-> FALSE, raises |-> TRUE]

-----------------------------------------------------------------------------
AsanaViews == OAuthViews(FALSE)
AsanaOAuth == Renewable({}, {}, FALSE)
AsanaClient == Renewing({}, {})
AsanaSync == Run(<<One("workspaces", Quits), Each("projects", Hides),
    Each("tasks", Hides)>>, FALSE)
AsanaIntegration == ByClient(AsanaClient)

BasecampViews == OAuthViews(TRUE)
BasecampOAuth == Renewable({"account_id"}, {}, TRUE)
BasecampClient == Renewing({"account_id"}, {"account_id"})
BasecampSync == Run(<<One("projects", Quits)>>, FALSE)
BasecampIntegration == ByClient(BasecampClient)

CaflouViews == KeyViews({"api_token"})
CaflouClient == Fixed({"api_token"}, "run")
CaflouSync == Run(<<One("companies", Quits), One("projects", Quits),
    One("tasks", Quits), One("invoices", Quits), One("timesheets", Quits)>>, FALSE)
CaflouIntegration == ByClient(CaflouClient)

CalendlyViews == OAuthViews(TRUE)
CalendlyOAuth == Renewable({"owner"}, {"owner"}, FALSE)
CalendlyClient == Renewing({"owner"}, {})
CalendlySync == Run(<<Paged("event_types", Quits), Paged("scheduled_events", Quits)>>, FALSE)
CalendlyIntegration == ByClient(CalendlyClient)

CanvaViews == OAuthViews(TRUE)
CanvaOAuth == Renewable({}, {}, FALSE)
CanvaClient == Fixed({"access_token"}, "run")
CanvaSync == Run(<<One("tools", Hides), One("users/me", Flags),
    One("designs/list", Hides), One("brand-templates/list", Hides),
    One("folders/list", Hides)>>, TRUE)
CanvaIntegration == ByServer(CanvaOAuth)

DropboxViews == OAuthViews(TRUE)
DropboxOAuth == Renewable({"account_id"}, {}, FALSE)
DropboxClient == Fixed({"access_token"}, "run")
DropboxSync == Run(<<One("tools", Hides), One("list_folder", Hides)>>, TRUE)
DropboxIntegration == ByServer(DropboxOAuth)

EcomailViews == KeyViews({"api_key"})
EcomailClient == Fixed({"api_key"}, "run")
EcomailSync == Run(<<One("ping", Quits), One("lists", Raises),
    One("campaigns", Raises), Each("campaign_stats", Hides)>>, FALSE)
EcomailIntegration == ByClient(EcomailClient)

FapiViews == KeyViews({"user", "api_key"})
FapiClient == Fixed({"user", "api_key"}, "run")
FapiSync == Run(<<One("invoices", Quits), One("clients", Quits),
    One("vouchers", Quits)>>, FALSE)
FapiIntegration == ByClient(FapiClient)

HubspotViews == OAuthViews(FALSE)
HubspotOAuth == Renewable({}, {}, FALSE)
HubspotClient == Renewing({}, {})
HubspotSync == Run(<<One("pipelines", Quits), Paged("deals", Quits),
    Paged("contacts", Quits), One("companies", Quits)>>, FALSE)
HubspotIntegration == ByClient(HubspotClient)

JiraViews == OAuthViews(TRUE)
JiraOAuth == Renewable({"cloud_id"}, {}, TRUE)
JiraClient == Renewing({"cloud_id"}, {"cloud_id"})
JiraSync == Run(<<One("projects", Quits), One("recent", Quits), One("open", Quits),
    One("done", Quits)>>, FALSE)
JiraIntegration == ByClient(JiraClient)

MailchimpViews == OAuthViews(TRUE)
MailchimpOAuth == Lasting({"api_endpoint", "access_token"}, TRUE)
MailchimpClient == Fixed({"api_endpoint", "access_token"}, "run")
MailchimpSync == Run(<<One("ping", Quits), One("audiences", Raises),
    One("campaigns", Raises), Each("reports", Hides)>>, FALSE)
MailchimpIntegration == ByClient(MailchimpClient)

Microsoft365Views == OAuthViews(TRUE)
Microsoft365OAuth == Renewable({}, {}, FALSE)
Microsoft365Client == Renewing({}, {})
Microsoft365Sync == Run(<<One("messages", Hides), One("events", Hides),
    One("drive", Hides), One("teams", Hides)>>, FALSE)
Microsoft365Integration == ByClient(Microsoft365Client)

NotionViews == OAuthViews(TRUE)
NotionOAuth == Lasting({"access_token"}, FALSE)
NotionClient == Fixed({"access_token"}, "run")
NotionSync == Run(<<One("tools", Hides), One("search", Hides)>>, TRUE)
NotionIntegration == ByServer(NoOAuth)

PipedriveViews == OAuthViews(TRUE)
PipedriveOAuth == Renewable({"api_domain"}, {"api_domain"}, FALSE)
PipedriveClient == Renewing({"api_domain"}, {})
PipedriveSync == Run(<<One("pipelines", Quits), One("stages", Quits),
    Paged("deals", Quits), Paged("persons", Quits), Paged("activities", Quits)>>, FALSE)
PipedriveIntegration == ByClient(PipedriveClient)

RaynetViews == KeyViews({"instance", "username", "api_key"})
RaynetClient == Fixed({"instance", "username", "api_key"}, "run")
RaynetSync == Run(<<One("companies", Quits), One("leads", Quits),
    One("business_cases", Quits), One("invoices", Quits)>>, FALSE)
RaynetIntegration == ByClient(RaynetClient)

SalesforceViews == OAuthViews(TRUE)
SalesforceOAuth == Renewable({"instance_url"}, {"instance_url"}, FALSE)
SalesforceClient == Renewing({"instance_url"}, {})
SalesforceSync == Run(<<One("accounts", Quits), One("opportunities", Quits),
    One("leads", Quits), One("users", Quits)>>, FALSE)
SalesforceIntegration == ByClient(SalesforceClient)

SlackViews == OAuthViews(TRUE)
SlackOAuth == Lasting({"bot_token"}, FALSE)
SlackClient == Fixed({"bot_token"}, "call")
SlackSync == Run(<<One("channels", Raises), Each("messages", Raises),
    One("users", Raises)>>, FALSE)
SlackIntegration == ByClient(SlackClient)

SmartEmailingViews == KeyViews({"username", "api_key"})
SmartEmailingClient == Fixed({"username", "api_key"}, "run")
SmartEmailingSync == Run(<<One("ping", Quits), One("contactlists", Raises),
    One("contacts", Raises), Paged("campaigns", Raises),
    Each("campaign_stats", Hides)>>, FALSE)
SmartEmailingIntegration == ByClient(SmartEmailingClient)

TrelloViews == KeyViews({"api_key", "token"})
TrelloClient == Fixed({"api_key", "token"}, "run")
TrelloSync == Run(<<One("boards", Quits), Each("cards_and_actions", Hides)>>, FALSE)
TrelloIntegration == ByClient(TrelloClient)

\* google_workspace: its callback is in apps/data_access, the tools are behind a
\* proxy that has credentials of its own.
GoogleWorkspaceViews == OAuthViews(FALSE)
GoogleWorkspaceOAuth ==
    Renewable({"refresh_token", "expires_at"}, {"refresh_token", "expires_at"}, FALSE)
GoogleWorkspaceClient == Fixed({"refresh_token"}, "run")
GoogleWorkspaceSync == Run(<<One("gmail.messages.list", Flags),
    One("calendar.events.list", Flags), One("drive.files.recent", Flags)>>, FALSE)
GoogleWorkspaceIntegration == ByProxy
-----------------------------------------------------------------------------
Package(views, oauth, client, sync, integration) ==
    [views |-> views, oauth |-> oauth, client |-> client, sync |-> sync,
     integration |-> integration]

\* The packages, by provider.
Packages == [
    asana |->
        Package(AsanaViews, AsanaOAuth, AsanaClient, AsanaSync,
                AsanaIntegration),
    basecamp |->
        Package(BasecampViews, BasecampOAuth, BasecampClient, BasecampSync,
                BasecampIntegration),
    caflou |->
        Package(CaflouViews, NoOAuth, CaflouClient, CaflouSync,
                CaflouIntegration),
    calendly |->
        Package(CalendlyViews, CalendlyOAuth, CalendlyClient, CalendlySync,
                CalendlyIntegration),
    canva |->
        Package(CanvaViews, CanvaOAuth, CanvaClient, CanvaSync,
                CanvaIntegration),
    dropbox |->
        Package(DropboxViews, DropboxOAuth, DropboxClient, DropboxSync,
                DropboxIntegration),
    ecomail |->
        Package(EcomailViews, NoOAuth, EcomailClient, EcomailSync,
                EcomailIntegration),
    fapi |-> Package(FapiViews, NoOAuth, FapiClient, FapiSync, FapiIntegration),
    hubspot |->
        Package(HubspotViews, HubspotOAuth, HubspotClient, HubspotSync,
                HubspotIntegration),
    jira |-> Package(JiraViews, JiraOAuth, JiraClient, JiraSync, JiraIntegration),
    mailchimp |->
        Package(MailchimpViews, MailchimpOAuth, MailchimpClient, MailchimpSync,
                MailchimpIntegration),
    microsoft365 |->
        Package(Microsoft365Views, Microsoft365OAuth, Microsoft365Client, Microsoft365Sync,
                Microsoft365Integration),
    notion |->
        Package(NotionViews, NotionOAuth, NotionClient, NotionSync,
                NotionIntegration),
    pipedrive |->
        Package(PipedriveViews, PipedriveOAuth, PipedriveClient, PipedriveSync,
                PipedriveIntegration),
    raynet |->
        Package(RaynetViews, NoOAuth, RaynetClient, RaynetSync,
                RaynetIntegration),
    salesforce |->
        Package(SalesforceViews, SalesforceOAuth, SalesforceClient, SalesforceSync,
                SalesforceIntegration),
    slack |->
        Package(SlackViews, SlackOAuth, SlackClient, SlackSync,
                SlackIntegration),
    smartemailing |->
        Package(SmartEmailingViews, NoOAuth, SmartEmailingClient, SmartEmailingSync,
                SmartEmailingIntegration),
    trello |->
        Package(TrelloViews, NoOAuth, TrelloClient, TrelloSync,
                TrelloIntegration),
    google_workspace |->
        Package(GoogleWorkspaceViews, GoogleWorkspaceOAuth, GoogleWorkspaceClient,
                GoogleWorkspaceSync, GoogleWorkspaceIntegration)]
=============================================================================
