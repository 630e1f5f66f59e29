----------------------------- MODULE McpGateway -----------------------------
(***************************************************************************)
(* The MCP gateway (apps/data_access/mcp/gateway.py) over one provider, as *)
(* the integrations of two packages of code behind it behave: a limit of   *)
(* calls per minute, the credential and its early refresh, the call, the   *)
(* audit row. Callers are the Google Workspace sync, three calls in turn   *)
(* and a snapshot, or, for the other providers, of one call.               *)
(*                                                                         *)
(* Tenants have schemas of their own, and so integrations, credentials and *)
(* audit rows of their own; the cache they share. The primary keys of two  *)
(* tenants' integrations count from 1 in each schema: they may coincide.   *)
(***************************************************************************)
EXTENDS ConnectorProfiles, FiniteSetsExt, TLC

CONSTANTS
    Providers,   \* the providers a behaviour may be about
    Tenants,     \* tenants that have connected it
    Pks,         \* primary keys of their integrations
    Callers,     \* processes that call the gateway
    Limit,       \* RATE_LIMIT_PER_MINUTE
    MaxMinute,   \* bound: minutes
    MaxCalls     \* bound: calls let through

ASSUME GatewayAssumption ==
    /\ Providers \subseteq DOMAIN Packages
    /\ Limit \in Nat /\ MaxMinute \in Nat /\ MaxCalls \in Nat
    /\ IsFiniteSet(Callers)

VARIABLES
    provider,    \* the provider
    pk,          \* pk[t]: the primary key of the tenant's integration
    minute,      \* int(time.time() // 60)
    counter,     \* counter[k]: the cache entry mcp:rl:{pk}:{minute}, 0 if none
    cred,        \* cred[t]: the tokens of the Credential row
    caller,      \* caller[c]: where it stands, and what it holds
    rows,        \* rows[t]: MCPCall rows, by ok
    passed,      \* history: calls let through, by cache key
    overlapped,  \* history: keys read by one caller and written by another before its write
    made,        \* history: calls an integration has ended, by tenant and ok
    lost         \* history: those whose caller died before it wrote the row

vars == <<provider, pk, minute, counter, cred, caller, rows, passed, overlapped,
          made, lost>>

-----------------------------------------------------------------------------
Views == Packages[provider].views
OAuth == Packages[provider].oauth
Client == Packages[provider].client
Impl == Packages[provider].integration

\* How many calls a caller makes: run_sync of Google Workspace, or one.
Turns == IF provider = "google_workspace" THEN Len(Packages[provider].sync.calls) ELSE 1

Minutes == 0..MaxMinute
Keys == Pks \X Minutes
KeyOf(t) == <<pk[t], minute>>

\* NoRow: no credential. Blank: get_or_create made one without tokens. soon: the
\* tokens' expires_at is within five minutes, or over.
NoRow == [fields |-> {}, soon |-> FALSE]
Blank == [fields |-> {"blank"}, soon |-> FALSE]
Granted == [fields |-> IF Views.flow = "key" THEN Views.asks ELSE OAuth.gives,
            soon |-> FALSE]

Idle == [pc |-> "idle", turn |-> 1]
At(c, pc) == caller[c].pc = pc
InCall == {"counted", "passed", "expiring", "renewed", "ready", "asked", "unauthorised",
           "fresh", "retried", "answered"}

TypeOK ==
    /\ provider \in Providers
    /\ pk \in [Tenants -> Pks]
    /\ minute \in Minutes
    /\ counter \in [Keys -> 0..Limit]
    /\ DOMAIN cred = Tenants
    /\ rows \in [Tenants -> [BOOLEAN -> Nat]]
    /\ DOMAIN caller = Callers
    /\ \A c \in Callers :
          /\ caller[c].pc \in InCall \cup {"idle", "between", "done"}
          /\ ~At(c, "idle") => caller[c].tenant \in Tenants
          /\ At(c, "counted") => caller[c].key \in Keys /\ caller[c].n \in 0..(Limit - 1)
    /\ passed \in [Keys -> Nat]
    /\ overlapped \subseteq Keys

Init ==
    /\ provider \in Providers
    /\ pk \in [Tenants -> Pks]
    /\ minute = 0
    /\ counter = [k \in Keys |-> 0]
    /\ cred = [t \in Tenants |-> NoRow]
    /\ caller = [c \in Callers |-> Idle]
    /\ rows = [t \in Tenants |-> [ok \in BOOLEAN |-> 0]]
    /\ passed = [k \in Keys |-> 0]
    /\ overlapped = {}
    /\ made = [t \in Tenants |-> [ok \in BOOLEAN |-> 0]]
    /\ lost = [t \in Tenants |-> [ok \in BOOLEAN |-> 0]]

counting == <<counter, passed, overlapped>>
auditing == <<rows, made, lost>>
fixed == <<provider, pk>>

-----------------------------------------------------------------------------
(* The integration's account, and time.                                    *)

\* The callback or the wizard: get_or_create, then the tokens, a save each.
CreateCredential(t) ==
    /\ cred[t] = NoRow
    /\ cred' = [cred EXCEPT ![t] = Blank]
    /\ UNCHANGED <<fixed, minute, caller, counting, auditing>>

StoreTokens(t) ==
    /\ cred[t] # NoRow
    /\ cred' = [cred EXCEPT ![t] = Granted]
    /\ UNCHANGED <<fixed, minute, caller, counting, auditing>>

\* expires_at draws near. Only google_workspace keeps one.
ExpiresSoon(t) ==
    /\ "expires_at" \in cred[t].fields
    /\ cred' = [cred EXCEPT ![t].soon = TRUE]
    /\ UNCHANGED <<fixed, minute, caller, counting, auditing>>

NextMinute ==
    /\ minute < MaxMinute
    /\ minute' = minute + 1
    /\ UNCHANGED <<fixed, cred, caller, counting, auditing>>

-----------------------------------------------------------------------------
(* gateway.call.                                                           *)

To(c, pc) == caller' = [caller EXCEPT ![c].pc = pc]
Step(c, from, to) == At(c, from) /\ To(c, to)

\* The call raises: its caller, run_sync or another, ends with it.
Raise(c) == caller' = [caller EXCEPT ![c] = Idle]

\* The call returns: the next one, or the end of the run.
Return(c) ==
    LET me == caller[c]
    IN  caller' = [caller EXCEPT ![c] =
            [pc |-> IF me.turn < Turns THEN "between" ELSE "done",
             turn |-> me.turn + 1, tenant |-> me.tenant]]

\* Mutation: n > RATE_LIMIT_PER_MINUTE.
FullPast(t) == counter[KeyOf(t)] > Limit

\* n >= RATE_LIMIT_PER_MINUTE
Full(t) == counter[KeyOf(t)] >= Limit

\* Whose next call may begin: a caller is free, or in the middle of its run.
Calls(c, t) ==
    /\ At(c, "idle") \/ (At(c, "between") /\ caller[c].tenant = t)
    /\ MapThenSumSet(LAMBDA k : passed[k], Keys) < MaxCalls

\* _enforce_rate_limit reads the counter.
Count(c, t) ==
    /\ Calls(c, t)
    /\ ~Full(t)
    /\ caller' = [caller EXCEPT ![c] =
           [pc |-> "counted", turn |-> @.turn, tenant |-> t, key |-> KeyOf(t),
            n |-> counter[KeyOf(t)]]]
    /\ UNCHANGED <<fixed, minute, cred, counting, auditing>>

\* RateLimitExceeded.
Refuse(c, t) ==
    /\ Calls(c, t)
    /\ Full(t)
    /\ Raise(c)
    /\ UNCHANGED <<fixed, minute, cred, counting, auditing>>

\* _enforce_rate_limit writes what it read and one more.
CountUp(c) ==
    LET me == caller[c]
    IN  /\ Step(c, "counted", "passed")
        /\ counter' = [counter EXCEPT ![me.key] = me.n + 1]
        /\ overlapped' = IF counter[me.key] # me.n THEN overlapped \cup {me.key}
                         ELSE overlapped
        /\ passed' = [passed EXCEPT ![me.key] = @ + 1]
        /\ UNCHANGED <<fixed, minute, cred, auditing>>

\* The credential is read: there is none, it holds no tokens yet (get_tokens
\* raises), or the tokens have to be refreshed first, or not.
ReadCredential(c) ==
    /\ At(c, "passed")
    /\ LET it == cred[caller[c].tenant]
       IN  CASE it = NoRow -> Return(c)
             [] it = Blank -> Raise(c)
             [] it.soon    -> To(c, "expiring")
             [] OTHER      -> To(c, "ready")
    /\ UNCHANGED <<fixed, minute, cred, counting, auditing>>

\* refresh_tokens, before the call; when it fails, the call raises.
RenewEarly(c) ==
    /\ At(c, "expiring")
    /\ To(c, "renewed") \/ Raise(c)
    /\ UNCHANGED <<fixed, minute, cred, counting, auditing>>

\* What it returned replaces the tokens.
SaveRenewed(c) ==
    /\ Step(c, "renewed", "ready")
    /\ cred' = [cred EXCEPT ![caller[c].tenant] = [fields |-> OAuth.keeps, soon |-> FALSE]]
    /\ UNCHANGED <<fixed, minute, counting, auditing>>

-----------------------------------------------------------------------------
(* impl.call, and what follows it.                                         *)

\* The integration has ended the call, with ok or without.
Ended(c, ok) ==
    /\ made' = [made EXCEPT ![caller[c].tenant][ok] = @ + 1]
    /\ caller' = [caller EXCEPT ![c] =
           [pc |-> "answered", turn |-> @.turn, tenant |-> @.tenant, ok |-> ok]]
    /\ UNCHANGED <<fixed, minute, cred, counting, rows, lost>>

\* A client is made, of the credential as it is now; the proxy needs none.
\* What cannot be made is an answer with an error.
Ask(c) ==
    LET it == cred[caller[c].tenant]
    IN  /\ At(c, "ready")
        /\ \/ /\ Impl = ByProxy \/ (it # Blank /\ Client.demands \subseteq it.fields)
              /\ To(c, "asked")
              /\ UNCHANGED <<fixed, minute, cred, counting, auditing>>
           \/ /\ Impl # ByProxy /\ ~(it # Blank /\ Client.demands \subseteq it.fields)
              /\ Ended(c, FALSE)

\* A 401, if the integration refreshes; the answer, kept from being an
\* exception by the integration, or by the gateway.
Unauthorised(c) ==
    /\ Impl.renews
    /\ Step(c, "asked", "unauthorised")
    /\ UNCHANGED <<fixed, minute, cred, counting, auditing>>

Answer(c) ==
    /\ At(c, "asked") \/ At(c, "retried")
    /\ \E ok \in BOOLEAN : Ended(c, ok)

RenewFails(c) ==
    /\ At(c, "unauthorised")
    /\ Ended(c, FALSE)

Renew(c) ==
    /\ Step(c, "unauthorised", "fresh")
    /\ UNCHANGED <<fixed, minute, cred, counting, auditing>>

\* The new tokens over those the client was made of.
SaveTokens(c) ==
    /\ Step(c, "fresh", "retried")
    /\ cred' = [cred EXCEPT ![caller[c].tenant].fields = @ \cup OAuth.keeps]
    /\ UNCHANGED <<fixed, minute, counting, auditing>>

\* Mutation: only what was answered is audited.
AuditAnswered(c) ==
    LET me == caller[c]
    IN  /\ At(c, "answered")
        /\ rows' = IF me.ok THEN [rows EXCEPT ![me.tenant][TRUE] = @ + 1] ELSE rows
        /\ Return(c)
        /\ UNCHANGED <<fixed, minute, cred, counting, made, lost>>

\* _audit, and call returns.
Audit(c) ==
    LET me == caller[c]
    IN  /\ At(c, "answered")
        /\ rows' = [rows EXCEPT ![me.tenant][me.ok] = @ + 1]
        /\ Return(c)
        /\ UNCHANGED <<fixed, minute, cred, counting, made, lost>>

\* run_sync has made its calls; the others have theirs.
End(c) ==
    /\ At(c, "done")
    /\ caller' = [caller EXCEPT ![c] = Idle]
    /\ UNCHANGED <<fixed, minute, cred, counting, auditing>>

Die(c) ==
    LET me == caller[c]
    IN  /\ ~At(c, "idle")
        /\ lost' = IF At(c, "answered") THEN [lost EXCEPT ![me.tenant][me.ok] = @ + 1] ELSE lost
        /\ caller' = [caller EXCEPT ![c] = Idle]
        /\ UNCHANGED <<fixed, minute, cred, counting, rows, made>>

-----------------------------------------------------------------------------
Enforce(c) == (\E t \in Tenants : Count(c, t) \/ Refuse(c, t)) \/ CountUp(c)

Gateway(c) ==
    \/ Enforce(c) \/ ReadCredential(c) \/ RenewEarly(c) \/ SaveRenewed(c) \/ Audit(c)

Integration(c) ==
    \/ Ask(c) \/ Unauthorised(c) \/ Answer(c) \/ RenewFails(c) \/ Renew(c) \/ SaveTokens(c)

Next ==
    \/ \E t \in Tenants : CreateCredential(t) \/ StoreTokens(t) \/ ExpiresSoon(t)
    \/ NextMinute
    \/ \E c \in Callers : Gateway(c) \/ Integration(c) \/ End(c) \/ Die(c)

Spec == Init /\ [][Next]_vars

-----------------------------------------------------------------------------
(* Properties.                                                             *)

\* As long as no two calls overlap between the read and the write of one
\* counter, no more than RATE_LIMIT_PER_MINUTE calls are let through for it,
\* whatever becomes of the calls and of their callers.
LimitHoldsWithoutOverlap ==
    \A k \in Keys : k \notin overlapped => passed[k] <= Limit

\* Callers that hold an answer nobody has audited.
Answered(t, ok) == {c \in Callers : At(c, "answered") /\ caller[c].tenant = t
                                    /\ caller[c].ok = ok}

\* Each call that reached the provider's integration has one audit row, with
\* the ok it ended with, whether it was answered, failed, raised, or was tried
\* twice for a 401; only a caller that dies with the answer in hand leaves none.
CallsAreAudited ==
    \A t \in Tenants, ok \in BOOLEAN :
       made[t][ok] = rows[t][ok] + lost[t][ok] + Cardinality(Answered(t, ok))
=============================================================================
