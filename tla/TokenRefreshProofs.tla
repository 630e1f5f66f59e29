------------------------- MODULE TokenRefreshProofs -------------------------
(***************************************************************************)
(* Proofs about TokenRefresh for any number of clients, and at the end     *)
(* about BeatDispatch for any number of tenants, jobs and workers.         *)
(*                                                                         *)
(* AccountIsNotLockedOut says that what a client saves is accepted. That    *)
(* rests on what nobody else can know: a pair that is not yet stored is in  *)
(* the hands of one process only (Unshared), so nobody can have spent it.   *)
(* TenantsStayApart rests on where each worker stands (AtHome): one with a *)
(* tenant's schema is at the work of a sync of that tenant.                *)
(***************************************************************************)
EXTENDS TokenRefresh, BeatDispatch, SequenceTheorems, FiniteSetTheorems, TLAPS

Holds(c) == client[c].pc \in {"calling", "refreshing", "saving", "retrying"}

IssuedPair(t) == t.access \in 1..issued /\ t.refresh \in 1..issued

\* Every token in use was issued, a pair a rotating provider issued has one number.
PairsAreIssued ==
    /\ \A c \in Clients : Holds(c) => IssuedPair(client[c].tokens)
    /\ \A c \in Clients : At(c, "saving") => client[c].spent \in 1..issued
    /\ admin.pc # "idle" => IssuedPair(admin.tokens)

PairsAreWhole ==
    rotates =>
        /\ HasTokens => cred.access = cred.refresh
        /\ \A c \in Clients : Holds(c) => client[c].tokens.access = client[c].tokens.refresh
        /\ admin.pc # "idle" => admin.tokens.access = admin.tokens.refresh

\* A pair that waits to be stored is accepted, and with a rotating provider
\* nobody else has its refresh token.
Unshared(t, c) ==
    rotates =>
        /\ HasTokens => cred.refresh # t.refresh
        /\ \A d \in Clients \ {c} : Holds(d) => client[d].tokens.refresh # t.refresh

PendingIsAccepted ==
    /\ \A c \in Clients :
         At(c, "saving") =>
           /\ client[c].tokens.refresh \in refresh
           /\ Unshared(client[c].tokens, c)
    /\ admin.pc # "idle" =>
         /\ admin.tokens.refresh \in refresh
         /\ rotates =>
              /\ HasTokens => cred.refresh # admin.tokens.refresh
              /\ \A d \in Clients :
                   Holds(d) => client[d].tokens.refresh # admin.tokens.refresh

\* A provider that does not rotate accepts every refresh token in use.
KeptWhenNotRotating ==
    ~rotates =>
        /\ HasTokens => cred.refresh \in refresh
        /\ \A c \in Clients : Holds(c) => client[c].tokens.refresh \in refresh

IInv == /\ TypeOK
        /\ PairsAreIssued
        /\ PairsAreWhole
        /\ PendingIsAccepted
        /\ KeptWhenNotRotating
        /\ AccountIsNotLockedOut
-----------------------------------------------------------------------------
\* The sets and records of the type invariant, step by step.
LEMMA TypeInit == Init => TypeOK
<1> SUFFICES ASSUME Init PROVE TypeOK
  OBVIOUS
<1> USE IssuedAssumption DEF IssuedAssumption, Init
<1>1. NoRow \in Tokens /\ Idle \in ClientState /\ AdminIdle \in AdminState
  BY DEF Tokens, NoRow, Idle, AdminIdle, ClientState, AdminState
<1>2. ~HasTokens
  BY DEF HasTokens
<1>3. 0 \in 0..MaxIssued
  OBVIOUS
<1>4. QED
  BY <1>1, <1>2, <1>3 DEF TypeOK

\* A step keeps the types, given that pairs in use were issued.
LEMMA TypeStep ==
  ASSUME IInv, Next
  PROVE  TypeOK'
<1> USE IssuedAssumption DEF IssuedAssumption, IInv, TypeOK, ClientState, AdminState, provider, Tokens, NoRow, Blank, HasTokens, Idle, Over, AdminIdle, At, Goes, Raised, Exchange, Merged, PairsAreIssued, Holds, IssuedPair
<1>1. ASSUME NEW a \in access, Expire(a) PROVE TypeOK'
  BY <1>1 DEF Expire
<1>2. CASE ExchangeCode
  BY <1>2 DEF ExchangeCode
<1>3. CASE Activate
  BY <1>3 DEF Activate
<1>4. CASE CreateCredential
  BY <1>4 DEF CreateCredential
<1>5. CASE StoreTokens
  BY <1>5 DEF StoreTokens
<1>6. CASE CallbackDies
  BY <1>6 DEF CallbackDies
<1>7. CASE Disconnect
  BY <1>7 DEF Disconnect
<1>8. ASSUME NEW c \in Clients, Start(c) PROVE TypeOK'
  <2>1. client' \in [Clients -> ClientState]
    BY <1>8 DEF Start
  <2>2. UNCHANGED <<rotates, issued, access, refresh, active, cred, admin, orphans>>
    BY <1>8 DEF Start
  <2>3. QED
    BY <2>1, <2>2
<1>9. ASSUME NEW c \in Clients, ReadTokens(c) PROVE TypeOK'
  <2>1. client' \in [Clients -> ClientState]
    BY <1>9 DEF ReadTokens
  <2>2. UNCHANGED <<rotates, issued, access, refresh, active, cred, admin, orphans>>
    BY <1>9 DEF ReadTokens
  <2>3. QED
    BY <2>1, <2>2
<1>10. ASSUME NEW c \in Clients, Answered(c) PROVE TypeOK'
  <2>1. client' \in [Clients -> ClientState]
    <3>1. PICK held \in ClientState : held = client[c]
      OBVIOUS
    <3>2. [held EXCEPT !.pc = "calling", !.listed = TRUE] \in ClientState
      OBVIOUS
    <3>3. client' = [client EXCEPT ![c] = [held EXCEPT !.pc = "calling", !.listed = TRUE]]
      BY <1>10, <3>1 DEF Answered
    <3>4. QED
      BY <3>2, <3>3
  <2>2. UNCHANGED <<rotates, issued, access, refresh, active, cred, admin, orphans>>
    BY <1>10 DEF Answered
  <2>3. QED
    BY <2>1, <2>2
<1>11. ASSUME NEW c \in Clients, RequestFails(c) PROVE TypeOK'
  <2>1. client' \in [Clients -> ClientState]
    BY <1>11, ZenonT(40) DEF RequestFails
  <2>2. UNCHANGED <<rotates, issued, access, refresh, active, cred, admin, orphans>>
    BY <1>11 DEF RequestFails
  <2>3. QED
    BY <2>1, <2>2
<1>12. ASSUME NEW c \in Clients, Unauthorized(c) PROVE TypeOK'
  <2>1. client' \in [Clients -> ClientState]
    BY <1>12 DEF Unauthorized
  <2>2. UNCHANGED <<rotates, issued, access, refresh, active, cred, admin, orphans>>
    BY <1>12 DEF Unauthorized
  <2>3. QED
    BY <2>1, <2>2
<1>13. ASSUME NEW c \in Clients, Refreshed(c) PROVE TypeOK'
  BY <1>13 DEF Refreshed
<1>14. ASSUME NEW c \in Clients, AnswerLost(c) PROVE TypeOK'
  <2>1. issued' = issued + 1 /\ issued' \in 0..MaxIssued
    BY <1>14 DEF AnswerLost
  <2>2. access' \subseteq 1..issued' /\ refresh' \subseteq 1..issued' /\ rotates' \in BOOLEAN
    BY <1>14, <2>1 DEF AnswerLost
  <2>3. orphans' \subseteq 1..issued'
    BY <1>14, <2>1 DEF AnswerLost
  <2>4. client' \in [Clients -> ClientState]
    BY <1>14, ZenonT(40) DEF AnswerLost
  <2>5. /\ active' \in BOOLEAN /\ cred' \in Tokens /\ admin' \in AdminState
        /\ (HasTokens => cred.access \in 1..issued /\ cred.refresh \in 1..issued)'
    BY <1>14, <2>1 DEF AnswerLost
  <2>6. QED
    BY <2>1, <2>2, <2>3, <2>4, <2>5
<1>15. ASSUME NEW c \in Clients, RefreshFails(c) PROVE TypeOK'
  <2>1. client' \in [Clients -> ClientState]
    BY <1>15, ZenonT(40) DEF RefreshFails
  <2>2. UNCHANGED <<rotates, issued, access, refresh, active, cred, admin, orphans>>
    BY <1>15 DEF RefreshFails
  <2>3. QED
    BY <2>1, <2>2
<1>16. ASSUME NEW c \in Clients, SaveTokens(c) PROVE TypeOK'
  BY <1>16 DEF SaveTokens
<1>17. ASSUME NEW c \in Clients, SaveFails(c) PROVE TypeOK'
  BY <1>17, ZenonT(40) DEF SaveFails
<1>18. ASSUME NEW c \in Clients, Finish(c) PROVE TypeOK'
  <2>1. client' \in [Clients -> ClientState]
    BY <1>18 DEF Finish
  <2>2. UNCHANGED <<rotates, issued, access, refresh, active, cred, admin, orphans>>
    BY <1>18 DEF Finish
  <2>3. QED
    BY <2>1, <2>2
<1>19. ASSUME NEW c \in Clients, Dies(c) PROVE TypeOK'
  BY <1>19 DEF Dies
<1>20. QED
  BY <1>1, <1>2, <1>3, <1>4, <1>5, <1>6, <1>7, <1>8, <1>9, <1>10, <1>11, <1>12, <1>13, <1>14, <1>15, <1>16, <1>17, <1>18, <1>19
  DEF Next, AdminStep, ClientStep

\* A step keeps pairs in use among those issued.
LEMMA IssuedStep ==
  ASSUME IInv, Next
  PROVE  PairsAreIssued'
<1> USE IssuedAssumption DEF IssuedAssumption, IInv, TypeOK, ClientState, AdminState, provider, Tokens, NoRow, Blank, HasTokens, Idle, Over, AdminIdle, At, Goes, Raised, Exchange, Merged, PairsAreIssued, Holds, IssuedPair
<1>1. ASSUME NEW a \in access, Expire(a) PROVE PairsAreIssued'
  BY <1>1 DEF Expire
<1>2. CASE ExchangeCode
  BY <1>2 DEF ExchangeCode
<1>3. CASE Activate
  BY <1>3 DEF Activate
<1>4. CASE CreateCredential
  BY <1>4 DEF CreateCredential
<1>5. CASE StoreTokens
  BY <1>5 DEF StoreTokens
<1>6. CASE CallbackDies
  BY <1>6 DEF CallbackDies
<1>7. CASE Disconnect
  BY <1>7 DEF Disconnect
<1>8. ASSUME NEW c \in Clients, Start(c) PROVE PairsAreIssued'
  BY <1>8 DEF Start
<1>9. ASSUME NEW c \in Clients, ReadTokens(c) PROVE PairsAreIssued'
  BY <1>9 DEF ReadTokens
<1>10. ASSUME NEW c \in Clients, Answered(c) PROVE PairsAreIssued'
  BY <1>10 DEF Answered
<1>11. ASSUME NEW c \in Clients, RequestFails(c) PROVE PairsAreIssued'
  BY <1>11 DEF RequestFails
<1>12. ASSUME NEW c \in Clients, Unauthorized(c) PROVE PairsAreIssued'
  BY <1>12 DEF Unauthorized
<1>13. ASSUME NEW c \in Clients, Refreshed(c) PROVE PairsAreIssued'
  <2>1. PICK new \in Tokens : new = Merged(client[c].tokens.refresh)
    BY <1>13 DEF Refreshed
  <2>2. \A d \in Clients : d # c => client'[d] = client[d]
    BY <1>13 DEF Refreshed
  <2>3. /\ client'[c].pc = "saving" /\ client'[c].tokens = new
        /\ client'[c].spent = client[c].tokens.refresh
    BY <1>13, <2>1 DEF Refreshed
  <2>4. /\ issued' = issued + 1 /\ client[c].tokens.refresh \in 1..issued
        /\ new.access \in 1..issued' /\ new.refresh \in 1..issued'
    BY <1>13, <2>1 DEF Refreshed
  <2>5. UNCHANGED <<cred, admin>>
    BY <1>13 DEF Refreshed
  <2>6. QED
    BY <1>13, <2>2, <2>3, <2>4, <2>5
<1>14. ASSUME NEW c \in Clients, AnswerLost(c) PROVE PairsAreIssued'
  BY <1>14 DEF AnswerLost
<1>15. ASSUME NEW c \in Clients, RefreshFails(c) PROVE PairsAreIssued'
  BY <1>15 DEF RefreshFails
<1>16. ASSUME NEW c \in Clients, SaveTokens(c) PROVE PairsAreIssued'
  BY <1>16 DEF SaveTokens
<1>17. ASSUME NEW c \in Clients, SaveFails(c) PROVE PairsAreIssued'
  BY <1>17 DEF SaveFails
<1>18. ASSUME NEW c \in Clients, Finish(c) PROVE PairsAreIssued'
  BY <1>18 DEF Finish
<1>19. ASSUME NEW c \in Clients, Dies(c) PROVE PairsAreIssued'
  BY <1>19 DEF Dies
<1>20. QED
  BY <1>1, <1>2, <1>3, <1>4, <1>5, <1>6, <1>7, <1>8, <1>9, <1>10, <1>11, <1>12, <1>13, <1>14, <1>15, <1>16, <1>17, <1>18, <1>19
  DEF Next, AdminStep, ClientStep

\* A step keeps pairs whole.
LEMMA WholeStep ==
  ASSUME IInv, Next
  PROVE  PairsAreWhole'
<1> USE IssuedAssumption DEF IssuedAssumption, IInv, TypeOK, ClientState, AdminState, provider, Tokens, NoRow, Blank, HasTokens, Idle, Over, AdminIdle, At, Goes, Raised, Exchange, Merged, PairsAreWhole, Holds
<1>1. ASSUME NEW a \in access, Expire(a) PROVE PairsAreWhole'
  BY <1>1 DEF Expire
<1>2. CASE ExchangeCode
  BY <1>2 DEF ExchangeCode
<1>3. CASE Activate
  BY <1>3 DEF Activate
<1>4. CASE CreateCredential
  BY <1>4 DEF CreateCredential
<1>5. CASE StoreTokens
  BY <1>5 DEF StoreTokens
<1>6. CASE CallbackDies
  BY <1>6 DEF CallbackDies
<1>7. CASE Disconnect
  BY <1>7 DEF Disconnect
<1>8. ASSUME NEW c \in Clients, Start(c) PROVE PairsAreWhole'
  BY <1>8 DEF Start
<1>9. ASSUME NEW c \in Clients, ReadTokens(c) PROVE PairsAreWhole'
  BY <1>9 DEF ReadTokens
<1>10. ASSUME NEW c \in Clients, Answered(c) PROVE PairsAreWhole'
  BY <1>10 DEF Answered
<1>11. ASSUME NEW c \in Clients, RequestFails(c) PROVE PairsAreWhole'
  BY <1>11 DEF RequestFails
<1>12. ASSUME NEW c \in Clients, Unauthorized(c) PROVE PairsAreWhole'
  BY <1>12 DEF Unauthorized
<1>13. ASSUME NEW c \in Clients, Refreshed(c) PROVE PairsAreWhole'
  BY <1>13 DEF Refreshed
<1>14. ASSUME NEW c \in Clients, AnswerLost(c) PROVE PairsAreWhole'
  BY <1>14 DEF AnswerLost
<1>15. ASSUME NEW c \in Clients, RefreshFails(c) PROVE PairsAreWhole'
  BY <1>15 DEF RefreshFails
<1>16. ASSUME NEW c \in Clients, SaveTokens(c) PROVE PairsAreWhole'
  BY <1>16 DEF SaveTokens
<1>17. ASSUME NEW c \in Clients, SaveFails(c) PROVE PairsAreWhole'
  BY <1>17 DEF SaveFails
<1>18. ASSUME NEW c \in Clients, Finish(c) PROVE PairsAreWhole'
  BY <1>18 DEF Finish
<1>19. ASSUME NEW c \in Clients, Dies(c) PROVE PairsAreWhole'
  BY <1>19 DEF Dies
<1>20. QED
  BY <1>1, <1>2, <1>3, <1>4, <1>5, <1>6, <1>7, <1>8, <1>9, <1>10, <1>11, <1>12, <1>13, <1>14, <1>15, <1>16, <1>17, <1>18, <1>19
  DEF Next, AdminStep, ClientStep

\* A step keeps what a provider that does not rotate accepts.
LEMMA KeptStep ==
  ASSUME IInv, Next
  PROVE  KeptWhenNotRotating'
<1> USE IssuedAssumption DEF IssuedAssumption, IInv, TypeOK, ClientState, AdminState, provider, Tokens, NoRow, Blank, HasTokens, Idle, Over, AdminIdle, At, Goes, Raised, Exchange, Merged, KeptWhenNotRotating, PendingIsAccepted, Holds
<1>1. ASSUME NEW a \in access, Expire(a) PROVE KeptWhenNotRotating'
  BY <1>1 DEF Expire
<1>2. CASE ExchangeCode
  BY <1>2 DEF ExchangeCode
<1>3. CASE Activate
  BY <1>3 DEF Activate
<1>4. CASE CreateCredential
  BY <1>4 DEF CreateCredential
<1>5. CASE StoreTokens
  BY <1>5 DEF StoreTokens
<1>6. CASE CallbackDies
  BY <1>6 DEF CallbackDies
<1>7. CASE Disconnect
  BY <1>7 DEF Disconnect
<1>8. ASSUME NEW c \in Clients, Start(c) PROVE KeptWhenNotRotating'
  BY <1>8 DEF Start
<1>9. ASSUME NEW c \in Clients, ReadTokens(c) PROVE KeptWhenNotRotating'
  BY <1>9 DEF ReadTokens
<1>10. ASSUME NEW c \in Clients, Answered(c) PROVE KeptWhenNotRotating'
  BY <1>10 DEF Answered
<1>11. ASSUME NEW c \in Clients, RequestFails(c) PROVE KeptWhenNotRotating'
  BY <1>11 DEF RequestFails
<1>12. ASSUME NEW c \in Clients, Unauthorized(c) PROVE KeptWhenNotRotating'
  BY <1>12 DEF Unauthorized
<1>13. ASSUME NEW c \in Clients, Refreshed(c) PROVE KeptWhenNotRotating'
  BY <1>13 DEF Refreshed
<1>14. ASSUME NEW c \in Clients, AnswerLost(c) PROVE KeptWhenNotRotating'
  BY <1>14 DEF AnswerLost
<1>15. ASSUME NEW c \in Clients, RefreshFails(c) PROVE KeptWhenNotRotating'
  BY <1>15 DEF RefreshFails
<1>16. ASSUME NEW c \in Clients, SaveTokens(c) PROVE KeptWhenNotRotating'
  BY <1>16 DEF SaveTokens
<1>17. ASSUME NEW c \in Clients, SaveFails(c) PROVE KeptWhenNotRotating'
  BY <1>17 DEF SaveFails
<1>18. ASSUME NEW c \in Clients, Finish(c) PROVE KeptWhenNotRotating'
  BY <1>18 DEF Finish
<1>19. ASSUME NEW c \in Clients, Dies(c) PROVE KeptWhenNotRotating'
  BY <1>19 DEF Dies
<1>20. QED
  BY <1>1, <1>2, <1>3, <1>4, <1>5, <1>6, <1>7, <1>8, <1>9, <1>10, <1>11, <1>12, <1>13, <1>14, <1>15, <1>16, <1>17, <1>18, <1>19
  DEF Next, AdminStep, ClientStep

\* A step keeps pairs that wait to be stored accepted and unshared.
LEMMA PendingStep ==
  ASSUME IInv, Next
  PROVE  PendingIsAccepted'
<1> USE IssuedAssumption DEF IssuedAssumption, IInv, TypeOK, ClientState, AdminState, provider, Tokens, NoRow, Blank, HasTokens, Idle, Over, AdminIdle, At, Goes, Raised, Exchange, Merged, PendingIsAccepted, KeptWhenNotRotating, PairsAreIssued, IssuedPair, Unshared, Holds
<1>1. ASSUME NEW a \in access, Expire(a) PROVE PendingIsAccepted'
  BY <1>1 DEF Expire
<1>2. CASE ExchangeCode
  BY <1>2 DEF ExchangeCode
<1>3. CASE Activate
  BY <1>3 DEF Activate
<1>4. CASE CreateCredential
  BY <1>4 DEF CreateCredential
<1>5. CASE StoreTokens
  BY <1>5 DEF StoreTokens
<1>6. CASE CallbackDies
  BY <1>6 DEF CallbackDies
<1>7. CASE Disconnect
  BY <1>7 DEF Disconnect
<1>8. ASSUME NEW c \in Clients, Start(c) PROVE PendingIsAccepted'
  BY <1>8 DEF Start
<1>9. ASSUME NEW c \in Clients, ReadTokens(c) PROVE PendingIsAccepted'
  BY <1>9 DEF ReadTokens
<1>10. ASSUME NEW c \in Clients, Answered(c) PROVE PendingIsAccepted'
  BY <1>10 DEF Answered
<1>11. ASSUME NEW c \in Clients, RequestFails(c) PROVE PendingIsAccepted'
  BY <1>11 DEF RequestFails
<1>12. ASSUME NEW c \in Clients, Unauthorized(c) PROVE PendingIsAccepted'
  BY <1>12 DEF Unauthorized
<1>13. ASSUME NEW c \in Clients, Refreshed(c) PROVE PendingIsAccepted'
  <2>1. /\ \A d \in Clients \ {c} : client'[d] = client[d]
        /\ client'[c].pc = "saving" /\ client'[c].tokens.refresh
                                       = IF rotates THEN issued' ELSE client[c].tokens.refresh
        /\ issued' = issued + 1 /\ issued \in Nat /\ UNCHANGED <<cred, admin, rotates>>
    BY <1>13 DEF Refreshed
  <2>2. /\ client[c].pc = "refreshing" /\ client[c].tokens.refresh \in refresh
        /\ refresh' = IF rotates THEN (refresh \ {client[c].tokens.refresh}) \cup {issued'}
                                 ELSE refresh
    BY <1>13 DEF Refreshed
  <2>3. CASE rotates
    <3>1. \A d \in Clients \ {c} : At(d, "saving")' =>
            client'[d].tokens.refresh \in refresh' /\ Unshared(client[d].tokens, d)'
      BY <2>1, <2>2, <2>3
    <3>2. client'[c].tokens.refresh \in refresh' /\ Unshared(client[c].tokens, c)'
      BY <2>1, <2>2, <2>3
    <3>3. \A d \in Clients : At(d, "saving")' =>
            client'[d].tokens.refresh \in refresh' /\ Unshared(client[d].tokens, d)'
      BY <2>1, <3>1, <3>2
    <3>4. admin'.pc # "idle" =>
            /\ admin'.tokens.refresh \in refresh'
            /\ HasTokens' => cred'.refresh # admin'.tokens.refresh
            /\ \A d \in Clients : Holds(d)' => client'[d].tokens.refresh # admin'.tokens.refresh
      BY <2>1, <2>2, <2>3
    <3>5. QED
      BY <3>3, <3>4
  <2>4. CASE ~rotates
    BY <2>1, <2>2, <2>4
  <2>5. QED
    BY <2>3, <2>4
<1>14. ASSUME NEW c \in Clients, AnswerLost(c) PROVE PendingIsAccepted'
  BY <1>14 DEF AnswerLost
<1>15. ASSUME NEW c \in Clients, RefreshFails(c) PROVE PendingIsAccepted'
  BY <1>15 DEF RefreshFails
<1>16. ASSUME NEW c \in Clients, SaveTokens(c) PROVE PendingIsAccepted'
  BY <1>16 DEF SaveTokens
<1>17. ASSUME NEW c \in Clients, SaveFails(c) PROVE PendingIsAccepted'
  BY <1>17 DEF SaveFails
<1>18. ASSUME NEW c \in Clients, Finish(c) PROVE PendingIsAccepted'
  BY <1>18 DEF Finish
<1>19. ASSUME NEW c \in Clients, Dies(c) PROVE PendingIsAccepted'
  BY <1>19 DEF Dies
<1>20. QED
  BY <1>1, <1>2, <1>3, <1>4, <1>5, <1>6, <1>7, <1>8, <1>9, <1>10, <1>11, <1>12, <1>13, <1>14, <1>15, <1>16, <1>17, <1>18, <1>19
  DEF Next, AdminStep, ClientStep

\* A step keeps the account open.
LEMMA LockedOutStep ==
  ASSUME IInv, Next
  PROVE  AccountIsNotLockedOut'
<1> USE IssuedAssumption DEF IssuedAssumption, IInv, TypeOK, ClientState, AdminState, provider, Tokens, NoRow, Blank, HasTokens, Idle, Over, AdminIdle, At, Goes, Raised, Exchange, Merged, AccountIsNotLockedOut, PendingIsAccepted, Holds
<1>1. ASSUME NEW a \in access, Expire(a) PROVE AccountIsNotLockedOut'
  BY <1>1 DEF Expire
<1>2. CASE ExchangeCode
  BY <1>2 DEF ExchangeCode
<1>3. CASE Activate
  BY <1>3 DEF Activate
<1>4. CASE CreateCredential
  BY <1>4 DEF CreateCredential
<1>5. CASE StoreTokens
  BY <1>5 DEF StoreTokens
<1>6. CASE CallbackDies
  BY <1>6 DEF CallbackDies
<1>7. CASE Disconnect
  BY <1>7 DEF Disconnect
<1>8. ASSUME NEW c \in Clients, Start(c) PROVE AccountIsNotLockedOut'
  BY <1>8 DEF Start
<1>9. ASSUME NEW c \in Clients, ReadTokens(c) PROVE AccountIsNotLockedOut'
  BY <1>9 DEF ReadTokens
<1>10. ASSUME NEW c \in Clients, Answered(c) PROVE AccountIsNotLockedOut'
  BY <1>10 DEF Answered
<1>11. ASSUME NEW c \in Clients, RequestFails(c) PROVE AccountIsNotLockedOut'
  BY <1>11 DEF RequestFails
<1>12. ASSUME NEW c \in Clients, Unauthorized(c) PROVE AccountIsNotLockedOut'
  BY <1>12 DEF Unauthorized
<1>13. ASSUME NEW c \in Clients, Refreshed(c) PROVE AccountIsNotLockedOut'
  BY <1>13 DEF Refreshed
<1>14. ASSUME NEW c \in Clients, AnswerLost(c) PROVE AccountIsNotLockedOut'
  BY <1>14 DEF AnswerLost
<1>15. ASSUME NEW c \in Clients, RefreshFails(c) PROVE AccountIsNotLockedOut'
  BY <1>15 DEF RefreshFails
<1>16. ASSUME NEW c \in Clients, SaveTokens(c) PROVE AccountIsNotLockedOut'
  BY <1>16 DEF SaveTokens
<1>17. ASSUME NEW c \in Clients, SaveFails(c) PROVE AccountIsNotLockedOut'
  BY <1>17 DEF SaveFails
<1>18. ASSUME NEW c \in Clients, Finish(c) PROVE AccountIsNotLockedOut'
  BY <1>18 DEF Finish
<1>19. ASSUME NEW c \in Clients, Dies(c) PROVE AccountIsNotLockedOut'
  BY <1>19 DEF Dies
<1>20. QED
  BY <1>1, <1>2, <1>3, <1>4, <1>5, <1>6, <1>7, <1>8, <1>9, <1>10, <1>11, <1>12, <1>13, <1>14, <1>15, <1>16, <1>17, <1>18, <1>19
  DEF Next, AdminStep, ClientStep
\* The invariant holds of every reachable state.
LEMMA Invariance == Spec => []IInv
<1>1. Init => IInv
  <2> SUFFICES ASSUME Init PROVE IInv
    OBVIOUS
  <2>1. TypeOK
    BY TypeInit
  <2>2. ~HasTokens /\ admin.pc = "idle" /\ \A c \in Clients : client[c].pc = "idle"
    BY DEF Init, HasTokens, AdminIdle, Idle
  <2>3. QED
    BY <2>1, <2>2 DEF IInv, PairsAreIssued, PairsAreWhole, PendingIsAccepted,
         KeptWhenNotRotating, AccountIsNotLockedOut, Holds, At
<1>2. IInv /\ [Next]_vars => IInv'
  <2> SUFFICES ASSUME IInv, [Next]_vars PROVE IInv'
    OBVIOUS
  <2>1. CASE Next
    BY <2>1, TypeStep, IssuedStep, WholeStep, KeptStep, PendingStep, LockedOutStep
    DEF IInv
  <2>2. CASE UNCHANGED vars
    BY <2>2 DEF IInv, TypeOK, PairsAreIssued, PairsAreWhole, PendingIsAccepted,
         KeptWhenNotRotating, AccountIsNotLockedOut, Holds, At, vars, HasTokens,
         IssuedPair, Unshared
  <2>3. QED
    BY <2>1, <2>2
<1>3. QED
  BY <1>1, <1>2, PTL DEF Spec

\* Every state of the credential, the callback and the clients is well typed.
THEOREM TypeCorrect == Spec => []TypeOK
<1>1. IInv => TypeOK
  BY DEF IInv
<1>2. QED
  BY <1>1, Invariance, PTL

\* However many clients overlap, and however often the account is connected,
\* the stored refresh token is accepted unless its successor is about to be
\* saved or was never saved.
THEOREM NeverLockedOut == Spec => []AccountIsNotLockedOut
<1>1. IInv => AccountIsNotLockedOut
  BY DEF IInv
<1>2. QED
  BY <1>1, Invariance, PTL

\* The row never pairs the tokens of two answers of a rotating provider.
THEOREM PairsStayTogether == Spec => []PairIsOfOneAnswer
<1>1. IInv => PairIsOfOneAnswer
  BY DEF IInv, PairsAreWhole, PairIsOfOneAnswer
<1>2. QED
  BY <1>1, Invariance, PTL

\* No run of a sync brings a disconnected integration back.
THEOREM OnlyAnAdminActivates == Spec => OnlyTheCallbackActivates
<1> DEFINE Admitted == active' /\ ~active => admin'.pc = "activated"
<1>1. Next => Activate \/ active' = active \/ active' = FALSE
  BY DEF Next, AdminStep, ClientStep, Expire, ExchangeCode, CreateCredential,
    StoreTokens, CallbackDies, Disconnect, Start, ReadTokens, Answered, RequestFails,
    Unauthorized, Refreshed, AnswerLost, RefreshFails, SaveTokens, SaveFails, Finish, Dies,
    provider
<1>2. TypeOK /\ Activate => admin'.pc = "activated"
  BY DEF TypeOK, Activate, AdminState
<1>3. TypeOK /\ [Next]_vars => [Admitted]_vars
  BY <1>1, <1>2
<1>4. QED
  BY <1>3, TypeCorrect, PTL DEF Spec, OnlyTheCallbackActivates

-----------------------------------------------------------------------------
(* The dispatch.                                                           *)

Station == [pc : {"free", "taken", "checking", "sending", "fetching"},
            task : SUBSET Tasks, todo : SUBSET Tenants, found : SUBSET Tenants]

\* A worker with a schema to store in: it is at that, with that tenant's sync.
AtHome(station, s) ==
    /\ station.pc = "fetching" => s \in Tenants
    /\ s # Public => /\ station.pc = "fetching"
                     /\ \E j \in Jobs : station.task = {SyncOf(j, s)}

HoldsOne(station) ==
    \/ station.pc = "free" /\ station.task = {}
    \/ station.pc # "free" /\ \E task \in Tasks : station.task = {task}

BeatInv ==
    /\ BeatTypeOK
    /\ \A w \in Workers : HoldsOne(worker[w]) /\ AtHome(worker[w], schema[w])

LEMMA OneIsHeld ==
    ASSUME NEW station, HoldsOne(station)
    PROVE  Cardinality(station.task) = IF station.pc = "free" THEN 0 ELSE 1
  BY FS_EmptySet, FS_Singleton DEF HoldsOne

LEMMA FreeIsHome ==
    Free \in Station /\ Free.pc = "free" /\ HoldsOne(Free) /\ AtHome(Free, Public)
  BY DEF Free, Station, HoldsOne, AtHome

LEMMA BeatStart == BeatInit => BeatInv
<1> SUFFICES ASSUME BeatInit PROVE BeatInv
  OBVIOUS
<1>1. \A w \in Workers : worker[w] = Free /\ schema[w] = Public
  BY DEF BeatInit
<1>2. \A w \in Workers : HoldsOne(worker[w]) /\ AtHome(worker[w], schema[w])
  BY <1>1, FreeIsHome
<1>3. \A w \in Workers : Cardinality(worker[w].task) = IF worker[w].pc = "free" THEN 0 ELSE 1
  BY <1>2, OneIsHeld
<1>4. worker \in [Workers -> Station] /\ schema \in [Workers -> Tenants \cup {Public}]
  BY FreeIsHome DEF BeatInit
<1>5. queue \in Seq(Tasks)
  BY DEF BeatInit
<1>6. changes \in 0..MaxChanges /\ faults \in 0..MaxFaults
  BY BoundsAssumption DEF BeatInit
<1>7. QED
  BY <1>2, <1>3, <1>4, <1>5, <1>6 DEF BeatInit, BeatInv, BeatTypeOK, Station

\* A worker comes to another station, or stays, in schema s.
LEMMA StationMoves ==
    ASSUME BeatInv, NEW w \in Workers, NEW new \in Station, NEW s \in Tenants \cup {Public},
           HoldsOne(new), AtHome(new, s),
           worker' = [worker EXCEPT ![w] = new], schema' = [schema EXCEPT ![w] = s],
           UNCHANGED <<world, changes>>, queue' \in Seq(Tasks),
           served' \in SUBSET (Jobs \X Tenants), faults' \in 0..MaxFaults
    PROVE  BeatInv'
<1>1. /\ worker \in [Workers -> Station] /\ schema \in [Workers -> Tenants \cup {Public}]
      /\ \A v \in Workers : HoldsOne(worker[v]) /\ AtHome(worker[v], schema[v])
  BY DEF BeatInv, BeatTypeOK, Station
<1>2. \A v \in Workers : /\ worker'[v] = IF v = w THEN new ELSE worker[v]
                         /\ schema'[v] = IF v = w THEN s ELSE schema[v]
  BY <1>1
<1>3. \A v \in Workers : HoldsOne(worker'[v]) /\ AtHome(worker'[v], schema'[v])
  BY <1>1, <1>2
<1>4. \A v \in Workers : Cardinality(worker'[v].task) = IF worker'[v].pc = "free" THEN 0 ELSE 1
  BY <1>3, OneIsHeld
<1>5. worker' \in [Workers -> Station] /\ schema' \in [Workers -> Tenants \cup {Public}]
  BY <1>1
<1>6. BeatTypeOK'
  BY <1>4, <1>5 DEF BeatInv, BeatTypeOK, Station, world
<1>7. QED
  BY <1>3, <1>6 DEF BeatInv

\* The workers stay where they are.
LEMMA AroundKeeps ==
    ASSUME BeatInv, UNCHANGED <<worker, schema>>, queue' \in Seq(Tasks),
           served' \in SUBSET (Jobs \X Tenants), changes' \in 0..MaxChanges,
           faults' \in 0..MaxFaults, settings' \in BOOLEAN, listens' \in Deployments,
           open' \in [Tenants -> BOOLEAN], sound' \in [Tenants -> BOOLEAN],
           enabled' \in [Tenants \X Providers -> BOOLEAN]
    PROVE  BeatInv'
  BY DEF BeatInv, BeatTypeOK

LEMMA OneMore ==
    ASSUME BeatInv, NEW task \in Tasks, Send(task)
    PROVE  queue' \in Seq(Tasks)
  BY DEF BeatInv, BeatTypeOK, Send

LEMMA ChangeKeeps == ASSUME BeatInv, Change PROVE BeatInv'
<1>1. /\ changes \in 0..MaxChanges /\ changes < MaxChanges /\ changes' = changes + 1
      /\ UNCHANGED <<settings, listens, queue, worker, schema, served, faults>>
      /\ open \in [Tenants -> BOOLEAN] /\ sound \in [Tenants -> BOOLEAN]
      /\ enabled \in [Tenants \X Providers -> BOOLEAN]
  BY DEF BeatInv, BeatTypeOK, Change
<1>2. changes' \in 0..MaxChanges
  BY <1>1, BoundsAssumption
<1>3. \A S : \A f \in [S -> BOOLEAN], x \in S : [f EXCEPT ![x] = ~@] \in [S -> BOOLEAN]
  OBVIOUS
<1>4. /\ open' \in [Tenants -> BOOLEAN] /\ sound' \in [Tenants -> BOOLEAN]
      /\ enabled' \in [Tenants \X Providers -> BOOLEAN]
  BY <1>1, <1>3 DEF Change
<1>5. QED
  BY <1>1, <1>2, <1>4, AroundKeeps DEF BeatInv, BeatTypeOK

\* What a worker at work holds.
LEMMA TaskHeld ==
    ASSUME BeatInv, NEW w \in Workers, worker[w].pc # "free"
    PROVE  /\ TaskOf(w) \in Tasks /\ worker[w].task = {TaskOf(w)}
           /\ \A kind, pc : Runs(w, kind, pc) <=> worker[w].pc = pc /\ TaskOf(w).kind = kind
<1>1. PICK task \in Tasks : worker[w].task = {task}
  BY DEF BeatInv, HoldsOne
<1>2. TaskOf(w) = task
  BY <1>1 DEF TaskOf
<1>3. QED
  BY <1>1, <1>2 DEF Runs

LEMMA TaskKinds ==
    ASSUME NEW task \in Tasks
    PROVE  /\ task.kind = "dispatch" => task.job \in Jobs
           /\ task.kind = "sync" => /\ task.job \in Jobs /\ task.tenant \in Tenants
                                    /\ task = SyncOf(task.job, task.tenant)
  BY DEF Tasks, DispatchOf, SyncOf, IngestOf

LEMMA HeldAtHome ==
    ASSUME BeatInv, NEW w \in Workers
    PROVE  /\ worker[w] \in Station /\ schema[w] \in Tenants \cup {Public}
           /\ HoldsOne(worker[w]) /\ AtHome(worker[w], schema[w])
           /\ worker[w].pc # "fetching" => schema[w] = Public
  BY SchemasAssumption DEF BeatInv, BeatTypeOK, Station, AtHome

LEMMA EndKeeps ==
    ASSUME BeatInv, NEW w \in Workers, Ends(w), UNCHANGED <<world, changes>>,
           queue' \in Seq(Tasks), served' \in SUBSET (Jobs \X Tenants), faults' \in 0..MaxFaults
    PROVE  BeatInv'
<1>1. /\ worker' = [worker EXCEPT ![w] = Free] /\ schema' = [schema EXCEPT ![w] = Public]
  BY DEF Ends
<1>2. QED
  BY <1>1, FreeIsHome, StationMoves

\* A dispatcher goes on: it stays outside every schema.
LEMMA GoingKeeps ==
    ASSUME BeatInv, NEW w \in Workers, worker[w].pc \in {"taken", "checking", "sending"},
           NEW todo \in SUBSET Tenants, NEW found \in SUBSET Tenants,
           worker' = [worker EXCEPT ![w] = Going(w, todo, found)],
           UNCHANGED <<world, schema, changes, served, faults>>, queue' \in Seq(Tasks)
    PROVE  BeatInv'
<1>1. /\ worker[w] \in Station /\ HoldsOne(worker[w]) /\ schema[w] = Public
  BY HeldAtHome
<1>2. PICK held : held = worker[w]
  OBVIOUS
<1>3. PICK new : new = Going(w, todo, found)
  OBVIOUS
<1>4. new = IF todo = {} /\ found = {} THEN Free
            ELSE [held EXCEPT !.pc = IF todo = {} THEN "sending" ELSE "checking",
                              !.todo = todo, !.found = found]
  BY <1>2, <1>3 DEF Going
<1>5. held \in Station /\ HoldsOne(held) /\ held.pc \in {"taken", "checking", "sending"}
  BY <1>1, <1>2
<1>6. new \in Station /\ HoldsOne(new) /\ AtHome(new, Public)
  <2>1. CASE todo = {} /\ found = {}
    BY <1>4, <2>1, FreeIsHome
  <2>2. CASE ~(todo = {} /\ found = {})
    <3>1. /\ new \in Station /\ new.task = held.task /\ new.pc \in {"sending", "checking"}
      BY <1>4, <1>5, <2>2 DEF Station
    <3>2. HoldsOne(new)
      BY <1>5, <3>1 DEF HoldsOne
    <3>3. AtHome(new, Public)
      BY <3>1 DEF AtHome
    <3>4. QED
      BY <3>1, <3>2, <3>3
  <2>3. QED
    BY <2>1, <2>2
<1>7. schema \in [Workers -> Tenants \cup {Public}]
  BY DEF BeatInv, BeatTypeOK
<1>8. schema' = [schema EXCEPT ![w] = Public]
  BY <1>1, <1>7
<1>9. /\ served' \in SUBSET (Jobs \X Tenants) /\ faults' \in 0..MaxFaults
  BY DEF BeatInv, BeatTypeOK
<1>10. worker' = [worker EXCEPT ![w] = new]
  BY <1>3
<1>11. QED
  BY <1>6, <1>8, <1>9, <1>10, StationMoves

LEMMA TakeKeeps == ASSUME BeatInv, NEW w \in Workers, Take(w) PROVE BeatInv'
<1>1. /\ queue \in Seq(Tasks) /\ queue # <<>> /\ queue' = Tail(queue)
      /\ worker[w].pc = "free"
      /\ UNCHANGED <<world, schema, served, changes, faults>>
      /\ served \in SUBSET (Jobs \X Tenants) /\ faults \in 0..MaxFaults
      /\ schema \in [Workers -> Tenants \cup {Public}]
  BY DEF BeatInv, BeatTypeOK, Take
<1>2. queue' \in Seq(Tasks) /\ Head(queue) \in Tasks
  BY <1>1
<1>3. PICK new : new = [Free EXCEPT !.pc = "taken", !.task = {Head(queue)}]
  OBVIOUS
<1>4. new \in Station /\ HoldsOne(new) /\ AtHome(new, Public)
  <2>1. /\ new = [pc |-> "taken", task |-> {Head(queue)}, todo |-> {}, found |-> {}]
    BY <1>3 DEF Free
  <2>2. QED
    BY <1>2, <2>1 DEF Station, HoldsOne, AtHome
<1>5. schema' = [schema EXCEPT ![w] = Public]
  BY <1>1, HeldAtHome
<1>6. worker' = [worker EXCEPT ![w] = new]
  BY <1>3 DEF Take
<1>7. QED
  BY <1>1, <1>2, <1>4, <1>5, <1>6, StationMoves

LEMMA DispatchKeeps ==
    ASSUME BeatInv, NEW w \in Workers,
           DispatchNothing(w) \/ ListTenants(w) \/ CheckAny(w) \/ SendSync(w)
    PROVE  BeatInv'
<1>1. /\ queue \in Seq(Tasks) /\ served \in SUBSET (Jobs \X Tenants) /\ faults \in 0..MaxFaults
      /\ worker[w] \in Station
  BY HeldAtHome DEF BeatInv, BeatTypeOK
<1>2. CASE DispatchNothing(w)
  BY <1>1, <1>2, EndKeeps DEF DispatchNothing
<1>3. CASE ListTenants(w)
  <2>1. worker[w].pc = "taken"
    BY <1>3 DEF ListTenants, Runs
  <2>2. PICK todo \in SUBSET Tenants : todo = {t \in Tenants : open[t]}
    OBVIOUS
  <2>3. /\ worker' = [worker EXCEPT ![w] = Going(w, todo, {})]
        /\ UNCHANGED <<world, queue, schema, served, changes, faults>>
    BY <1>3, <2>2 DEF ListTenants
  <2>4. queue' \in Seq(Tasks)
    BY <1>1, <2>3
  <2>5. worker[w].pc \in {"taken", "checking", "sending"} /\ {} \in SUBSET Tenants
    BY <2>1
  <2>6. UNCHANGED <<world, schema, changes, served, faults>>
    BY <2>3
  <2>7. QED
    BY <2>2, <2>3, <2>4, <2>5, <2>6, GoingKeeps
<1>4. CASE CheckAny(w)
  <2>1. worker[w].pc = "checking"
    BY <1>4 DEF CheckAny, Runs
  <2>2. PICK t \in worker[w].todo : Check(w, t) \/ CheckRaises(w, t)
    BY <1>4 DEF CheckAny
  <2>3. worker[w].todo \in SUBSET Tenants /\ worker[w].found \in SUBSET Tenants
    BY <1>1 DEF Station
  <2>4. CASE Check(w, t)
    <3>1. PICK todo, found : /\ todo = worker[w].todo \ {t}
                             /\ found = worker[w].found \cup {u \in {t} : Has(u, w)}
      OBVIOUS
    <3>2. todo \in SUBSET Tenants /\ found \in SUBSET Tenants
      BY <2>2, <2>3, <3>1
    <3>3. worker' = [worker EXCEPT ![w] = Going(w, todo, found)]
      BY <2>4, <3>1 DEF Check
    <3>4. UNCHANGED <<world, queue, schema, served, changes, faults>>
      BY <2>4 DEF Check
    <3>5. QED
      BY <1>1, <2>1, <3>2, <3>3, <3>4, GoingKeeps
  <2>5. CASE CheckRaises(w, t)
    BY <1>1, <2>5, EndKeeps DEF CheckRaises
  <2>6. QED
    BY <2>2, <2>4, <2>5
<1>5. CASE SendSync(w)
  <2>1. worker[w].pc = "sending" /\ TaskOf(w) \in Tasks /\ TaskOf(w).kind = "dispatch"
    BY <1>5, TaskHeld DEF SendSync, Runs
  <2>2. PICK t \in worker[w].found :
          /\ Send(SyncOf(TaskOf(w).job, t))
          /\ worker' = [worker EXCEPT ![w] = Going(w, {}, worker[w].found \ {t})]
    BY <1>5 DEF SendSync
  <2>3. worker[w].found \in SUBSET Tenants
    BY <1>1 DEF Station
  <2>4. SyncOf(TaskOf(w).job, t) \in Tasks
    BY <2>1, <2>2, <2>3, TaskKinds DEF Tasks
  <2>5. queue' \in Seq(Tasks)
    BY <2>2, <2>4, OneMore
  <2>6. PICK found : found = worker[w].found \ {t}
    OBVIOUS
  <2>7. worker' = [worker EXCEPT ![w] = Going(w, {}, found)] /\ found \in SUBSET Tenants
    BY <2>2, <2>3, <2>6
  <2>8. UNCHANGED <<world, schema, served, changes, faults>>
    BY <1>5 DEF SendSync
  <2>9. QED
    BY <2>1, <2>5, <2>7, <2>8, GoingKeeps
<1>6. QED
  BY <1>2, <1>3, <1>4, <1>5

LEMMA SyncKeeps ==
    ASSUME BeatInv, NEW w \in Workers,
           StartSync(w) \/ StoreSync(w) \/ SendIngest(w) \/ Ingest(w) \/ Fault(w)
    PROVE  BeatInv'
<1>1. /\ queue \in Seq(Tasks) /\ served \in SUBSET (Jobs \X Tenants) /\ faults \in 0..MaxFaults
      /\ worker[w] \in Station /\ schema[w] \in Tenants \cup {Public}
      /\ HoldsOne(worker[w]) /\ AtHome(worker[w], schema[w])
  BY HeldAtHome DEF BeatInv, BeatTypeOK
<1>2. CASE StartSync(w)
  <2>1. /\ worker[w].pc = "taken" /\ worker[w].task = {TaskOf(w)}
        /\ TaskOf(w) \in Tasks /\ TaskOf(w).kind = "sync"
        /\ UNCHANGED <<world, queue, served, changes, faults>>
    BY <1>2, TaskHeld DEF StartSync, Runs
  <2>2. CASE Ready(w)
    <3>1. PICK t : t = TaskOf(w).tenant
      OBVIOUS
    <3>2. /\ t \in Tenants /\ t # Public
          /\ \E j \in Jobs : worker[w].task = {SyncOf(j, t)}
      BY <2>1, <3>1, TaskKinds, SchemasAssumption
    <3>3. PICK held : held = worker[w]
      OBVIOUS
    <3>4. PICK new : new = [held EXCEPT !.pc = "fetching"]
      OBVIOUS
    <3>5. /\ new \in Station /\ new.pc = "fetching" /\ new.task = held.task
      BY <1>1, <3>3, <3>4 DEF Station
    <3>6. HoldsOne(new) /\ AtHome(new, t)
      BY <1>1, <2>1, <3>2, <3>3, <3>5 DEF HoldsOne, AtHome
    <3>7. /\ worker' = [worker EXCEPT ![w] = new] /\ schema' = [schema EXCEPT ![w] = t]
      BY <1>2, <2>2, <3>1, <3>3, <3>4 DEF StartSync
    <3>8. QED
      BY <1>1, <2>1, <3>2, <3>5, <3>6, <3>7, StationMoves
  <2>3. CASE ~Ready(w)
    BY <1>1, <1>2, <2>1, <2>3, EndKeeps DEF StartSync
  <2>4. QED
    BY <2>2, <2>3
<1>3. CASE StoreSync(w)
  <2>1. /\ worker[w].pc = "fetching" /\ TaskOf(w) \in Tasks /\ TaskOf(w).kind = "sync"
    BY <1>3, TaskHeld DEF StoreSync, Runs
  <2>2. TaskOf(w).job \in Jobs /\ schema[w] \in Tenants
    BY <1>1, <2>1, TaskKinds DEF AtHome
  <2>3. /\ Ends(w) /\ UNCHANGED <<world, queue, changes, faults>>
        /\ served' = served \cup {<<TaskOf(w).job, schema[w]>>} \/ served' = served
    BY <1>3 DEF StoreSync
  <2>4. served' \in SUBSET (Jobs \X Tenants)
    BY <1>1, <2>2, <2>3
  <2>5. QED
    BY <1>1, <2>3, <2>4, EndKeeps
<1>4. CASE SendIngest(w)
  <2>1. worker[w].pc = "fetching" /\ Send(IngestOf(schema[w]))
        /\ UNCHANGED <<world, worker, schema, served, changes, faults>>
    BY <1>4 DEF SendIngest, Runs
  <2>2. IngestOf(schema[w]) \in Tasks
    BY <1>1, <2>1 DEF AtHome, Tasks
  <2>3. queue' \in Seq(Tasks)
    BY <2>1, <2>2, OneMore
  <2>4. QED
    BY <2>1, <2>3 DEF BeatInv, BeatTypeOK, world
<1>5. CASE Ingest(w)
  BY <1>1, <1>5, EndKeeps DEF Ingest
<1>6. CASE Fault(w)
  <2>1. /\ Ends(w) /\ UNCHANGED <<world, queue, served, changes>>
        /\ faults < MaxFaults /\ faults' = faults + 1
    BY <1>6 DEF Fault
  <2>2. faults' \in 0..MaxFaults
    BY <1>1, <2>1, BoundsAssumption
  <2>3. QED
    BY <1>1, <2>1, <2>2, EndKeeps
<1>7. QED
  BY <1>2, <1>3, <1>4, <1>5, <1>6

LEMMA SendersKeep ==
    ASSUME BeatInv, (\E j \in Jobs : Beat(j)) \/ (\E t \in Tenants : AskForIngest(t))
    PROVE  BeatInv'
<1>1. CASE \E j \in Jobs : Beat(j)
  <2>1. PICK j \in Jobs : Beat(j)
    BY <1>1
  <2>2. DispatchOf(j) \in Tasks
    BY DEF Tasks
  <2>3. queue' \in Seq(Tasks)
    BY <2>1, <2>2, OneMore DEF Beat
  <2>4. QED
    BY <2>1, <2>3 DEF Beat, BeatInv, BeatTypeOK, world
<1>2. CASE \E t \in Tenants : AskForIngest(t)
  <2>1. PICK t \in Tenants : AskForIngest(t)
    BY <1>2
  <2>2. SyncOf(KnowledgeJob, t) \in Tasks
    BY <2>1 DEF AskForIngest, Tasks
  <2>3. queue' \in Seq(Tasks)
    BY <2>1, <2>2, OneMore DEF AskForIngest
  <2>4. QED
    BY <2>1, <2>3 DEF AskForIngest, BeatInv, BeatTypeOK, world
<1>3. QED
  BY <1>1, <1>2

LEMMA BeatStep == ASSUME BeatInv, [BeatNext]_beatVars PROVE BeatInv'
<1>1. CASE (\E j \in Jobs : Beat(j)) \/ (\E t \in Tenants : AskForIngest(t))
  BY <1>1, SendersKeep
<1>2. CASE Change
  BY <1>2, ChangeKeeps
<1>3. ASSUME NEW w \in Workers, Step(w) \/ SendIngest(w) \/ Fault(w)
      PROVE  BeatInv'
  BY <1>3, TakeKeeps, DispatchKeeps, SyncKeeps DEF Step
<1>4. CASE UNCHANGED beatVars
  BY <1>4 DEF beatVars, world, BeatInv, BeatTypeOK
<1>5. QED
  BY <1>1, <1>2, <1>3, <1>4 DEF BeatNext

THEOREM BeatInductive == BeatSpec => []BeatInv
  BY BeatStart, BeatStep, PTL DEF BeatSpec

\* The dispatch's variables keep their types: a worker is free or has one task,
\* and only what the schedule knows is queued or counted as done.
THEOREM BeatTypes == BeatSpec => []BeatTypeOK
<1>1. BeatInv => BeatTypeOK
  BY DEF BeatInv
<1>2. QED
  BY <1>1, BeatInductive, PTL

\* schema_context leaves no worker in a tenant's schema once its sync is over,
\* however it ended: what a sync stores is stored where it belongs.
THEOREM TenantsAreKeptApart == BeatSpec => []TenantsStayApart
<1>1. BeatInv => TenantsStayApart
  BY DEF BeatInv, AtHome, TenantsStayApart
<1>2. QED
  BY <1>1, BeatInductive, PTL

\* A job is done for a tenant by a sync of that job for that tenant, by no other.
THEOREM SyncsAreDoneByTheirs == BeatSpec => DoneByItsSync
<1>1. ASSUME BeatInv, [BeatNext]_beatVars, NEW j \in Jobs, NEW t \in Tenants,
             <<j, t>> \in served' \ served
      PROVE  \E w \in Workers : worker[w].task = {SyncOf(j, t)}
  <2>1. PICK w \in Workers : StoreSync(w)
    <3>1. \A i \in Jobs : ~Beat(i)
      BY <1>1 DEF Beat
    <3>2. (\A u \in Tenants : ~AskForIngest(u)) /\ ~Change
      BY <1>1 DEF AskForIngest, Change
    <3>3. PICK w \in Workers : Step(w) \/ SendIngest(w) \/ Fault(w)
      BY <1>1, <3>1, <3>2 DEF BeatNext, beatVars
    <3>4. ~SendIngest(w) /\ ~Fault(w) /\ ~Take(w) /\ ~Ingest(w) /\ ~StartSync(w)
      BY <1>1 DEF SendIngest, Fault, Take, Ingest, StartSync
    <3>5. ~DispatchNothing(w) /\ ~ListTenants(w) /\ ~CheckAny(w) /\ ~SendSync(w)
      BY <1>1 DEF DispatchNothing, ListTenants, CheckAny, Check, CheckRaises, SendSync
    <3>6. QED
      BY <3>3, <3>4, <3>5 DEF Step
  <2>2. /\ worker[w].pc = "fetching" /\ worker[w].task = {TaskOf(w)}
        /\ TaskOf(w) \in Tasks /\ TaskOf(w).kind = "sync"
    BY <1>1, <2>1, TaskHeld DEF StoreSync, Runs
  <2>3. <<j, t>> = <<TaskOf(w).job, schema[w]>>
    BY <1>1, <2>1 DEF StoreSync
  <2>4. t # Public /\ schema[w] = t /\ AtHome(worker[w], t)
    BY <1>1, <2>3, SchemasAssumption, HeldAtHome
  <2>5. PICK i \in Jobs : worker[w].task = {SyncOf(i, t)}
    BY <2>4 DEF AtHome
  <2>6. TaskOf(w) = SyncOf(i, t)
    BY <2>2, <2>5
  <2>7. j = i
    BY <2>3, <2>6 DEF SyncOf
  <2>8. QED
    BY <2>5, <2>7
<1>2. BeatInv /\ [BeatNext]_beatVars =>
        [\A j \in Jobs, t \in Tenants : <<j, t>> \in served' \ served =>
            \E w \in Workers : worker[w].task = {SyncOf(j, t)}]_beatVars
  BY <1>1
<1>3. QED
  BY <1>2, BeatInductive, PTL DEF BeatSpec, DoneByItsSync
=============================================================================
