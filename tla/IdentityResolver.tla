-------------------------- MODULE IdentityResolver --------------------------
(***************************************************************************)
(* Resolving the people that several systems know to one Person: the       *)
(* IdentityResolver of apps/identity/services.py, as the persist() of the  *)
(* Pipedrive persons and of the Slack users calls it.                      *)
(*                                                                         *)
(* A row is one person of Pipedrive or one user of Slack. Each sync of a   *)
(* row is one transaction of a Celery worker: look every identifier of the *)
(* row up, else match by name and mail domain, else create a Person; then  *)
(* give the identifiers to the person found and link the row to it.        *)
(* Transactions are READ COMMITTED: a query sees what is committed, a row  *)
(* written or inserted by an open transaction makes another writer wait.   *)
(*                                                                         *)
(* Two rows of one human have the same name and, where it is known, the    *)
(* same address; rows of two humans share neither, only the mail domain.   *)
(***************************************************************************)
EXTENDS Naturals, Sequences

CONSTANTS
    Humans,       \* people
    Rows,         \* their rows in Pipedrive and Slack
    HumanOf,      \* HumanOf[r]: whose row r is
    InSlack,      \* the rows that are Slack users
    Employed,     \* the Pipedrive rows with an organization that is mirrored
    LateAddress,  \* rows whose address the remote system may not show at first
    Workers,      \* Celery workers
    Duty,         \* Duty[w]: the rows that worker w syncs
    MaxPersons,   \* bound: Person rows at any time
    MaxRollbacks  \* bound: transactions rolled back

ASSUME ResolverAssumption ==
    /\ HumanOf \in [Rows -> Humans]
    /\ InSlack \subseteq Rows
    /\ Employed \subseteq Rows \ InSlack
    /\ LateAddress \subseteq Rows
    /\ Duty \in [Workers -> SUBSET Rows]
    /\ "none" \notin Humans
    /\ MaxPersons \in Nat /\ MaxRollbacks \in Nat

VARIABLES
    known,    \* rows whose address the remote system shows
    person,   \* person[p]: the Person row with key p, or NoPerson
    owner,    \* owner[i]: the person of PersonIdentity i, 0 = no such row
    link,     \* link[r]: the person of the mirror row of r, 0 = none
    tx,       \* tx[w]: the transaction of worker w
    failed,   \* transactions rolled back
    racing    \* history: workers under way when the address last changed owner

vars == <<known, person, owner, link, tx, failed, racing>>

-----------------------------------------------------------------------------
Email(r) == <<"email", HumanOf[r]>>
SourceId(r) == <<"id", r>>
Identities == {"email"} \X Humans \cup {"id"} \X Rows

\* _collect_person_identities: the address first.
Collected(r, address) ==
    IF address THEN <<Email(r), SourceId(r)>> ELSE <<SourceId(r)>>

PersonRow(p) == <<"person", p>>
Lockable == Identities \cup {"person"} \X (1..MaxPersons)

NoPerson == [name |-> "none", email |-> FALSE, role |-> FALSE]

Person == [name : Humans, email : BOOLEAN, role : BOOLEAN]

Transaction ==
    [pc     : {"idle", "looking", "touching", "merging", "matching",
               "upserting", "linking"},
     row    : SUBSET Rows,        \* the row it syncs
     email  : BOOLEAN,            \* the address was in the fetched payload
     todo   : Seq(Identities),    \* identifiers to look up, or to upsert
     person : 0..MaxPersons,      \* the person it settled on
     draft  : BOOLEAN,            \* that person is inserted by itself
     fill   : BOOLEAN,            \* that person lacks the address
     writes : SUBSET Identities,  \* identifiers it has given to the person
     held   : SUBSET Lockable]    \* rows it has written, hence locked

NoTransaction ==
    [pc |-> "idle", row |-> {}, email |-> FALSE, todo |-> <<>>, person |-> 0,
     draft |-> FALSE, fill |-> FALSE, writes |-> {}, held |-> {}]

TypeOK ==
    /\ known \subseteq Rows
    /\ person \in [1..MaxPersons -> Person \cup {NoPerson}]
    /\ owner \in [Identities -> 0..MaxPersons]
    /\ \A i \in Identities : owner[i] # 0 => person[owner[i]] # NoPerson
    /\ link \in [Rows -> 0..MaxPersons]
    /\ tx \in [Workers -> Transaction]
    /\ failed \in 0..MaxRollbacks
    /\ racing \in [Humans -> SUBSET Workers]

Init ==
    /\ known = Rows \ LateAddress
    /\ person = [p \in 1..MaxPersons |-> NoPerson]
    /\ owner = [i \in Identities |-> 0]
    /\ link = [r \in Rows |-> 0]
    /\ tx = [w \in Workers |-> NoTransaction]
    /\ failed = 0
    /\ racing = [h \in Humans |-> {}]

database == <<person, owner, link>>

\* An address is entered, or becomes visible, in the remote system.
AddressAppears(r) ==
    /\ r \notin known
    /\ known' = known \cup {r}
    /\ UNCHANGED <<database, tx, failed, racing>>

-----------------------------------------------------------------------------
(* resolve_person.                                                         *)

At(w, where) == tx[w].pc = where
RowOf(w) == CHOOSE r \in tx[w].row : TRUE
Human(w) == HumanOf[RowOf(w)]

\* No other transaction has written k.
CanLock(w, k) == \A v \in Workers \ {w} : k \notin tx[v].held

\* A sync has fetched r and persist() begins.
Begin(w, r) ==
    /\ At(w, "idle")
    /\ tx' = [tx EXCEPT ![w] = [NoTransaction EXCEPT
                !.pc = "looking", !.row = {r}, !.email = r \in known,
                !.todo = Collected(r, r \in known)]]
    /\ UNCHANGED <<known, database, failed, racing>>

\* Mutation: only the identifier of the source itself is looked up.
LookUpSourceId(w) ==
    /\ At(w, "looking")
    /\ LET p == owner[SourceId(RowOf(w))]
       IN  tx' = [tx EXCEPT ![w] =
                    IF p # 0
                      THEN [@ EXCEPT !.pc = "touching", !.person = p,
                                     !.fill = tx[w].email /\ ~person[p].email]
                      ELSE [@ EXCEPT !.pc = "matching"]]
    /\ UNCHANGED <<known, database, failed, racing>>

\* One query for the next identifier: the first one that has an owner decides.
LookUp(w) ==
    /\ At(w, "looking")
    /\ LET i == Head(tx[w].todo)
           p == owner[i]
       IN  tx' = [tx EXCEPT ![w] =
                    IF p # 0
                      THEN [@ EXCEPT !.pc = "touching", !.person = p,
                                     !.fill = tx[w].email /\ ~person[p].email]
                      ELSE [@ EXCEPT !.todo = Tail(tx[w].todo),
                                     !.pc = IF Len(tx[w].todo) > 1
                                              THEN "looking" ELSE "matching"]]
    /\ UNCHANGED <<known, database, failed, racing>>

\* _touch_identity: last_seen and verified of the identity row are saved.
Touch(w) ==
    /\ At(w, "touching")
    /\ LET i == Head(tx[w].todo)
       IN  /\ CanLock(w, i)
           /\ tx' = [tx EXCEPT ![w].held = @ \cup {i},
                               ![w].pc = IF tx[w].fill THEN "merging" ELSE "linking"]
    /\ UNCHANGED <<known, database, failed, racing>>

\* _merge_person_fields: a person without an address gets the one of the row.
MergeFields(w) ==
    /\ At(w, "merging")
    /\ CanLock(w, PersonRow(tx[w].person))
    /\ tx' = [tx EXCEPT ![w].held = @ \cup {PersonRow(tx[w].person)},
                        ![w].pc = "linking"]
    /\ UNCHANGED <<known, database, failed, racing>>

\* Mutation: whoever has an address of the domain matches.
AlikeByDomain(w, p) ==
    /\ person[p] # NoPerson
    /\ tx[w].email /\ person[p].email
    /\ RowOf(w) \in Employed => person[p].role

\* Same mail domain and a similar name; with an organization, only who has a
\* role there.
Alike(w, p) ==
    /\ person[p] # NoPerson
    /\ tx[w].email /\ person[p].email
    /\ person[p].name = Human(w)
    /\ RowOf(w) \in Employed => person[p].role

Upserting(w, p, draft) ==
    tx' = [tx EXCEPT ![w].pc = "upserting", ![w].person = p, ![w].draft = draft,
                     ![w].todo = Collected(RowOf(w), tx[w].email)]

\* The best of the candidates; equal scores leave the choice to the query. The
\* fields of a person that matches are filled already.
MatchByName(w) ==
    /\ At(w, "matching")
    /\ \E p \in 1..MaxPersons : Alike(w, p) /\ Upserting(w, p, FALSE)
    /\ UNCHANGED <<known, database, failed, racing>>

\* Keys that are neither committed nor drafted.
FreeKeys ==
    {p \in 1..MaxPersons :
        person[p] = NoPerson /\ \A v \in Workers : ~(tx[v].draft /\ tx[v].person = p)}

\* Person.objects.create: the row is seen by others after the commit only.
CreatePerson(w) ==
    /\ At(w, "matching")
    /\ \A p \in 1..MaxPersons : ~Alike(w, p)
    /\ \E p \in FreeKeys :
          /\ \A q \in FreeKeys : p <= q
          /\ Upserting(w, p, TRUE)
    /\ UNCHANGED <<known, database, failed, racing>>

\* Mutation: the identifiers are upserted in the reverse order for Slack.
UpsertIdentityBackwards(w) ==
    /\ At(w, "upserting")
    /\ LET slack == RowOf(w) \in InSlack
           i == IF slack THEN tx[w].todo[Len(tx[w].todo)] ELSE Head(tx[w].todo)
           rest == IF slack THEN SubSeq(tx[w].todo, 1, Len(tx[w].todo) - 1)
                            ELSE Tail(tx[w].todo)
       IN  /\ CanLock(w, i)
           /\ tx' = [tx EXCEPT ![w].writes = @ \cup {i}, ![w].held = @ \cup {i},
                               ![w].todo = rest,
                               ![w].pc = IF rest # <<>> THEN "upserting" ELSE "linking"]
    /\ UNCHANGED <<known, database, failed, racing>>

\* _upsert_identities: update_or_create locks the row, or waits for one that is
\* being inserted, and gives it to this person whoever owned it.
UpsertIdentity(w) ==
    /\ At(w, "upserting")
    /\ LET i == Head(tx[w].todo)
       IN  /\ CanLock(w, i)
           /\ tx' = [tx EXCEPT ![w].writes = @ \cup {i}, ![w].held = @ \cup {i},
                               ![w].todo = Tail(@),
                               ![w].pc = IF Len(tx[w].todo) > 1
                                           THEN "upserting" ELSE "linking"]
    /\ UNCHANGED <<known, database, failed, racing>>

-----------------------------------------------------------------------------
(* The rest of persist().                                                  *)

\* The transaction of worker w is over. One that gave the address a new owner
\* is remembered by those still under way.
Over(w) ==
    /\ tx' = [tx EXCEPT ![w] = NoTransaction]
    /\ racing' = [h \in Humans |->
                    IF owner'[<<"email", h>>] # owner[<<"email", h>>]
                      THEN {v \in Workers \ {w} : ~At(v, "idle")}
                      ELSE racing[h] \ {w}]

\* Mutation: the identifiers are committed as they are upserted, the person
\* that was created for them is not saved.
CommittedWithoutPerson(w, given) ==
    /\ person' = person
    /\ owner' = [i \in Identities |-> IF i \in given THEN tx[w].person ELSE owner[i]]

\* COMMIT: the person, and the identifiers given to it, are there for others.
Committed(w, given) ==
    LET p == tx[w].person
    IN  /\ person' = [person EXCEPT ![p] =
               IF tx[w].draft
                 THEN [name |-> Human(w), email |-> tx[w].email,
                       role |-> RowOf(w) \in Employed]
                 ELSE [@ EXCEPT !.email = person[p].email \/ PersonRow(p) \in tx[w].held]]
        /\ owner' = [i \in Identities |-> IF i \in given THEN p ELSE owner[i]]

\* Pipedrive upserts the mirror row with the person and commits. A transaction
\* holds the mirror row for no longer than this step.
LinkMirror(w) ==
    /\ At(w, "linking")
    /\ RowOf(w) \notin InSlack
    /\ Committed(w, tx[w].writes)
    /\ link' = [link EXCEPT ![RowOf(w)] = tx[w].person]
    /\ Over(w)
    /\ UNCHANGED <<known, failed>>

\* Mutation: the Slack id is left as resolve_person leaves it.
AttachNothing(w) ==
    /\ At(w, "linking")
    /\ RowOf(w) \in InSlack
    /\ Committed(w, tx[w].writes)
    /\ Over(w)
    /\ UNCHANGED <<known, link, failed>>

\* Slack has no mirror of its users: it upserts the Slack id, whatever led to
\* the person, and commits.
AttachSlackId(w) ==
    /\ At(w, "linking")
    /\ RowOf(w) \in InSlack
    /\ CanLock(w, SourceId(RowOf(w)))
    /\ Committed(w, tx[w].writes \cup {SourceId(RowOf(w))})
    /\ Over(w)
    /\ UNCHANGED <<known, link, failed>>

\* A statement raises or the worker dies: the transaction is rolled back, and
\* _persist_one counts an error and goes on with the next row.
Rollback(w) ==
    /\ ~At(w, "idle")
    /\ failed < MaxRollbacks
    /\ failed' = failed + 1
    /\ UNCHANGED <<known, database>>
    /\ Over(w)

-----------------------------------------------------------------------------
Statement(w) ==
    \/ LookUp(w)
    \/ Touch(w)
    \/ MergeFields(w)
    \/ MatchByName(w)
    \/ CreatePerson(w)
    \/ UpsertIdentity(w)
    \/ LinkMirror(w)
    \/ AttachSlackId(w)

Next ==
    \/ \E r \in Rows : AddressAppears(r)
    \/ \E w \in Workers : \E r \in Duty[w] : Begin(w, r)
    \/ \E w \in Workers : Statement(w) \/ Rollback(w)

Spec == Init /\ [][Next]_vars

Syncs(r) == \E w \in Workers : r \in Duty[w] /\ Begin(w, r)

\* A transaction under way goes on; where it waits for a row, PostgreSQL serves
\* those who wait in order. Nothing begins one: the tasks that sync Pipedrive's
\* persons and Slack's users are on no schedule, and no code starts them.
FairSpec == Spec /\ \A w \in Workers : SF_vars(Statement(w))

-----------------------------------------------------------------------------
(* Properties.                                                             *)

\* No identifier and no mirror row of one human ever points at the person of
\* another, however their resolutions overlap and people of one domain match.
NeverMixedUp ==
    /\ \A h \in Humans :
          owner[<<"email", h>>] # 0 => person[owner[<<"email", h>>]].name = h
    /\ \A r \in Rows :
          /\ owner[SourceId(r)] # 0 => person[owner[SourceId(r)]].name = HumanOf[r]
          /\ link[r] # 0 => person[link[r]].name = HumanOf[r]

\* An address goes from one person to another only by a resolution that was
\* under way when the address got its owner: one that begins later finds it.
AddressMovesOnlyInRace ==
    [][\A h \in Humans :
          LET i == <<"email", h>>
          IN  owner[i] # 0 /\ owner'[i] # owner[i] =>
                \E w \in racing[h] : At(w, "linking")]_vars

\* The person that row r leads to.
Linked(r) == IF r \in InSlack THEN owner[SourceId(r)] ELSE link[r]

Together(h) ==
    \A r, s \in {x \in known : HumanOf[x] = h} : Linked(r) = Linked(s)

\* Where someone goes on syncing every row of a human, the duplicates that races
\* make are repaired: once anyone owns the human's address, the rows that show it
\* end up at one person for good.
RacesAreRepaired ==
    \A h \in Humans :
        (\A r \in {x \in Rows : HumanOf[x] = h} : []<><<Syncs(r)>>_vars)
          => <>[](owner[<<"email", h>>] # 0 => Together(h))

\* A transaction ends: none waits for ever, for no two wait for each other.
ResolutionEnds == \A w \in Workers : At(w, "looking") ~> At(w, "idle")
=============================================================================
