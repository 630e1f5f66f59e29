---------------------- MODULE IdentityResolverProofs ------------------------
(***************************************************************************)
(* Proofs about IdentityResolver for every set of people, rows and         *)
(* workers; and about SlackMessages, the sync whose authors it resolves,   *)
(* for every set of channels and of runs, every length of an answer, and a *)
(* Slack that pages forward or does not.                                   *)
(*                                                                         *)
(* NeverMixedUp speaks of the tables. A transaction commits what it        *)
(* decided earlier, so the invariant says the same of the person a         *)
(* transaction has settled on (Settled), and that nobody else writes the   *)
(* row it drafts (DraftsDiffer). AddressMovesOnlyInRace needs that a       *)
(* transaction that found no owner of an address, and goes on to upsert    *)
(* it, is in the history of those under way when the address got its owner *)
(* (RacersAreKnown).                                                       *)
(*                                                                         *)
(* NothingSlips speaks of the stored watermark and is not inductive: a run *)
(* carries the watermarks it read to its next fetch, and each message in   *)
(* its hands is a watermark to be. The invariant makes the same claim of   *)
(* these three. What makes it inductive is that a message which is stored, *)
(* in hands or lost remains one of them.                                   *)
(***************************************************************************)
EXTENDS IdentityResolver, SlackMessages, SequenceTheorems, TLAPS

\* The identifiers that a transaction for row r may hold.
Own(t, r) == IF t.email THEN {Email(r), SourceId(r)} ELSE {SourceId(r)}

\* What a transaction is, whatever the database holds.
Shaped(t) ==
    /\ t \in Transaction
    /\ t.pc = "idle" => t = NoTransaction
    /\ t.pc # "idle" => \E r \in Rows : t.row = {r}
    /\ \A r \in t.row : t.todo \in Seq(Own(t, r)) /\ t.writes \subseteq Own(t, r)
    /\ t.pc \in {"looking", "touching", "upserting"} => t.todo # <<>>
    /\ t.pc \in {"touching", "merging", "upserting", "linking"} => t.person # 0
    /\ t.draft => t.person # 0 /\ t.pc \in {"upserting", "linking"}

\* The person settled on is of the human of the row, or is not there yet.
Settled(t) ==
    t.person # 0 =>
        IF t.draft THEN person[t.person] = NoPerson
        ELSE /\ person[t.person] # NoPerson
             /\ \A r \in t.row : person[t.person].name = HumanOf[r]

DraftsDiffer ==
    \A v, w \in Workers :
        tx[v].draft /\ tx[w].draft /\ tx[v].person = tx[w].person => v = w

\* The look-up of the address has come to nothing, or its result is behind.
PastLookUp(t, r) ==
    \/ Email(r) \in t.writes
    \/ t.email /\ t.pc \in {"matching", "upserting"}
    \/ t.email /\ t.pc = "looking" /\ Head(t.todo) # Email(r)

\* Then nobody owns the address, unless it got its owner meanwhile.
RacersAreKnown ==
    \A w \in Workers : \A r \in tx[w].row :
        PastLookUp(tx[w], r) => owner[Email(r)] = 0 \/ w \in racing[HumanOf[r]]

IdInv ==
    /\ TypeOK
    /\ \A w \in Workers : Shaped(tx[w]) /\ Settled(tx[w])
    /\ DraftsDiffer
    /\ NeverMixedUp
    /\ RacersAreKnown

-----------------------------------------------------------------------------
LEMMA RowIs == ASSUME NEW w \in Workers, NEW r, tx[w].row = {r} PROVE RowOf(w) = r
BY DEF RowOf

LEMMA OwnIsIdentity ==
    ASSUME ResolverAssumption, NEW t, NEW r \in Rows
    PROVE  /\ Own(t, r) \subseteq {Email(r), SourceId(r)}
           /\ Email(r) \in Identities /\ SourceId(r) \in Identities
           /\ SourceId(r) \in Own(t, r)
           /\ Email(r) \in Own(t, r) => t.email
           /\ \A h \in Humans : SourceId(r) # <<"email", h>>
BY DEF ResolverAssumption, Own, Email, SourceId, Identities

LEMMA CollectedIsOwn ==
    ASSUME NEW t, t.email \in BOOLEAN, NEW r \in Rows
    PROVE  Collected(r, t.email) \in Seq(Own(t, r)) /\ Collected(r, t.email) # <<>>
<1>1. CASE t.email
  BY <1>1 DEF Collected, Own
<1>2. CASE ~t.email
  BY <1>2 DEF Collected, Own
<1>3. QED
  BY <1>1, <1>2

LEMMA NoTransactionIsShaped == ASSUME ResolverAssumption PROVE Shaped(NoTransaction)
<1>1. NoTransaction \in Transaction
  BY DEF ResolverAssumption, NoTransaction, Transaction
<1>2. QED
  BY <1>1 DEF Shaped, NoTransaction

LEMMA IdInit == ASSUME ResolverAssumption, Init PROVE IdInv
<1>1. NoTransaction.person = 0 /\ ~NoTransaction.draft /\ NoTransaction.row = {}
  BY DEF NoTransaction
<1>2. Shaped(NoTransaction) /\ NoTransaction \in Transaction
  BY NoTransactionIsShaped DEF Shaped
<1>3. TypeOK
  BY <1>2 DEF Init, TypeOK, ResolverAssumption, Identities
<1>4. \A w \in Workers : Shaped(tx[w]) /\ Settled(tx[w])
  BY <1>1, <1>2 DEF Init, Settled
<1>5. DraftsDiffer /\ RacersAreKnown
  BY <1>1 DEF Init, DraftsDiffer, RacersAreKnown
<1>6. NeverMixedUp
  BY DEF Init, NeverMixedUp, SourceId, Identities
<1>7. QED
  BY <1>3, <1>4, <1>5, <1>6 DEF IdInv

\* A statement that writes nothing others see: the transaction becomes new.
LEMMA TransactionMoves ==
    ASSUME ResolverAssumption, IdInv, NEW w \in Workers, NEW new,
           tx' = [tx EXCEPT ![w] = new],
           UNCHANGED <<known, database, failed, racing>>,
           Shaped(new), Settled(new),
           new.draft => \A v \in Workers \ {w} : ~(tx[v].draft /\ tx[v].person = new.person),
           \A r \in new.row :
               PastLookUp(new, r) => owner[Email(r)] = 0 \/ w \in racing[HumanOf[r]]
    PROVE  IdInv'
<1>1. tx'[w] = new /\ \A v \in Workers \ {w} : tx'[v] = tx[v]
  BY DEF IdInv, TypeOK
<1>2. TypeOK'
  BY DEF IdInv, TypeOK, database, Shaped
<1>3. \A v \in Workers : Shaped(tx'[v])
  BY <1>1 DEF IdInv
<1>4. ASSUME NEW v \in Workers PROVE Settled(tx[v])'
  BY <1>1 DEF IdInv, Settled, database
<1>5. DraftsDiffer'
  BY <1>1 DEF IdInv, DraftsDiffer
<1>6. NeverMixedUp'
  BY DEF IdInv, NeverMixedUp, database
<1>7. RacersAreKnown'
  <2>1. SUFFICES ASSUME NEW v \in Workers, NEW r \in tx'[v].row, PastLookUp(tx'[v], r)
                 PROVE  owner'[Email(r)] = 0 \/ v \in racing'[HumanOf[r]]
    BY DEF RacersAreKnown, PastLookUp
  <2>2. owner' = owner /\ racing' = racing
    BY DEF database
  <2>3. QED
    BY <1>1, <2>1, <2>2 DEF IdInv, RacersAreKnown
<1>8. QED
  BY <1>2, <1>3, <1>4, <1>5, <1>6, <1>7 DEF IdInv, Shaped, Settled

-----------------------------------------------------------------------------
\* A transaction under way: its row, its fields, its place in the todo list.
LEMMA UnderWay ==
    ASSUME ResolverAssumption, IdInv, NEW w \in Workers, tx[w].pc # "idle"
    PROVE  \E r \in Rows : /\ tx[w].row = {r} /\ RowOf(w) = r /\ Human(w) = HumanOf[r]
                           /\ HumanOf[r] \in Humans
<1>1. PICK r \in Rows : tx[w].row = {r}
  BY DEF IdInv, Shaped
<1>2. QED
  BY <1>1, RowIs DEF Human, ResolverAssumption

LEMMA OwnedIsOfHuman ==
    ASSUME ResolverAssumption, IdInv, NEW r \in Rows,
           NEW i \in {Email(r), SourceId(r)}, owner[i] # 0
    PROVE  /\ owner[i] \in 1..MaxPersons /\ person[owner[i]] # NoPerson
           /\ person[owner[i]].name = HumanOf[r]
<1>1. i \in Identities /\ HumanOf[r] \in Humans
  BY OwnIsIdentity DEF ResolverAssumption
<1>2. owner[i] \in 1..MaxPersons /\ person[owner[i]] # NoPerson
  BY <1>1 DEF IdInv, TypeOK, ResolverAssumption
<1>3. QED
  BY <1>1, <1>2 DEF IdInv, NeverMixedUp, Email

Stages == {"idle", "looking", "touching", "merging", "matching", "upserting", "linking"}

\* What each statement makes of the record of its transaction.
Begun(t, r, email, todo) ==
    [t EXCEPT !.pc = "looking", !.row = {r}, !.email = email, !.todo = todo]

Found(t, p, fill) == [t EXCEPT !.pc = "touching", !.person = p, !.fill = fill]

NotFound(t, todo, pc) == [t EXCEPT !.todo = todo, !.pc = pc]

Locked(t, held, pc) == [t EXCEPT !.held = held, !.pc = pc]

Decided(t, p, draft, todo) ==
    [t EXCEPT !.pc = "upserting", !.person = p, !.draft = draft, !.todo = todo]

Upserted(t, writes, held, todo, pc) ==
    [t EXCEPT !.writes = writes, !.held = held, !.todo = todo, !.pc = pc]

LEMMA BegunFields ==
    ASSUME NEW t \in Transaction, NEW r \in Rows, NEW email \in BOOLEAN,
           NEW todo \in Seq(Identities)
    PROVE  LET new == Begun(t, r, email, todo) IN
           /\ new \in Transaction /\ new.pc = "looking" /\ new.row = {r}
           /\ new.email = email /\ new.todo = todo /\ new.person = t.person
           /\ new.draft = t.draft /\ new.writes = t.writes
BY DEF Transaction, Begun

LEMMA FoundFields ==
    ASSUME NEW t \in Transaction, NEW p \in 0..MaxPersons, NEW fill \in BOOLEAN
    PROVE  LET new == Found(t, p, fill) IN
           /\ new \in Transaction /\ new.pc = "touching" /\ new.row = t.row
           /\ new.email = t.email /\ new.todo = t.todo /\ new.person = p
           /\ new.draft = t.draft /\ new.writes = t.writes
BY DEF Transaction, Found

LEMMA NotFoundFields ==
    ASSUME NEW t \in Transaction, NEW todo \in Seq(Identities), NEW pc \in Stages
    PROVE  LET new == NotFound(t, todo, pc) IN
           /\ new \in Transaction /\ new.pc = pc /\ new.row = t.row
           /\ new.email = t.email /\ new.todo = todo /\ new.person = t.person
           /\ new.draft = t.draft /\ new.writes = t.writes
BY DEF Transaction, Stages, NotFound

LEMMA LockedFields ==
    ASSUME NEW t \in Transaction, NEW held \in SUBSET Lockable, NEW pc \in Stages
    PROVE  LET new == Locked(t, held, pc) IN
           /\ new \in Transaction /\ new.pc = pc /\ new.row = t.row
           /\ new.email = t.email /\ new.todo = t.todo /\ new.person = t.person
           /\ new.draft = t.draft /\ new.writes = t.writes
BY DEF Transaction, Stages, Locked

LEMMA DecidedFields ==
    ASSUME NEW t \in Transaction, NEW p \in 0..MaxPersons, NEW draft \in BOOLEAN,
           NEW todo \in Seq(Identities)
    PROVE  LET new == Decided(t, p, draft, todo) IN
           /\ new \in Transaction /\ new.pc = "upserting" /\ new.row = t.row
           /\ new.email = t.email /\ new.todo = todo /\ new.person = p
           /\ new.draft = draft /\ new.writes = t.writes
BY DEF Transaction, Decided

LEMMA UpsertedFields ==
    ASSUME NEW t \in Transaction, NEW writes \in SUBSET Identities,
           NEW held \in SUBSET Lockable, NEW todo \in Seq(Identities), NEW pc \in Stages
    PROVE  LET new == Upserted(t, writes, held, todo, pc) IN
           /\ new \in Transaction /\ new.pc = pc /\ new.row = t.row
           /\ new.email = t.email /\ new.todo = todo /\ new.person = t.person
           /\ new.draft = t.draft /\ new.writes = writes
BY DEF Transaction, Stages, Upserted

LEMMA TailsOf ==
    ASSUME NEW S, NEW s \in Seq(S), s # <<>>
    PROVE  Tail(s) \in Seq(S) /\ (Len(s) > 1 => Tail(s) # <<>>)
<1>1. Tail(s) \in Seq(S) /\ Len(Tail(s)) = Len(s) - 1 /\ Len(s) \in Nat
  BY HeadTailProperties, LenProperties
<1>2. PICK rest : rest = Tail(s)
  OBVIOUS
<1>3. Len(rest) = Len(s) - 1
  BY <1>1, <1>2
<1>4. rest = <<>> => Len(rest) = 0
  BY EmptySeq
<1>5. QED
  BY <1>1, <1>2, <1>3, <1>4

-----------------------------------------------------------------------------
LEMMA BeginKeeps ==
    ASSUME ResolverAssumption, IdInv, NEW w \in Workers, NEW r \in Rows, Begin(w, r)
    PROVE  IdInv'
<1> DEFINE email == r \in known
           todo == Collected(r, email)
           new == Begun(NoTransaction, r, email, todo)
<1>1. tx' = [tx EXCEPT ![w] = new] /\ UNCHANGED <<known, database, failed, racing>>
  BY DEF Begin, Begun
<1>2. email \in BOOLEAN
  OBVIOUS
<1>3. todo \in Seq(Identities) /\ (email => Head(todo) = Email(r))
  <2>1. Email(r) \in Identities /\ SourceId(r) \in Identities
    BY OwnIsIdentity
  <2>2. QED
    BY <2>1 DEF Collected
<1> HIDE DEF email, todo
<1>4. /\ new \in Transaction /\ new.pc = "looking" /\ new.row = {r} /\ new.email = email
      /\ new.todo = todo /\ new.person = 0 /\ new.draft = FALSE /\ new.writes = {}
  <2>1. /\ NoTransaction \in Transaction /\ NoTransaction.person = 0
        /\ NoTransaction.draft = FALSE /\ NoTransaction.writes = {}
    BY NoTransactionIsShaped DEF Shaped, NoTransaction
  <2>2. QED
    BY <1>2, <1>3, <2>1, BegunFields
<1> HIDE DEF new
<1>5. todo = Collected(r, new.email)
  BY <1>4 DEF todo
<1>6. new.todo \in Seq(Own(new, r)) /\ new.todo # <<>>
  BY <1>2, <1>4, <1>5, CollectedIsOwn
<1>7. Shaped(new) /\ Settled(new) /\ ~PastLookUp(new, r)
  BY <1>3, <1>4, <1>6 DEF Shaped, Settled, PastLookUp
<1>8. QED
  BY <1>1, <1>4, <1>7, TransactionMoves

\* The transaction of w has a row r, and what holds of it by the invariant.
LEMMA Facts ==
    ASSUME ResolverAssumption, IdInv, NEW w \in Workers, tx[w].pc # "idle"
    PROVE  /\ tx[w] \in Transaction /\ Shaped(tx[w]) /\ Settled(tx[w])
           /\ \E r \in Rows :
                 /\ tx[w].row = {r} /\ RowOf(w) = r /\ Human(w) = HumanOf[r]
                 /\ tx[w].todo \in Seq(Own(tx[w], r)) /\ tx[w].todo \in Seq(Identities)
                 /\ tx[w].writes \subseteq Own(tx[w], r)
                 /\ PastLookUp(tx[w], r) => owner[Email(r)] = 0 \/ w \in racing[HumanOf[r]]
<1>1. tx[w] \in Transaction /\ Shaped(tx[w]) /\ Settled(tx[w])
  BY DEF IdInv, Shaped
<1>2. PICK r \in Rows : /\ tx[w].row = {r} /\ RowOf(w) = r /\ Human(w) = HumanOf[r]
  BY UnderWay
<1>3. tx[w].todo \in Seq(Identities)
  BY <1>1 DEF Transaction
<1>4. QED
  BY <1>1, <1>2, <1>3 DEF Shaped, IdInv, RacersAreKnown

LEMMA LookUpKeeps ==
    ASSUME ResolverAssumption, IdInv, NEW w \in Workers, LookUp(w) PROVE IdInv'
<1>1. tx[w].pc = "looking" /\ UNCHANGED <<known, database, failed, racing>>
  BY DEF LookUp, At
<1>2. PICK t, i, p : t = tx[w] /\ i = Head(t.todo) /\ p = owner[i]
  OBVIOUS
<1>3. /\ t \in Transaction /\ Shaped(t) /\ Settled(t) /\ t.todo # <<>> /\ ~t.draft
      /\ t.email \in BOOLEAN
  BY <1>1, <1>2, Facts DEF Shaped, Transaction
<1>4. PICK r \in Rows :
         /\ t.row = {r} /\ RowOf(w) = r /\ Human(w) = HumanOf[r]
         /\ t.todo \in Seq(Own(t, r)) /\ t.todo \in Seq(Identities)
         /\ t.writes \subseteq Own(t, r)
         /\ PastLookUp(t, r) => owner[Email(r)] = 0 \/ w \in racing[HumanOf[r]]
  BY <1>1, <1>2, Facts
<1>5. i \in {Email(r), SourceId(r)} /\ i \in Own(t, r)
  BY <1>2, <1>3, <1>4, HeadTailProperties, OwnIsIdentity
<1>6. CASE p # 0
  <2> DEFINE fill == t.email /\ ~person[p].email
             new == Found(t, p, fill)
  <2>1. fill \in BOOLEAN
    OBVIOUS
  <2>2. tx' = [tx EXCEPT ![w] = new]
    BY <1>2, <1>6 DEF LookUp, Found
  <2> HIDE DEF fill
  <2>3. /\ p \in 1..MaxPersons /\ p \in 0..MaxPersons
        /\ person[p] # NoPerson /\ person[p].name = HumanOf[r]
    BY <1>2, <1>4, <1>5, <1>6, OwnedIsOfHuman
  <2>4. /\ new \in Transaction /\ new.pc = "touching" /\ new.row = t.row
        /\ new.email = t.email /\ new.todo = t.todo /\ new.person = p
        /\ new.draft = t.draft /\ new.writes = t.writes
    BY <1>3, <2>1, <2>3, FoundFields
  <2> HIDE DEF new
  <2>5. Own(new, r) = Own(t, r) /\ new.row = {r}
    BY <1>4, <2>4 DEF Own
  <2>6. Shaped(new)
    BY <1>3, <1>4, <2>3, <2>4, <2>5 DEF Shaped
  <2>7. Settled(new) /\ (PastLookUp(new, r) => PastLookUp(t, r))
    BY <1>3, <2>3, <2>4, <2>5 DEF Settled, PastLookUp
  <2>8. QED
    BY <1>1, <1>3, <1>4, <2>2, <2>4, <2>5, <2>6, <2>7, TransactionMoves
<1>7. CASE p = 0
  <2> DEFINE pc == IF Len(t.todo) > 1 THEN "looking" ELSE "matching"
             todo == Tail(t.todo)
             new == NotFound(t, todo, pc)
  <2>1. tx' = [tx EXCEPT ![w] = new]
    <3>1. tx' = [tx EXCEPT ![w] = [tx[w] EXCEPT !.todo = Tail(tx[w].todo), !.pc = pc]]
      BY <1>2, <1>7 DEF LookUp
    <3>2. QED
      BY <1>2, <3>1 DEF NotFound
  <2>2. todo \in Seq(Own(t, r)) /\ (pc = "looking" => todo # <<>>)
    BY <1>3, <1>4, TailsOf
  <2>3. todo \in Seq(Identities) /\ pc \in {"looking", "matching"} /\ pc \in Stages
    BY <1>3, <1>4, HeadTailProperties DEF Stages
  <2> HIDE DEF todo, pc
  <2>4. /\ new \in Transaction /\ new.pc = pc /\ new.row = t.row
        /\ new.email = t.email /\ new.todo = todo /\ new.person = t.person
        /\ new.draft = t.draft /\ new.writes = t.writes
    BY <1>3, <2>3, NotFoundFields
  <2> HIDE DEF new
  <2>5. Own(new, r) = Own(t, r) /\ new.row = {r}
    BY <1>4, <2>4 DEF Own
  <2>6. Shaped(new) /\ Settled(new)
    BY <1>3, <1>4, <2>2, <2>3, <2>4, <2>5 DEF Shaped, Settled
  <2>7. PastLookUp(new, r) => owner[Email(r)] = 0 \/ w \in racing[HumanOf[r]]
    <3>1. CASE i = Email(r)
      BY <3>1, <1>2, <1>7
    <3>2. CASE i # Email(r)
      BY <3>2, <1>1, <1>2, <1>4, <2>4 DEF PastLookUp
    <3>3. QED
      BY <3>1, <3>2
  <2>8. QED
    BY <1>1, <1>3, <2>1, <2>4, <2>5, <2>6, <2>7, TransactionMoves
<1>8. QED
  BY <1>6, <1>7

\* Touch and MergeFields: a row is locked, and the statement after it is next.
LEMMA LockKeeps ==
    ASSUME ResolverAssumption, IdInv, NEW w \in Workers, tx[w].pc \in {"touching", "merging"},
           NEW held \in SUBSET Lockable, NEW pc \in {"merging", "linking"},
           tx' = [tx EXCEPT ![w] = Locked(tx[w], held, pc)],
           UNCHANGED <<known, database, failed, racing>>
    PROVE  IdInv'
<1>1. PICK t, new : t = tx[w] /\ new = Locked(t, held, pc)
  OBVIOUS
<1>2. t \in Transaction /\ Shaped(t) /\ Settled(t) /\ t.person # 0 /\ ~t.draft
  BY <1>1, Facts DEF Shaped
<1>3. PICK r \in Rows :
         /\ t.row = {r} /\ t.todo \in Seq(Own(t, r)) /\ t.writes \subseteq Own(t, r)
         /\ PastLookUp(t, r) => owner[Email(r)] = 0 \/ w \in racing[HumanOf[r]]
  BY <1>1, Facts
<1>4. pc \in Stages
  BY DEF Stages
<1>5. /\ new \in Transaction /\ new.pc = pc /\ new.row = t.row
      /\ new.email = t.email /\ new.todo = t.todo /\ new.person = t.person
      /\ new.draft = t.draft /\ new.writes = t.writes
  BY <1>1, <1>2, <1>4, LockedFields
<1>6. Own(new, r) = Own(t, r) /\ new.row = {r}
  BY <1>3, <1>5 DEF Own
<1>7. Shaped(new) /\ Settled(new) /\ (PastLookUp(new, r) => PastLookUp(t, r))
  BY <1>2, <1>3, <1>5, <1>6 DEF Shaped, Settled, PastLookUp
<1>8. QED
  BY <1>1, <1>2, <1>3, <1>5, <1>6, <1>7, TransactionMoves

LEMMA TouchKeeps ==
    ASSUME ResolverAssumption, IdInv, NEW w \in Workers, Touch(w) PROVE IdInv'
<1>1. tx[w].pc = "touching" /\ UNCHANGED <<known, database, failed, racing>>
  BY DEF Touch, At
<1>2. PICK t, i : t = tx[w] /\ i = Head(t.todo)
  OBVIOUS
<1>3. PICK r \in Rows : t.todo \in Seq(Identities)
  BY <1>1, <1>2, Facts
<1>4. t \in Transaction /\ t.todo # <<>>
  BY <1>1, <1>2, Facts DEF Shaped
<1> DEFINE held == t.held \cup {i}
           pc == IF t.fill THEN "merging" ELSE "linking"
<1>5. i \in Identities
  BY <1>2, <1>3, <1>4, HeadTailProperties
<1>6. held \in SUBSET Lockable /\ pc \in {"merging", "linking"}
  BY <1>4, <1>5 DEF Transaction, Lockable
<1>7. tx' = [tx EXCEPT ![w] = Locked(t, held, pc)]
  BY <1>2 DEF Touch, Locked, IdInv, TypeOK
<1> HIDE DEF held, pc
<1>8. QED
  BY <1>1, <1>2, <1>6, <1>7, LockKeeps

LEMMA MergeKeeps ==
    ASSUME ResolverAssumption, IdInv, NEW w \in Workers, MergeFields(w) PROVE IdInv'
<1>1. tx[w].pc = "merging" /\ UNCHANGED <<known, database, failed, racing>>
  BY DEF MergeFields, At
<1>2. PICK t : t = tx[w]
  OBVIOUS
<1>3. t \in Transaction /\ t.person # 0
  BY <1>1, <1>2, Facts DEF Shaped
<1> DEFINE held == t.held \cup {PersonRow(t.person)}
<1>4. t.person \in 1..MaxPersons /\ t.held \subseteq Lockable
  BY <1>3 DEF Transaction, ResolverAssumption
<1>5. held \in SUBSET Lockable
  BY <1>4 DEF Lockable, PersonRow
<1>6. tx' = [tx EXCEPT ![w] = Locked(t, held, "linking")]
  BY <1>2 DEF MergeFields, Locked, IdInv, TypeOK
<1> HIDE DEF held
<1>7. QED
  BY <1>1, <1>2, <1>5, <1>6, LockKeeps

\* MatchByName and CreatePerson: the person is settled.
LEMMA DecisionKeeps ==
    ASSUME ResolverAssumption, IdInv, NEW w \in Workers, tx[w].pc = "matching",
           NEW p \in 1..MaxPersons, NEW draft \in BOOLEAN, Upserting(w, p, draft),
           UNCHANGED <<known, database, failed, racing>>,
           IF draft THEN /\ person[p] = NoPerson
                         /\ \A v \in Workers : ~(tx[v].draft /\ tx[v].person = p)
                    ELSE person[p] # NoPerson /\ person[p].name = Human(w)
    PROVE  IdInv'
<1>1. PICK t : t = tx[w]
  OBVIOUS
<1>2. t \in Transaction /\ Shaped(t) /\ t.email \in BOOLEAN
  BY <1>1, Facts DEF Transaction
<1>3. PICK r \in Rows :
         /\ t.row = {r} /\ RowOf(w) = r /\ Human(w) = HumanOf[r]
         /\ t.writes \subseteq Own(t, r)
         /\ PastLookUp(t, r) => owner[Email(r)] = 0 \/ w \in racing[HumanOf[r]]
  BY <1>1, Facts
<1>4. PICK todo, new : todo = Collected(r, t.email) /\ new = Decided(t, p, draft, todo)
  OBVIOUS
<1>5. tx' = [tx EXCEPT ![w] = new]
  BY <1>1, <1>3, <1>4 DEF Upserting, Decided, IdInv, TypeOK
<1>6. todo \in Seq(Own(t, r)) /\ todo # <<>>
  BY <1>2, <1>4, CollectedIsOwn
<1>7. todo \in Seq(Identities)
  <2>1. Email(r) \in Identities /\ SourceId(r) \in Identities
    BY OwnIsIdentity
  <2>2. QED
    BY <1>4, <2>1 DEF Collected
<1>8. p \in 0..MaxPersons
  OBVIOUS
<1>9. /\ new \in Transaction /\ new.pc = "upserting" /\ new.row = t.row
      /\ new.email = t.email /\ new.todo = todo /\ new.person = p
      /\ new.draft = draft /\ new.writes = t.writes
  BY <1>2, <1>4, <1>7, <1>8, DecidedFields
<1>10. Own(new, r) = Own(t, r) /\ new.row = {r}
  BY <1>3, <1>9 DEF Own
<1>11. Shaped(new)
  BY <1>3, <1>6, <1>9, <1>10 DEF Shaped
<1>12. Settled(new)
  BY <1>3, <1>9, <1>10 DEF Settled
<1>13. PastLookUp(new, r) => PastLookUp(t, r)
  BY <1>1, <1>9 DEF PastLookUp
<1>14. QED
  BY <1>3, <1>5, <1>9, <1>10, <1>11, <1>12, <1>13, TransactionMoves

LEMMA MatchKeeps ==
    ASSUME ResolverAssumption, IdInv, NEW w \in Workers, MatchByName(w) PROVE IdInv'
<1>1. PICK p \in 1..MaxPersons : Alike(w, p) /\ Upserting(w, p, FALSE)
  BY DEF MatchByName
<1>2. QED
  BY <1>1, DecisionKeeps DEF MatchByName, At, Alike

LEMMA CreateKeeps ==
    ASSUME ResolverAssumption, IdInv, NEW w \in Workers, CreatePerson(w) PROVE IdInv'
<1>1. PICK p \in FreeKeys : Upserting(w, p, TRUE)
  BY DEF CreatePerson
<1>2. QED
  BY <1>1, DecisionKeeps DEF CreatePerson, At, FreeKeys

LEMMA UpsertKeeps ==
    ASSUME ResolverAssumption, IdInv, NEW w \in Workers, UpsertIdentity(w) PROVE IdInv'
<1>1. tx[w].pc = "upserting" /\ UNCHANGED <<known, database, failed, racing>>
  BY DEF UpsertIdentity, At
<1>2. PICK t, i : t = tx[w] /\ i = Head(t.todo)
  OBVIOUS
<1>3. t \in Transaction /\ Shaped(t) /\ Settled(t) /\ t.todo # <<>> /\ t.person # 0
  BY <1>1, <1>2, Facts DEF Shaped
<1>4. PICK r \in Rows :
         /\ t.row = {r} /\ t.todo \in Seq(Own(t, r)) /\ t.todo \in Seq(Identities)
         /\ t.writes \subseteq Own(t, r)
         /\ PastLookUp(t, r) => owner[Email(r)] = 0 \/ w \in racing[HumanOf[r]]
  BY <1>1, <1>2, Facts
<1>5. i \in Own(t, r) /\ i \in Identities
  BY <1>2, <1>3, <1>4, HeadTailProperties
<1> DEFINE writes == t.writes \cup {i}
           held == t.held \cup {i}
           pc == IF Len(t.todo) > 1 THEN "upserting" ELSE "linking"
           todo == Tail(t.todo)
           new == Upserted(t, writes, held, todo, pc)
<1>6. tx' = [tx EXCEPT ![w] = new]
  BY <1>2 DEF UpsertIdentity, Upserted, IdInv, TypeOK
<1>7. todo \in Seq(Own(t, r)) /\ todo \in Seq(Identities) /\ (pc = "upserting" => todo # <<>>)
  BY <1>3, <1>4, TailsOf
<1>8. pc \in {"upserting", "linking"} /\ pc \in Stages
  BY DEF Stages
<1>9. writes \in SUBSET Identities /\ held \in SUBSET Lockable /\ writes \subseteq Own(t, r)
  BY <1>3, <1>4, <1>5 DEF Transaction, Lockable
<1>10. Email(r) \in writes => PastLookUp(t, r)
  BY <1>1, <1>2, <1>5, OwnIsIdentity DEF PastLookUp
<1> HIDE DEF writes, held, pc, todo
<1>11. /\ new \in Transaction /\ new.pc = pc /\ new.row = t.row
       /\ new.email = t.email /\ new.todo = todo /\ new.person = t.person
       /\ new.draft = t.draft /\ new.writes = writes
  BY <1>3, <1>7, <1>8, <1>9, UpsertedFields
<1> HIDE DEF new
<1>12. Own(new, r) = Own(t, r) /\ new.row = {r}
  BY <1>4, <1>11 DEF Own
<1>13. Shaped(new) /\ Settled(new)
  BY <1>3, <1>4, <1>7, <1>8, <1>9, <1>11, <1>12 DEF Shaped, Settled
<1>14. PastLookUp(new, r) => PastLookUp(t, r)
  BY <1>1, <1>2, <1>8, <1>10, <1>11 DEF PastLookUp
<1>15. new.draft => \A v \in Workers \ {w} : ~(tx[v].draft /\ tx[v].person = new.person)
  BY <1>2, <1>11 DEF IdInv, DraftsDiffer
<1>16. QED
  BY <1>1, <1>4, <1>6, <1>12, <1>13, <1>14, <1>15, TransactionMoves

\* The transaction of w is over; where an address has changed its owner, those
\* still under way are remembered.
LEMMA OverKeepsRacers ==
    ASSUME ResolverAssumption, IdInv, NEW w \in Workers, Over(w)
    PROVE  /\ tx' \in [Workers -> Transaction] /\ racing' \in [Humans -> SUBSET Workers]
           /\ tx'[w] = NoTransaction /\ \A v \in Workers \ {w} : tx'[v] = tx[v]
           /\ \A v \in Workers : Shaped(tx'[v])
           /\ RacersAreKnown'
<1>1. Shaped(NoTransaction) /\ NoTransaction \in Transaction /\ NoTransaction.row = {}
  BY NoTransactionIsShaped DEF Shaped, NoTransaction
<1>2. tx' = [tx EXCEPT ![w] = NoTransaction]
  BY DEF Over
<1>3. tx'[w] = NoTransaction /\ \A v \in Workers \ {w} : tx'[v] = tx[v]
  BY <1>2 DEF IdInv, TypeOK
<1>4. tx' \in [Workers -> Transaction]
  BY <1>1, <1>2 DEF IdInv, TypeOK
<1>5. racing' \in [Humans -> SUBSET Workers]
  BY DEF Over, IdInv, TypeOK
<1>6. ASSUME NEW v \in Workers, NEW r \in tx'[v].row, PastLookUp(tx'[v], r)
      PROVE  owner'[Email(r)] = 0 \/ v \in racing'[HumanOf[r]]
  <2>1. v # w /\ tx'[v] = tx[v]
    BY <1>1, <1>3, <1>6
  <2>2. r \in Rows /\ ~At(v, "idle")
    BY <1>1, <1>6, <2>1 DEF IdInv, Shaped, At
  <2>3. HumanOf[r] \in Humans /\ Email(r) = <<"email", HumanOf[r]>>
    BY <2>2 DEF ResolverAssumption, Email
  <2>4. owner[Email(r)] = 0 \/ v \in racing[HumanOf[r]]
    BY <1>6, <2>1 DEF IdInv, RacersAreKnown
  <2>5. racing'[HumanOf[r]] =
          IF owner'[Email(r)] # owner[Email(r)]
            THEN {u \in Workers \ {w} : ~At(u, "idle")}
            ELSE racing[HumanOf[r]] \ {w}
    BY <2>3 DEF Over
  <2>6. QED
    BY <2>1, <2>2, <2>4, <2>5
<1>7. QED
  BY <1>1, <1>3, <1>4, <1>5, <1>6 DEF IdInv, RacersAreKnown, PastLookUp

LEMMA CommitKeeps ==
    ASSUME ResolverAssumption, IdInv, NEW w \in Workers, tx[w].pc = "linking",
           NEW given \in SUBSET {Email(RowOf(w)), SourceId(RowOf(w))},
           Committed(w, given), Over(w),
           link' \in {link, [link EXCEPT ![RowOf(w)] = tx[w].person]},
           UNCHANGED <<known, failed>>
    PROVE  IdInv'
<1>1. PICK t, p, r : t = tx[w] /\ p = t.person /\ r = RowOf(w)
  OBVIOUS
<1>2. t \in Transaction /\ Shaped(t) /\ Settled(t) /\ p # 0 /\ p \in 0..MaxPersons
  BY <1>1, Facts DEF Shaped, Transaction
<1>3. r \in Rows /\ t.row = {r} /\ Human(w) = HumanOf[r] /\ HumanOf[r] \in Humans
  BY <1>1, Facts DEF ResolverAssumption
<1>4. p \in 1..MaxPersons
  BY <1>2 DEF ResolverAssumption
<1>5. person' \in [1..MaxPersons -> Person \cup {NoPerson}]
  <2>1. CASE t.draft
    <3>1. [name |-> Human(w), email |-> tx[w].email, role |-> RowOf(w) \in Employed] \in Person
      BY <1>1, <1>2, <1>3 DEF Transaction, Person
    <3>2. person' = [person EXCEPT ![p] = [name |-> Human(w), email |-> tx[w].email,
                                           role |-> RowOf(w) \in Employed]]
      BY <1>1, <2>1 DEF Committed
    <3>3. QED
      BY <3>1, <3>2 DEF IdInv, TypeOK
  <2>2. CASE ~t.draft
    <3>1. person[p] \in Person
      BY <1>2, <1>4, <2>2, <1>1 DEF Settled, IdInv, TypeOK
    <3>2. PICK b \in BOOLEAN : person' = [person EXCEPT ![p] = [person[p] EXCEPT !.email = b]]
      BY <1>1, <2>2, <3>1 DEF Committed, Person
    <3>3. [person[p] EXCEPT !.email = b] \in Person
      BY <3>1 DEF Person
    <3>4. QED
      BY <3>2, <3>3 DEF IdInv, TypeOK
  <2>3. QED
    BY <2>1, <2>2
<1>6. person'[p].name = HumanOf[r] /\ person'[p] # NoPerson
  <2>1. NoPerson.name \notin Humans
    BY DEF NoPerson, ResolverAssumption
  <2>2. person'[p].name = HumanOf[r]
    BY <1>1, <1>2, <1>3, <1>4 DEF Committed, Settled, IdInv, TypeOK, Person
  <2>3. QED
    BY <1>3, <2>1, <2>2
<1>7. \A q \in 1..MaxPersons \ {p} : person'[q] = person[q]
  BY <1>1 DEF Committed, IdInv, TypeOK
<1>8. \A q \in 1..MaxPersons : person[q] # NoPerson =>
          person'[q] # NoPerson /\ person'[q].name = person[q].name
  BY <1>1, <1>2, <1>3, <1>6, <1>7 DEF Settled
<1>9. given \subseteq Identities /\ owner' \in [Identities -> 0..MaxPersons]
      /\ \A i \in Identities : owner'[i] = IF i \in given THEN p ELSE owner[i]
  <2>1. given \subseteq Identities
    BY <1>1, <1>3, OwnIsIdentity
  <2>2. QED
    BY <1>1, <1>2, <2>1 DEF Committed, IdInv, TypeOK
<1>10. TypeOK'
  <2>1. \A i \in Identities : owner'[i] # 0 => person'[owner'[i]] # NoPerson
    <3>1. \A i \in Identities : i \notin given /\ owner[i] # 0 =>
             owner[i] \in 1..MaxPersons /\ person[owner[i]] # NoPerson
      BY DEF IdInv, TypeOK, ResolverAssumption
    <3>2. ASSUME NEW i \in Identities, owner'[i] # 0 PROVE person'[owner'[i]] # NoPerson
      <4>1. CASE i \in given
        BY <1>6, <1>9, <4>1
      <4>2. CASE i \notin given
        BY <1>8, <1>9, <3>1, <3>2, <4>2
      <4>3. QED
        BY <4>1, <4>2
    <3>3. QED
      BY <3>2
  <2>2. link' \in [Rows -> 0..MaxPersons]
    BY <1>1, <1>2 DEF IdInv, TypeOK
  <2>3. QED
    BY <1>5, <1>9, <2>1, <2>2, OverKeepsRacers DEF IdInv, TypeOK
<1>11. \A v \in Workers : Shaped(tx[v])' /\ Settled(tx[v])'
  <2>1. ASSUME NEW v \in Workers PROVE Settled(tx[v])'
    <3>1. CASE v = w
      BY <3>1, OverKeepsRacers DEF Settled, NoTransaction
    <3>2. CASE v # w
      <4>1. tx'[v] = tx[v] /\ Settled(tx[v]) /\ tx[v] \in Transaction
        BY <3>2, OverKeepsRacers DEF IdInv, TypeOK
      <4>2. tx[v].person # 0 => tx[v].person \in 1..MaxPersons
        BY <4>1 DEF Transaction, ResolverAssumption
      <4>3. tx[v].draft => tx[v].person # p
        <5>1. CASE t.draft
          BY <5>1, <3>2, <1>1 DEF IdInv, DraftsDiffer
        <5>2. CASE ~t.draft
          BY <5>2, <1>2, <1>1, <4>1 DEF Settled
        <5>3. QED
          BY <5>1, <5>2
      <4>4. QED
        BY <1>7, <1>8, <4>1, <4>2, <4>3 DEF Settled
    <3>3. QED
      BY <3>1, <3>2
  <2>2. QED
    BY <2>1, OverKeepsRacers DEF Shaped
<1>12. DraftsDiffer'
  BY OverKeepsRacers DEF IdInv, DraftsDiffer, NoTransaction
<1>13. NeverMixedUp'
  <2>1. \A i \in Identities : i \notin given /\ owner[i] # 0 =>
           owner'[i] # 0 /\ person'[owner'[i]].name = person[owner[i]].name
    BY <1>8, <1>9 DEF IdInv, TypeOK, ResolverAssumption
  <2>2. \A i \in given : person'[owner'[i]].name = HumanOf[r]
    BY <1>6, <1>9
  <2>3. ASSUME NEW h \in Humans, owner'[<<"email", h>>] # 0
        PROVE  person'[owner'[<<"email", h>>]].name = h
    <3>1. <<"email", h>> \in Identities
      BY DEF Identities
    <3>2. <<"email", h>> \in given => h = HumanOf[r]
      BY <1>1, <1>3 DEF Email, SourceId
    <3>3. QED
      BY <1>9, <2>1, <2>2, <2>3, <3>1, <3>2 DEF IdInv, NeverMixedUp
  <2>4. ASSUME NEW s \in Rows, owner'[SourceId(s)] # 0
        PROVE  person'[owner'[SourceId(s)]].name = HumanOf[s]
    <3>1. SourceId(s) \in Identities
      BY DEF Identities, SourceId
    <3>2. SourceId(s) \in given => s = r
      BY <1>1, <1>3 DEF Email, SourceId
    <3>3. QED
      BY <1>9, <2>1, <2>2, <2>4, <3>1, <3>2 DEF IdInv, NeverMixedUp
  <2>5. ASSUME NEW s \in Rows, link'[s] # 0
        PROVE  person'[link'[s]].name = HumanOf[s]
    <3>1. CASE link'[s] = link[s]
      <4>1. link[s] \in 1..MaxPersons /\ person[link[s]].name = HumanOf[s]
        BY <2>5, <3>1 DEF IdInv, TypeOK, NeverMixedUp, ResolverAssumption
      <4>2. person[link[s]] # NoPerson
        BY <4>1 DEF NoPerson, ResolverAssumption
      <4>3. QED
        BY <1>8, <3>1, <4>1, <4>2
    <3>2. CASE link'[s] # link[s]
      <4>1. s = r /\ link'[s] = p
        BY <1>1, <1>3, <3>2 DEF IdInv, TypeOK
      <4>2. QED
        BY <1>6, <4>1
    <3>3. QED
      BY <3>1, <3>2
  <2>6. QED
    BY <2>3, <2>4, <2>5 DEF NeverMixedUp, SourceId
<1>14. QED
  BY <1>10, <1>11, <1>12, <1>13, OverKeepsRacers DEF IdInv

LEMMA RollbackKeeps ==
    ASSUME ResolverAssumption, IdInv, NEW w \in Workers, Rollback(w) PROVE IdInv'
<1>1. /\ Over(w) /\ UNCHANGED <<known, database>> /\ failed' \in 0..MaxRollbacks
  BY DEF Rollback, IdInv, TypeOK, ResolverAssumption
<1>2. TypeOK'
  BY <1>1, OverKeepsRacers DEF IdInv, TypeOK, database
<1>3. ASSUME NEW v \in Workers PROVE Settled(tx[v])'
  BY <1>1, OverKeepsRacers DEF IdInv, Settled, database, NoTransaction
<1>4. DraftsDiffer'
  BY <1>1, OverKeepsRacers DEF IdInv, DraftsDiffer, NoTransaction
<1>5. NeverMixedUp'
  BY <1>1 DEF IdInv, NeverMixedUp, database
<1>6. QED
  BY <1>1, <1>2, <1>3, <1>4, <1>5, OverKeepsRacers DEF IdInv, Shaped, Settled

\* The identifiers given at a commit are those of the row.
LEMMA GivenAreOwn ==
    ASSUME ResolverAssumption, IdInv, NEW w \in Workers, tx[w].pc = "linking"
    PROVE  tx[w].writes \subseteq {Email(RowOf(w)), SourceId(RowOf(w))}
BY Facts, OwnIsIdentity

LEMMA IdNext == ASSUME ResolverAssumption, IdInv, [Next]_vars PROVE IdInv'
<1>1. ASSUME NEW r \in Rows, AddressAppears(r) PROVE IdInv'
  BY <1>1 DEF AddressAppears, IdInv, TypeOK, database, Shaped, Settled, DraftsDiffer,
              NeverMixedUp, RacersAreKnown, PastLookUp
<1>2. ASSUME NEW w \in Workers, NEW r \in Duty[w], Begin(w, r) PROVE IdInv'
  BY <1>2, BeginKeeps DEF ResolverAssumption
<1>3. ASSUME NEW w \in Workers, LinkMirror(w) PROVE IdInv'
  BY <1>3, GivenAreOwn, CommitKeeps DEF LinkMirror, At
<1>4. ASSUME NEW w \in Workers, AttachSlackId(w) PROVE IdInv'
  BY <1>4, GivenAreOwn, CommitKeeps DEF AttachSlackId, At
<1>5. ASSUME NEW w \in Workers, Statement(w) PROVE IdInv'
  BY <1>3, <1>4, <1>5, LookUpKeeps, TouchKeeps, MergeKeeps, MatchKeeps, CreateKeeps, UpsertKeeps
     DEF Statement
<1>6. CASE UNCHANGED vars
  BY <1>6 DEF vars, IdInv, TypeOK, database, Shaped, Settled, DraftsDiffer,
              NeverMixedUp, RacersAreKnown, PastLookUp
<1>7. QED
  BY <1>1, <1>2, <1>5, <1>6, RollbackKeeps DEF Next

\* No identifier, and no mirror row, ever reaches the person of another human,
\* whatever transactions overlap and roll back.
THEOREM PeopleAreNeverMixedUp ==
    ASSUME ResolverAssumption PROVE Spec => []NeverMixedUp
<1>1. IdInv => NeverMixedUp
  BY DEF IdInv
<1>2. QED
  BY <1>1, IdInit, IdNext, PTL DEF Spec

\* Every variable keeps its type: no identity points to a person that is not there.
THEOREM ResolverTypes == ASSUME ResolverAssumption PROVE Spec => []TypeOK
<1>1. IdInv => TypeOK
  BY DEF IdInv
<1>2. QED
  BY <1>1, IdInit, IdNext, PTL DEF Spec

LEMMA OwnerChanges ==
    ASSUME ResolverAssumption, IdInv, Next, NEW h \in Humans,
           owner'[<<"email", h>>] # owner[<<"email", h>>], owner[<<"email", h>>] # 0
    PROVE  \E w \in racing[h] : At(w, "linking")
<1>1. PICK w \in Workers : LinkMirror(w) \/ AttachSlackId(w)
  BY DEF Next, AddressAppears, Begin, Statement, LookUp, Touch, MergeFields, MatchByName,
         CreatePerson, UpsertIdentity, Rollback, database
<1>2. PICK t, r : t = tx[w] /\ r = RowOf(w)
  OBVIOUS
<1>3. t.pc = "linking" /\ At(w, "linking")
  BY <1>1, <1>2 DEF LinkMirror, AttachSlackId, At
<1>4. r \in Rows /\ (PastLookUp(t, r) => owner[Email(r)] = 0 \/ w \in racing[HumanOf[r]])
  BY <1>2, <1>3, Facts
<1>5. t.writes \subseteq {Email(r), SourceId(r)}
  BY <1>2, <1>3, GivenAreOwn
<1>6. <<"email", h>> \in Identities /\ <<"email", h>> # SourceId(r)
  BY DEF Identities, SourceId
<1>7. <<"email", h>> \in t.writes
  BY <1>1, <1>2, <1>6 DEF LinkMirror, AttachSlackId, Committed, IdInv, TypeOK
<1>8. <<"email", h>> = Email(r) /\ h = HumanOf[r]
  BY <1>5, <1>6, <1>7 DEF Email
<1>9. PastLookUp(t, r)
  BY <1>7, <1>8 DEF PastLookUp
<1>10. QED
  BY <1>3, <1>4, <1>8, <1>9

\* An address that has an owner changes it only when a transaction that was under
\* way when it got that owner commits.
THEOREM AddressesMoveInRaces ==
    ASSUME ResolverAssumption PROVE Spec => AddressMovesOnlyInRace
<1>1. IdInv /\ [Next]_vars =>
        [\A h \in Humans :
            LET i == <<"email", h>>
            IN  owner[i] # 0 /\ owner'[i] # owner[i] =>
                  \E w \in racing[h] : At(w, "linking")]_vars
  BY OwnerChanges
<1>2. QED
  BY <1>1, IdInit, IdNext, PTL DEF Spec, AddressMovesOnlyInRace

-----------------------------------------------------------------------------
(* The messages of Slack.                                                  *)

\* A run that is over holds nothing; what a run holds is of the channel it is at.
RowsAreHeld ==
    \A r \in Runs : /\ run[r].hands # {} => run[r].at \in Channels /\ run[r].pc = "running"
                    /\ \A row \in run[r].row : row.ts \in run[r].hands

\* The messages accounted for: stored, in hands or lost.
Safe == [c \in Channels |-> {m \in Nat : Covered(c, m)}]

WatermarksAreSafe == \A c \in Channels : 1..channel[c].watermark \subseteq Safe[c]

SinceIsSafe == \A r \in Runs, c \in Channels : 1..run[r].since[c] \subseteq Safe[c]

HandsAreSafe == \A r \in Runs : \A h \in run[r].hands : 1..h \subseteq Safe[run[r].at]

SlackInv == SlackTypeOK /\ RowsAreHeld /\ WatermarksAreSafe /\ SinceIsSafe /\ HandsAreSafe

-----------------------------------------------------------------------------
LEMMA EmptyRun ==
    ASSUME NEW pc \in {"idle", "running", "completed"}
    PROVE  NoRun(pc) \in Run /\ NoRun(pc).hands = {} /\ NoRun(pc).row = {}
           /\ NoRun(pc).since = [c \in Channels |-> 0]
  BY DEF NoRun, Run

LEMMA SlackStart == SlackInit => SlackInv
<1> SUFFICES ASSUME SlackInit PROVE SlackInv
  OBVIOUS
<1>1. SlackTypeOK
  BY EmptyRun DEF SlackInit, SlackTypeOK
<1>2. \A r \in Runs : run[r].hands = {} /\ run[r].row = {}
                      /\ run[r].since = [c \in Channels |-> 0]
  BY EmptyRun DEF SlackInit
<1>3. RowsAreHeld /\ HandsAreSafe
  BY <1>2 DEF RowsAreHeld, HandsAreSafe
<1> 1..0 = {}
  OBVIOUS
<1>4. WatermarksAreSafe
  <2>1. \A c \in Channels : channel[c].watermark = 0
    BY DEF SlackInit
  <2>2. QED
    BY <2>1 DEF WatermarksAreSafe
<1>5. SinceIsSafe
  BY <1>2 DEF SinceIsSafe
<1>6. QED
  BY <1>1, <1>3, <1>4, <1>5 DEF SlackInv

LEMMA SafeIsCovered == SlackInv => NothingSlips
<1> SUFFICES ASSUME SlackInv, NEW c \in Channels, NEW m \in 1..channel[c].watermark
             PROVE  Covered(c, m)
  BY DEF NothingSlips
<1>1. m \in Safe[c]
  BY DEF SlackInv, WatermarksAreSafe
<1>2. QED
  BY <1>1 DEF Safe

-----------------------------------------------------------------------------
(* Slack, the operator and the channel sync leave runs and messages alone. *)

LEMMA OutsideKeeps ==
    ASSUME SlackAssumption, SlackInv, NEW c \in Channels, Post(c) \/ Archive(c) \/ Track(c) \/ SyncChannel(c)
    PROVE  SlackInv'
<1>1. /\ UNCHANGED <<run, stored, lost>>
      /\ \A d \in Channels : channel'[d].watermark = channel[d].watermark
  BY DEF SlackInv, SlackTypeOK, Post, Archive, Track, SyncChannel
<1>2. SlackTypeOK'
  <2>1. CASE Post(c)
    BY <2>1 DEF SlackAssumption, SlackInv, SlackTypeOK, Post
  <2>2. CASE Archive(c)
    BY <2>2 DEF SlackInv, SlackTypeOK, Archive
  <2>3. CASE Track(c)
    BY <2>3 DEF SlackInv, SlackTypeOK, Track, slack
  <2>4. CASE SyncChannel(c)
    <3>1. channel \in [Channels -> [tracked : BOOLEAN, archived : BOOLEAN, watermark : Nat]]
      BY DEF SlackInv, SlackTypeOK
    <3>2. (c \in closed) = TRUE \/ (c \in closed) = FALSE
      OBVIOUS
    <3>3. channel' \in [Channels -> [tracked : BOOLEAN, archived : BOOLEAN, watermark : Nat]]
      <4>1. CASE (c \in closed) = TRUE
        <5>1. channel' = [channel EXCEPT ![c].archived = TRUE]
          BY <2>4, <4>1, Zenon DEF SyncChannel
        <5>2. QED
          BY <3>1, <5>1
      <4>2. CASE (c \in closed) = FALSE
        <5>1. channel' = [channel EXCEPT ![c].archived = FALSE]
          BY <2>4, <4>2, Zenon DEF SyncChannel
        <5>2. QED
          BY <3>1, <5>1
      <4>3. QED
        BY <3>2, <4>1, <4>2
    <3>5. QED
      BY <2>4, <3>3 DEF SlackInv, SlackTypeOK, SyncChannel, slack
  <2>5. QED
    BY <2>1, <2>2, <2>3, <2>4
<1>3. Safe' = Safe
  BY <1>1 DEF Safe, Covered, InHands
<1>4. RowsAreHeld'
  BY <1>1 DEF SlackInv, RowsAreHeld
<1>5. WatermarksAreSafe'
  BY <1>1, <1>3 DEF SlackInv, WatermarksAreSafe
<1>6. SinceIsSafe' /\ HandsAreSafe'
  BY <1>1, <1>3 DEF SlackInv, SinceIsSafe, HandsAreSafe
<1>7. QED
  BY <1>2, <1>4, <1>5, <1>6 DEF SlackInv

-----------------------------------------------------------------------------
(* The steps of a run.                                                     *)

\* A step of r keeps SlackInv if no message leaves Safe and what r holds is safe.
LEMMA RunMoves ==
    ASSUME SlackInv, NEW r \in Runs, SlackTypeOK',
           \A q \in Runs : q # r => run'[q] = run[q],
           run'[r].hands # {} => run'[r].at \in Channels /\ run'[r].pc = "running",
           \A row \in run'[r].row : row.ts \in run'[r].hands,
           \A c \in Channels : Safe[c] \subseteq Safe'[c],
           \A c \in Channels : 1..run'[r].since[c] \subseteq Safe'[c],
           \A h \in run'[r].hands : 1..h \subseteq Safe'[run'[r].at],
           \A c \in Channels : 1..channel'[c].watermark \subseteq Safe'[c]
    PROVE  SlackInv'
<1>1. RowsAreHeld'
  BY DEF SlackInv, RowsAreHeld
<1>2. WatermarksAreSafe'
  BY DEF WatermarksAreSafe
<1>3. SinceIsSafe'
  BY DEF SlackInv, SinceIsSafe
<1>4. HandsAreSafe'
  <2>1. SUFFICES ASSUME NEW q \in Runs, NEW h \in run'[q].hands
                 PROVE  1..h \subseteq Safe'[run'[q].at]
    BY DEF HandsAreSafe
  <2>2. CASE q # r
    BY <2>2 DEF SlackInv, RowsAreHeld, HandsAreSafe
  <2>3. QED
    BY <2>2
<1>5. QED
  BY <1>1, <1>2, <1>3, <1>4 DEF SlackInv

LEMMA StartKeeps == ASSUME SlackInv, NEW r \in Runs, Start(r) PROVE SlackInv'
<1> DEFINE new == [NoRun("running") EXCEPT
                      !.todo = {c \in Channels : Wanted(c)},
                      !.since = [c \in Channels |-> channel[c].watermark]]
<1>1. run' = [run EXCEPT ![r] = new] /\ UNCHANGED <<slack, rows, channel, stored, lost, faults>>
  BY DEF Start
<1>2. /\ new \in Run /\ new.hands = {} /\ new.row = {}
      /\ new.since = [c \in Channels |-> channel[c].watermark]
  BY EmptyRun DEF SlackInv, SlackTypeOK, NoRun, Run
<1> HIDE DEF new
<1>3. SlackTypeOK'
  BY <1>1, <1>2 DEF SlackInv, SlackTypeOK, slack
<1>4. run'[r] = new /\ \A q \in Runs : q # r => run'[q] = run[q]
  BY <1>1 DEF SlackInv, SlackTypeOK
<1>5. run[r].hands = {}
  BY DEF Start, SlackInv, RowsAreHeld
<1>6. \A c \in Channels : Safe[c] \subseteq Safe'[c]
  BY <1>1, <1>4, <1>5 DEF Safe, Covered, InHands
<1>7. \A c \in Channels : 1..channel[c].watermark \subseteq Safe'[c]
  BY <1>6 DEF SlackInv, WatermarksAreSafe
<1>8. QED
  BY <1>1, <1>2, <1>3, <1>4, <1>6, <1>7, RunMoves

\* The run is over, or dead: what it held was empty, or is lost.
LEMMA CompleteKeeps == ASSUME SlackInv, NEW r \in Runs, Complete(r) PROVE SlackInv'
<1> DEFINE new == NoRun("completed")
<1>1. run' = [run EXCEPT ![r] = new] /\ UNCHANGED <<slack, rows, channel, stored, lost, faults>>
  BY DEF Complete
<1>2. new \in Run /\ new.hands = {} /\ new.row = {} /\ new.since = [c \in Channels |-> 0]
  BY EmptyRun
<1> HIDE DEF new
<1>3. SlackTypeOK'
  BY <1>1, <1>2 DEF SlackInv, SlackTypeOK, slack
<1>4. run'[r] = new /\ \A q \in Runs : q # r => run'[q] = run[q]
  BY <1>1 DEF SlackInv, SlackTypeOK
<1>5. run[r].hands = {}
  BY DEF Complete
<1>6. \A c \in Channels : Safe[c] \subseteq Safe'[c]
  BY <1>1, <1>4, <1>5 DEF Safe, Covered, InHands
<1>7. \A c \in Channels : 1..channel[c].watermark \subseteq Safe'[c]
  BY <1>6 DEF SlackInv, WatermarksAreSafe
<1>8. QED
  BY <1>1, <1>2, <1>3, <1>4, <1>6, <1>7, RunMoves

LEMMA StopsKeeps == ASSUME SlackInv, NEW r \in Runs, Stops(r) PROVE SlackInv'
<1> DEFINE new == NoRun("idle")
<1>1. /\ run' = [run EXCEPT ![r] = new] /\ UNCHANGED <<slack, rows, channel, stored>>
      /\ lost' = [c \in Channels |->
                    IF c = run[r].at THEN lost[c] \cup (run[r].hands \ stored[c]) ELSE lost[c]]
      /\ faults' = faults + 1
  BY DEF Stops
<1>2. new \in Run /\ new.hands = {} /\ new.row = {} /\ new.since = [c \in Channels |-> 0]
  BY EmptyRun
<1> HIDE DEF new
<1>3. SlackTypeOK'
  <2>1. run[r].hands \subseteq Nat
    BY DEF SlackInv, SlackTypeOK, Run
  <2>2. QED
    BY <1>1, <1>2, <2>1 DEF SlackInv, SlackTypeOK, slack
<1>4. run'[r] = new /\ \A q \in Runs : q # r => run'[q] = run[q]
  BY <1>1 DEF SlackInv, SlackTypeOK
<1>5. \A c \in Channels : Safe[c] \subseteq Safe'[c]
  BY <1>1, <1>4 DEF Safe, Covered, InHands
<1>6. \A c \in Channels : 1..channel[c].watermark \subseteq Safe'[c]
  BY <1>5 DEF SlackInv, WatermarksAreSafe
<1>7. QED
  BY <1>1, <1>2, <1>3, <1>4, <1>5, <1>6, RunMoves

\* The page fetched goes into the hands of r, and what it leaves out is lost.
LEMMA FetchKeeps ==
    ASSUME SlackAssumption, SlackInv, NEW r \in Runs, NEW c \in run[r].todo, Fetch(r, c)
    PROVE  SlackInv'
<1> DEFINE since == run[r].since[c]
           page == History(c, since)
           cut == CutOff(c, since)
           new == [run[r] EXCEPT !.todo = @ \ {c}, !.at = c, !.hands = page]
<1>1. /\ run' = [run EXCEPT ![r] = new] /\ UNCHANGED <<slack, rows, channel, stored, faults>>
      /\ lost' = [lost EXCEPT ![c] = (@ \ page) \cup (cut \ stored[c])]
      /\ run[r].pc = "running" /\ run[r].hands = {}
  BY DEF Fetch
<1>2. c \in Channels /\ since \in Nat /\ posted[c] \in Nat /\ run[r] \in Run
  BY DEF SlackInv, SlackTypeOK, Run
<1>3. page \subseteq Nat /\ cut \subseteq Nat
  BY <1>2 DEF History, CutOff
<1>4. \A m \in page : \A k \in 1..m : k \in 1..since \/ k \in page \/ k \in cut
  BY <1>2 DEF SlackAssumption, History, CutOff
<1> HIDE DEF page, cut
<1>5. /\ new \in Run /\ new.at = c /\ new.hands = page /\ new.row = {}
      /\ new.since = run[r].since /\ new.pc = "running"
  <2>1. run[r].row = {}
    BY <1>1 DEF SlackInv, RowsAreHeld
  <2>2. QED
    BY <1>1, <1>2, <1>3, <2>1 DEF Run
<1> HIDE DEF new, since
<1>6. SlackTypeOK'
  BY <1>1, <1>2, <1>3, <1>5 DEF SlackInv, SlackTypeOK, slack
<1>7. run'[r] = new /\ \A q \in Runs : q # r => run'[q] = run[q]
  BY <1>1 DEF SlackInv, SlackTypeOK
<1>8. \A d \in Channels : Safe[d] \subseteq Safe'[d]
  <2>1. SUFFICES ASSUME NEW d \in Channels, NEW m \in Nat, Covered(d, m)
                 PROVE  Covered(d, m)'
    BY DEF Safe
  <2>2. CASE m \in stored[d]
    BY <2>2, <1>1 DEF Covered
  <2>3. CASE InHands(d, m)
    BY <2>3, <1>1, <1>7 DEF Covered, InHands
  <2>4. CASE m \in lost[d]
    <3>1. CASE d = c /\ m \in page
      BY <3>1, <1>5, <1>7 DEF Covered, InHands
    <3>2. CASE ~(d = c /\ m \in page)
      BY <2>4, <3>2, <1>1, <1>2 DEF SlackInv, SlackTypeOK, Covered
    <3>3. QED
      BY <3>1, <3>2
  <2>5. QED
    BY <2>1, <2>2, <2>3, <2>4 DEF Covered
<1>9. page \subseteq Safe'[c] /\ cut \subseteq Safe'[c]
  <2>1. \A m \in page : Covered(c, m)'
    BY <1>5, <1>7 DEF Covered, InHands
  <2>2. \A m \in cut : Covered(c, m)'
    BY <1>1, <1>2 DEF SlackInv, SlackTypeOK, Covered
  <2>3. QED
    BY <1>2, <1>3, <2>1, <2>2 DEF Safe
<1>10. \A d \in Channels : 1..run'[r].since[d] \subseteq Safe'[d]
  BY <1>5, <1>7, <1>8 DEF SlackInv, SinceIsSafe
<1>11. \A h \in run'[r].hands : 1..h \subseteq Safe'[run'[r].at]
  <2>1. 1..since \subseteq Safe'[c]
    BY <1>2, <1>8 DEF SlackInv, SinceIsSafe, since
  <2>2. QED
    BY <1>4, <1>5, <1>7, <1>9, <2>1
<1>12. \A d \in Channels : 1..channel'[d].watermark \subseteq Safe'[d]
  BY <1>1, <1>8 DEF SlackInv, WatermarksAreSafe
<1>13. QED
  BY <1>1, <1>2, <1>5, <1>6, <1>7, <1>8, <1>10, <1>11, <1>12, RunMoves

LEMMA ReadKeeps ==
    ASSUME SlackInv, NEW r \in Runs, NEW m \in run[r].hands, ReadChannel(r, m) PROVE SlackInv'
<1> DEFINE new == [run[r] EXCEPT !.row = {[ts |-> m, seen |-> channel[run[r].at].watermark]}]
<1>1. run' = [run EXCEPT ![r] = new] /\ UNCHANGED <<slack, rows, channel, stored, lost, faults>>
  BY DEF ReadChannel
<1>2. run[r] \in Run /\ run[r].at \in Channels /\ run[r].pc = "running" /\ m \in Nat
  BY DEF SlackInv, SlackTypeOK, RowsAreHeld, Run
<1>3. channel[run[r].at].watermark \in Nat
  BY <1>2 DEF SlackInv, SlackTypeOK
<1>4. /\ new \in Run /\ new.at = run[r].at /\ new.hands = run[r].hands
      /\ new.since = run[r].since /\ new.pc = run[r].pc
      /\ \A row \in new.row : row.ts = m
  BY <1>2, <1>3 DEF Run
<1> HIDE DEF new
<1>5. SlackTypeOK'
  BY <1>1, <1>4 DEF SlackInv, SlackTypeOK, slack
<1>6. run'[r] = new /\ \A q \in Runs : q # r => run'[q] = run[q]
  BY <1>1 DEF SlackInv, SlackTypeOK
<1>7. \A d \in Channels : Safe[d] \subseteq Safe'[d]
  BY <1>1, <1>4, <1>6 DEF Safe, Covered, InHands
<1>8. \A d \in Channels : 1..run'[r].since[d] \subseteq Safe'[d]
  BY <1>4, <1>6, <1>7 DEF SlackInv, SinceIsSafe
<1>9. \A h \in run'[r].hands : 1..h \subseteq Safe'[run'[r].at]
  BY <1>2, <1>4, <1>6, <1>7 DEF SlackInv, HandsAreSafe
<1>10. \A d \in Channels : 1..channel'[d].watermark \subseteq Safe'[d]
  BY <1>1, <1>7 DEF SlackInv, WatermarksAreSafe
<1>11. QED
  BY <1>2, <1>4, <1>5, <1>6, <1>7, <1>8, <1>9, <1>10, RunMoves

\* The message leaves the hands of r: it is stored, or it is lost.
LEMMA MessageCommitKeeps == ASSUME SlackInv, NEW r \in Runs, CommitMessage(r) PROVE SlackInv'
<1>1. PICK row \in run[r].row :
        LET c == run[r].at IN
          /\ stored' = [stored EXCEPT ![c] = @ \cup {row.ts}]
          /\ channel' = [channel EXCEPT ![c].watermark = Advanced(@, row)]
          /\ lost' = [lost EXCEPT ![c] = @ \ {row.ts}]
          /\ run' = [run EXCEPT ![r].hands = @ \ {row.ts}, ![r].row = {}]
  BY DEF CommitMessage
<1> DEFINE c == run[r].at
           new == [run[r] EXCEPT !.hands = @ \ {row.ts}, !.row = {}]
<1>2. run' = [run EXCEPT ![r] = new] /\ UNCHANGED <<slack, rows, faults>>
  <2>1. run' = [run EXCEPT ![r].hands = @ \ {row.ts}, ![r].row = {}]
    BY <1>1, Zenon
  <2>2. [run EXCEPT ![r].hands = @ \ {row.ts}, ![r].row = {}] = [run EXCEPT ![r] = new]
    OBVIOUS
  <2>3. UNCHANGED <<slack, rows, faults>>
    BY DEF CommitMessage
  <2>4. QED
    BY <2>1, <2>2, <2>3
<1>3. /\ run[r] \in Run /\ c \in Channels /\ run[r].pc = "running"
      /\ row.ts \in run[r].hands /\ row.ts \in Nat
  BY DEF SlackInv, SlackTypeOK, RowsAreHeld, Run
<1>4. /\ new \in Run /\ new.at = c /\ new.hands = run[r].hands \ {row.ts} /\ new.row = {}
      /\ new.since = run[r].since /\ new.pc = run[r].pc
  BY <1>3 DEF Run
<1> HIDE DEF new
<1>5. \A d \in Channels : \/ channel'[d].watermark = channel[d].watermark
                          \/ d = c /\ channel'[d].watermark = row.ts
  <2>1. channel \in [Channels -> [tracked : BOOLEAN, archived : BOOLEAN, watermark : Nat]]
    BY DEF SlackInv, SlackTypeOK
  <2>2. Advanced(channel[c].watermark, row) \in {channel[c].watermark, row.ts}
    BY DEF Advanced
  <2>3. QED
    BY <1>1, <1>3, <2>1, <2>2
<1>6. SlackTypeOK'
  <2>1. channel \in [Channels -> [tracked : BOOLEAN, archived : BOOLEAN, watermark : Nat]]
    BY DEF SlackInv, SlackTypeOK
  <2>2. Advanced(channel[c].watermark, row) \in Nat
    BY <1>3, <2>1 DEF Advanced
  <2>3. channel' \in [Channels -> [tracked : BOOLEAN, archived : BOOLEAN, watermark : Nat]]
    BY <1>1, <1>3, <2>1, <2>2
  <2>4. stored' \in [Channels -> SUBSET Nat] /\ lost' \in [Channels -> SUBSET Nat]
    BY <1>1, <1>3 DEF SlackInv, SlackTypeOK
  <2>5. QED
    BY <1>2, <1>4, <2>3, <2>4 DEF SlackInv, SlackTypeOK, slack
<1>7. run'[r] = new /\ \A q \in Runs : q # r => run'[q] = run[q]
  BY <1>2 DEF SlackInv, SlackTypeOK
<1>8. \A d \in Channels : Safe[d] \subseteq Safe'[d]
  <2>1. SUFFICES ASSUME NEW d \in Channels, NEW m \in Nat, Covered(d, m)
                 PROVE  Covered(d, m)'
    BY DEF Safe
  <2>2. CASE d = c /\ m = row.ts
    BY <2>2, <1>1, <1>3 DEF SlackInv, SlackTypeOK, Covered
  <2>3. CASE m \in stored[d]
    BY <2>3, <1>1, <1>3 DEF SlackInv, SlackTypeOK, Covered
  <2>4. CASE m \in lost[d] /\ ~(d = c /\ m = row.ts)
    BY <2>4, <1>1, <1>3 DEF SlackInv, SlackTypeOK, Covered
  <2>5. CASE InHands(d, m) /\ ~(d = c /\ m = row.ts)
    BY <2>5, <1>4, <1>7 DEF Covered, InHands
  <2>6. QED
    BY <2>1, <2>2, <2>3, <2>4, <2>5 DEF Covered
<1>9. \A d \in Channels : 1..run'[r].since[d] \subseteq Safe'[d]
  BY <1>4, <1>7, <1>8 DEF SlackInv, SinceIsSafe
<1>10. \A h \in run[r].hands : 1..h \subseteq Safe'[c]
  BY <1>3, <1>8 DEF SlackInv, HandsAreSafe
<1>11. \A d \in Channels : 1..channel'[d].watermark \subseteq Safe'[d]
  BY <1>3, <1>5, <1>8, <1>10 DEF SlackInv, WatermarksAreSafe
<1>12. \A h \in run'[r].hands : 1..h \subseteq Safe'[run'[r].at]
  BY <1>4, <1>7, <1>10
<1>13. QED
  BY <1>3, <1>4, <1>6, <1>7, <1>8, <1>9, <1>11, <1>12, RunMoves

LEMMA FailsKeeps == ASSUME SlackInv, NEW r \in Runs, MessageFails(r) PROVE SlackInv'
<1>1. PICK row \in run[r].row :
        /\ run' = [run EXCEPT ![r].hands = @ \ {row.ts}, ![r].row = {}]
        /\ lost' = [lost EXCEPT ![run[r].at] = @ \cup ({row.ts} \ stored[run[r].at])]
  BY DEF MessageFails
<1> DEFINE c == run[r].at
           new == [run[r] EXCEPT !.hands = @ \ {row.ts}, !.row = {}]
<1>2. /\ run' = [run EXCEPT ![r] = new] /\ faults' = faults + 1
      /\ UNCHANGED <<slack, rows, channel, stored>>
  BY <1>1 DEF MessageFails
<1>3. /\ run[r] \in Run /\ c \in Channels /\ run[r].pc = "running"
      /\ row.ts \in run[r].hands /\ row.ts \in Nat
  BY DEF SlackInv, SlackTypeOK, RowsAreHeld, Run
<1>4. /\ new \in Run /\ new.at = c /\ new.hands = run[r].hands \ {row.ts} /\ new.row = {}
      /\ new.since = run[r].since /\ new.pc = run[r].pc
  BY <1>3 DEF Run
<1> HIDE DEF new
<1>5. SlackTypeOK'
  <2>1. lost' \in [Channels -> SUBSET Nat]
    BY <1>1, <1>3 DEF SlackInv, SlackTypeOK
  <2>2. QED
    BY <1>2, <1>4, <2>1 DEF SlackInv, SlackTypeOK, slack
<1>6. run'[r] = new /\ \A q \in Runs : q # r => run'[q] = run[q]
  BY <1>2 DEF SlackInv, SlackTypeOK
<1>7. \A d \in Channels : Safe[d] \subseteq Safe'[d]
  <2>1. SUFFICES ASSUME NEW d \in Channels, NEW m \in Nat, Covered(d, m)
                 PROVE  Covered(d, m)'
    BY DEF Safe
  <2>2. CASE d = c /\ m = row.ts
    BY <2>2, <1>1, <1>2, <1>3 DEF SlackInv, SlackTypeOK, Covered
  <2>3. CASE m \in stored[d]
    BY <2>3, <1>2 DEF Covered
  <2>4. CASE m \in lost[d]
    BY <2>4, <1>1, <1>3 DEF SlackInv, SlackTypeOK, Covered
  <2>5. CASE InHands(d, m) /\ ~(d = c /\ m = row.ts)
    BY <2>5, <1>4, <1>6 DEF Covered, InHands
  <2>6. QED
    BY <2>1, <2>2, <2>3, <2>4, <2>5 DEF Covered
<1>8. \A d \in Channels : 1..run'[r].since[d] \subseteq Safe'[d]
  BY <1>4, <1>6, <1>7 DEF SlackInv, SinceIsSafe
<1>9. \A h \in run'[r].hands : 1..h \subseteq Safe'[run'[r].at]
  BY <1>3, <1>4, <1>6, <1>7 DEF SlackInv, HandsAreSafe
<1>10. \A d \in Channels : 1..channel'[d].watermark \subseteq Safe'[d]
  BY <1>2, <1>7 DEF SlackInv, WatermarksAreSafe
<1>11. QED
  BY <1>3, <1>4, <1>5, <1>6, <1>7, <1>8, <1>9, <1>10, RunMoves

-----------------------------------------------------------------------------
LEMMA SlackStep == SlackAssumption /\ SlackInv /\ [SlackNext]_slackVars => SlackInv'
<1> SUFFICES ASSUME SlackAssumption, SlackInv, [SlackNext]_slackVars PROVE SlackInv'
  OBVIOUS
<1>1. ASSUME NEW c \in Channels, Post(c) \/ Archive(c) \/ Track(c) \/ SyncChannel(c)
      PROVE  SlackInv'
  BY <1>1, OutsideKeeps
<1>2. ASSUME NEW r \in Runs, Start(r) PROVE SlackInv'
  BY <1>2, StartKeeps
<1>3. ASSUME NEW r \in Runs, Step(r) PROVE SlackInv'
  BY <1>3, FetchKeeps, ReadKeeps, MessageCommitKeeps, CompleteKeeps DEF Step
<1>4. ASSUME NEW r \in Runs, MessageFails(r) PROVE SlackInv'
  BY <1>4, FailsKeeps
<1>5. ASSUME NEW r \in Runs, Stops(r) PROVE SlackInv'
  BY <1>5, StopsKeeps
<1>6. CASE UNCHANGED slackVars
  <2>1. SlackTypeOK' /\ RowsAreHeld'
    BY <1>6 DEF slackVars, slack, SlackInv, SlackTypeOK, RowsAreHeld
  <2>2. Safe' = Safe
    BY <1>6 DEF slackVars, Safe, Covered, InHands
  <2>3. WatermarksAreSafe' /\ SinceIsSafe' /\ HandsAreSafe'
    BY <1>6, <2>2 DEF slackVars, SlackInv, WatermarksAreSafe, SinceIsSafe, HandsAreSafe
  <2>4. QED
    BY <2>1, <2>3 DEF SlackInv
<1>7. QED
  BY <1>1, <1>2, <1>3, <1>4, <1>5, <1>6 DEF SlackNext

\* Every message at or before the watermark of its channel is stored, held by a
\* run that will store it, or lost for a reason the module names.
THEOREM NothingSlipsBy == ASSUME SlackAssumption PROVE SlackSpec => []NothingSlips
<1>1. SlackInv => NothingSlips
  BY SafeIsCovered
<1>2. SlackInv /\ [SlackNext]_slackVars => SlackInv'
  BY SlackStep
<1>3. QED
  BY <1>1, <1>2, SlackStart, PTL DEF SlackSpec

\* The variables of SlackMessages keep their types.
THEOREM MessageTypes == ASSUME SlackAssumption PROVE SlackSpec => []SlackTypeOK
<1>1. SlackInv => SlackTypeOK
  BY DEF SlackInv
<1>2. SlackInv /\ [SlackNext]_slackVars => SlackInv'
  BY SlackStep
<1>3. QED
  BY <1>1, <1>2, SlackStart, PTL DEF SlackSpec
=============================================================================
