----------------------------- MODULE CatalogSync -----------------------------
(***************************************************************************)
(* How the catalog tables follow a feed (services/catalog_sync.py,         *)
(* services/catalog_feed.py).  Every pod reconciles the tables with the    *)
(* catalog its build ships when it boots, unless gateway_meta says that    *)
(* very catalog was applied last; in hosted mode it also pulls a feed and  *)
(* reconciles the tables with that.  A reconcile reads the tables, plans a *)
(* difference and commits it in one transaction at READ COMMITTED, so the  *)
(* difference may be out of date when it is written.                       *)
(*                                                                         *)
(* A behaviour follows one of the three tables and in it the rows of one   *)
(* model, one price or one router tag; a reconcile of another table in the *)
(* same transaction can only make it fail, and only when somebody wrote    *)
(* meanwhile.  A document is what a feed says of the followed rows; its    *)
(* version is a hash of its content, so it is the document itself.         *)
(***************************************************************************)
EXTENDS Fleet, Naturals, Sequences, FiniteSets

CONSTANTS
    Rates,      \* prices a feed may ask for
    First,      \* models a router tag may resolve to
    Second,
    MaxDay,     \* days on which prices may change
    MaxBoots    \* how often a pod may start again

\* The operator, who pauses models, is none of the pods.
ASSUME CatalogAssumption ==
    /\ Rates \subseteq Nat \ {0}
    /\ Cardinality({First, Second, "none"}) = 3
    /\ "operator" \notin Pods
    /\ MaxDay \in Nat \ {0}
    /\ MaxBoots \in Nat

VARIABLES
    table,   \* the followed one: "registry", "pricing" or "routing"
    rows,    \* its rows
    day,     \* date.today()
    mark,    \* gateway_meta: the bundle applied last, <<>> before the first
    etag,    \* Redis: the hosted document applied last, <<>> when none is
    hosted,  \* the mode in force
    syncs,   \* what each pod's reconciling task is doing
    boots    \* starts so far

catalogVars == <<table, rows, day, mark, etag, hosted, syncs, boots>>

Tables == {"registry", "pricing", "routing"}
Days == 1..MaxDay
Places == 1..2
Tags == {First, Second}
Routes == {<<First>>, <<First, Second>>, <<Second, First>>}

\* What a document may say of the followed rows: that the model is served,
\* that it is withdrawn, or nothing; its price; the candidates of the tag.
Docs(t) == CASE t = "registry" -> {"listed", "retired", "absent"}
             [] t = "pricing"  -> Rates
             [] t = "routing"  -> Routes

RegistryRows == [source: {"none", "mlpal-feed", "local"},
                 active: BOOLEAN, deprecated: BOOLEAN, paused: BOOLEAN]
PriceRow == [rate: Rates \cup {0}, active: BOOLEAN]

Rows(t) == CASE t = "registry" -> RegistryRows
             [] t = "pricing"  -> [Days -> PriceRow]
             [] t = "routing"  -> [Places -> Tags \cup {"none"}]

-----------------------------------------------------------------------------
(* The registry: rows of the feed converge to it, local rows are left alone. *)

Columns == {"active", "deprecated", "paused"}

\* The columns of a feed's row: registry.json carries is_paused too.
FeedRow(doc) == [active |-> doc = "listed",
                 deprecated |-> doc = "retired",
                 paused |-> FALSE]

\* What the row should read: retired softly once the feed does not name it.
WantedRow(row, doc) ==
    IF doc # "absent" THEN FeedRow(doc)
    ELSE [active |-> FALSE, deprecated |-> TRUE, paused |-> row.paused]

\* The ORM writes the columns whose value differs from the one it read, on
\* top of whatever the row says by then.
WriteColumns(read, want, now) ==
    [now EXCEPT !.active = IF want.active # read.active THEN want.active ELSE @,
                !.deprecated = IF want.deprecated # read.deprecated
                               THEN want.deprecated ELSE @,
                !.paused = IF want.paused # read.paused THEN want.paused ELSE @]

Refused == [ok |-> FALSE]
Written(r) == [ok |-> TRUE, rows |-> r]

\* plan_registry and its application: what the transaction may come to.
SyncRegistry(read, doc, now) ==
    IF read.source = "none" /\ doc # "absent"
    THEN IF now.source # "none"
         THEN {Refused}
         ELSE {Written([source |-> "mlpal-feed", active |-> FeedRow(doc).active,
                        deprecated |-> FeedRow(doc).deprecated,
                        paused |-> FeedRow(doc).paused])}
    ELSE IF read.source = "mlpal-feed"
         THEN {Written(WriteColumns(read, WantedRow(read, doc), now))}
         ELSE {Written(now)}

-----------------------------------------------------------------------------
(* Prices: a row per day, the superseded one deactivated.                   *)

ActiveDays(prices) == {d \in Days : prices[d].active}

\* get_current_pricing: the latest active row that is in force.
CurrentPrice(prices, today) ==
    LET inForce == {d \in ActiveDays(prices) : d <= today} IN
    IF inForce = {} THEN 0
    ELSE prices[CHOOSE d \in inForce : \A e \in inForce : e <= d].rate

\* A bug: a changed price is always inserted.
ActivatePriceAnew(read, now, doc, today) ==
    {IF now[today].rate = 0
     THEN Written([now EXCEPT ![today] = [rate |-> doc, active |-> TRUE]])
     ELSE Refused}

\* A changed price becomes today's row: the row is updated in place when the
\* query just before the commit sees one, and inserted otherwise.
ActivatePrice(read, now, doc, today) ==
    {IF seen[today].rate # 0 \/ now[today].rate = 0
     THEN Written([now EXCEPT ![today] = [rate |-> doc, active |-> TRUE]])
     ELSE Refused : seen \in {read, now}}

Deactivate(prices, d) == [prices EXCEPT ![d].active = FALSE]

\* plan_pricing and its application; of several active rows the plan compares
\* with any one.
SyncPricing(read, doc, now, today) ==
    IF ActiveDays(read) = {} THEN ActivatePrice(read, now, doc, today)
    ELSE UNION {IF read[d].rate = doc THEN {Written(now)}
                ELSE ActivatePrice(read, Deactivate(now, d), doc, today)
                  : d \in ActiveDays(read)}

-----------------------------------------------------------------------------
(* Routes: the index in a candidate list is the priority of its row.        *)

Candidate(doc, p) == IF p <= Len(doc) THEN doc[p] ELSE "none"

\* plan_routing and its application: an insert meets the unique index over
\* active rows, an update of a row deactivated meanwhile shows nowhere.
SyncRouting(read, doc, now) ==
    IF \E p \in Places :
           read[p] = "none" /\ Candidate(doc, p) # "none" /\ now[p] # "none"
    THEN {Refused}
    ELSE {Written([p \in Places |->
            IF Candidate(doc, p) = read[p] \/ (read[p] # "none" /\ now[p] = "none")
            THEN now[p] ELSE Candidate(doc, p)])}

-----------------------------------------------------------------------------
\* reconcile: everything the transaction may come to.  A constraint of one of
\* the other tables may be hit as well, when somebody else wrote meanwhile.
Reconcile(read, doc, now, today, alone) ==
    (CASE table = "registry" -> SyncRegistry(read, doc, now)
       [] table = "pricing"  -> SyncPricing(read, doc, now, today)
       [] table = "routing"  -> SyncRouting(read, doc, now))
    \cup (IF alone THEN {} ELSE {Refused})

\* The tables say what the document says.
Agrees(r, doc, today) ==
    CASE table = "registry" ->
            \/ r.source = "local"
            \/ r.source = "none" /\ doc = "absent"
            \/ /\ r.source = "mlpal-feed"
               /\ IF doc = "absent" THEN ~r.active /\ r.deprecated
                  ELSE \A c \in Columns : r[c] = FeedRow(doc)[c]
      [] table = "pricing" -> CurrentPrice(r, today) = doc
      [] table = "routing" -> r = [p \in Places |-> Candidate(doc, p)]

\* At most one price is active.
Coherent(r) == table = "pricing" => Cardinality(ActiveDays(r)) <= 1

-----------------------------------------------------------------------------
Down == [pc |-> "down"]
Idle == [pc |-> "idle"]

\* A task that is to reconcile a document and has not read the tables yet;
\* one that has, alone as long as nobody else writes; and one whose
\* transaction committed and whose mark is still to be written.
Due(why, doc) == [pc |-> "due", why |-> why, doc |-> doc]
Planned(s) == [pc |-> "planned", why |-> s.why, doc |-> s.doc,
               read |-> rows, on |-> day, alone |-> TRUE]
Applied(s) == [pc |-> "applied", why |-> s.why, doc |-> s.doc]

\* A fresh deployment, or one whose operator registered the model himself.
InitialRows(t) ==
    CASE t = "registry" ->
            {[source |-> s, active |-> s = "local", deprecated |-> FALSE,
              paused |-> FALSE] : s \in {"none", "local"}}
      [] t = "pricing" -> {[d \in Days |-> [rate |-> 0, active |-> FALSE]]}
      [] t = "routing" -> {[p \in Places |-> "none"]}

CatalogInit ==
    /\ table \in Tables
    /\ rows \in InitialRows(table)
    /\ day = 1
    /\ mark = <<>>
    /\ etag = <<>>
    /\ hosted \in BOOLEAN
    /\ syncs = [p \in Pods |-> Down]
    /\ boots = 0

\* The process starts with the build it was given; apply_bundled_if_new
\* compares the build's catalog with the one applied last.
Boot(p, bundle) ==
    /\ syncs[p].pc = "down"
    /\ boots < MaxBoots
    /\ boots' = boots + 1
    /\ syncs' = [syncs EXCEPT ![p] =
           IF mark = <<bundle>> THEN Idle ELSE Due("boot", bundle)]
    /\ UNCHANGED <<table, rows, day, mark, etag, hosted>>

\* The process dies, whatever it was doing.
Stop(p) ==
    /\ syncs[p].pc # "down"
    /\ syncs' = [syncs EXCEPT ![p] = Down]
    /\ UNCHANGED <<table, rows, day, mark, etag, hosted, boots>>

\* pull_and_reconcile, from the loop or an administrator: the feed serves
\* whatever its own deployment ships by now, and answers 304 to its ETag.
Pull(p, doc) ==
    /\ syncs[p].pc = "idle"
    /\ hosted
    /\ etag # <<doc>>
    /\ syncs' = [syncs EXCEPT ![p] = Due("pull", doc)]
    /\ UNCHANGED <<table, rows, day, mark, etag, hosted, boots>>

\* reconcile reads the tables.
ReadTables(p) ==
    /\ syncs[p].pc = "due"
    /\ syncs' = [syncs EXCEPT ![p] = Planned(@)]
    /\ UNCHANGED <<table, rows, day, mark, etag, hosted, boots>>

\* Somebody else writes the tables under the plans made so far: the writer
\* of the same document is no rival, unless a rival disturbed him.
Disturbed(writer, others) ==
    [p \in Pods |->
        IF p # writer /\ syncs[p].pc = "planned"
           /\ ~(others = <<syncs[p].doc>>)
        THEN [syncs[p] EXCEPT !.alone = FALSE]
        ELSE syncs[p]]

\* reconcile commits, or a constraint turns the whole transaction down: the
\* boot goes on with the tables as they are, the pull reports an error.
CommitTables(p) ==
    /\ syncs[p].pc = "planned"
    /\ \E o \in Reconcile(syncs[p].read, syncs[p].doc, rows, day,
                          syncs[p].alone /\ rows = syncs[p].read) :
          IF o.ok
          THEN /\ rows' = o.rows
               /\ syncs' = [Disturbed(p, IF syncs[p].alone
                                          THEN <<syncs[p].doc>> ELSE <<>>)
                              EXCEPT ![p] = Applied(@)]
          ELSE /\ syncs' = [syncs EXCEPT ![p] = Idle]
               /\ UNCHANGED rows
    /\ UNCHANGED <<table, day, mark, etag, hosted, boots>>

\* set_meta after a boot, the ETag after a pull: a step of its own.
RecordVersion(p) ==
    /\ syncs[p].pc = "applied"
    /\ IF syncs[p].why = "boot"
       THEN mark' = <<syncs[p].doc>> /\ UNCHANGED etag
       ELSE etag' = <<syncs[p].doc>> /\ UNCHANGED mark
    /\ syncs' = [syncs EXCEPT ![p] = Idle]
    /\ UNCHANGED <<table, rows, day, hosted, boots>>

\* set_model_pause, on any registered model.
PauseModel ==
    /\ table = "registry"
    /\ rows.source # "none"
    /\ rows' = [rows EXCEPT !.paused = ~@]
    /\ syncs' = Disturbed("operator", <<>>)
    /\ UNCHANGED <<table, day, mark, etag, hosted, boots>>

\* feed_toggle.
SetMode ==
    /\ hosted' = ~hosted
    /\ UNCHANGED <<table, rows, day, mark, etag, syncs, boots>>

Midnight ==
    /\ day < MaxDay
    /\ day' = day + 1
    /\ UNCHANGED <<table, rows, mark, etag, hosted, syncs, boots>>

CatalogNext ==
    \/ \E p \in Pods :
          \/ \E d \in Docs(table) : Boot(p, d) \/ Pull(p, d)
          \/ Stop(p)
          \/ ReadTables(p)
          \/ CommitTables(p)
          \/ RecordVersion(p)
    \/ PauseModel
    \/ SetMode
    \/ Midnight

CatalogTypeOK ==
    /\ table \in Tables
    /\ rows \in Rows(table)
    /\ day \in Days
    /\ Len(mark) <= 1 /\ \A i \in 1..Len(mark) : mark[i] \in Docs(table)
    /\ Len(etag) <= 1 /\ \A i \in 1..Len(etag) : etag[i] \in Docs(table)
    /\ hosted \in BOOLEAN
    /\ \A p \in Pods :
          syncs[p].pc \in {"down", "idle", "due", "planned", "applied"}
    /\ boots \in 0..MaxBoots

\* A reconcile that ran against nobody but racing copies of itself, on one
\* day, is not turned down unless one of them was first, leaves the tables saying what
\* its document says, and writes nothing when they said so already: "the DB
\* converges to it", "a second run with the same feed is a no-op", also when
\* a price is corrected on the day it changed.
Converges ==
    [][\A p \in Pods :
          syncs[p].pc = "planned" /\ syncs'[p].pc \in {"applied", "idle"}
            /\ syncs[p].alone /\ Coherent(syncs[p].read)
            /\ (syncs[p].on = day \/ rows = syncs[p].read) =>
              /\ rows = syncs[p].read => syncs'[p].pc = "applied"
              /\ syncs'[p].pc = "applied" => Agrees(rows', syncs[p].doc, day)
              /\ Agrees(rows, syncs[p].doc, day) => rows' = rows]_catalogVars
=============================================================================
