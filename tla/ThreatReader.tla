---------------------------- MODULE ThreatReader ----------------------------
(***************************************************************************)
(* The read side over the catalogue (services/threats.py, and the handlers *)
(* of api/v1 that show threats), while ingestion goes on.  A handler       *)
(* changes nothing; what is modelled is what its statements see, each of   *)
(* them what is committed when it runs, and what clients make of several   *)
(* answers:                                                                *)
(*   link    one that keeps an identifier it was shown, in a list, a       *)
(*           dashboard, an RSS feed, and asks /cve/{id} for it later       *)
(*   pager   one that asks GET /threats for page after page                *)
(* Lists of a sector show threats that have a score, in one page: which    *)
(* threats these are is ScoreTable's, here they are any.                   *)
(***************************************************************************)
EXTENDS IngestHistory

CONSTANTS
  Preferred,   \* the source whose external id represents a threat: "nvd"
  Uuid,        \* places of the threats in the order of their random ids
  Filters,     \* what a pager may ask for
  Limit,       \* threats on a page
  Bookmarks,   \* the identifiers a client may keep a link to
  NoLink

ASSUME ReaderAssumption ==
  /\ Preferred \in Sources
  /\ Uuid \in [Ids -> Int] /\ \A t, u \in Ids : Uuid[t] = Uuid[u] => t = u
  /\ Limit \in Nat \ {0}
  /\ Bookmarks \subseteq Identifiers /\ NoLink \notin Identifiers

VARIABLES link, pager

readerVars == <<historyVars, link, pager>>
-----------------------------------------------------------------------------
(* The queries.                                                            *)

\* The source that _to_read takes the external id from.  The SELECT of a threat's
\* sources gives them in any order.
Representatives(t) ==
  IF rows[t][Preferred] # NoRow THEN {Preferred} ELSE Present(rows[t])

ExternalIdsOfEvents(t) == {rows[t][s].event.xid : s \in Representatives(t)}

ExternalIds(t) == {rows[t][s].xid : s \in Representatives(t)}

\* get_threat_by_external_id answers one of these, or 404 when there is none.
ByExternalId(i) == {t \in threats : \E s \in Present(rows[t]) : rows[t][s].xid = i}

\* GET /cve/{i} does not answer 404.
Found(i) == ByExternalId(i) # {}

\* find_threats_by_indicator: between its two SELECTs no threat goes.
ByIndicator(i) == KnownBy(i)

\* What a threat in the database is to fulfil: severity and source are {} and
\* NoRow, say, when the client does not ask for any, and since is a date or 0.
Fulfils(t, f) ==
  /\ f.severity # {} => columns[t].severity \in f.severity
  /\ columns[t].published >= f.since
  /\ f.source \in Sources => rows[t][f.source] # NoRow

Listed(f) == {t \in threats : Fulfils(t, f)}

\* ORDER BY published_at DESC, id DESC
Before(t, u) ==
  \/ columns[t].published > columns[u].published
  \/ columns[t].published = columns[u].published /\ Uuid[t] > Uuid[u]

Place(t, f) == Cardinality({u \in Listed(f) : Before(u, t)})

PageAfter(f, offset) ==
  {t \in Listed(f) : offset < Place(t, f) /\ Place(t, f) <= offset + Limit}

Page(f, offset) ==
  {t \in Listed(f) : offset <= Place(t, f) /\ Place(t, f) < offset + Limit}
-----------------------------------------------------------------------------
(* The clients.                                                            *)

\* asked: the total is to be counted; counted: the page is to be read.  A client
\* goes on until offset has reached total or, when it does not trust total, until
\* a page is not full.  missing are the threats that were there when it began and
\* that it has not seen; for moves and late see Ingest.
Pager(at, f, trusting, missing) ==
  [at |-> at, filter |-> f, trusting |-> trusting, offset |-> 0, total |-> 0,
   missing |-> missing, moves |-> 0, late |-> 0]

NoPager == Pager("done", NoRow, FALSE, {})

ReaderInit == HistoryInit /\ link = NoLink /\ pager = NoPager

\* Any of the lists shows t, and the client keeps what it is shown under.
Show ==
  /\ \E t \in threats : link' \in ExternalIds(t) \cap Bookmarks
  /\ UNCHANGED <<historyVars, pager>>

Ask ==
  /\ pager.at = "done"
  /\ \E f \in Filters, trusting \in BOOLEAN : pager' = Pager("asked", f, trusting, Listed(f))
  /\ UNCHANGED <<historyVars, link>>

\* The first statement of list_threats.
Count ==
  /\ pager.at = "asked"
  /\ pager' = [pager EXCEPT !.at = "counted", !.total = Cardinality(Listed(pager.filter)),
                            !.late = 0]
  /\ UNCHANGED <<historyVars, link>>

\* Its second statement.
ReadPage ==
  LET page == Page(pager.filter, pager.offset)
      read == [pager EXCEPT !.missing = @ \ page, !.total = 0]
      last == IF pager.trusting THEN pager.offset + Limit >= pager.total
                                ELSE Cardinality(page) < Limit
  IN /\ pager.at = "counted"
     /\ pager' = IF last THEN [read EXCEPT !.at = "done", !.filter = NoRow, !.offset = 0]
                         ELSE [read EXCEPT !.at = "asked", !.offset = @ + Limit]
     /\ UNCHANGED <<historyVars, link>>

\* A step of ingestion takes a threat that is listed to another place, or away.
Moves(f) ==
  \E t \in Listed(f) : ~Fulfils(t, f)' \/ columns'[t].published # columns[t].published

Enters(f) == \E t \in threats' \ Listed(f) : Fulfils(t, f)'

\* Both are counted no further than the number of threats that can be missed.
Counted(n, happens) ==
  IF happens /\ n < Cardinality(pager.missing) THEN n + 1 ELSE n

Ingest ==
  /\ HistoryNext
  /\ \E f \in {pager.filter} :
       pager' = IF pager.at = "done" THEN pager
                ELSE [pager EXCEPT
                       !.moves = Counted(@, Moves(f)),
                       !.late  = Counted(@, pager.at = "counted" /\ Enters(f))]
  /\ UNCHANGED link

ReaderNext == Ingest \/ Show \/ Ask \/ Count \/ ReadPage

ReaderSpec == ReaderInit /\ [][ReaderNext]_readerVars
-----------------------------------------------------------------------------
\* A threat is always shown under some identifier; and the identifier leads to a
\* threat from then on, although another source, or another event of the same
\* source, has changed by then what the threat is shown under.
LinksResolve ==
  /\ \A t \in threats : ExternalIds(t) # {}
  /\ link # NoLink => Found(link)

\* /cve/{id} answers with a threat that /indicators finds under the same
\* identifier, be it a duplicate, or a threat whose row has been overwritten.
LookupsAgree == \A i \in Identifiers : ByExternalId(i) \subseteq ByIndicator(i)

\* A pager misses, of the threats that were there when it began, no more than
\* have been moved in the list or out of it in the meantime: threats that are
\* inserted while it reads do no harm.  But those that come between the count and
\* the page of its last request do if it trusts the total.
PagesMissOnlyMoves ==
  pager.at = "done" =>
    Cardinality(pager.missing)
      <= pager.moves + (IF pager.trusting THEN pager.late ELSE 0)
=============================================================================
