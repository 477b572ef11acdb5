---------------------------- MODULE IngestHistory ----------------------------
(***************************************************************************)
(* IngestService with a history variable: the workers that another one has *)
(* overtaken, committing what concerns the same threat or an identifier in *)
(* common while their transaction was open.  Nothing in the code knows of  *)
(* it.  It tells apart the transactions to which the comment of process    *)
(* about races applies from those that ought to be atomic.                 *)
(***************************************************************************)
EXTENDS IngestService

VARIABLE overtaken

historyVars == <<vars, overtaken>>

Concerns(v, w) ==
  \/ txn[v].target = txn[w].target
  \/ txn[v].event.ids \cap txn[w].event.ids # {}

Overtakes(v, w) == v # w /\ Commit(v) /\ pc[w] # "idle" /\ Concerns(v, w)

HistoryInit == Init /\ overtaken = {}

HistoryNext ==
  /\ Next
  /\ overtaken' = {w \in Workers : /\ pc'[w] # "idle"
                                   /\ w \in overtaken \/ \E v \in Workers : Overtakes(v, w)}

HistorySpec == HistoryInit /\ [][HistoryNext]_historyVars
-----------------------------------------------------------------------------
\* However many workers ingest, one that has not been overtaken ingests its event as
\* if in one step of the Catalogue, at its commit: what it has looked up, loaded and
\* recomputed is what it would find then.  Only which new threat is the oldest may be
\* different, since that is decided when their transactions begin.
UnovertakenIsAtomic ==
  [][\A w \in Workers :
       Commit(w) /\ w \notin overtaken => TheCatalogue!IngestAnyAge(txn[w].event)]_historyVars
=============================================================================
