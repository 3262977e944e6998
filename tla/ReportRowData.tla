----------------------------- MODULE ReportRowData -----------------------------
(***************************************************************************)
(* The row data of a report: values also come with the report's dataset,   *)
(* and are stored when the dataset is shown                                *)
(* (packages/frontend/src/report/components/ReportGridDataset.tsx).        *)
(***************************************************************************)
EXTENDS RowData

VARIABLES
  datasetsSent,   \* datasets asked for: the edits stored when each was
  dataset         \* the rows and edits of the dataset held, one or none

reportVars == <<datasetsSent, dataset>>

AskForDataset ==
  /\ Cardinality(datasetsSent) < MaxReads
  /\ datasetsSent' = datasetsSent \cup {edits}
  /\ UNCHANGED <<rowVars, dataset>>

DatasetLands(since) ==
  /\ since \in datasetsSent
  /\ datasetsSent' = datasetsSent \ {since}
  /\ dataset' \in {{[ids |-> ids, version |-> version]} :
                     ids \in SUBSET Ids, version \in since .. edits}
  /\ UNCHANGED rowVars

\* loadReferencedRows, whenever the report's grid is built: it names the
\* generation of the moment it runs, then asks for what the dataset lacks.
ShowDataset(d, ids, fields) ==
  /\ d \in dataset /\ flushes < MaxFlushes
  /\ UNCHANGED <<inFlight, flushes, lookups, treeVars, knownVars, edits, asked, reportVars>>
  /\ StoreComputed(d.ids \X LookupFields, d.version, generation)
  /\ queued' = queued \cup Missing(ids \X fields)'
  /\ flushDue' = (queued' # {})

ReportInit == RowInit /\ datasetsSent = {} /\ dataset = {}

ReportNext ==
  \/ RowNext /\ UNCHANGED reportVars
  \/ AskForDataset
  \/ \E since \in datasetsSent : DatasetLands(since)
  \/ \E d \in dataset, ids \in SUBSET Ids, fields \in SUBSET Fields :
       ShowDataset(d, ids, fields)

ReportSpec == ReportInit /\ [][ReportNext]_<<rowVars, reportVars>>

\* "Values from a request sent before the latest invalidation are drawn but read
\* again" (storeComputed), for the values of a report too.
ReportValuesAreCurrent == FreshIsCurrent

================================================================================
