----------------------------- MODULE DriftReports -----------------------------
(***************************************************************************)
(* app/monitoring/service.py behind /monitoring/run and /monitoring/latest *)
(* for one dataset: an analysis writes its HTML to disk, its row to        *)
(* PostgreSQL, and then the HTML to Redis, where a reader looks first.     *)
(***************************************************************************)
EXTENDS Naturals, FiniteSets

CONSTANTS Analyses, NoReport

VARIABLES
    analysis,  \* analysis -> where run_drift_analysis() is
    stamp,     \* analysis -> created_at of its row, from the flush on
    reports,   \* rows of monitoring_reports
    html,      \* files in REPORTS_DIR
    latest,    \* the key monitoring:latest:{dataset}
    reading,   \* get_latest_report_html(): "idle" or "database"
    served     \* history: reports that were answered

reportVars == <<analysis, stamp, reports, html, latest, reading, served>>

ReportsInit ==
    /\ analysis = [a \in Analyses |-> "idle"]
    /\ stamp = [a \in Analyses |-> 0]
    /\ reports = {}
    /\ html = {}
    /\ latest = NoReport
    /\ reading = "idle"
    /\ served = {}

AnalysisGoes(a, from, to) ==
    /\ analysis[a] = from
    /\ analysis' = [analysis EXCEPT ![a] = to]

(* Mutant: the report is cached as soon as it is written *)
AnalyseAndCache(a) ==
    \/ /\ AnalysisGoes(a, "idle", "flushed")
       /\ html' = html \cup {a}
       /\ stamp' = [stamp EXCEPT ![a] = 1 + Cardinality({b \in Analyses : stamp[b] > 0})]
       /\ latest' = a
       /\ UNCHANGED <<reports, reading, served>>
    \/ /\ AnalysisGoes(a, "idle", "failed")
       /\ UNCHANGED <<stamp, reports, html, latest, reading, served>>

(* Without a data file it ends; otherwise the report is written without    *)
(* giving way to another request, and so is its time                       *)
Analyse(a) ==
    \/ /\ AnalysisGoes(a, "idle", "flushed")
       /\ html' = html \cup {a}
       /\ stamp' = [stamp EXCEPT ![a] = 1 + Cardinality({b \in Analyses : stamp[b] > 0})]
       /\ UNCHANGED <<reports, latest, reading, served>>
    \/ /\ AnalysisGoes(a, "idle", "failed")
       /\ UNCHANGED <<stamp, reports, html, latest, reading, served>>

StoreReport(a) ==
    /\ \/ AnalysisGoes(a, "flushed", "stored") /\ reports' = reports \cup {a}
       \/ AnalysisGoes(a, "flushed", "failed") /\ UNCHANGED reports
    /\ UNCHANGED <<stamp, html, latest, reading, served>>

(* A SET that fails is ignored *)
CacheReport(a) ==
    /\ AnalysisGoes(a, "stored", "done")
    /\ latest' \in {latest, a}
    /\ UNCHANGED <<stamp, reports, html, reading, served>>

(* Redis has the report, or has nothing or does not answer *)
ReadCache ==
    /\ reading = "idle"
    /\ \/ latest # NoReport /\ served' = served \cup {latest} /\ UNCHANGED reading
       \/ reading' = "database" /\ UNCHANGED served
    /\ UNCHANGED <<analysis, stamp, reports, html, latest>>

(* The newest row, if its file is there *)
NewestReport == CHOOSE a \in reports : \A b \in reports : stamp[b] <= stamp[a]
ReadDatabase ==
    /\ reading = "database"
    /\ reading' = "idle"
    /\ served' = IF reports # {} /\ NewestReport \in html THEN served \cup {NewestReport} ELSE served
    /\ UNCHANGED <<analysis, stamp, reports, html, latest>>

(* The key expires after 30 days *)
ReportExpires ==
    /\ latest # NoReport
    /\ latest' = NoReport
    /\ UNCHANGED <<analysis, stamp, reports, html, reading, served>>

(* A new container has an empty REPORTS_DIR; requests end with the old one *)
ReportsRestart ==
    /\ html # {}
    /\ html' = {}
    /\ reading' = "idle"
    /\ analysis' = [a \in Analyses |-> IF analysis[a] = "idle" THEN "idle"
                                       ELSE IF analysis[a] = "done" THEN "done" ELSE "failed"]
    /\ UNCHANGED <<stamp, reports, latest, served>>

ReportsNext ==
    \/ \E a \in Analyses : Analyse(a) \/ StoreReport(a) \/ CacheReport(a)
    \/ ReadCache \/ ReadDatabase \/ ReportExpires \/ ReportsRestart

ReportsSpec == ReportsInit /\ [][ReportsNext]_reportVars

-----------------------------------------------------------------------------
(* Properties *)

(* Type invariant of the drift reports. *)
ReportsTypeOK ==
    /\ analysis \in [Analyses -> {"idle", "flushed", "stored", "done", "failed"}]
    /\ stamp \in [Analyses -> 0 .. Cardinality(Analyses)]
    /\ reports \subseteq Analyses
    /\ html \subseteq Analyses
    /\ latest \in Analyses \cup {NoReport}
    /\ reading \in {"idle", "database"}
    /\ served \subseteq Analyses

(* Nobody is served a report that is not in the history of its dataset,    *)
(* whichever of the analyses, the cache, the disk or the process fails     *)
(* (monitoring/service.py).                                                *)
ReportServedIsStored ==
    /\ served \subseteq reports
    /\ latest \in reports \cup {NoReport}
=============================================================================
