------------------------------ MODULE DataChecks ------------------------------
(***************************************************************************)
(* app/data_quality: the contract of a dataset, inferred from the first    *)
(* table that is validated, the expectations generated from it, the gate   *)
(* that weighs the failed ones, and the transactions that store the lot.   *)
(* A table is abstracted to what the expectations ask of its columns.      *)
(***************************************************************************)
EXTENDS Naturals, FiniteSets, FiniteSetsExt

CONSTANTS Tables,     \* [types, key (the first column), gaps, repeats]
          Validators, \* calls of DataQualityService.validate_dataset()
          NoContract

ASSUME DataChecksAssumption ==
    \A t \in Tables :
        /\ IsFiniteSet(DOMAIN t.types)
        /\ t.key \in DOMAIN t.types
        /\ t.types \in [DOMAIN t.types -> {"number", "text", "other"}]
        /\ t.gaps \in [DOMAIN t.types -> {"none", "few", "many"}] \* many: above 5 %
        /\ t.repeats \subseteq DOMAIN t.types

VARIABLES
    contracts, \* rows of data_contracts, each with its expectation suite
    verdicts,  \* rows of validation_runs
    checks     \* the calls

checkVars == <<contracts, verdicts, checks>>

-----------------------------------------------------------------------------
(* generate_base_expectations() *)

Expect(kind, col, severity) == [kind |-> kind, col |-> col, severity |-> severity]

(* Mutant: the columns of the contract are as serious as their types *)
LenientExpectations(t) ==
    {Expect("columns", t.key, "ERROR"),
     Expect("present", t.key, "CRITICAL"), Expect("unique", t.key, "CRITICAL")}
    \cup {Expect("type", col, "ERROR") : col \in {x \in DOMAIN t.types : t.types[x] # "other"}}
    \cup {Expect("mostly", col, "WARNING") : col \in DOMAIN t.types \ {t.key}}

Expectations(t) ==
    {Expect("columns", t.key, "CRITICAL"),
     Expect("present", t.key, "CRITICAL"), Expect("unique", t.key, "CRITICAL")}
    \cup {Expect("type", col, "ERROR") : col \in {x \in DOMAIN t.types : t.types[x] # "other"}}
    \cup {Expect("mostly", col, "WARNING") : col \in DOMAIN t.types \ {t.key}}

(* Great Expectations: columns may be added (exact_match is False), nulls  *)
(* count for neither uniqueness nor type, and an expectation of a column   *)
(* that is missing raises, which counts as failed                          *)
Meets(t, e, of) ==
    IF e.kind = "columns" THEN DOMAIN of.types \subseteq DOMAIN t.types
    ELSE /\ e.col \in DOMAIN t.types
         /\ CASE e.kind = "present" -> t.gaps[e.col] = "none"
              [] e.kind = "mostly" -> t.gaps[e.col] # "many"
              [] e.kind = "unique" -> e.col \notin t.repeats
              [] e.kind = "type" -> t.types[e.col] = of.types[e.col]

FailedOnes(t, of) == {e \in Expectations(of) : ~Meets(t, e, of)}

(* QualityGate.evaluate(), scores in tenths of a point *)
Penalty == [CRITICAL |-> 200, ERROR |-> 100, WARNING |-> 25]

Evaluate(t, of) ==
    LET failed == FailedOnes(t, of)
        sum == MapThenSumSet(LAMBDA e : Penalty[e.severity], failed)
    IN [halt |-> \E e \in failed : e.severity = "CRITICAL",
        score |-> IF sum > 1000 THEN 0 ELSE 1000 - sum]

-----------------------------------------------------------------------------
Contract(version, t) == [version |-> version, of |-> t]

(* get_by_dataset(): the latest contract other transactions see *)
Active == IF contracts = {} THEN NoContract
          ELSE CHOOSE c \in contracts : \A d \in contracts : d.version <= c.version

IdleCheck == [step |-> "idle", table |-> NoContract, own |-> FALSE,
              contract |-> NoContract, verdict |-> [halt |-> FALSE, score |-> 0]]

ChecksInit ==
    /\ contracts = {}
    /\ verdicts = {}
    /\ checks = [v \in Validators |-> IdleCheck]

CheckAt(v, step) == checks[v].step = step

CheckStart(v) ==
    /\ CheckAt(v, "idle")
    /\ \E t \in Tables : checks' = [checks EXCEPT ![v].step = "lookup", ![v].table = t]
    /\ UNCHANGED <<contracts, verdicts>>

(* get_or_create_contract() *)
CheckLookup(v) ==
    /\ CheckAt(v, "lookup")
    /\ checks' = [checks EXCEPT ![v].step = IF contracts = {} THEN "create" ELSE "judge",
                                ![v].contract = Active]
    /\ UNCHANGED <<contracts, verdicts>>

(* DataContractRepository.create() looks again for the version to give *)
CheckCreate(v) ==
    /\ CheckAt(v, "create")
    /\ LET version == IF contracts = {} THEN 1 ELSE Active.version + 1
       IN checks' = [checks EXCEPT ![v].step = "flush",
                                   ![v].contract = Contract(version, checks[v].table)]
    /\ UNCHANGED <<contracts, verdicts>>

(* uq_contract_version: the INSERT waits for a transaction that has        *)
(* inserted the same version, and fails once that one is committed         *)
Inserting(version) ==
    {w \in Validators : checks[w].own /\ checks[w].contract.version = version
                        /\ checks[w].step \in {"judge", "judged"}}
(* Mutant: no uq_contract_version *)
NeverNumbered(version) == FALSE

Numbered(version) == \E c \in contracts : c.version = version

CheckFlush(v) ==
    /\ CheckAt(v, "flush")
    /\ Inserting(checks[v].contract.version) = {}
    /\ checks' = IF Numbered(checks[v].contract.version)
                 THEN [checks EXCEPT ![v].step = "failed"]
                 ELSE [checks EXCEPT ![v].step = "judge", ![v].own = TRUE]
    /\ UNCHANGED <<contracts, verdicts>>

(* get_or_create_suite(), the validation, and the rows of the run *)
CheckJudge(v) ==
    /\ CheckAt(v, "judge")
    /\ checks' = [checks EXCEPT ![v].step = "judged",
                     ![v].verdict = Evaluate(checks[v].table, checks[v].contract.of)]
    /\ UNCHANGED <<contracts, verdicts>>

(* The caller ends the transaction.  Only the discovery commits, and not a *)
(* verdict that halts; one whose event could not be published is rolled    *)
(* back, and so is whatever the lifecycle handler validated.               *)
CheckCommit(v) ==
    /\ CheckAt(v, "judged")
    /\ ~checks[v].verdict.halt
    /\ checks' = [checks EXCEPT ![v].step = "done"]
    /\ contracts' = IF checks[v].own THEN contracts \cup {checks[v].contract} ELSE contracts
    /\ verdicts' = verdicts \cup {[table |-> checks[v].table, contract |-> checks[v].contract,
                                   score |-> checks[v].verdict.score]}

CheckRollback(v) ==
    /\ CheckAt(v, "judged")
    /\ checks' = [checks EXCEPT ![v].step = "failed"]
    /\ UNCHANGED <<contracts, verdicts>>

ChecksNext ==
    \E v \in Validators :
        \/ CheckStart(v) \/ CheckLookup(v) \/ CheckCreate(v) \/ CheckFlush(v)
        \/ CheckJudge(v) \/ CheckCommit(v) \/ CheckRollback(v)

ChecksSpec == ChecksInit /\ [][ChecksNext]_checkVars

-----------------------------------------------------------------------------
(* Properties *)

Contracts == [version : 1 .. Cardinality(Validators), of : Tables]

(* Type invariant of the data quality tables and calls. *)
ChecksTypeOK ==
    /\ contracts \subseteq Contracts
    /\ verdicts \subseteq [table : Tables, contract : Contracts, score : 0 .. 1000]
    /\ checks \in [Validators ->
          [step : {"idle", "lookup", "create", "flush", "judge", "judged", "done", "failed"},
           table : Tables \cup {NoContract}, own : BOOLEAN,
           contract : Contracts \cup {NoContract}, verdict : [halt : BOOLEAN, score : 0 .. 1000]]]

(* Validations that race to infer the contract of a dataset leave versions *)
(* numbered from 1 without a repetition, and every stored run belongs to a *)
(* stored contract (repositories.py, contracts.py).                        *)
ContractsNumbered ==
    /\ {c.version : c \in contracts} = 1 .. Cardinality(contracts)
    /\ \A r \in verdicts : r.contract \in contracts

(* The schema is what a table is halted for, and nothing else: a column of *)
(* the contract that is missing, or its key with a gap or a repetition.    *)
Breaks(t, of) ==
    \/ DOMAIN of.types \ DOMAIN t.types # {}
    \/ t.gaps[of.key] # "none"
    \/ of.key \in t.repeats

(* The suite, the severities and the gate together mean that: a table with *)
(* more columns, other types or gaps elsewhere loses points, but passes    *)
(* (expectations.py, gates.py).                                            *)
VerdictMeansSchema ==
    \A v \in Validators : CheckAt(v, "judged") =>
        LET of == checks[v].contract.of
            t == checks[v].table
        IN /\ checks[v].verdict.halt <=> Breaks(t, of)
           /\ checks[v].verdict.halt => checks[v].verdict.score <= 800
           /\ checks[v].own /\ t.gaps[t.key] = "none" /\ t.key \notin t.repeats
              => ~checks[v].verdict.halt
=============================================================================
