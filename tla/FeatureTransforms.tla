--------------------------- MODULE FeatureTransforms ---------------------------
(***************************************************************************)
(* The stateful transformations of app/features: FeatureTransformer fits   *)
(* every feature on the training table and transforms its rows             *)
(* (materializer.py); the predictor transforms one request with the states *)
(* fitted then (transform_single).  A table is what read_csv() makes of    *)
(* the file: a missing value turns the integers of its column into floats. *)
(* A computed number is left as what it is computed from; the four scalers *)
(* are one kind, and so are the seven parts of a date and the three        *)
(* measures of a text.                                                     *)
(***************************************************************************)
EXTENDS Integers, Sequences, FiniteSets, SequencesExt, FiniteSetsExt

CONSTANTS Fields,    \* columns
          Numbers,   \* integers in numeric columns
          Texts,     \* words in the others
          DateForm,  \* text -> the date format it has, or NoDate
          NoDate,
          Missing,   \* an empty cell of the file; a key the request leaves out
          Derived,   \* features: [kind, name (a column or NoName), hints]
          NoName,
          NumRows

ASSUME TransformsAssumption ==
    /\ Numbers \subseteq Int
    /\ Numbers \cap Texts = {}
    /\ Missing \notin Numbers \cup Texts
    /\ IsFiniteSet(Fields) /\ NoName \notin Fields
    /\ \A f \in Derived : f.name \in Fields \cup {NoName} /\ f.hints \subseteq Fields
    /\ NumRows \in Nat \ {0}

VARIABLES
    table,   \* column -> cells
    layout,  \* order of the columns in the table
    fits,    \* feature -> state, once fitted
    phase,   \* "raw", "fitted", "unfit" (the whole fit has failed), "asked"
    request, \* row asked for, and the keys of its JSON object in order
    answer   \* feature -> value of transform_single()

transformVars == <<table, layout, fits, phase, request, answer>>

Numeric(cells) == \A i \in DOMAIN cells : cells[i] \in Numbers \cup {Missing}
Present(cells) == SelectSeq(cells, LAMBDA v : v # Missing)

(* str() of a cell of the table, and of a value of the request *)
CellText(cells, i) ==
    IF cells[i] = Missing THEN <<"text", "nan">>
    ELSE <<CASE ~Numeric(cells) -> "text"
             [] Numeric(cells) /\ Missing \in Range(cells) -> "float"
             [] Numeric(cells) /\ Missing \notin Range(cells) -> "int", cells[i]>>

(* Mutant: numbers of a request are floats *)
ValueTextFloat(v) ==
    CASE v = Missing -> <<"text", "">>
      [] v \in Numbers -> <<"float", v>>
      [] OTHER -> <<"text", v>>

ValueText(v) ==
    CASE v = Missing -> <<"text", "">>
      [] v \in Numbers -> <<"int", v>>
      [] OTHER -> <<"text", v>>

Failed == <<"failed">>

-----------------------------------------------------------------------------
(* _build_metadata(): the column that bears the name of the feature, else  *)
(* the first whose name occurs in it, else the first                       *)
SourceColumn(f, keys) ==
    LET hinted == {i \in DOMAIN keys : keys[i] \in f.hints}
    IN IF f.name \in Range(keys) THEN f.name
       ELSE IF hinted # {} THEN keys[Min(hinted)]
       ELSE Head(keys)

NumericKinds == {"scale", "log"}
WordKinds == {"label", "frequency", "top"}

(* fit(), or the transform() after it, raises: arithmetic on words,        *)
(* mode()[0] of a column without any value                                 *)
Words(cells) == {CellText(cells, i) : i \in {j \in DOMAIN cells : cells[j] # Missing}}
FirstOf(cells, w) == CHOOSE i \in DOMAIN cells : CellText(cells, i) = w /\ \A j \in 1 .. i - 1 : CellText(cells, j) # w
Count(cells, w) == Cardinality({i \in DOMAIN cells : CellText(cells, i) = w})

FitFails(f, cells) ==
    \/ f.kind \in NumericKinds /\ ~Numeric(cells)
    \/ f.kind = "top" /\ Present(cells) = << >>

(* The scalers keep statistics of the present cells *)
FitState(f, cells) ==
    CASE f.kind = "scale" -> Present(cells)
      [] f.kind = "label" -> [w \in Words(cells) |-> Cardinality({x \in Words(cells) : FirstOf(cells, x) < FirstOf(cells, w)})]
      [] f.kind = "frequency" -> [w \in Words(cells) |-> Count(cells, w)]
      [] f.kind = "top" -> {w \in Words(cells) : \A x \in Words(cells) : Count(cells, x) <= Count(cells, w)}
      [] OTHER -> << >>

(* The encoders look a word up; what they do not know is -1, 0.0 or 0.     *)
(* Among equally frequent words, mode() sorts: one of them, always the same *)
Encode(f, state, w) ==
    CASE f.kind = "top" -> <<IF state # {} /\ w = CHOOSE x \in state : TRUE THEN 1 ELSE 0>>
      [] f.kind # "top" -> <<IF w \in DOMAIN state THEN state[w] ELSE IF f.kind = "label" THEN -1 ELSE 0>>

(* What to_datetime() cannot read is 0; a number is an offset from 1970 *)
ValueDate(v) == IF v = Missing \/ (v \in Texts /\ DateForm[v] = NoDate) THEN <<0>> ELSE <<"date", v>>

(* The format of the first value of a column is that of all the others *)
ColumnDate(cells, i) ==
    LET first == DateForm[cells[Min({j \in DOMAIN cells : cells[j] # Missing})]]
    IN IF cells[i] \in Texts /\ first \notin {NoDate, DateForm[cells[i]]}
       THEN <<0>> ELSE ValueDate(cells[i])

(* transform() of one cell *)
Transform(f, state, cells, i) ==
    CASE f.kind \in NumericKinds -> IF cells[i] = Missing THEN <<"nan">> ELSE <<cells[i], state>>
      [] f.kind \in WordKinds -> Encode(f, state, CellText(cells, i))
      [] f.kind = "date" -> ColumnDate(cells, i)
      [] f.kind = "binary" -> <<cells[i] # 0>>
      [] f.kind = "length" -> <<CellText(cells, i)>>
      [] OTHER -> <<cells[i]>>

(* transform_single(); an exception becomes 0.0 *)
TransformSingle(f, state, v) ==
    CASE f.kind \in NumericKinds -> IF v \in Texts THEN Failed
                                    ELSE <<IF v = Missing THEN 0 ELSE v, state>>
      [] f.kind \in WordKinds -> Encode(f, state, ValueText(v))
      [] f.kind = "date" -> ValueDate(v)
      [] f.kind = "binary" -> <<v # Missing /\ v # 0>>
      [] f.kind = "length" -> <<ValueText(v)>>
      [] OTHER -> <<v>>

-----------------------------------------------------------------------------
Contents == {[i \in 1 .. NumRows |-> s[i]] : s \in [1 .. NumRows -> Numbers \cup {Missing}]}
             \cup [1 .. NumRows -> Texts \cup {Missing}]

Orders(S) == {s \in [1 .. Cardinality(S) -> S] : Range(s) = S}

TransformInit ==
    /\ table \in [Fields -> Contents]
    /\ layout \in Orders(Fields)
    /\ fits = << >>
    /\ phase = "raw"
    /\ request = << >>
    /\ answer = << >>

SourceCells(f) == table[SourceColumn(f, layout)]

(* FeatureTransformer.fit(), then transform(): one failure fails them all *)
Fit ==
    /\ phase = "raw"
    /\ IF \E f \in Derived : FitFails(f, SourceCells(f))
       THEN phase' = "unfit" /\ UNCHANGED fits
       ELSE /\ phase' = "fitted"
            /\ fits' = [f \in Derived |-> FitState(f, SourceCells(f))]
    /\ UNCHANGED <<table, layout, request, answer>>

(* A request for the entity of row i, with its keys in some order and      *)
(* perhaps without some of them                                            *)
ServeRow ==
    /\ phase \in {"fitted", "asked"}
    /\ phase' = "asked"
    /\ \E i \in 1 .. NumRows, sent \in (SUBSET Fields) \ {{}} : \E keys \in Orders(sent) :
          /\ request' = <<i, keys>>
          /\ answer' = [f \in Derived |-> TransformSingle(f, fits[f], table[SourceColumn(f, keys)][i])]
    /\ UNCHANGED <<table, layout, fits>>

TransformNext == Fit \/ ServeRow

TransformSpec == TransformInit /\ [][TransformNext]_transformVars

-----------------------------------------------------------------------------
(* Properties *)

(* Type invariant of the transformer. *)
TransformTypeOK ==
    /\ table \in [Fields -> Contents]
    /\ layout \in Orders(Fields)
    /\ phase \in {"raw", "fitted", "unfit", "asked"}
    /\ phase \in {"fitted", "asked"} => DOMAIN fits = Derived
    /\ phase = "asked" => DOMAIN answer = Derived

Trained(f, i) == Transform(f, fits[f], SourceCells(f), i)

(* One column and only one can be meant by the name of the feature *)
Unambiguous(f) == f.name # NoName \/ Cardinality(f.hints) = 1

OneDateForm(cells) ==
    Cardinality({DateForm[cells[i]] : i \in {j \in DOMAIN cells : cells[j] \in Texts}} \ {NoDate}) <= 1

(* A request with a complete row of the training table is transformed into *)
(* what the model was trained on for that row, in whatever order its keys  *)
(* come, if the column has no gap and one date format and the name of the  *)
(* feature is the name of one column (transformer.py,                      *)
(* builtin_transformers.py).                                               *)
RowsServedAsTrained ==
    phase = "asked" =>
        \A f \in Derived :
            (/\ Range(request[2]) = Fields
             /\ Unambiguous(f)
             /\ Missing \notin Range(SourceCells(f))
             /\ OneDateForm(SourceCells(f)))
            => answer[f] = Trained(f, request[1])
=============================================================================
