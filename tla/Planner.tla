-------------------------------- MODULE Planner -------------------------------
(***************************************************************************)
(* From a query document to the sketches that answer it: validation of the *)
(* document (flowsketch-ir), choice and sizing of the sketches             *)
(* (flowsketch-planner) and what the runtime can build (flowsketch-runtime)*)
(* Sizes are bytes.  An error bound is the name of a row of Accuracy, which*)
(* has what the code computes from the two floating-point numbers before it*)
(* clamps them; a bound outside (0, 1) has no row, and depth 0 is a delta  *)
(* below the confidence floor of the hash.                                 *)
(***************************************************************************)
EXTENDS Naturals, Sequences, SequencesExt, FiniteSets, FiniteSetsExt

CONSTANTS
  Accuracy,        \* Accuracy[e] : [width, depth, capacity, precision, k]
  EntropyAccuracy, \* the row of 0.0163, the HLL error of entropy plans
  DefaultMemory    \* DEFAULT_MAX_MEMORY_BYTES

(* E / epsilon is never below 1. *)
ASSUME PlannerAssumption ==
  /\ EntropyAccuracy \in DOMAIN Accuracy
  /\ \A e \in DOMAIN Accuracy :
       Accuracy[e] \in [width : Nat \ {0}, depth : Nat, capacity : Nat, precision : Nat, k : Nat]
  /\ DefaultMemory \in Nat

-------------------------------------------------------------------------------
(* Fields of an event, with their longest encodings. *)
EncodedLen == [srcIp |-> 39, dstIp |-> 39, dstPort |-> 5, protocol |-> 6, bytes |-> 10]

Field   == DOMAIN EncodedLen
Numeric == {"bytes"}

(* A query document, before validation: "none" is an unusable name or an   *)
(* absent field, filter whether `match' is well-formed, memory a sequence  *)
(* of at most one budget, q a percentage.                                  *)
Document ==
  [name : STRING, size : Nat, slide : Nat, group : Seq(STRING), filter : BOOLEAN,
   measure : STRING, field : STRING, limit : Nat, q : Nat, error : STRING, lt : BOOLEAN,
   series : Nat, memory : Seq(Nat)]

MeasureOk(d) ==
  CASE d.measure = "count"         -> TRUE
    [] d.measure = "sum"           -> d.field \in Numeric
    [] d.measure = "heavy_hitters" -> d.field \in Numeric /\ d.limit > 0 /\ d.group # <<>>
    [] d.measure = "distinct"      -> d.field \in Field \ Range(d.group)
    [] d.measure = "entropy"       -> d.field \in Field
    [] d.measure = "quantile"      -> d.field \in Numeric
    [] OTHER                       -> FALSE

(* RawQuery::into_logical. *)
Valid(d) ==
  /\ d.name # "none"
  /\ d.size > 0 /\ d.slide > 0 /\ d.slide <= d.size /\ d.size % d.slide = 0
  /\ Range(d.group) \subseteq Field /\ IsInjective(d.group)
  /\ d.filter
  /\ d.error \in DOMAIN Accuracy
  /\ MeasureOk(d)
  /\ d.series > 0

Budget(d) == IF d.memory = <<>> THEN DefaultMemory ELSE d.memory[1]

-------------------------------------------------------------------------------
(* PhysicalSketch and its estimated memory. *)
StageBytes(s, keyBytes) ==
  CASE s.kind = "countMin"    -> s.width * s.depth * 8 + 64
    [] s.kind = "spaceSaving" -> s.capacity * (keyBytes + 192) + 128
    [] s.kind = "hll"         -> 2 ^ s.precision + 64
    [] s.kind = "hllMap"      -> s.keys * (2 ^ s.precision + 2 * keyBytes + 48 + 32) + 64
    [] s.kind = "kll"         -> s.k * 3 * 8 + 64

StateBytes(stages, keyBytes) ==
  FoldLeft(LAMBDA sum, s : sum + StageBytes(s, keyBytes), 0, stages)

Clamp(n, low, high) == Min({Max({n, low}), high})

Precision(e) == Clamp(Accuracy[e].precision, 4, 18)

(* maximum_stored_key_bytes: the fields, and separators between them. *)
KeyBytes(d) ==
  LET fields == CASE d.measure = "entropy"  -> <<d.field>>
                  [] d.measure = "quantile" -> <<>>
                  [] OTHER                  -> d.group
  IN  FoldLeft(LAMBDA sum, f : sum + EncodedLen[f], 0, fields)
        + (IF fields = <<>> THEN 0 ELSE Len(fields) - 1)

Buckets(d) == Max({d.size \div d.slide, 1})

(* Open buckets, completed windows that wait, and one merge in progress. *)
Resident(d) == Buckets(d) + Buckets(d) + 1

(* Mutant: completed windows are not charged. *)
MutantHllKeyBudget(d) ==
  LET perKey == 2 ^ Precision(d.error) + 2 * KeyBytes(d) + 48 + 32
      share  == Budget(d) \div (Buckets(d) + 1)
  IN  IF share < 64 THEN 0 ELSE (share - 64) \div perKey

(* Keys of an HllMap that the budget can hold. *)
HllKeyBudget(d) ==
  LET perKey == 2 ^ Precision(d.error) + 2 * KeyBytes(d) + 48 + 32
      share  == Budget(d) \div Resident(d)
  IN  IF share < 64 THEN 0 ELSE (share - 64) \div perKey

HllKeyPreference(d) == Clamp(d.series * 4, 1024, 65536)

(* The sketches for a query, <<>> if it is rejected. *)
SpaceSavingOf(capacity) == [kind |-> "spaceSaving", capacity |-> capacity]

DistinctStages(d) ==
  IF d.group = <<>> THEN <<[kind |-> "hll", precision |-> Precision(d.error)]>>
  ELSE IF HllKeyBudget(d) < Min({d.series, HllKeyPreference(d)}) THEN <<>>
  ELSE <<[kind |-> "hllMap", precision |-> Precision(d.error),
          keys |-> Min({HllKeyPreference(d), HllKeyBudget(d)})]>>

EntropyStages(d) ==
  IF d.group # <<>> THEN <<>>
  ELSE <<SpaceSavingOf(Clamp(Accuracy[d.error].capacity, 256, 2 ^ 16)),
         [kind |-> "hll", precision |-> Precision(EntropyAccuracy)]>>

QuantileStages(d) ==
  IF d.group # <<>> \/ d.q > 100 THEN <<>>
  ELSE <<[kind |-> "kll", k |-> Clamp(Accuracy[d.error].k, 8, 2 ^ 16)]>>

Stages(d) ==
  LET a == Accuracy[d.error]
  IN  CASE d.measure \in {"count", "sum"} ->
             <<SpaceSavingOf(Clamp(d.series * 4, 256, 65536)),
               [kind |-> "countMin", width |-> a.width, depth |-> a.depth]>>
        [] d.measure = "heavy_hitters" ->
             <<SpaceSavingOf(Clamp(Max({a.capacity, d.limit * 4}), 256, 2 ^ 20))>>
        [] d.measure = "distinct" -> DistinctStages(d)
        [] d.measure = "entropy"  -> EntropyStages(d)
        [] d.measure = "quantile" -> QuantileStages(d)

(* The series a plan may export. *)

ExportBound(d) ==
  CASE d.measure \in {"count", "sum"}                -> d.series
    [] d.measure = "heavy_hitters"                   -> Min({d.limit, d.series})
    [] d.measure = "distinct" /\ d.group # <<>>      -> Min({d.series, Stages(d)[1].keys})
    [] OTHER                                         -> 1

MemoryOf(d) == StateBytes(Stages(d), KeyBytes(d)) * Resident(d)

(* alertIf.lt needs every group enumerated. *)
Plannable(d) ==
  /\ d.group # <<>> => ~d.lt
  /\ d.measure \in {"count", "sum"} => Accuracy[d.error].depth > 0
  /\ Stages(d) # <<>>
  /\ MemoryOf(d) <= Budget(d)

Plan(d) == [name   |-> d.name, stages |-> Stages(d), buckets |-> Buckets(d),
            memory |-> MemoryOf(d), series |-> ExportBound(d)]

-------------------------------------------------------------------------------
(* QueryState::build: the shapes the runtime executes, and what the        *)
(* constructors of the sketches demand.                                    *)
Constructs(s) ==
  CASE s.kind = "countMin"    -> s.width > 0 /\ s.depth > 0
    [] s.kind = "spaceSaving" -> s.capacity > 0
    [] s.kind = "hll"         -> s.precision \in 4 .. 18
    [] s.kind = "hllMap"      -> s.keys > 0 /\ s.precision \in 4 .. 18
    [] s.kind = "kll"         -> s.k >= 8

Shape(stages) == [i \in DOMAIN stages |-> stages[i].kind]

Buildable(stages) ==
  /\ Shape(stages) \in {<<"spaceSaving">>, <<"hllMap">>, <<"hll">>, <<"kll">>,
                        <<"spaceSaving", "countMin">>, <<"spaceSaving", "hll">>}
  /\ \A i \in DOMAIN stages : Constructs(stages[i])
===============================================================================
