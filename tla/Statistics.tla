----------------------------- MODULE Statistics -----------------------------
(***************************************************************************)
(* src/deconet/Efficiency/epic_process/processing/analyze_data.rs (sum,   *)
(* mean, median, standard_deviation), clean_data.rs (clean_data) and      *)
(* process_data.rs (process_data; its mean, median and standard_deviation *)
(* are the same code, taking the map by value) over one HashMap<String,  *)
(* f64>.  A caller builds the map with insert, may clean it, and asks for *)
(* the statistics or a processed copy, in any order.                      *)
(*                                                                         *)
(* f64 values are abstracted to small integers and the model value NaN.  *)
(* Results are kept exact: mean as the fraction [num, den], median       *)
(* doubled (the code halves the sum of the two middle values) and the     *)
(* standard deviation by its square, the variance, as a fraction.  NaN       *)
(* propagates through + and /, and 0.0 / 0.0 is NaN.  median panics where *)
(* the code does: partial_cmp(..).unwrap() is None as soon as the sort    *)
(* compares a NaN (which it does for two or more values), and an empty   *)
(* map takes the even branch with mid = 0, so mid - 1 underflows (debug) *)
(* or indexes out of bounds (release).  A panic ends the process.         *)
(***************************************************************************)
EXTENDS Naturals, FiniteSets, Sequences, SequencesExt, Functions

CONSTANTS
    Keys,           \* the String keys
    Values,         \* the finite f64 values (small naturals)
    NaN,            \* f64::NAN
    None, Panic

ASSUME Values \subseteq Nat

VARIABLES
    data,           \* the HashMap: a function from the keys present
    last            \* the last statistic asked for: [op, out], or None

vars == <<data, last>>

Maps == UNION {[D -> Values \cup {NaN}] : D \in SUBSET Keys}

HasNaN(d) == NaN \in Range(d)

Count(d, v) == Cardinality({k \in DOMAIN d : d[k] = v})

(* sorted_values: data.values() collected and sorted ascending (only      *)
(* used when the sort completes, i.e. without NaN or with one value).    *)
SortedValues(d) ==
    CHOOSE s \in [1..Cardinality(DOMAIN d) -> Range(d)] :
        /\ IsSorted(s, LAMBDA a, b : a = NaN \/ b = NaN \/ a <= b)
        /\ \A v \in Range(d) : Cardinality({i \in DOMAIN s : s[i] = v}) = Count(d, v)

(* sum: data.values().sum() *)
Sum(d) == IF HasNaN(d) THEN NaN ELSE SumFunction(d)

(* Fault: the division by zero of an empty map taken as a number. *)
MeanNoNaN(d) ==
    IF HasNaN(d) THEN NaN ELSE [num |-> SumFunction(d), den |-> Cardinality(DOMAIN d)]

(* mean: sum / count as f64; 0.0 / 0.0 is NaN. *)
Mean(d) ==
    IF HasNaN(d) \/ DOMAIN d = {} THEN NaN
    ELSE [num |-> SumFunction(d), den |-> Cardinality(DOMAIN d)]

(* Fault: the sample variance, divided by n - 1; 0.0 / 0.0 is NaN. *)
VarianceSample(d) ==
    LET m == Mean(d) IN
    IF m = NaN \/ m.den = 1 THEN NaN
    ELSE [num |-> SumFunction([k \in DOMAIN d |-> (m.den * d[k] - m.num)^2]),
          den |-> m.den^2 * (m.den - 1)]

(* standard_deviation, squared: mean_value = S / n, then the sum of      *)
(* (v - S / n)^2 = (n * v - S)^2 / n^2 over the values, divided by n;    *)
(* NaN as soon as the mean is.  sqrt is monotone and left implicit.      *)
Variance(d) ==
    LET m == Mean(d) IN
    IF m = NaN THEN NaN
    ELSE [num |-> SumFunction([k \in DOMAIN d |-> (m.den * d[k] - m.num)^2]),
          den |-> m.den^3]

(* The closures main passes: |x| x * x, |x| x * x * x, |x| x * 2.0. *)
Closure(op, x) ==
    IF x = NaN THEN NaN ELSE [square |-> x * x, cube |-> x * x * x, double |-> 2 * x][op]

Closures == {"square", "cube", "double"}

(* process_data: a new map with every key's value passed through the     *)
(* operation; data itself is moved in and dropped.                       *)
ProcessData(d, op) == [k \in DOMAIN d |-> Closure(op, d[k])]

MedianPanics(d) ==
    \/ DOMAIN d = {}
    \/ HasNaN(d) /\ Cardinality(DOMAIN d) >= 2

(* Fault: the upper middle value alone taken for an even count. *)
MedianUpper(d) ==
    LET s == SortedValues(d)
        count == Len(s)
        mid == count \div 2
    IN  IF count % 2 = 0 THEN 2 * s[mid + 1]
        ELSE IF s[mid + 1] = NaN THEN NaN ELSE 2 * s[mid + 1]

(* median, doubled: (sorted[mid - 1] + sorted[mid]) for an even count,    *)
(* else sorted[count / 2] (0-based in the code, 1-based here).            *)
Median(d) ==
    LET s == SortedValues(d)
        count == Len(s)
        mid == count \div 2
    IN  IF count % 2 = 0 THEN s[mid] + s[mid + 1]
        ELSE IF s[mid + 1] = NaN THEN NaN ELSE 2 * s[mid + 1]

TypeOK ==
    /\ data \in Maps
    /\ \/ last = None
       \/ /\ last \in [op : {"sum", "mean", "median", "standard_deviation"} \cup Closures,
                       out : {last.out}]
          /\ \/ last.out \in {NaN, Panic}
             \/ last.op = "mean" /\ last.out \in [num : Nat, den : 1..Cardinality(Keys)]
             \/ last.op = "standard_deviation" /\ last.out \in [num : Nat, den : Nat \ {0}]
             \/ last.op \in Closures /\ last.out \in [DOMAIN data -> Nat \cup {NaN}]
             \/ last.op \in {"sum", "median"} /\ last.out \in Nat

(* let mut data = HashMap::new() (hashmap![] of no entries) *)
Init ==
    /\ data = [k \in {} |-> NaN]
    /\ last = None

NotPanicked == IF last = None THEN TRUE ELSE last.out # Panic

(* data.insert(key, value): a new key or an overwritten value. *)
Insert(k, v) ==
    /\ NotPanicked
    /\ data' = (k :> v) @@ data
    /\ last' = None

(* clean_data: data.retain(|_key, value| !value.is_nan()) *)
CleanData ==
    /\ NotPanicked
    /\ data' = [k \in {j \in DOMAIN data : data[j] # NaN} |-> data[k]]
    /\ last' = None

Analyse(op, out) ==
    /\ NotPanicked
    /\ last' = [op |-> op, out |-> out]
    /\ UNCHANGED data

Next ==
    \/ \E k \in Keys, v \in Values \cup {NaN} : Insert(k, v)
    \/ CleanData
    \/ Analyse("sum", Sum(data))
    \/ Analyse("mean", Mean(data))
    \/ Analyse("median", IF MedianPanics(data) THEN Panic ELSE Median(data))
    \/ Analyse("standard_deviation", Variance(data))
    \/ \E op \in Closures : Analyse(op, ProcessData(data, op))

Spec == Init /\ [][Next]_vars

-----------------------------------------------------------------------------
(* Properties *)

(* The r-th smallest value of d, defined by counting, not by sorting. *)
OrderStat(d, r) ==
    CHOOSE v \in Range(d) :
        /\ Cardinality({k \in DOMAIN d : d[k] < v}) < r
        /\ Cardinality({k \in DOMAIN d : d[k] <= v}) >= r

(* The statistics are the textbook ones, whatever order the HashMap    *)
(* yields its values in: median (doubled) is the middle order statistic  *)
(* for an odd count and the sum of the two middle ones for an even      *)
(* count; standard_deviation, squared, is the population variance        *)
(* (n * sum of squares - sum^2) / n^2; and mean and standard_deviation   *)
(* are NaN only for an empty map or one holding a NaN.                   *)
StatisticsMatchDefinitions ==
    last # None =>
        LET n == Cardinality(DOMAIN data)
            S == SumFunction(data)
            Q == SumFunction([k \in DOMAIN data |-> data[k] * data[k]])
        IN  /\ (last.op \in {"mean", "standard_deviation"} /\ last.out = NaN) =>
                   (n = 0 \/ HasNaN(data))
            /\ (last.op = "median" /\ last.out \notin {Panic, NaN}) =>
                   last.out = IF n % 2 = 1 THEN 2 * OrderStat(data, (n + 1) \div 2)
                              ELSE OrderStat(data, n \div 2) + OrderStat(data, n \div 2 + 1)
            /\ (last.op = "standard_deviation" /\ last.out # NaN) =>
                   last.out.num * n^2 = (n * Q - S^2) * last.out.den
=============================================================================
