------------------------------ MODULE Pipeline ------------------------------
(***************************************************************************)
(* src/deconet/Efficiency/epic_process/processing/transform_data.rs: a    *)
(* TransformationPipeline is a Vec of named transformations.  A caller    *)
(* adds, removes (by name) and clears transformations, and runs           *)
(* transform_data, which applies the pipeline to every value of a map.    *)
(*                                                                         *)
(* A transformation's closure is a model value of Funcs; names may repeat *)
(* (nothing in add_transformation prevents it).  A value is kept          *)
(* symbolically as the value given and the closures applied to it, in    *)
(* order, so apply is modelled by what it does without f64 arithmetic.    *)
(* The ghost variable history records the calls made, for the property.   *)
(***************************************************************************)
EXTENDS Naturals, Sequences, SequencesExt

CONSTANTS
    Names,          \* transformation names
    Funcs,          \* the closures (x * x, x * x * x, x * 2.0, 1.0 / x, ...)
    Data,           \* the map given to transform_data
    MaxCalls,       \* bound on add/remove/clear calls
    None

ASSUME MaxCalls \in Nat

Transformation == [name : Names, func : Funcs]

VARIABLES
    transformations,    \* self.transformations
    out,                \* what the last transform_data returned, or None
    history             \* ghost: the add/remove/clear calls made so far

vars == <<transformations, out, history>>

Call == [kind : {"add"}, arg : Transformation] \cup [kind : {"remove"}, arg : Names]
        \cup [kind : {"clear"}, arg : {None}]

(* apply: result = (t.func)(result) for each transformation in order. *)
Apply(ts, value) == [value |-> value, applied |-> [i \in 1..Len(ts) |-> ts[i].func]]

(* Fault: the key handed to apply instead of its value. *)
TransformDataKey(data, ts) == [k \in DOMAIN data |-> Apply(ts, k)]

(* transform_data: a new map with pipeline.apply(value) at every key. *)
TransformData(data, ts) == [k \in DOMAIN data |-> Apply(ts, data[k])]

TypeOK ==
    /\ transformations \in Seq(Transformation)
    /\ out = None \/ out \in [DOMAIN Data -> [value : Range(Data), applied : Seq(Funcs)]]
    /\ history \in Seq(Call)

Init ==
    /\ transformations = <<>>
    /\ out = None
    /\ history = <<>>

Record(c) ==
    /\ Len(history) < MaxCalls
    /\ history' = Append(history, c)
    /\ out' = None

(* add_transformation: transformations.push(transformation) *)
AddTransformation(t) ==
    /\ Record([kind |-> "add", arg |-> t])
    /\ transformations' = Append(transformations, t)

(* Fault: only the first transformation of that name removed. *)
RemoveFirstNamed(ts, name) ==
    IF \E i \in 1..Len(ts) : ts[i].name = name
    THEN RemoveAt(ts, CHOOSE i \in 1..Len(ts) :
                           ts[i].name = name /\ \A j \in 1..(i - 1) : ts[j].name # name)
    ELSE ts

(* retain(|transformation| transformation.name != name) *)
Retain(ts, name) == SelectSeq(ts, LAMBDA t : t.name # name)

(* remove_transformation(name) *)
RemoveTransformation(name) ==
    /\ Record([kind |-> "remove", arg |-> name])
    /\ transformations' = Retain(transformations, name)

(* clear_transformations: transformations.clear() *)
ClearTransformations ==
    /\ Record([kind |-> "clear", arg |-> None])
    /\ transformations' = <<>>

(* transform_data(data, &pipeline) *)
Transform ==
    /\ out' = TransformData(Data, transformations)
    /\ UNCHANGED <<transformations, history>>

Next ==
    \/ \E t \in Transformation : AddTransformation(t)
    \/ \E name \in Names : RemoveTransformation(name)
    \/ ClearTransformations
    \/ Transform

Spec == Init /\ [][Next]_vars

-----------------------------------------------------------------------------
(* Properties *)

(* The transformations a history of calls leaves in force: those added   *)
(* after the last clear whose name no later remove names, in the order  *)
(* they were added.                                                        *)
LastClear(h) == Max({0} \cup {i \in 1..Len(h) : h[i].kind = "clear"})

InForce(h) ==
    LET live == {i \in (LastClear(h) + 1)..Len(h) :
                    /\ h[i].kind = "add"
                    /\ \A j \in (i + 1)..Len(h) : h[j] # [kind |-> "remove", arg |-> h[i].arg.name]}
        idx == SetToSortSeq(live, <)
    IN  [j \in 1..Len(idx) |-> h[idx[j]].arg]

(* After any sequence of add, remove and clear calls, transform_data      *)
(* applies to every value exactly the transformations in force, in the   *)
(* order they were added: a removal by name takes out every duplicate   *)
(* and nothing else.                                                      *)
AppliesTransformationsInForce ==
    /\ transformations = InForce(history)
    /\ out # None =>
         \A k \in DOMAIN Data :
            /\ out[k].value = Data[k]
            /\ out[k].applied = [i \in 1..Len(InForce(history)) |-> InForce(history)[i].func]
=============================================================================
