------------------------------- MODULE Chart -------------------------------
(***************************************************************************)
(* src/deconet/Efficiency/epic_process/processing/visualize_data.rs: a    *)
(* Chart's data_sets Vec changed by add_data_set, remove_data_set and     *)
(* clear_data_sets and drawn by plot; and visualize_data, which builds a *)
(* chart of its own from a HashMap (one data set per key, in the map's    *)
(* iteration order, coloured colors[idx % colors.len()]) and plots it.   *)
(*                                                                         *)
(* plot's drawing calls into plotters may fail.  Each failure is where    *)
(* the code meets it: the fill, the axes and the mesh before the loop,   *)
(* then per data set the circles (.unwrap(), a panic) and the line (?),  *)
(* then the legend; every ? returns Err.  A panic ends the process.      *)
(* The points, titles and styles are left out: the code draws them        *)
(* whatever they are.                                                      *)
(***************************************************************************)
EXTENDS Naturals, Sequences, SequencesExt

CONSTANTS
    Labels,         \* data-set labels
    Colors,         \* the palette, a sequence (ten colours in the code)
    MaxSets         \* bound on the data sets of the caller's chart

ASSUME Len(Colors) > 0 /\ MaxSets \in Nat

DataSets == [label : Labels, color : Range(Colors)]

VARIABLES
    data_sets,      \* the caller's chart
    shown,          \* the data sets of the chart plot was last called on
    drawn,          \* how many of them that plot drew, circles and line
    result          \* "none", or what the last plot or visualize_data did

vars == <<data_sets, shown, drawn, result>>

TypeOK ==
    /\ data_sets \in Seq(DataSets) /\ Len(data_sets) <= MaxSets
    /\ shown \in Seq(DataSets)
    /\ drawn \in 0..Len(shown)
    /\ result \in {"none", "ok", "err", "panic"}

Init ==
    /\ data_sets = <<>>
    /\ shown = <<>>
    /\ drawn = 0
    /\ result = "none"

Alive == result # "panic"

(* add_data_set: self.data_sets.push(data_set) *)
AddDataSet(ds) ==
    /\ Alive
    /\ Len(data_sets) < MaxSets
    /\ data_sets' = Append(data_sets, ds)
    /\ UNCHANGED <<shown, drawn, result>>

(* remove_data_set: retain(|data_set| data_set.label != label) *)
RemoveDataSet(l) ==
    /\ Alive
    /\ data_sets' = SelectSeq(data_sets, LAMBDA ds : ds.label # l)
    /\ UNCHANGED <<shown, drawn, result>>

(* clear_data_sets *)
ClearDataSets ==
    /\ Alive
    /\ data_sets' = <<>>
    /\ UNCHANGED <<shown, drawn, result>>

(* plot of a chart of n data sets: the outcomes [result, drawn] the      *)
(* order of its calls allows.  A failure before the loop draws nothing;  *)
(* one at data set i has drawn the i - 1 before it; the legend comes     *)
(* after all of them.                                                     *)
PlotOutcomes(n) ==
    {[result |-> "err", drawn |-> 0]}
    \cup {[result |-> r, drawn |-> i - 1] : r \in {"panic", "err"}, i \in 1..n}
    \cup {[result |-> r, drawn |-> n] : r \in {"err", "ok"}}

(* Draws chart, whatever it is, and records the outcome. *)
PlotChart(chart) ==
    /\ shown' = chart
    /\ \E o \in PlotOutcomes(Len(chart)) :
          /\ result' = o.result
          /\ drawn' = o.drawn

(* plot of the caller's chart *)
Plot ==
    /\ Alive
    /\ PlotChart(data_sets)
    /\ UNCHANGED data_sets

(* colors[idx % colors.len()], idx from 0 *)
ColorOf(idx) == Colors[(idx % Len(Colors)) + 1]

(* visualize_data: a new chart, one data set per key in the order the    *)
(* HashMap yields them, then chart.plot()?.  The caller's chart is not   *)
(* touched.                                                                *)
VisualizeData(keys) ==
    /\ Alive
    /\ PlotChart([i \in 1..Len(keys) |-> [label |-> keys[i], color |-> ColorOf(i - 1)]])
    /\ UNCHANGED data_sets

Next ==
    \/ \E ds \in DataSets : AddDataSet(ds)
    \/ \E l \in Labels : RemoveDataSet(l)
    \/ ClearDataSets
    \/ Plot
    \/ \E keys \in SetToAllKPermutations(Labels) : VisualizeData(keys)

Spec == Init /\ [][Next]_vars
=============================================================================
