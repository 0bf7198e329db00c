-------------------------------- MODULE SeqView --------------------------------
(****************************************************************************)
(* interface/seqptr.hpp, interface/ranger.hpp, algo/insert.hpp,             *)
(* algo/remove.hpp and memop/copy.hpp: a sequence is a view of memory that  *)
(* somebody else owns.  A ranger may run downwards, a seqptr may not;       *)
(* slices are views of the same memory, and insert and remove move items    *)
(* through the view, whichever way it runs.                                 *)
(* `cells` is the memory, `view` the sequence, `edit` the call that was     *)
(* made last, with the memory and the view it found.                        *)
(****************************************************************************)
EXTENDS IndexSystem, SequencesExt

CONSTANTS Cells,       \* the number of cells of the memory
          GivenItems     \* the sequences a caller inserts

VARIABLES cells, view, edit
viewVars == <<cells, view, edit>>

Cell == 0 .. Cells - 1
Untouched == [op |-> "none"]
Destroyed == 0

View == [ofs : Int, len : 0 .. Cells, turned : BOOLEAN, reversible : BOOLEAN]

(* access: the address of item i                                            *)
Place(v, i) == IF v.turned THEN v.ofs - i ELSE v.ofs + i
ViewPlaces(v) == {Place(v, i) : i \in 0 .. v.len - 1}
Items(v, m) == [i \in 1 .. v.len |-> m[Place(v, i - 1)]]

(* A slip: a turned view is sliced as if it were not                        *)
SubRanger_Upwards(v, i) ==
    LET up == i.left <= i.right
    IN  [v EXCEPT !.ofs = v.ofs + i.left,
                  !.len = IF up THEN i.right - i.left + 1 ELSE i.left - i.right + 1,
                  !.turned = IF up THEN v.turned ELSE ~v.turned]

(* subseq of a ranger: from the last place to the first, the view turns     *)
SubRanger(v, i) ==
    LET up == i.left <= i.right
    IN  [v EXCEPT !.ofs = Place(v, i.left),
                  !.len = IF up THEN i.right - i.left + 1 ELSE i.left - i.right + 1,
                  !.turned = IF up THEN v.turned ELSE ~v.turned]

(* subseq of a seqptr, which has no direction                               *)
SubPtr(v, i) == [v EXCEPT !.ofs = v.ofs + i.left, !.len = i.right - i.left + 1]

(* backward(offset): the view without its first items                       *)
Shortened(v, n) == [v EXCEPT !.ofs = Place(v, n), !.len = v.len - n]

(* The cells that the view would have with n items more                     *)
Grown(v, n) == [v EXCEPT !.len = v.len + n]
Fits(v) == v.len = 0 \/ ViewPlaces(v) \subseteq Cell

(* copy_with_operator(target, source, count): from the end when the target  *)
(* lies above the source                                                    *)
CopyOrder(t, s, count) ==
    IF Place(t, 0) > Place(s, 0) THEN [k \in 1 .. count |-> count - k] ELSE [k \in 1 .. count |-> k - 1]
CopyItems(m, t, s, count) ==
    FoldLeft(LAMBDA a, i : [a EXCEPT ![Place(t, i)] = a[Place(s, i)]], m, CopyOrder(t, s, count))

(* A slip: first item first                                                 *)
MoveUp_FirstFirst(m, v, index, by) ==
    FoldLeft(LAMBDA a, i : [a EXCEPT ![Place(v, i + by)] = a[Place(v, i)]], m,
             [k \in 1 .. v.len - index |-> index + k - 1])

(* insert_core in place: the items behind the index move up, last first     *)
MoveUp(m, v, index, by) ==
    FoldLeft(LAMBDA a, i : [a EXCEPT ![Place(v, i + by)] = a[Place(v, i)]], m,
             [k \in 1 .. v.len - index |-> v.len - k])
Written(m, v, index, values) ==
    FoldLeft(LAMBDA a, k : [a EXCEPT ![Place(v, index + k - 1)] = values[k]], m,
             [k \in DOMAIN values |-> k])
InsertedIn(m, v, index, values) ==
    Written(MoveUp(m, v, index, Len(values)), v, index, values)

(* A slip: one item too few moves                                           *)
MoveDown_OneLess(m, v, l, r) ==
    FoldLeft(LAMBDA a, i : [a EXCEPT ![Place(v, l + i)] = a[Place(v, r + i + 1)]], m,
             [k \in 1 .. v.len - r - 2 |-> k - 1])

(* remove_core in place: the items behind the removed ones move down, then  *)
(* one destructor runs for each place from the new end on, as many as the   *)
(* sequence is longer than what was moved: l of them lie behind its end     *)
MoveDown(m, v, l, r) ==
    FoldLeft(LAMBDA a, i : [a EXCEPT ![Place(v, l + i)] = a[Place(v, r + i + 1)]], m,
             [k \in 1 .. v.len - r - 1 |-> k - 1])
RemovedFrom(m, v, l, r) ==
    LET ended == {Place(v, l + i) : i \in v.len - r - 1 .. v.len - 1}
    IN  [c \in Cell |-> IF c \in ended THEN Destroyed ELSE MoveDown(m, v, l, r)[c]]

(* remove_core into another sequence: what lies on the left, what lies on   *)
(* the right, as slices of the source                                       *)
RemovedInto(m, t, v, l, r) ==
    LET slice(i) == IF v.reversible THEN SubRanger(v, i) ELSE SubPtr(v, i)
        right    == Normalized("oo", r, -1, v.len)
        copied   == CopyItems(m, t, v, l)
    IN  IF r = v.len - 1 THEN copied
                         ELSE CopyItems(copied, Shortened(t, l), slice(right), v.len - r - 1)

InsertedInto(m, t, v, index, values) ==
    LET tar == Shortened(t, index)
    IN  CopyItems(Written(CopyItems(m, t, v, index), tar, 0, values),
                  Shortened(tar, Len(values)), Shortened(v, index), v.len - index)

Asked(op, i, values) == [op |-> op, cells |-> cells, view |-> view, index |-> i, values |-> values]

ViewInit ==
    /\ cells = [c \in Cell |-> c + 1]
    /\ \E n \in 0 .. Cells, r \in BOOLEAN :
           view = [ofs |-> 0, len |-> n, turned |-> FALSE, reversible |-> r]
    /\ edit = Untouched

Ends == -(view.len + 1) .. view.len

(* subseq: an interval whose places are items; a seqptr takes only upward   *)
(* ones, a ranger none that is empty                                        *)
Subseq ==
    \E kind \in Interval, l, r \in Ends :
        LET i == Normalized(kind, l, r, view.len)
        IN  /\ edit.op \in {"none", "subseq"}
            /\ Inside(i, view.len)
            /\ Meant(kind, l, r, view.len) /= {}
            /\ ~view.reversible => i.left <= i.right
            /\ view' = IF view.reversible THEN SubRanger(view, i) ELSE SubPtr(view, i)
            /\ edit' = Asked("subseq", Run(i), <<>>)
            /\ UNCHANGED cells

(* foreach(interval): the items one after the other, until the callback     *)
(* says to finish; a walk of an empty sequence would not end                *)
Foreach ==
    \E kind \in Interval, l, r \in Ends, stop \in 1 .. Cells :
        LET i    == Normalized(kind, l, r, view.len)
            step == IF i.left <= i.right THEN 1 ELSE -1
            n    == IF step = 1 THEN i.right - i.left + 1 ELSE i.left - i.right + 1
            last == IF stop < n THEN stop ELSE n
            seen == [k \in 1 .. last |-> cells[Place(view, i.left + step * (k - 1))]]
        IN  /\ edit.op \in {"none", "subseq"}
            /\ Inside(i, view.len)
            /\ Meant(kind, l, r, view.len) /= {}
            /\ edit' = Asked("foreach", SubSeq(Run(i), 1, last), seen)
            /\ UNCHANGED <<cells, view>>

(* insert(seq, index, values) where there is room behind the sequence       *)
InsertHere ==
    \E values \in GivenItems, index \in Ends :
        /\ edit.op \in {"none", "subseq"}
        /\ Fits(Grown(view, Len(values)))
        /\ cells' = InsertedIn(cells, view, Rollback(view.len, index), values)
        /\ view' = Grown(view, Len(values))
        /\ edit' = Asked("insert", <<Rollback(view.len, index)>>, values)

(* remove(seq, interval); the ends are swapped when they run downwards      *)
RemoveHere ==
    \E kind \in Interval, l, r \in Ends :
        LET i  == Normalized(kind, l, r, view.len)
            lo == IF i.left <= i.right THEN i.left ELSE i.right
            hi == IF i.left <= i.right THEN i.right ELSE i.left
        IN  /\ edit.op \in {"none", "subseq"}
            /\ Inside(i, view.len)
            /\ Meant(kind, l, r, view.len) /= {}
            /\ cells' = RemovedFrom(cells, view, lo, hi)
            /\ view' = [view EXCEPT !.len = @ - (hi - lo + 1)]
            /\ edit' = Asked("remove", <<lo, hi>>, <<>>)

(* remove(seq, index): an index counts from the end as an item does         *)
RemoveOne ==
    \E index \in -view.len .. view.len - 1 :
        LET at == IF index < 0 THEN index + view.len ELSE index
        IN  /\ edit.op \in {"none", "subseq"}
            /\ cells' = RemovedFrom(cells, view, at, at)
            /\ view' = [view EXCEPT !.len = @ - 1]
            /\ edit' = Asked("remove", <<at, at>>, <<>>)

(* insert and remove into another sequence, which lies behind this one      *)
Target(n) == [ofs |-> Cells - n, len |-> n, turned |-> FALSE, reversible |-> FALSE]

InsertElsewhere ==
    \E values \in GivenItems, index \in Ends :
        LET t == Target(view.len + Len(values))
        IN  /\ edit.op \in {"none", "subseq"}
            /\ view.len > 0
            /\ t.len <= Cells /\ ViewPlaces(t) \cap ViewPlaces(view) = {}
            /\ cells' = InsertedInto(cells, t, view, Rollback(view.len, index), values)
            /\ view' = t
            /\ edit' = Asked("insert_into", <<Rollback(view.len, index)>>, values)

(* The last item of a ranger is not removed this way: oo{r, -1} is then     *)
(* empty, and an empty interval of a ranger is two items                    *)
RemoveElsewhere ==
    \E lo, hi \in 0 .. view.len - 1 :
        LET t == Target(view.len - (hi - lo + 1))
        IN  /\ edit.op \in {"none", "subseq"}
            /\ lo <= hi
            /\ view.reversible => hi < view.len - 1
            /\ ViewPlaces(t) \cap ViewPlaces(view) = {}
            /\ cells' = RemovedInto(cells, t, view, lo, hi)
            /\ view' = t
            /\ edit' = Asked("remove_into", <<lo, hi>>, <<>>)

(* copy between two upward views of one memory, which may overlap           *)
CopyOver ==
    \E from, to \in Cell, n \in 1 .. Cells :
        LET v(ofs) == [ofs |-> ofs, len |-> n, turned |-> FALSE, reversible |-> FALSE]
        IN  /\ edit.op = "none"
            /\ Fits(v(from)) /\ Fits(v(to))
            /\ cells' = CopyItems(cells, v(to), v(from), n)
            /\ view' = v(to)
            /\ edit' = [Asked("copy", <<>>, <<>>) EXCEPT !.view = v(from)]

ViewNext ==
    \/ Subseq
    \/ Foreach
    \/ InsertHere
    \/ RemoveHere
    \/ RemoveOne
    \/ InsertElsewhere
    \/ RemoveElsewhere
    \/ CopyOver

ViewSpec == ViewInit /\ [][ViewNext]_viewVars
------------------------------------------------------------------------------
(* A view lies in the memory, every cell holds an item or what a destructor *)
(* left.                                                                    *)
ViewTypeOK ==
    /\ view \in View /\ Fits(view)
    /\ cells \in [Cell -> Nat]

(* What each call means to its caller: a slice has the items of its         *)
(* interval in its order, whatever slices it was made from; a walk sees     *)
(* them in that order; an insertion or removal gives the sequence with the  *)
(* items in or out, and no cell outside the sequences and, for a removal in *)
(* place, behind them changes; a copy gives what the source held.           *)
ViewsExact ==
    LET old   == Items(edit.view, edit.cells)
        new   == Items(view, cells)
        cut(s, lo, hi) == SubSeq(s, 1, lo) \o SubSeq(s, hi + 2, Len(s))
        joined(s, at, values) == SubSeq(s, 1, at) \o values \o SubSeq(s, at + 1, Len(s))
        same(area) == \A c \in Cell \ area : cells[c] = edit.cells[c]
    IN  CASE edit.op = "none"    -> TRUE
          [] edit.op = "subseq"  -> new = [k \in DOMAIN edit.index |-> old[edit.index[k] + 1]]
          [] edit.op = "foreach" -> edit.values = [k \in DOMAIN edit.index |-> old[edit.index[k] + 1]]
          [] edit.op \in {"insert", "insert_into"} ->
                 new = joined(old, edit.index[1], edit.values) /\ same(ViewPlaces(view))
          [] edit.op = "remove" ->
                 /\ new = cut(old, edit.index[1], edit.index[2])
                 /\ \A c \in ViewPlaces(edit.view) \ ViewPlaces(view) : cells[c] = Destroyed
                 /\ same(ViewPlaces(Grown(edit.view, edit.index[1])))
          [] edit.op = "remove_into" ->
                 new = cut(old, edit.index[1], edit.index[2]) /\ same(ViewPlaces(view))
          [] edit.op = "copy" -> new = old /\ same(ViewPlaces(view))
==============================================================================
