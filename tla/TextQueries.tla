---------------------------- MODULE TextQueries ----------------------------
(***************************************************************************)
(* What the rest of the editor asks a replica of TextBuffer: the text of   *)
(* an earlier version (rope_for_version), the edits since it (edits_since, *)
(* has_edits_since) and the positions of anchors (anchor_at_offset,        *)
(* offset_for_anchor), of crates/text/src/text.rs.  No query changes state.*)
(*                                                                         *)
(* The queries about a version look only at fragments that something newer *)
(* than that version has touched, and take the others as they are; what    *)
(* has touched a fragment is kept in its summary.                          *)
(***************************************************************************)
EXTENDS TextBuffer

(* Mutant: an undo is not counted among what has touched a fragment.        *)
TouchedSinceNoUndos(f, since) == \E t \in f.dels \cup {f.ts} : ~ Observed(since, t)

(* The filter of the cursors, by max_version of Fragment::summary, which    *)
(* joins the insertion, the deletions and the undos.                        *)
TouchedSince(f, since) ==
    \/ \E t \in f.dels \cup {f.ts} : ~ Observed(since, t)
    \/ ~ ObservedAll(since, f.maxUndos)

(* rope_for_version.                                                        *)
RopeForVersion(b, version) ==
    LET shown(f) == IF TouchedSince(f, version)
                    THEN WasVisible(f, version, b.undos) ELSE f.visible
    IN  CharsAt(b.frags, {i \in DOMAIN b.frags : shown(b.frags[i])})

VisibleBefore(frags, i) == Cardinality({j \in VisibleAt(frags) : j < i})

(* has_edits_since.                                                         *)
HasEditsSince(b, since) ==
    /\ since # b.version
    /\ \E f \in ToSet(b.frags) :
         TouchedSince(f, since) /\ WasVisible(f, since, b.undos) # f.visible

(* Mutant: the text that was skipped is not caught up with.                 *)
SkippedNothing(start, at) == 0

(* The untouched text between the cursor and the next fragment.             *)
Skipped(start, at) == IF start > at THEN start - at ELSE 0

(* One turn of Edits::next over fragment i.  `at` is the offset of the      *)
(* cursor in the visible text, `old` and `new` are the ends reached in both *)
(* texts: first they catch up with text that was skipped, then a fragment   *)
(* that came or went extends the last edit or, when there was text between, *)
(* begins another.                                                          *)
EditsStep(b, since, acc, i) ==
    LET f == b.frags[i]
        gap == Skipped(VisibleBefore(b.frags, i), acc.at)
        old == acc.old + gap
        new == acc.new + gap
        was == WasVisible(f, since, b.undos)
        came == ~ was /\ f.visible
        went == was /\ ~ f.visible
        old2 == old + (IF went THEN 1 ELSE 0)
        new2 == new + (IF came THEN 1 ELSE 0)
        joins == acc.edits # <<>> /\ Last(acc.edits).new[2] >= new
    IN  [old |-> old2, new |-> new2,
         at |-> acc.at + gap + (IF came THEN 1 ELSE 0),
         edits |->
           IF ~ came /\ ~ went THEN acc.edits
           ELSE IF joins
           THEN [acc.edits EXCEPT ![Len(acc.edits)].old[2] = old2,
                                  ![Len(acc.edits)].new[2] = new2]
           ELSE Append(acc.edits, [old |-> <<old, old2>>, new |-> <<new, new2>>])]

(* edits_since, over the whole buffer.                                      *)
EditsSince(b, since) ==
    IF since = b.version THEN <<>>
    ELSE FoldLeft(LAMBDA acc, i : EditsStep(b, since, acc, i),
                  [old |-> 0, new |-> 0, at |-> 0, edits |-> <<>>],
                  SelectSeq([i \in DOMAIN b.frags |-> i],
                            LAMBDA i : TouchedSince(b.frags[i], since))).edits

-----------------------------------------------------------------------------
(* Anchors.  An anchor names the character to its left (Bias::Left) or to   *)
(* its right; at the ends of the text it is min or max.                     *)

AnchorAtOffset(b, offset, bias) ==
    IF bias = "left"
    THEN IF offset = 0 THEN [kind |-> "min"]
         ELSE [kind |-> "char", bias |-> bias,
               char |-> Char(b.frags[Nth(VisibleAt(b.frags), offset)])]
    ELSE IF offset = Cardinality(VisibleAt(b.frags)) THEN [kind |-> "max"]
         ELSE [kind |-> "char", bias |-> bias,
               char |-> Char(b.frags[Nth(VisibleAt(b.frags), offset + 1)])]

CanResolve(b, anchor) ==
    anchor.kind = "char" => Observed(b.version, anchor.char[1])

FragmentOf(b, anchor) ==
    CHOOSE i \in DOMAIN b.frags : Char(b.frags[i]) = anchor.char

(* Mutant: a deleted character still has a width.                           *)
OffsetForAnchorWide(b, anchor) ==
    CASE anchor.kind = "min" -> 0
      [] anchor.kind = "max" -> Cardinality(VisibleAt(b.frags))
      [] OTHER -> VisibleBefore(b.frags, FragmentOf(b, anchor))
                    + (IF anchor.bias = "left" THEN 1 ELSE 0)

OffsetForAnchor(b, anchor) ==
    CASE anchor.kind = "min" -> 0
      [] anchor.kind = "max" -> Cardinality(VisibleAt(b.frags))
      [] OTHER ->
           LET i == FragmentOf(b, anchor)
           IN  VisibleBefore(b.frags, i)
                 + (IF b.frags[i].visible /\ anchor.bias = "left" THEN 1 ELSE 0)

-----------------------------------------------------------------------------
(* Operations whose author's version replica r has reached. *)
Known(r) == {op \in ops : ObservedAll(buf[r].version, op.version)}

(* Every replica can say what the author of an operation had before it,     *)
(* whatever was inserted, deleted or undone since, here or elsewhere        *)
(* (rope_for_version).                                                      *)
OldTextIsExact ==
    \A r \in Replicas : \A op \in Known(r) :
        RopeForVersion(buf[r], op.version) = Text(seen[op.ts])

(* The text between the edits, and the lengths of the edits.  *)
Outside(text, ranges) ==
    LET hit(i) == \E k \in DOMAIN ranges : ranges[k][1] < i /\ i <= ranges[k][2]
        kept == SelectSeq([i \in DOMAIN text |-> i], LAMBDA i : ~ hit(i))
    IN  [i \in DOMAIN kept |-> text[kept[i]]]

(* A buffer counts as unchanged exactly when it shows the same characters:  *)
(* an edit that was undone leaves it clean, one that came back by redo, or  *)
(* from a peer, does not (has_edits_since).                                 *)
DirtyIsExact ==
    \A r \in Replicas : \A op \in Known(r) :
        HasEditsSince(buf[r], op.version) <=> Text(buf[r].frags) # Text(seen[op.ts])

(* The edits since a version lead from its text to the present one: outside *)
(* of their ranges both texts agree, the edits come in order, apart from    *)
(* each other and within the texts, and the buffer counts as changed        *)
(* exactly when the texts differ.  Highlights, diffs and language servers   *)
(* follow the buffer through these edits only (edits_since).                *)
PatchIsExact ==
    /\ DirtyIsExact
    /\ \A r \in Replicas : LET now == Text(buf[r].frags) IN \A op \in Known(r) :
         LET before == Text(seen[op.ts])
             edits == EditsSince(buf[r], op.version)
             olds == [k \in DOMAIN edits |-> edits[k].old]
             news == [k \in DOMAIN edits |-> edits[k].new]
         IN  /\ Outside(before, olds) = Outside(now, news)
             /\ \A k \in DOMAIN edits :
                  /\ olds[k][2] <= Len(before) /\ news[k][2] <= Len(now)
                  /\ k > 1 => /\ olds[k - 1][2] < olds[k][1]
                              /\ olds[k][1] - olds[k - 1][2] = news[k][1] - news[k - 1][2]

(* Positions kept as anchors never change places, on whatever replica they  *)
(* are resolved and whatever was typed or deleted around them: of two       *)
(* anchors made at one replica the earlier one resolves to an offset that   *)
(* is not after the later one's (anchor_at_offset, offset_for_anchor).      *)
AnchorsNeverCross ==
    \A r, q \in Replicas :
        LET places == (0..Cardinality(VisibleAt(buf[r].frags))) \X {"left", "right"}
            anchors == {<<p, AnchorAtOffset(buf[r], p[1], p[2])>> : p \in places}
            resolved == {<<a[1], OffsetForAnchor(buf[q], a[2])>> :
                           a \in {c \in anchors : CanResolve(buf[q], c[2])}}
            earlier(p, s) == p[1] < s[1] \/ (p[1] = s[1] /\ p[2] = "left")
        IN  \A x, y \in resolved : earlier(x[1], y[1]) => x[2] <= y[2]

=============================================================================
