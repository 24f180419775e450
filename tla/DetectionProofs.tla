--------------------------- MODULE DetectionProofs ---------------------------
(***************************************************************************)
(* Proofs about Detection: what ResolveOverlaps leaves covers exactly what *)
(* was selected and is named after the most certain finding, for every     *)
(* text, policy and set of findings.  Then proofs about Detectors: what    *)
(* the label, name and pattern detectors report of every text, over every  *)
(* vocabulary and every set of expressions.                                *)
(***************************************************************************)
EXTENDS Detection, Detectors, FiniteSetTheorems, TLAPS

\* The spans O stand for the findings F: they cover the same cells, do not
\* overlap, and each carries the confidence of the best finding under it.
StandsFor(O, F) ==
    /\ \A i \in Nat : Covers(O, i) <=> Covers(F, i)
    /\ \A f, g \in O : f # g => f.e <= g.s \/ g.e <= f.s
    /\ \A o \in O : o.s < o.e
    /\ \A o \in O : \E f \in F : /\ f.type = o.type /\ f.conf = o.conf
                                 /\ o.s <= f.s /\ f.e <= o.e
    /\ \A o \in O : \A f \in F : Inside(o, f.s) => f.conf <= o.conf

SweptSpans == out \cup (IF last = NoSpan THEN {} ELSE {last})

\* The sweep goes from left to right: the last span lies behind the ones
\* before it, and nothing that is left begins before it.
SweepInv ==
    /\ StandsFor(SweptSpans, selected \ left)
    /\ last = NoSpan => out = {}
    /\ last # NoSpan => /\ \A o \in out : o.e <= last.s
                        /\ \A g \in left : last.s <= g.s

NonEmpty(F) == \A f \in F : f.s < f.e

SpanInv == NonEmpty(raw) /\ NonEmpty(found) /\ NonEmpty(selected)

IInv ==
    /\ TypeOK
    /\ SpanInv
    /\ pc \in {"collect", "suppress", "anchors", "promote", "select"} =>
          out = {} /\ last = NoSpan
    /\ pc = "sweep" => SweepInv
    /\ Resolved => StandsFor(out, selected)

-----------------------------------------------------------------------------
(* Findings under the updates of the passes *)

\* Changing the confidence of a finding leaves its span alone.
LEMMA Reweighed ==
    ASSUME NEW f \in Findings, NEW c \in 0..100
    PROVE  /\ [f EXCEPT !.conf = c] \in Findings
           /\ [f EXCEPT !.conf = c].s = f.s
           /\ [f EXCEPT !.conf = c].e = f.e
  BY DEF Findings

\* suppressContext yields findings with the spans they had.
LEMMA SuppressKeepsSpan ==
    ASSUME NEW f \in Findings
    PROVE  Suppress(f) \in Findings /\ Suppress(f).s = f.s /\ Suppress(f).e = f.e
  <1>1. 0 \in 0..100
    OBVIOUS
  <1> QED
    BY <1>1, Reweighed DEF Suppress

\* So does promoteContext; a promoted confidence stays within its bounds.
LEMMA PromoteKeepsSpan ==
    ASSUME NEW f \in Findings
    PROVE  Promote(f) \in Findings /\ Promote(f).s = f.s /\ Promote(f).e = f.e
  <1> DEFINE gain == IF Cardinality(nearbyAnchorTypes(f)) > 1 THEN 30 ELSE 22
  <1>1. gain \in {22, 30}
    OBVIOUS
  <1> HIDE DEF gain
  <1>2. f.conf \in 0..100
    BY DEF Findings
  <1>3. Least(f.conf + gain, ConfidenceHigh) \in 0..100
    BY <1>1, <1>2 DEF Least, ConfidenceHigh
  <1>4. 0 \in 0..100
    OBVIOUS
  <1>5. \/ Promote(f) = f
        \/ Promote(f) = [f EXCEPT !.conf = 0]
        \/ Promote(f) = [f EXCEPT !.conf = Least(f.conf + gain, ConfidenceHigh)]
    BY DEF Promote, gain
  <1>6. /\ [f EXCEPT !.conf = 0] \in Findings
        /\ [f EXCEPT !.conf = 0].s = f.s /\ [f EXCEPT !.conf = 0].e = f.e
    BY ONLY <1>4, f \in Findings, Reweighed
  <1> DEFINE g == [f EXCEPT !.conf = Least(f.conf + gain, ConfidenceHigh)]
  <1>7. g \in Findings /\ g.s = f.s /\ g.e = f.e
    BY ONLY <1>3, f \in Findings, Reweighed
  <1> QED
    BY <1>5, <1>6, <1>7

\* What Merge makes of two overlapping findings: their union, under the name
\* and the confidence of the better one.
LEMMA MergeFacts ==
    ASSUME last \in Findings, NEW f \in Findings, last.s <= f.s, f.s < last.e,
           f.s < f.e
    PROVE  /\ Merge(f) \in Findings
           /\ Merge(f).s = last.s
           /\ Merge(f).e = Greatest(last.e, f.e)
           /\ \/ Merge(f).conf = f.conf /\ Merge(f).type = f.type
              \/ Merge(f).conf = last.conf /\ Merge(f).type = last.type
           /\ f.conf <= Merge(f).conf /\ last.conf <= Merge(f).conf
  <1> DEFINE x == IF better(f, last) THEN f ELSE last
             m == [x EXCEPT !.s = last.s, !.e = Greatest(last.e, f.e)]
  <1>1. Merge(f) = m
    BY DEF Merge
  <1>2. x \in Findings
    OBVIOUS
  <1>3. last.s \in Nat \ {0} /\ last.e \in Nat /\ f.e \in Nat
    BY DEF Findings
  <1>4. Greatest(last.e, f.e) \in Nat
    BY <1>3 DEF Greatest
  <1>5. f.conf <= x.conf /\ last.conf <= x.conf
    BY DEF Findings, better
  <1> HIDE DEF x
  <1>6. /\ m \in Findings /\ m.s = last.s /\ m.e = Greatest(last.e, f.e)
        /\ m.conf = x.conf /\ m.type = x.type
    BY <1>2, <1>3, <1>4 DEF Findings
  <1>7. x = f \/ x = last
    BY DEF x
  <1> HIDE DEF m
  <1> QED
    BY <1>1, <1>5, <1>6, <1>7

-----------------------------------------------------------------------------
(* One finding of the sweep *)

\* A finding behind all spans becomes a span of its own.
LEMMA NewSpan ==
    ASSUME NEW O \in SUBSET Findings, NEW D \in SUBSET Findings,
           NEW f \in Findings, StandsFor(O, D), NonEmpty(D), f.s < f.e,
           \A o \in O : o.e <= f.s
    PROVE  StandsFor(O \cup {f}, D \cup {f})
  <1>1. \A i \in Nat : Covers(O \cup {f}, i) <=> Covers(D \cup {f}, i)
    BY DEF StandsFor, Covers
  <1>2. \A x, y \in O \cup {f} : x # y => x.e <= y.s \/ y.e <= x.s
    BY DEF StandsFor
  <1>3. \A o \in O \cup {f} : o.s < o.e
    BY DEF StandsFor
  <1>4. f.s <= f.s /\ f.e <= f.e
    BY DEF Findings
  <1>5. ASSUME NEW o \in O \cup {f}
        PROVE  \E g \in D \cup {f} : /\ g.type = o.type /\ g.conf = o.conf
                                     /\ o.s <= g.s /\ g.e <= o.e
    <2>1. CASE o = f
      BY <2>1, <1>4
    <2>2. CASE o \in O
      BY <2>2 DEF StandsFor
    <2> QED
      BY <2>1, <2>2
  <1>6. ASSUME NEW o \in O \cup {f}, NEW g \in D \cup {f}, Inside(o, g.s)
        PROVE  g.conf <= o.conf
    <2>1. CASE o \in O /\ g \in D
      BY <2>1, <1>6 DEF StandsFor
    <2>2. CASE o \in O /\ g = f
      BY <2>2, <1>6 DEF Inside, Findings
    <2>3. CASE o = f /\ g = f
      BY <2>3 DEF Findings
    <2>4. CASE o = f /\ g \in D
      <3>1. g.s \in Nat /\ Inside(g, g.s)
        BY <2>4 DEF NonEmpty, Inside, Findings
      <3>2. Covers(O, g.s)
        BY <3>1, <2>4 DEF StandsFor, Covers
      <3>3. PICK x \in O : Inside(x, g.s)
        BY <3>2 DEF Covers
      <3> QED
        BY <3>1, <3>3, <2>4, <1>6 DEF Inside, Findings
    <2> QED
      BY <2>1, <2>2, <2>3, <2>4
  <1> QED
    BY <1>1, <1>2, <1>3, <1>5, <1>6 DEF StandsFor

\* A finding that overlaps the last span l is merged with it into m.
LEMMA WiderSpan ==
    ASSUME NEW O \in SUBSET Findings, NEW D \in SUBSET Findings,
           NEW l \in Findings, NEW f \in Findings, NEW m \in Findings,
           StandsFor(O \cup {l}, D), NonEmpty(D),
           \A o \in O : o.e <= l.s,
           l.s <= f.s, f.s < l.e, f.s < f.e,
           m.s = l.s, m.e = Greatest(l.e, f.e),
           \/ m.conf = f.conf /\ m.type = f.type
           \/ m.conf = l.conf /\ m.type = l.type,
           f.conf <= m.conf, l.conf <= m.conf
    PROVE  StandsFor(O \cup {m}, D \cup {f})
  <1>0. /\ m.e \in Nat /\ l.e \in Nat /\ f.e \in Nat /\ l.s \in Nat /\ f.s \in Nat
        /\ l.e <= m.e /\ f.e <= m.e /\ (m.e = l.e \/ m.e = f.e) /\ l.s < m.e
    BY DEF Findings, Greatest
  <1>1. ASSUME NEW i \in Nat
        PROVE  Covers(O \cup {m}, i) <=> Covers(D \cup {f}, i)
    <2>1. Inside(m, i) <=> Inside(l, i) \/ Inside(f, i)
      BY <1>0 DEF Inside
    <2>2. Covers(O \cup {l}, i) <=> Covers(D, i)
      BY DEF StandsFor
    <2>3. Covers(O \cup {m}, i) <=> Covers(O \cup {l}, i) \/ Inside(f, i)
      BY <2>1 DEF Covers
    <2> QED
      BY <2>2, <2>3 DEF Covers
  <1>2. \A x, y \in O \cup {m} : x # y => x.e <= y.s \/ y.e <= x.s
    BY DEF StandsFor
  <1>3. \A o \in O \cup {m} : o.s < o.e
    BY <1>0 DEF StandsFor
  <1>4. ASSUME NEW o \in O \cup {m}
        PROVE  \E g \in D \cup {f} : /\ g.type = o.type /\ g.conf = o.conf
                                     /\ o.s <= g.s /\ g.e <= o.e
    <2>1. CASE o \in O
      BY <2>1 DEF StandsFor
    <2>2. CASE o = m /\ m.conf = f.conf /\ m.type = f.type
      BY <2>2, <1>0
    <2>3. CASE o = m /\ m.conf = l.conf /\ m.type = l.type
      <3>1. PICK g \in D : /\ g.type = l.type /\ g.conf = l.conf
                           /\ l.s <= g.s /\ g.e <= l.e
        BY DEF StandsFor
      <3>2. g.e <= m.e
        BY <3>1, <1>0 DEF Findings
      <3> QED
        BY <3>1, <3>2, <2>3
    <2> QED
      BY <2>1, <2>2, <2>3
  <1>5. ASSUME NEW o \in O \cup {m}, NEW g \in D \cup {f}, Inside(o, g.s)
        PROVE  g.conf <= o.conf
    <2>1. CASE o \in O /\ g \in D
      BY <2>1, <1>5 DEF StandsFor
    <2>2. CASE o \in O /\ g = f
      BY <2>2, <1>5, <1>0 DEF Inside, Findings
    <2>3. CASE o = m /\ g = f
      BY <2>3
    <2>4. CASE o = m /\ g \in D
      <3>1. g.s \in Nat /\ Inside(g, g.s)
        BY <2>4 DEF NonEmpty, Inside, Findings
      <3>2. Covers(O \cup {l}, g.s)
        BY <3>1, <2>4 DEF StandsFor, Covers
      <3>3. PICK x \in O \cup {l} : Inside(x, g.s)
        BY <3>2 DEF Covers
      <3>4. x = l
        BY <3>1, <3>3, <2>4, <1>5, <1>0 DEF Inside, Findings
      <3>5. g.conf <= l.conf
        BY <3>3, <3>4, <2>4 DEF StandsFor
      <3>6. g.conf \in Int /\ l.conf \in Int /\ m.conf \in Int
        BY <2>4 DEF Findings
      <3>7. l.conf <= m.conf /\ o = m
        BY <2>4
      <3> QED
        BY ONLY <3>5, <3>6, <3>7
    <2> QED
      BY <2>1, <2>2, <2>3, <2>4
  <1> QED
    BY <1>1, <1>2, <1>3, <1>4, <1>5 DEF StandsFor

-----------------------------------------------------------------------------
(* The invariant *)

\* Before the first detector runs nothing is found or selected.
LEMMA InitIInv == Init => IInv
  <1> SUFFICES ASSUME Init PROVE IInv
    OBVIOUS
  <1> USE DetectionAssumption
  <1>1. pc = "collect" /\ det = 0 /\ det \in 0..Detectors
    BY DEF Init
  <1>2. text \in Seq(Cells) /\ pol \in Policies
    BY DEF Init
  <1>3. TypeOK
    BY <1>1, <1>2 DEF Init, TypeOK, Steps
  <1>4. SpanInv
    BY DEF Init, SpanInv, NonEmpty
  <1> QED
    BY <1>1, <1>3, <1>4 DEF Init, IInv, Resolved

\* The steps that touch neither the selection nor its spans.
LEMMA OtherSteps ==
    ASSUME IInv, [Next]_vars, ~(SelectStep \/ Sweep \/ Swept)
    PROVE  IInv'
  <1> USE DEF IInv
  <1>1. CASE RunDetector
    <2>1. det' \in 0..Detectors
      BY <1>1, DetectionAssumption DEF RunDetector, TypeOK
    <2>2. covered' \subseteq Types
      <3>1. det + 1 \in 1..Detectors
        BY <1>1, DetectionAssumption DEF RunDetector, TypeOK
      <3>2. Supports[det + 1] \subseteq Types
        BY <3>1, DetectionAssumption
      <3> QED
        BY <3>2, <1>1 DEF RunDetector, TypeOK
    <2>3. PICK F \in SUBSET Spans : raw' = raw \cup F
      BY <1>1 DEF RunDetector
    <2>4. raw' \subseteq Findings /\ NonEmpty(raw')
      BY <2>3, DetectionAssumption DEF TypeOK, SpanInv, NonEmpty
    <2>5. UNCHANGED <<pc, input, found, anchors, selected, left, last, out, todo, whole>>
      BY <1>1 DEF RunDetector
    <2>6. TypeOK'
      BY <2>1, <2>2, <2>4, <2>5 DEF TypeOK, input
    <2>7. SpanInv'
      BY <2>4, <2>5 DEF SpanInv, NonEmpty
    <2>8. pc = "collect"
      BY <1>1 DEF RunDetector
    <2> QED
      BY <2>5, <2>6, <2>7, <2>8 DEF Resolved
  <1>2. CASE Collected \/ Abort
    <2>1. /\ pc' \in {"suppress", "failed"}
          /\ pc' = "suppress" => pc = "collect"
          /\ UNCHANGED <<input, det, covered, raw, found, anchors, selected,
                         left, last, out, todo, whole>>
      BY <1>2 DEF Collected, Abort
    <2>2. TypeOK'
      BY <2>1 DEF TypeOK, Steps, input
    <2>3. SpanInv'
      BY <2>1 DEF SpanInv, NonEmpty
    <2> QED
      BY <2>1, <2>2, <2>3 DEF Resolved
  <1>3. CASE suppressContext
    <2>1. /\ pc = "suppress" /\ pc' = "anchors"
          /\ found' = {Suppress(f) : f \in raw}
          /\ UNCHANGED <<input, det, covered, raw, anchors, selected, left,
                         last, out, todo, whole>>
      BY <1>3 DEF suppressContext
    <2>2. found' \subseteq Findings /\ NonEmpty(found')
      BY <2>1, SuppressKeepsSpan DEF TypeOK, SpanInv, NonEmpty
    <2>3. TypeOK'
      BY <2>1, <2>2 DEF TypeOK, Steps, input
    <2>4. SpanInv'
      BY <2>1, <2>2 DEF SpanInv, NonEmpty
    <2> QED
      BY <2>1, <2>3, <2>4 DEF Resolved
  <1>4. CASE contextAnchors
    <2>1. /\ pc = "anchors" /\ pc' = "promote"
          /\ anchors' \subseteq found
          /\ UNCHANGED <<input, det, covered, raw, found, selected, left,
                         last, out, todo, whole>>
      BY <1>4 DEF contextAnchors
    <2>2. TypeOK'
      BY <2>1 DEF TypeOK, Steps, input
    <2>3. SpanInv'
      BY <2>1 DEF SpanInv, NonEmpty
    <2> QED
      BY <2>1, <2>2, <2>3 DEF Resolved
  <1>5. CASE promoteContext
    <2>1. /\ pc = "promote" /\ pc' = "select"
          /\ found' = {Promote(f) : f \in found}
          /\ UNCHANGED <<input, det, covered, raw, anchors, selected, left,
                         last, out, todo, whole>>
      BY <1>5 DEF promoteContext
    <2>2. found' \subseteq Findings /\ NonEmpty(found')
      BY <2>1, PromoteKeepsSpan DEF TypeOK, SpanInv, NonEmpty
    <2>3. TypeOK'
      BY <2>1, <2>2 DEF TypeOK, Steps, input
    <2>4. SpanInv'
      BY <2>1, <2>2 DEF SpanInv, NonEmpty
    <2> QED
      BY <2>1, <2>3, <2>4 DEF Resolved
  <1>6. CASE Replace
    <2>1. /\ pc = "replace"
          /\ todo' \subseteq todo
          /\ UNCHANGED <<pc, input, det, covered, raw, found, anchors,
                         selected, left, last, out>>
      BY <1>6 DEF Replace
    <2>2. \A w \in whole' : w.type \in Types /\ w.value \in Shapes[w.type]
      <3>1. PICK f \in todo : \E v \in Shapes[f.type] :
               whole' = IF UseTokens \/ Mask(f.type, v) # {} THEN whole
                        ELSE whole \cup {[type |-> f.type, value |-> v]}
        BY <1>6 DEF Replace
      <3>2. PICK v \in Shapes[f.type] :
               whole' = IF UseTokens \/ Mask(f.type, v) # {} THEN whole
                        ELSE whole \cup {[type |-> f.type, value |-> v]}
        BY <3>1
      <3>3. f.type \in Types
        BY DEF TypeOK, Findings
      <3> QED
        BY <3>2, <3>3 DEF TypeOK
    <2>3. TypeOK'
      BY <2>1, <2>2 DEF TypeOK, input
    <2>4. SpanInv'
      BY <2>1 DEF SpanInv, NonEmpty
    <2>5. StandsFor(out, selected)'
      BY <2>1 DEF Resolved, StandsFor, Covers, Inside
    <2> QED
      BY <2>1, <2>3, <2>4, <2>5
  <1>7. CASE Replaced \/ Verify
    <2>1. /\ pc \in {"replace", "verify"}
          /\ pc' \in {"masked", "verify", "failed"}
          /\ UNCHANGED <<input, det, covered, raw, found, anchors, selected,
                         left, last, out, todo, whole>>
      BY <1>7 DEF Replaced, Verify
    <2>2. TypeOK'
      BY <2>1 DEF TypeOK, Steps, input
    <2>3. SpanInv'
      BY <2>1 DEF SpanInv, NonEmpty
    <2>4. StandsFor(out, selected)'
      BY <2>1 DEF Resolved, StandsFor, Covers, Inside
    <2> QED
      BY <2>1, <2>2, <2>3, <2>4
  <1>8. CASE UNCHANGED vars
    <2>1. TypeOK'
      BY <1>8 DEF vars, TypeOK
    <2>2. SpanInv'
      BY <1>8 DEF vars, SpanInv, NonEmpty
    <2>3. pc' = "sweep" => SweepInv'
      BY <1>8 DEF vars, SweepInv, SweptSpans, StandsFor, Covers, Inside
    <2>4. Resolved' => StandsFor(out, selected)'
      BY <1>8 DEF vars, Resolved, StandsFor, Covers, Inside
    <2> QED
      BY <1>8, <2>1, <2>2, <2>3, <2>4 DEF vars
  <1> QED
    BY <1>1, <1>2, <1>3, <1>4, <1>5, <1>6, <1>7, <1>8 DEF Next

\* Before the first finding no span stands for no finding.
LEMMA SelectPreserves ==
    ASSUME IInv, SelectStep
    PROVE  IInv'
  <1>1. /\ pc = "select" /\ pc' = "sweep"
        /\ left' = selected'
        /\ out = {} /\ last = NoSpan
        /\ UNCHANGED <<input, det, covered, raw, found, anchors, last, out,
                       todo, whole>>
    BY DEF SelectStep, IInv
  <1>2. selected' \subseteq found
    BY DEF SelectStep, Select, Apply, FilterConfidence
  <1>3. TypeOK'
    BY <1>1, <1>2 DEF IInv, TypeOK, Steps, input
  <1>4. SpanInv'
    BY <1>1, <1>2 DEF IInv, SpanInv, NonEmpty
  <1>5. SweptSpans' = {} /\ (selected \ left)' = {}
    BY <1>1 DEF SweptSpans
  <1>6. StandsFor({}, {})
    BY DEF StandsFor, Covers
  <1>7. StandsFor(SweptSpans, selected \ left)'
    BY <1>5, <1>6 DEF StandsFor, Covers, Inside
  <1>8. SweepInv'
    BY <1>1, <1>7 DEF SweepInv
  <1> QED
    BY <1>1, <1>3, <1>4, <1>8 DEF IInv, Resolved

\* One step of ResolveOverlaps: the finding opens a span or widens the last.
LEMMA SweepPreserves ==
    ASSUME IInv, Sweep
    PROVE  IInv'
  <1> DEFINE D == selected \ left
  <1>1. PICK f \in left :
          /\ \A g \in left : ~Before(g, f)
          /\ left' = left \ {f}
          /\ IF last # NoSpan /\ f.s < last.e
             THEN last' = Merge(f) /\ UNCHANGED out
             ELSE last' = f /\ out' = IF last = NoSpan THEN out ELSE out \cup {last}
    BY DEF Sweep
  <1>2. /\ pc = "sweep"
        /\ UNCHANGED <<pc, input, det, covered, raw, found, anchors, selected,
                       todo, whole>>
    BY DEF Sweep
  <1>3. SweepInv
    BY <1>2 DEF IInv
  <1>4. /\ f \in Findings /\ f.s < f.e
        /\ selected \subseteq Findings /\ left \subseteq selected
        /\ out \subseteq Findings /\ last \in Findings \cup {NoSpan}
        /\ todo \subseteq out
    BY DEF IInv, TypeOK, SpanInv, NonEmpty
  <1>5. D \subseteq Findings /\ NonEmpty(D)
    BY <1>4 DEF IInv, SpanInv, NonEmpty
  <1>6. (selected \ left)' = D \cup {f}
    BY <1>1, <1>2, <1>4
  <1>7. \A g \in left : f.s <= g.s
    <2>1. ASSUME NEW g \in left PROVE f.s <= g.s
      <3>1. ~(g.s < f.s)
        BY <1>1 DEF Before
      <3>2. f.s \in Nat /\ g.s \in Nat
        BY <1>4 DEF Findings
      <3> QED
        BY <3>1, <3>2
    <2> QED
      BY <2>1
  <1>8. SpanInv'
    BY <1>2 DEF IInv, SpanInv, NonEmpty
  <1>9. ASSUME last' \in Findings, out' \subseteq Findings, todo \subseteq out'
        PROVE  TypeOK'
    BY <1>1, <1>2, <1>4, <1>9 DEF IInv, TypeOK, input
  <1>10. NoSpan \notin Findings
    BY DetectionAssumption
  <1>11. ASSUME last' \in Findings, out' \subseteq Findings, todo \subseteq out',
                StandsFor(out' \cup {last'}, D \cup {f}),
                \A o \in out' : o.e <= last'.s,
                \A g \in left : last'.s <= g.s
         PROVE  IInv'
    <2>1. SweptSpans' = out' \cup {last'}
      BY <1>11, <1>10 DEF SweptSpans
    <2>2. StandsFor(SweptSpans, selected \ left)'
      BY <2>1, <1>6, <1>11 DEF StandsFor, Covers, Inside
    <2>3. SweepInv'
      BY <2>2, <1>1, <1>10, <1>11 DEF SweepInv
    <2> QED
      BY <2>3, <1>2, <1>8, <1>9, <1>11 DEF IInv, Resolved
  <1>12. CASE last = NoSpan
    <2>1. out = {} /\ SweptSpans = {} /\ out' = {} /\ last' = f
      BY <1>12, <1>1, <1>3 DEF SweepInv, SweptSpans
    <2>2. StandsFor({}, D)
      BY <2>1, <1>3 DEF SweepInv
    <2>3. StandsFor({} \cup {f}, D \cup {f})
      BY <2>2, <1>4, <1>5, NewSpan
    <2> QED
      BY <2>1, <2>3, <1>4, <1>7, <1>11
  <1>13. CASE last # NoSpan /\ ~(f.s < last.e)
    <2>1. last \in Findings /\ SweptSpans = out \cup {last}
      BY <1>13, <1>4 DEF SweptSpans
    <2>2. out' = out \cup {last} /\ last' = f
      BY <1>13, <1>1
    <2>3. StandsFor(out', D)
      BY <2>1, <2>2, <1>3 DEF SweepInv
    <2>4. \A o \in out' : o.e <= f.s
      <3>1. last.e <= f.s /\ last.s < last.e
        BY <1>13, <2>1, <2>3, <2>2, <1>4 DEF Findings, StandsFor
      <3>2. ASSUME NEW o \in out PROVE o.e <= f.s
        <4>1. o.e <= last.s
          BY <1>13, <1>3 DEF SweepInv
        <4> QED
          BY <4>1, <3>1, <2>1, <1>4 DEF Findings
      <3> QED
        BY <3>1, <3>2, <2>2
    <2>5. StandsFor(out' \cup {f}, D \cup {f})
      BY <2>1, <2>2, <2>3, <2>4, <1>4, <1>5, NewSpan
    <2> QED
      BY <2>1, <2>2, <2>4, <2>5, <1>4, <1>7, <1>11
  <1>14. CASE last # NoSpan /\ f.s < last.e
    <2>1. last \in Findings /\ SweptSpans = out \cup {last}
      BY <1>14, <1>4 DEF SweptSpans
    <2>2. out' = out /\ last' = Merge(f)
      BY <1>14, <1>1
    <2>3. /\ last.s <= f.s
          /\ \A o \in out : o.e <= last.s
          /\ \A g \in left : last.s <= g.s
          /\ StandsFor(out \cup {last}, D)
      BY <1>14, <1>3, <2>1 DEF SweepInv
    <2>4. /\ Merge(f) \in Findings
          /\ Merge(f).s = last.s
          /\ Merge(f).e = Greatest(last.e, f.e)
          /\ \/ Merge(f).conf = f.conf /\ Merge(f).type = f.type
             \/ Merge(f).conf = last.conf /\ Merge(f).type = last.type
          /\ f.conf <= Merge(f).conf /\ last.conf <= Merge(f).conf
      BY <2>1, <2>3, <1>4, <1>14, MergeFacts
    <2>5. StandsFor(out \cup {Merge(f)}, D \cup {f})
      BY <2>1, <2>3, <2>4, <1>4, <1>5, <1>14, WiderSpan
    <2> QED
      BY <2>2, <2>3, <2>4, <2>5, <1>4, <1>11
  <1> QED
    BY <1>12, <1>13, <1>14

\* The end of ResolveOverlaps: the last span joins the others.
LEMMA SweptPreserves ==
    ASSUME IInv, Swept
    PROVE  IInv'
  <1>1. /\ pc = "sweep" /\ left = {} /\ pc' = "replace"
        /\ out' = SweptSpans
        /\ todo' = out' /\ last' = NoSpan
        /\ UNCHANGED <<input, det, covered, raw, found, anchors, selected,
                       left, whole>>
    BY DEF Swept, SweptSpans
  <1>2. SweptSpans \subseteq Findings
    BY DEF IInv, TypeOK, SweptSpans
  <1>3. TypeOK'
    BY <1>1, <1>2 DEF IInv, TypeOK, Steps, input
  <1>4. SpanInv'
    BY <1>1 DEF IInv, SpanInv, NonEmpty
  <1>5. StandsFor(SweptSpans, selected \ left)
    BY <1>1 DEF IInv, SweepInv
  <1>6. selected \ left = selected
    BY <1>1
  <1>7. StandsFor(out, selected)'
    BY <1>1, <1>5, <1>6 DEF StandsFor, Covers, Inside
  <1> QED
    BY <1>1, <1>3, <1>4, <1>7 DEF IInv, Resolved

\* The inductive invariant of one call of mask: the spans built so far stand
\* for exactly the findings swept so far.
THEOREM Invariance == Spec => []IInv
  <1>1. Init => IInv
    BY InitIInv
  <1>2. IInv /\ [Next]_vars => IInv'
    BY OtherSteps, SelectPreserves, SweepPreserves, SweptPreserves
  <1> QED
    BY <1>1, <1>2, PTL DEF Spec

-----------------------------------------------------------------------------
(* The theorems *)

\* Every pass of the pipeline yields well-formed findings and spans.
THEOREM TypeCorrectness == Spec => []TypeOK
  <1>1. IInv => TypeOK
    BY DEF IInv
  <1> QED
    BY <1>1, Invariance, PTL

\* ResolveOverlaps loses no cell of what was selected and adds none, for
\* every set of findings.
THEOREM NothingLostInOverlaps == Spec => []MaskedExactly
  <1>1. IInv => MaskedExactly
    <2> SUFFICES ASSUME IInv, Resolved
                 PROVE  /\ \A i \in 1..Len(text) : Covers(out, i) <=> Covers(selected, i)
                        /\ \A f, g \in out : f # g => f.e <= g.s \/ g.e <= f.s
      BY DEF MaskedExactly
    <2>1. StandsFor(out, selected)
      BY DEF IInv
    <2>2. Len(text) \in Nat
      BY DEF IInv, TypeOK
    <2> QED
      BY <2>1, <2>2 DEF StandsFor
  <1> QED
    BY <1>1, Invariance, PTL

\* The name and the confidence of a merged span are those of its most
\* certain finding, however long the chain of overlaps.
THEOREM MostCertainNames == Spec => []StrongestNames
  <1>1. IInv => StrongestNames
    BY DEF IInv, StandsFor, StrongestNames
  <1> QED
    BY <1>1, Invariance, PTL

\* Profiles are ordered by what they let through, whatever the rules.
THEOREM ProfilesAreOrdered == Spec => []StricterSelectsMore
  <1>1. ASSUME TypeOK, NEW p, NEW q,
               \A t : Threshold(q, t) \in Nat /\ Threshold(p, t) \in Nat
                        /\ Threshold(q, t) <= Threshold(p, t)
        PROVE  Select(p) \subseteq Select(q)
    <2>1. FilterConfidence(found, p) \subseteq FilterConfidence(found, q)
      <3>0. found \subseteq Findings
        BY <1>1 DEF TypeOK
      <3>1. \A f \in found : f.conf \in Nat
        BY <3>0 DEF Findings
      <3> QED
        BY <3>1, <1>1 DEF FilterConfidence
    <2>2. \A A, B : A \subseteq B => Apply(A, pol) \subseteq Apply(B, pol)
      <3> SUFFICES ASSUME NEW A, NEW B, A \subseteq B, NEW f \in Apply(A, pol)
                   PROVE  f \in Apply(B, pol)
        OBVIOUS
      <3>1. /\ f \in B /\ f.type \in pol.mask
            /\ ruleAllows(f.type, pol, {g.type : g \in A})
        BY DEF Apply
      <3>2. {g.type : g \in A} \subseteq {g.type : g \in B}
        OBVIOUS
      <3>3. ruleAllows(f.type, pol, {g.type : g \in B})
        BY <3>1, <3>2 DEF ruleAllows
      <3> QED
        BY <3>1, <3>3 DEF Apply
    <2> QED
      BY <2>1, <2>2 DEF Select
  <1>2. \A t : /\ Threshold("strict", t) = 55
               /\ Threshold("balanced", t) \in {70, 80}
               /\ Threshold("conservative", t) = 95
    BY DEF Threshold
  <1>3. TypeOK => Select("conservative") \subseteq Select("balanced")
    BY <1>1, <1>2
  <1>4. TypeOK => Select("balanced") \subseteq Select("strict")
    BY <1>1, <1>2
  <1>5. TypeOK => StricterSelectsMore
    BY <1>3, <1>4 DEF StricterSelectsMore
  <1> QED
    BY <1>5, TypeCorrectness, PTL

-----------------------------------------------------------------------------
(***************************************************************************)
(* ResolveContext.  A finding looks for evidence in a window that is cut   *)
(* out of one logical record and then at the ends of its sentence.  The    *)
(* windows are stated with CHOOSE over positions; that the extremes they   *)
(* choose exist is the well-foundedness of the natural numbers.            *)
(***************************************************************************)

\* Some number of a set is the least.
LEMMA LeastElement ==
    ASSUME NEW T \in SUBSET Nat, T # {}
    PROVE  \E x \in T : \A y \in T : x <= y
  <1>1. PICK x \in T : \A y \in T : ~(<<y, x>> \in OpToRel(<, Nat))
    BY NatLessThanWellFounded, WFMin
  <1>2. \A y \in T : ~(y < x)
    BY <1>1 DEF OpToRel
  <1> QED
    BY <1>2

\* Some number of a bounded set is the greatest.
LEMMA GreatestElement ==
    ASSUME NEW T \in SUBSET Nat, T # {}, NEW n \in Nat, \A y \in T : y <= n
    PROVE  \E x \in T : \A y \in T : y <= x
  <1> DEFINE U == {n - y : y \in T}
  <1>0. \A y \in T : n - y \in Nat
    OBVIOUS
  <1>1. U \in SUBSET Nat /\ U # {}
    BY <1>0
  <1>2. PICK u \in U : \A z \in U : u <= z
    BY ONLY <1>1, LeastElement
  <1>3. PICK x \in T : u = n - x
    OBVIOUS
  <1>4. ASSUME NEW y \in T PROVE y <= x
    <2>1. u <= n - y
      BY <1>2
    <2> QED
      BY <1>3, <2>1
  <1> QED
    BY <1>4

\* A line ends at the first break, or with the text.
LEMMA LineEndFacts ==
    ASSUME text \in Seq(Cells), NEW i \in 1..Len(text)
    PROVE  /\ LineEnd(i) \in i..(Len(text) + 1)
           /\ \A j \in i..(LineEnd(i) - 1) : text[j] # "break"
  <1> DEFINE T == {e \in i..(Len(text) + 1) : e = Len(text) + 1 \/ text[e] = "break"}
  <1>0. Len(text) \in Nat
    OBVIOUS
  <1>1. T \in SUBSET Nat /\ Len(text) + 1 \in T
    BY <1>0
  <1>2. PICK x \in T : \A y \in T : x <= y
    BY <1>1, LeastElement
  <1>3. \A j \in i..(x - 1) : text[j] # "break"
    BY <1>0, <1>2
  <1>4. \E e \in i..(Len(text) + 1) :
           /\ e = Len(text) + 1 \/ text[e] = "break"
           /\ \A j \in i..(e - 1) : text[j] # "break"
    BY <1>2, <1>3
  <1> QED
    BY <1>4 DEF LineEnd

\* A record ends where its last line does.
LEMMA RecordEndFacts ==
    ASSUME text \in Seq(Cells), NEW l \in LineStarts
    PROVE  \E m \in LineStarts : /\ m = l \/ Continues(l, m)
                                 /\ RecordEnd(l) = LineEnd(m)
  <1> DEFINE ends == {LineEnd(m) : m \in {i \in LineStarts : i = l \/ Continues(l, i)}}
  <1>0. Len(text) \in Nat
    OBVIOUS
  <1>1. \A m \in LineStarts : LineEnd(m) \in Nat /\ LineEnd(m) <= Len(text) + 1
    BY <1>0, LineEndFacts DEF LineStarts
  <1>2. ends \in SUBSET Nat /\ ends # {} /\ \A y \in ends : y <= Len(text) + 1
    BY <1>1
  <1>3. \E e \in ends : \A x \in ends : x <= e
    <2> HIDE DEF ends
    <2>1. Len(text) + 1 \in Nat
      BY <1>0
    <2> QED
      BY ONLY <2>1, <1>2, GreatestElement
  <1>4. RecordEnd(l) = CHOOSE e \in ends : \A x \in ends : x <= e
    BY DEF RecordEnd
  <1>5. RecordEnd(l) \in ends
    BY <1>3, <1>4
  <1> QED
    BY <1>5

\* Cells of one record stand in one line, or behind a person header in lines
\* that each begin with a field.
LEMMA OneRecord ==
    ASSUME text \in Seq(Cells), NEW l \in LineStarts, NEW from \in Nat, NEW to \in Int,
           l <= from, to < RecordEnd(l)
    PROVE  \/ \A i \in from..to : text[i] # "break"
           \/ /\ text[l] = "person"
              /\ l = 1 \/ text[l - 1] = "break"
              /\ \A i \in l..to : text[i] = "break" => text[i + 1] = "field"
  <1>0. Len(text) \in Nat /\ l \in 1..Len(text) /\ (l = 1 \/ text[l - 1] = "break")
    BY DEF LineStarts
  <1>1. PICK m \in LineStarts : /\ m = l \/ Continues(l, m)
                                /\ RecordEnd(l) = LineEnd(m)
    BY RecordEndFacts
  <1>2. m \in 1..Len(text)
    BY <1>1 DEF LineStarts
  <1>3. /\ LineEnd(m) \in m..(Len(text) + 1)
        /\ \A j \in m..(LineEnd(m) - 1) : text[j] # "break"
    BY <1>2, LineEndFacts
  <1>4. CASE m = l
    BY <1>0, <1>1, <1>3, <1>4
  <1>5. CASE Continues(l, m)
    <2>1. ASSUME NEW i \in l..to, text[i] = "break" PROVE text[i + 1] = "field"
      <3>1. i \in Nat /\ i < m
        BY <1>0, <1>1, <1>2, <1>3, <2>1
      <3>2. i + 1 \in 1..Len(text) /\ text[(i + 1) - 1] = "break"
        BY <1>0, <1>2, <2>1, <3>1
      <3>3. i + 1 \in LineStarts /\ l < i + 1 /\ i + 1 <= m
        BY <1>0, <1>2, <2>1, <3>1, <3>2 DEF LineStarts
      <3> QED
        BY <1>5, <3>3 DEF Continues
    <2> QED
      BY <1>0, <1>5, <2>1 DEF Continues
  <1> QED
    BY <1>1, <1>4, <1>5

\* Between cuts a window down to what no cell of the kinds interrupts.
LEMMA BetweenFacts ==
    ASSUME NEW f \in Findings, NEW a \in Nat, NEW b \in Nat, NEW kinds,
           a <= f.s, f.e <= b
    PROVE  LET u == Between(<<a, b>>, f, kinds)
           IN  /\ u[1] \in a..f.s /\ u[2] \in f.e..b
               /\ \A i \in u[1]..(f.s - 1) : text[i] \notin kinds
               /\ \A i \in f.e..(u[2] - 1) : text[i] \notin kinds
  <1> DEFINE before == {i \in a..(f.s - 1) : text[i] \in kinds}
             after  == {i \in f.e..(b - 1) : text[i] \in kinds}
             u1 == IF before = {} THEN a
                   ELSE (CHOOSE i \in before : \A j \in before : j <= i) + 1
             u2 == IF after = {} THEN b
                   ELSE CHOOSE i \in after : \A j \in after : i <= j
  <1>0. f.s \in Nat /\ f.e \in Nat
    BY DEF Findings
  <1>1. Between(<<a, b>>, f, kinds)[1] = u1 /\ Between(<<a, b>>, f, kinds)[2] = u2
    BY DEF Between
  <1>2. u1 \in a..f.s /\ \A i \in u1..(f.s - 1) : text[i] \notin kinds
    <2>1. CASE before = {}
      BY <1>0, <2>1
    <2>2. CASE before # {}
      <3>1. before \in SUBSET Nat /\ \A y \in before : y <= f.s
        BY <1>0
      <3>2. \E i \in before : \A j \in before : j <= i
        BY ONLY <1>0, <2>2, <3>1, GreatestElement
      <3> DEFINE top == CHOOSE i \in before : \A j \in before : j <= i
      <3>3. top \in before /\ \A j \in before : j <= top
        BY <3>2
      <3>4. u1 = top + 1
        BY <2>2
      <3> HIDE DEF top, u1
      <3> QED
        BY <1>0, <3>3, <3>4
    <2> QED
      BY <2>1, <2>2
  <1>3. u2 \in f.e..b /\ \A i \in f.e..(u2 - 1) : text[i] \notin kinds
    <2>1. CASE after = {}
      BY <1>0, <2>1
    <2>2. CASE after # {}
      <3>1. after \in SUBSET Nat
        BY <1>0
      <3>2. \E i \in after : \A j \in after : i <= j
        BY ONLY <2>2, <3>1, LeastElement
      <3> DEFINE low == CHOOSE i \in after : \A j \in after : i <= j
      <3>3. low \in after /\ \A j \in after : low <= j
        BY <3>2
      <3>4. u2 = low
        BY <2>2
      <3> HIDE DEF low, u2
      <3> QED
        BY <1>0, <3>3, <3>4
    <2> QED
      BY <2>1, <2>2
  <1> HIDE DEF u1, u2
  <1> QED
    BY <1>1, <1>2, <1>3

\* The window of a finding stays inside the record that holds it.
LEMMA RecordWindowFacts ==
    ASSUME text \in Seq(Cells), NEW f \in Findings, f.s < f.e
    PROVE  \/ recordWindow(f) = <<f.s, f.e>>
           \/ \E l \in LineStarts, a \in Nat, b \in Nat :
                 /\ recordWindow(f) = <<a, b>>
                 /\ l <= a /\ a <= f.s /\ f.e <= b /\ b <= RecordEnd(l)
  <1> DEFINE home == {r \in logicalRecords : r[1] <= f.s /\ f.e <= r[2]}
             r == CHOOSE x \in home : TRUE
             a == Greatest(r[1], f.s - WindowSize)
             b == Least(r[2], f.e + WindowSize)
  <1>1. CASE home = {}
    BY <1>1 DEF recordWindow
  <1>2. CASE home # {}
    <2>1. r \in home
      BY <1>2
    <2>2. recordWindow(f) = <<a, b>>
      BY <1>2 DEF recordWindow
    <2>3. PICK l \in LineStarts : r = <<l, RecordEnd(l)>>
      BY <2>1 DEF logicalRecords
    <2> HIDE DEF r
    <2>4. r[1] = l /\ r[2] = RecordEnd(l)
      BY <2>3
    <2>5. l \in Nat /\ RecordEnd(l) \in Nat
      <3>1. PICK m \in LineStarts : RecordEnd(l) = LineEnd(m)
        BY RecordEndFacts
      <3>2. m \in 1..Len(text) /\ l \in 1..Len(text) /\ Len(text) \in Nat
        BY DEF LineStarts
      <3>3. LineEnd(m) \in m..(Len(text) + 1)
        BY <3>2, LineEndFacts
      <3> QED
        BY <3>1, <3>2, <3>3
    <2>6. l <= f.s /\ f.e <= RecordEnd(l)
      BY <2>1, <2>4
    <2>7. f.s \in Nat /\ f.e \in Nat /\ WindowSize \in Nat
      BY DetectionAssumption DEF Findings
    <2>8. a = Greatest(l, f.s - WindowSize) /\ b = Least(RecordEnd(l), f.e + WindowSize)
      BY <2>4
    <2> HIDE DEF a, b, home
    <2>9. a \in Nat /\ l <= a /\ a <= f.s
      BY <2>5, <2>6, <2>7, <2>8 DEF Greatest
    <2>10. b \in Nat /\ f.e <= b /\ b <= RecordEnd(l)
      BY <2>5, <2>6, <2>7, <2>8 DEF Least
    <2> QED
      BY <2>2, <2>9, <2>10
  <1> QED
    BY <1>1, <1>2

\* What nearbyAnchorTypes accepts stands together with the finding: in its
\* sentence, and in its line or record.
LEMMA NearbyIsTogether ==
    ASSUME text \in Seq(Cells), NEW f \in Findings, f.s < f.e,
           NEW x \in Findings, x.s < x.e,
           contextWindow(f)[1] <= x.s, x.e <= contextWindow(f)[2],
           x.e <= f.s \/ x.s >= f.e
    PROVE  Together(f, x)
  <1>0. f.s \in Nat /\ f.e \in Nat /\ x.s \in Nat /\ x.e \in Nat
    BY DEF Findings
  <1>1. ASSUME NEW a \in Nat, NEW b \in Nat, a <= f.s, f.e <= b,
               recordWindow(f) = <<a, b>>
        PROVE  /\ contextWindow(f)[1] \in a..f.s /\ contextWindow(f)[2] \in f.e..b
               /\ \A i \in contextWindow(f)[1]..(f.s - 1) : text[i] # "stop"
               /\ \A i \in f.e..(contextWindow(f)[2] - 1) : text[i] # "stop"
    <2>1. contextWindow(f) = Between(<<a, b>>, f, {"stop"})
      BY <1>1 DEF contextWindow
    <2> DEFINE u == Between(<<a, b>>, f, {"stop"})
    <2>2. /\ u[1] \in a..f.s /\ u[2] \in f.e..b
          /\ \A i \in u[1]..(f.s - 1) : text[i] \notin {"stop"}
          /\ \A i \in f.e..(u[2] - 1) : text[i] \notin {"stop"}
      BY <1>1, BetweenFacts
    <2> HIDE DEF u
    <2> QED
      BY <2>1, <2>2 DEF u
  <1>2. recordWindow(f) # <<f.s, f.e>>
    <2> SUFFICES ASSUME recordWindow(f) = <<f.s, f.e>> PROVE FALSE
      OBVIOUS
    <2>1. contextWindow(f)[1] = f.s /\ contextWindow(f)[2] = f.e
      BY <1>0, <1>1
    <2> QED
      BY <1>0, <2>1
  <1>3. PICK l \in LineStarts, a \in Nat, b \in Nat :
           /\ recordWindow(f) = <<a, b>>
           /\ l <= a /\ a <= f.s /\ f.e <= b /\ b <= RecordEnd(l)
    BY <1>2, RecordWindowFacts
  <1> DEFINE u == contextWindow(f)[1]
             v == contextWindow(f)[2]
  <1>4. /\ u \in a..f.s /\ v \in f.e..b
        /\ \A i \in u..(f.s - 1) : text[i] # "stop"
        /\ \A i \in f.e..(v - 1) : text[i] # "stop"
    BY <1>1, <1>3
  <1> DEFINE from == Least(f.s, x.s)
             to   == Greatest(f.e, x.e) - 1
  <1>5. l \in Nat /\ RecordEnd(l) \in Int
    <2>1. PICK m \in LineStarts : RecordEnd(l) = LineEnd(m)
      BY RecordEndFacts
    <2>2. m \in 1..Len(text) /\ l \in 1..Len(text) /\ Len(text) \in Nat
      BY DEF LineStarts
    <2> QED
      BY <2>1, <2>2, LineEndFacts
  <1>6. u <= x.s /\ x.e <= v
    OBVIOUS
  <1> HIDE DEF u, v
  <1>7. /\ from \in Nat /\ to \in Nat /\ u <= from /\ to <= v - 1
        /\ l <= from /\ to < RecordEnd(l)
    <2>1. from \in {f.s, x.s} /\ to \in {f.e - 1, x.e - 1}
      BY DEF Least, Greatest
    <2>2. u \in Nat /\ u <= f.s /\ a <= u /\ v \in Nat /\ f.e <= v /\ v <= b
      BY <1>0, <1>4
    <2> HIDE DEF from, to
    <2>3. from \in Nat /\ u <= from /\ l <= from
      <3>1. l <= a
        BY <1>3
      <3> QED
        BY ONLY <1>0, <1>5, <1>6, <2>1, <2>2, <3>1, a \in Nat
    <2>4. to \in Nat /\ to <= v - 1
      <3>1. f.e > 0 /\ x.e > 0
        BY <1>0
      <3> QED
        BY ONLY <1>0, <1>6, <2>1, <2>2, <3>1
    <2>5. to < RecordEnd(l)
      <3>1. b <= RecordEnd(l)
        BY <1>3
      <3> QED
        BY ONLY <1>5, <2>2, <2>4, <3>1, b \in Nat
    <2> QED
      BY <2>3, <2>4, <2>5
  <1> HIDE DEF from, to
  <1>8. ASSUME NEW i \in from..to, text[i] = "stop" PROVE Inside(f, i)
    <2>1. i \in Nat /\ u <= i /\ i <= v - 1 /\ u \in Nat /\ v \in Nat
      BY <1>0, <1>4, <1>7
    <2>2. f.s <= i
      BY <1>0, <1>4, <1>8, <2>1
    <2>3. i < f.e
      BY <1>0, <1>4, <1>8, <2>1
    <2> QED
      BY <2>2, <2>3 DEF Inside
  <1>9. \/ \A i \in from..to : text[i] # "break"
        \/ /\ text[l] = "person"
           /\ l = 1 \/ text[l - 1] = "break"
           /\ \A i \in l..to : text[i] = "break" => text[i + 1] = "field"
    BY <1>7, OneRecord
  <1>10. l \in 1..from
    BY <1>7 DEF LineStarts
  <1> QED
    BY <1>8, <1>9, <1>10 DEF Together, from, to

-----------------------------------------------------------------------------
(* Evidence through the passes *)

\* f is the raw finding g, stronger only by evidence that stands with it.
Supported(f, g) ==
    /\ f = [g EXCEPT !.conf = f.conf]
    /\ g.conf < f.conf =>
          \E a \in raw : /\ a.conf >= ConfidenceHigh
                        /\ a.type \in anchorTypes \ {f.type}
                        /\ Together(f, a)

\* Suppression only takes confidence away, and the anchors are frozen among
\* what the detectors were sure of, before any promotion.
ContextInv ==
    /\ pc \in {"anchors", "promote"} =>
          \A f \in found : f \in raw \/ (f.conf = 0 /\ \E g \in raw : f = [g EXCEPT !.conf = 0])
    /\ pc = "promote" =>
          \A a \in anchors : /\ a \in raw /\ a.conf >= ConfidenceHigh
                             /\ a.type \in anchorTypes
    /\ EvidenceIsLocal

\* A promotion has its evidence among the raw findings.
LEMMA PromotionSupported ==
    ASSUME IInv, ContextInv, pc = "promote", NEW f \in found
    PROVE  \E g \in raw : Supported(Promote(f), g)
  <1>0. /\ text \in Seq(Cells) /\ raw \subseteq Findings /\ found \subseteq Findings
        /\ NonEmpty(raw) /\ NonEmpty(found)
    BY DEF IInv, TypeOK, SpanInv
  <1>1. CASE f \in raw
    <2>1. f \in Findings /\ f.conf \in 0..100 /\ f.s < f.e
      BY <1>0 DEF Findings, NonEmpty
    <2> DEFINE gain == IF Cardinality(nearbyAnchorTypes(f)) > 1 THEN 30 ELSE 22
               c == Least(f.conf + gain, ConfidenceHigh)
    <2>2. \/ Promote(f) = f
          \/ Promote(f) = [f EXCEPT !.conf = 0]
          \/ nearbyAnchorTypes(f) # {} /\ Promote(f) = [f EXCEPT !.conf = c]
      BY DEF Promote
    <2> HIDE DEF c
    <2>3. CASE Promote(f) = f
      <3>1. f = [f EXCEPT !.conf = f.conf] /\ ~(f.conf < f.conf)
        BY <2>1 DEF Findings
      <3> QED
        BY <1>1, <2>3, <3>1 DEF Supported
    <2>4. CASE Promote(f) = [f EXCEPT !.conf = 0]
      <3>1. [f EXCEPT !.conf = 0].conf = 0 /\ ~(f.conf < 0)
        BY <2>1 DEF Findings
      <3> QED
        BY <1>1, <2>4, <3>1 DEF Supported
    <2>5. CASE nearbyAnchorTypes(f) # {} /\ Promote(f) = [f EXCEPT !.conf = c]
      <3>1. PICK x \in anchors : /\ contextWindow(f)[1] <= x.s
                                 /\ x.e <= contextWindow(f)[2]
                                 /\ x.type # f.type
                                 /\ x.e <= f.s \/ x.s >= f.e
        BY <2>5 DEF nearbyAnchorTypes
      <3>2. x \in raw /\ x.conf >= ConfidenceHigh /\ x.type \in anchorTypes
        BY DEF ContextInv
      <3>3. x \in Findings /\ x.s < x.e
        BY <1>0, <3>2 DEF NonEmpty
      <3>4. Together(f, x)
        BY <1>0, <2>1, <3>1, <3>3, NearbyIsTogether
      <3> DEFINE p == [f EXCEPT !.conf = c]
      <3>5. p.conf = c /\ p.s = f.s /\ p.e = f.e /\ p.type = f.type
        BY <2>1 DEF Findings
      <3> HIDE DEF p
      <3>6. Together(p, x)
        BY <3>4, <3>5 DEF Together, Inside
      <3>7. p = [f EXCEPT !.conf = p.conf]
        BY <3>5 DEF p
      <3>8. Promote(f) = p
        BY <2>5 DEF p
      <3> QED
        BY <1>1, <3>1, <3>2, <3>5, <3>6, <3>7, <3>8 DEF Supported
    <2> QED
      BY <2>2, <2>3, <2>4, <2>5
  <1>2. ASSUME f.conf = 0, NEW g \in raw, f = [g EXCEPT !.conf = 0]
        PROVE  Supported(Promote(f), g)
    <2>1. Promote(f) = f
      BY <1>2 DEF Promote
    <2>2. ~(g.conf < 0)
      <3>1. g \in Findings
        BY <1>0
      <3>2. g.conf \in 0..100
        BY <3>1 DEF Findings
      <3> QED
        BY ONLY <3>2
    <2> QED
      BY <1>2, <2>1, <2>2 DEF Supported
  <1> QED
    BY <1>1, <1>2 DEF ContextInv

\* A step keeps what is known about the evidence.
LEMMA StepContext ==
    ASSUME IInv, ContextInv, [Next]_vars
    PROVE  ContextInv'
  <1>1. CASE UNCHANGED <<text, raw, found, anchors>> /\ pc' \in Steps
             /\ (pc' \in {"anchors", "promote"} => pc' = pc)
             /\ (pc' \in {"select", "sweep", "replace", "verify", "masked"} =>
                    pc \in {"select", "sweep", "replace", "verify", "masked"})
    BY <1>1 DEF ContextInv, EvidenceIsLocal, Together, Inside
  <1>2. CASE RunDetector
    BY <1>2 DEF RunDetector, ContextInv, EvidenceIsLocal
  <1>3. CASE Collected \/ Abort \/ SelectStep \/ Sweep \/ Swept \/ Replace \/ Replaced
             \/ Verify \/ UNCHANGED vars
    <2>1. UNCHANGED <<text, raw, found, anchors>>
      BY <1>3 DEF Collected, Abort, SelectStep, Sweep, Swept, Replace, Replaced, Verify,
         vars, input
    <2>2. \/ pc' \in {"suppress", "failed"}
          \/ /\ pc \in {"select", "sweep", "replace", "verify", "masked"}
             /\ pc' \in {"select", "sweep", "replace", "verify", "masked", "failed"}
          \/ pc' = pc
      BY <1>3 DEF Collected, Abort, SelectStep, Sweep, Swept, Replace, Replaced, Verify, vars
    <2>3. pc \in Steps
      BY DEF IInv, TypeOK
    <2> QED
      BY <1>1, <2>1, <2>2, <2>3 DEF Steps
  <1>4. CASE suppressContext
    <2>1. pc' = "anchors" /\ found' = {Suppress(f) : f \in raw} /\ raw' = raw
      BY <1>4 DEF suppressContext
    <2>2. ASSUME NEW f \in raw
          PROVE  \/ Suppress(f) \in raw
                 \/ Suppress(f).conf = 0 /\ \E g \in raw : Suppress(f) = [g EXCEPT !.conf = 0]
      <3>1. f \in Findings
        BY DEF IInv, TypeOK
      <3>2. [f EXCEPT !.conf = 0].conf = 0
        BY <3>1 DEF Findings
      <3> QED
        BY <3>2 DEF Suppress
    <2> QED
      BY <2>1, <2>2 DEF ContextInv, EvidenceIsLocal
  <1>5. CASE contextAnchors
    <2>1. /\ pc = "anchors" /\ pc' = "promote" /\ UNCHANGED <<found, raw>>
          /\ \A a \in anchors' : /\ a \in found /\ a.conf >= ConfidenceHigh
                                 /\ a.type \in anchorTypes
      BY <1>5 DEF contextAnchors
    <2>2. \A a \in found : a.conf >= ConfidenceHigh => a \in raw
      BY <2>1 DEF ContextInv, ConfidenceHigh
    <2> QED
      BY <2>1, <2>2 DEF ContextInv, EvidenceIsLocal
  <1>6. CASE promoteContext
    <2>1. /\ pc = "promote" /\ pc' = "select" /\ raw' = raw /\ text' = text
          /\ found' = {Promote(f) : f \in found}
      BY <1>6 DEF promoteContext, input
    <2>2. \A f \in found' : \E g \in raw : Supported(f, g)
      BY <2>1, PromotionSupported
    <2> QED
      BY <2>1, <2>2 DEF ContextInv, EvidenceIsLocal, Supported, Together, Inside
  <1> QED
    BY <1>2, <1>3, <1>4, <1>5, <1>6 DEF Next

\* No finding becomes stronger by evidence from another sentence or record,
\* nor by a candidate that is itself a promoted one, for every text.
THEOREM EvidenceStaysLocal == Spec => []EvidenceIsLocal
  <1>1. Init => ContextInv
    BY DEF Init, ContextInv, EvidenceIsLocal
  <1>2. IInv /\ ContextInv /\ [Next]_vars => ContextInv'
    BY StepContext
  <1>3. ContextInv => EvidenceIsLocal
    BY DEF ContextInv
  <1> QED
    BY <1>1, <1>2, <1>3, Invariance, PTL DEF Spec

-----------------------------------------------------------------------------
(* Masks by format *)

\* Of more than first + last digits some digit has first before it and last
\* behind it.
LEMMA InnerDigit ==
    ASSUME NEW n \in Nat, NEW D \in SUBSET (1..n), NEW first \in Nat, NEW keep \in Nat,
           Cardinality(D) > first + keep
    PROVE  \E i \in D : /\ Cardinality({j \in D : j < i}) >= first
                        /\ Cardinality({j \in D : j < i}) + keep < Cardinality(D)
  <1> DEFINE B(i) == {j \in D : j < i}
             G == {i \in D : Cardinality(B(i)) >= first}
  <1>0. D \in SUBSET Nat /\ \A i \in D : i <= n
    OBVIOUS
  <1>1. IsFiniteSet(D) /\ Cardinality(D) \in Nat
    BY ONLY <1>0, n \in Nat, FS_BoundedSetOfNaturals, FS_CardinalityType
  <1>2. ASSUME NEW i \in D
        PROVE  B(i) \subseteq D /\ IsFiniteSet(B(i)) /\ Cardinality(B(i)) \in Nat
    <2>1. B(i) \in SUBSET D
      OBVIOUS
    <2> HIDE DEF B
    <2> QED
      BY <2>1, <1>1, FS_Subset, FS_CardinalityType
  <1>3. D # {}
    BY <1>1, FS_EmptySet
  <1>4. G # {}
    <2>1. PICK top \in D : \A y \in D : y <= top
      BY ONLY <1>0, <1>3, n \in Nat, GreatestElement
    <2>2. B(top) = D \ {top}
      <3>1. \A j \in D : j < top <=> j # top
        BY <1>0, <2>1
      <3> QED
        BY <3>1
    <2>3. Cardinality(D \ {top}) = Cardinality(D) - 1
      BY <1>1, <2>1, FS_RemoveElement
    <2>4. Cardinality(B(top)) >= first
      BY <1>1, <2>2, <2>3
    <2> HIDE DEF B
    <2> QED
      BY <2>1, <2>4
  <1>5. PICK i \in G : \A y \in G : i <= y
    <2>1. G \in SUBSET Nat
      BY <1>0
    <2> HIDE DEF G
    <2> QED
      BY <2>1, <1>4, LeastElement
  <1>6. i \in D /\ Cardinality(B(i)) >= first
    BY <1>5
  <1>7. Cardinality(B(i)) <= first
    <2>1. CASE B(i) = {}
      BY <2>1, FS_EmptySet
    <2>2. CASE B(i) # {}
      <3>1. B(i) \in SUBSET Nat /\ \A y \in B(i) : y <= n
        BY <1>0
      <3>2. PICK p \in B(i) : \A y \in B(i) : y <= p
        BY ONLY <2>2, <3>1, n \in Nat, GreatestElement
      <3>3. p \in D /\ p < i /\ p \notin B(p)
        BY <1>0, <3>2
      <3>4. B(i) = B(p) \cup {p}
        <4>1. ASSUME NEW j \in D PROVE j < i <=> j < p \/ j = p
          <5>1. j \in Nat /\ p \in Nat /\ i \in Nat
            BY <1>0, <1>6, <3>3
          <5>2. j < i => j <= p
            BY <3>2
          <5> QED
            BY <3>3, <5>1, <5>2
        <4> QED
          BY <3>3, <4>1
      <3>5. ~(Cardinality(B(p)) >= first)
        <4>1. p \notin G
          BY <1>0, <1>5, <3>3
        <4> HIDE DEF B
        <4> QED
          BY <3>3, <4>1
      <3> HIDE DEF B
      <3>6. Cardinality(B(i)) = Cardinality(B(p)) + 1
        BY <1>2, <3>3, <3>4, FS_AddElement
      <3> QED
        BY <1>2, <3>3, <3>5, <3>6
    <2> QED
      BY <2>1, <2>2
  <1>8. Cardinality(B(i)) + keep < Cardinality(D)
    BY <1>1, <1>2, <1>6, <1>7
  <1> QED
    BY <1>6, <1>8

\* A numeric mask with more digits than it keeps hides one.
LEMMA InnerHides ==
    ASSUME NEW v \in Seq(Classes), NEW first \in Nat, NEW keep \in Nat,
           Cardinality(Digits(v)) > first + keep
    PROVE  MaskInner(v, first, keep) # {}
  <1>1. Len(v) \in Nat /\ Digits(v) \in SUBSET (1..Len(v))
    BY DEF Digits
  <1>2. PICK i \in Digits(v) :
           /\ Cardinality({j \in Digits(v) : j < i}) >= first
           /\ Cardinality({j \in Digits(v) : j < i}) + keep < Cardinality(Digits(v))
    BY <1>1, InnerDigit
  <1> QED
    BY <1>2 DEF MaskInner

\* The mask of a date hides day or month, or half of a year, or the letters.
LEMMA DateHides ==
    ASSUME NEW v \in Seq(Classes), Digits(v) \cup Letters(v) # {}
    PROVE  maskDate(v) # {}
  <1>1. CASE Digits(v) = {}
    BY <1>1 DEF maskDate, maskWords
  <1>2. CASE Digits(v) # {}
    <2>1. Len(v) \in Nat /\ Digits(v) \in SUBSET (1..Len(v))
      BY DEF Digits
    <2>2. IsFiniteSet(Digits(v)) /\ Cardinality(Digits(v)) \in Nat /\ Cardinality(Digits(v)) > 0
      <3>1. Digits(v) \in SUBSET Nat /\ \A i \in Digits(v) : i <= Len(v)
        BY <2>1
      <3>2. IsFiniteSet(Digits(v))
        BY <2>1, <3>1, FS_BoundedSetOfNaturals
      <3>3. Cardinality(Digits(v)) \in Nat /\ Cardinality(Digits(v)) # 0
        BY <1>2, <3>2, FS_CardinalityType, FS_EmptySet
      <3> QED
        BY <3>2, <3>3
    <2> DEFINE y == CHOOSE i \in YearRuns(v) : \A j \in YearRuns(v) : j <= i
    <2>3. YearRuns(v) # {} => y \in YearRuns(v)
      <3> SUFFICES ASSUME YearRuns(v) # {} PROVE y \in YearRuns(v)
        OBVIOUS
      <3>1. YearRuns(v) \in SUBSET Nat /\ \A i \in YearRuns(v) : i <= Len(v)
        BY <2>1 DEF YearRuns
      <3>2. \E i \in YearRuns(v) : \A j \in YearRuns(v) : j <= i
        BY <2>1, <3>1, GreatestElement
      <3> QED
        BY <3>2
    <2>4. Year(v) = IF YearRuns(v) = {} THEN {} ELSE y..(y + 3)
      BY DEF Year
    <2> HIDE DEF y
    <2>5. YearRuns(v) # {} => y \in Nat /\ y..(y + 3) \subseteq Digits(v)
      BY <2>1, <2>3 DEF YearRuns
    <2>6. IsFiniteSet(Year(v)) /\ Cardinality(Year(v)) \in Nat
      <3>1. CASE YearRuns(v) = {}
        BY <2>4, <3>1, FS_EmptySet
      <3>2. CASE YearRuns(v) # {}
        <4>1. y \in Int /\ y + 3 \in Int
          BY <2>5, <3>2
        <4>2. IsFiniteSet(y..(y + 3))
          BY ONLY <4>1, FS_Interval
        <4> QED
          BY <2>4, <3>2, <4>2, FS_CardinalityType
      <3> QED
        BY <3>1, <3>2
    <2>7. CASE Cardinality(Digits(v)) > Cardinality(Year(v))
      <3>1. maskDate(v) = Digits(v) \ Year(v)
        BY <1>2, <2>7 DEF maskDate
      <3>2. ASSUME Digits(v) \in SUBSET Year(v) PROVE FALSE
        <4>1. Cardinality(Digits(v)) <= Cardinality(Year(v))
          BY <2>6, <3>2, FS_Subset
        <4> QED
          BY <2>2, <2>6, <2>7, <4>1
      <3> QED
        BY <3>1, <3>2
    <2>8. CASE ~(Cardinality(Digits(v)) > Cardinality(Year(v)))
      <3>1. maskDate(v) = {i \in Digits(v) : (i + 2) \in Year(v)}
        BY <1>2, <2>8 DEF maskDate
      <3>2. Year(v) # {}
        BY <2>2, <2>6, <2>8, FS_EmptySet
      <3>3. YearRuns(v) # {} /\ Year(v) = y..(y + 3) /\ y \in Nat /\ y..(y + 3) \subseteq Digits(v)
        BY <2>4, <2>5, <3>2
      <3>4. y \in Digits(v) /\ y + 2 \in Year(v)
        BY <3>3
      <3> QED
        BY <3>1, <3>4
    <2> QED
      BY <2>7, <2>8
  <1> QED
    BY <1>1, <1>2

\* The mask of an address hides at least the first rune behind the "at".
LEMMA EmailHides ==
    ASSUME NEW v \in Seq(Classes), NEW i \in DOMAIN v, NEW j \in DOMAIN v,
           i < j, v[i] = "at"
    PROVE  maskEmail(v) # {}
  <1> DEFINE ats   == {k \in DOMAIN v : v[k] = "at"}
             at    == CHOOSE k \in ats : \A m \in ats : k <= m
             dots  == {k \in DOMAIN v : k > at /\ v[k] = "dot"}
             dot   == CHOOSE k \in dots : \A m \in dots : m <= k
             named == dots # {} /\ dot > at + 1
  <1>1. DOMAIN v = 1..Len(v) /\ Len(v) \in Nat
    OBVIOUS
  <1>2. ats \in SUBSET Nat /\ i \in ats
    BY <1>1
  <1>3. \E k \in ats : \A m \in ats : k <= m
    BY ONLY <1>2, LeastElement
  <1>4. at \in ats /\ at <= i
    BY <1>2, <1>3
  <1>5. maskEmail(v) = {k \in DOMAIN v : \/ 1 < k /\ k < at
                                         \/ at < k /\ (named => k < dot)}
    BY <1>2 DEF maskEmail
  <1> HIDE DEF dots, dot
  <1>6. at \in 1..Len(v)
    BY <1>1, <1>4
  <1> HIDE DEF at, ats
  <1>7. at + 1 \in DOMAIN v /\ at < at + 1 /\ (named => at + 1 < dot)
    <2>1. at + 1 \in 1..Len(v) /\ at < at + 1
      BY <1>1, <1>4, <1>6
    <2>2. named => at + 1 < dot
      OBVIOUS
    <2> QED
      BY <1>1, <2>1, <2>2
  <1> QED
    BY <1>5, <1>7

\* A mask hides something of every value with what its pattern promises, but of
\* initials, of signs and of what a configured pattern finds without a letter.
LEMMA MaskHides ==
    ASSUME NEW type, NEW v \in Seq(Classes), Promised(type, v), Mask(type, v) = {}
    PROVE  ShownAsIs(type, v)
  <1>0. DOMAIN v = 1..Len(v) /\ Len(v) \in Nat
    OBVIOUS
  <1>1. CASE type \in {"full_name", "card_holder"}
    <2>1. ASSUME NEW i \in DOMAIN v, i + 1 \in DOMAIN v
          PROVE  "space" \in {v[i], v[i + 1]}
      <3>1. i + 1 > 1 /\ (i + 1) - 1 = i
        BY <1>0
      <3>2. i + 1 \notin maskFullName(v)
        BY <1>1 DEF Mask
      <3> QED
        BY <2>1, <3>1, <3>2 DEF maskFullName
    <2> QED
      BY <1>1, <2>1 DEF ShownAsIs, Initials
  <1>2. CASE type \in {"date_of_birth", "passport_issue_date"}
    <2>1. Digits(v) \cup Letters(v) # {}
      BY <1>2 DEF Promised
    <2> QED
      BY <1>2, <2>1, DateHides DEF Mask
  <1>3. CASE type \in {"place_of_birth", "citizenship"}
    <2>1. Letters(v) = {}
      BY <1>3 DEF Mask, maskWords
    <2>2. Letters(v) \cup Marks(v) # {}
      BY <1>3 DEF Promised
    <2> QED
      BY <1>3, <2>1, <2>2 DEF ShownAsIs
  <1>4. CASE type \in {"passport_number", "passport_division_code", "driver_license", "inn"}
    <2>1. Cardinality(Digits(v)) > 2 + 2
      BY <1>4 DEF Promised
    <2>2. MaskInner(v, 2, 2) # {}
      BY <2>1, InnerHides
    <2> QED
      BY <1>4, <2>2 DEF Mask, maskPassport
  <1>5. CASE type = "email"
    <2>1. PICK i, j \in DOMAIN v : i < j /\ v[i] = "at"
      BY <1>5 DEF Promised
    <2> QED
      BY <1>5, <2>1, EmailHides DEF Mask
  <1>6. CASE type = "phone"
    <2>1. Cardinality(Digits(v)) > 1 + 2
      BY <1>6 DEF Promised
    <2>2. MaskInner(v, 1, 2) # {}
      BY <2>1, InnerHides
    <2> QED
      BY <1>6, <2>2 DEF Mask, maskPhone
  <1>7. CASE type = "card_number"
    <2>1. Cardinality(Digits(v)) > 4 + 4
      BY <1>7 DEF Promised
    <2>2. MaskInner(v, 4, 4) # {}
      BY <2>1, InnerHides
    <2> QED
      BY <1>7, <2>2 DEF Mask, maskCardNumber
  <1>8. CASE type \in {"cvv", "card_pin"}
    <2>1. Cardinality(Digits(v)) > 0
      BY <1>8 DEF Promised
    <2>2. Digits(v) # {}
      <3>1. Digits(v) = {} => Cardinality(Digits(v)) = 0
        BY FS_EmptySet
      <3> QED
        BY <2>1, <3>1
    <2> QED
      BY <1>8, <2>2 DEF Mask, maskAllDigits
  <1>9. CASE type = "address"
    <2>1. Digits(v) \cup Letters(v) = {}
      BY <1>9 DEF Mask, maskAllAlphaNumeric
    <2>2. Digits(v) \cup Letters(v) \cup Marks(v) # {}
      BY <1>9 DEF Promised
    <2> QED
      BY <1>9, <2>1, <2>2 DEF ShownAsIs
  <1>10. CASE type = "passport_issuer"
    BY <1>10 DEF Promised, Mask, maskAllAlphaNumeric
  <1>11. CASE type \notin BuiltInTypes
    <2>1. Digits(v) \cup Letters(v) = {}
      BY <1>11 DEF Mask, maskAllAlphaNumeric, BuiltInTypes
    <2> QED
      BY <1>11, <2>1 DEF ShownAsIs
  <1> QED
    BY <1>1, <1>2, <1>3, <1>4, <1>5, <1>6, <1>7, <1>8, <1>9, <1>10, <1>11
    DEF BuiltInTypes

\* Where every value has what its pattern promises, a mask by format leaves
\* initials, signs and the matches of configured patterns without letters and
\* digits as they are, and no other value (masking.Mask).
THEOREM PartIsHidden ==
    ASSUME \A t \in Types : \A v \in Shapes[t] : v \in Seq(Classes) /\ Promised(t, v)
    PROVE  Spec => []MasksHideAPart
  <1>1. Init => MasksHideAPart
    BY DEF Init, MasksHideAPart
  <1>2. IInv /\ MasksHideAPart /\ [Next]_vars => MasksHideAPart'
    <2> SUFFICES ASSUME IInv, MasksHideAPart, [Next]_vars PROVE MasksHideAPart'
      OBVIOUS
    <2>1. CASE Replace
      <3>1. PICK f \in todo : \E v \in Shapes[f.type] :
               whole' = IF UseTokens \/ Mask(f.type, v) # {} THEN whole
                        ELSE whole \cup {[type |-> f.type, value |-> v]}
        BY <2>1 DEF Replace
      <3>2. PICK v \in Shapes[f.type] :
               whole' = IF UseTokens \/ Mask(f.type, v) # {} THEN whole
                        ELSE whole \cup {[type |-> f.type, value |-> v]}
        BY <3>1
      <3>3. f.type \in Types
        BY DEF IInv, TypeOK, Findings
      <3>4. Mask(f.type, v) = {} => ShownAsIs(f.type, v)
        BY <3>3, MaskHides
      <3> QED
        BY <3>2, <3>4 DEF MasksHideAPart
    <2>2. CASE ~Replace
      <3>1. whole' = whole
        BY <2>2 DEF Next, RunDetector, Collected, Abort, suppressContext, contextAnchors,
           promoteContext, SelectStep, Sweep, Swept, Replaced, Verify, vars
      <3> QED
        BY <3>1 DEF MasksHideAPart
    <2> QED
      BY <2>1, <2>2
  <1> QED
    BY <1>1, <1>2, Invariance, PTL DEF Spec

-----------------------------------------------------------------------------
(* Detectors: functions of rounds *)

\* Induction over the naturals, for a set of them.
LEMMA Induction ==
    ASSUME NEW T, 0 \in T, \A n \in Nat : n \in T => n + 1 \in T
    PROVE  \A n \in Nat : n \in T
  <1> DEFINE U == Nat \ T
  <1>1. ASSUME U # {} PROVE FALSE
    <2>1. U \in SUBSET Nat
      OBVIOUS
    <2>2. PICK x \in U : \A y \in U : x <= y
      BY ONLY <1>1, <2>1, LeastElement
    <2>3. x \in Nat /\ x # 0 /\ x \notin T
      OBVIOUS
    <2>4. x - 1 \in Nat /\ x - 1 \notin U
      BY <2>2, <2>3
    <2>5. (x - 1) + 1 \in T
      BY <2>4
    <2> QED
      BY <2>3, <2>5
  <1> QED
    BY <1>1

\* The first n rounds of an iteration, as a function of the round.
Rounds(g, n, S, s0, step) ==
    /\ g \in [0..n -> S]
    /\ g[0] = s0
    /\ \A k \in 0..(n - 1) : g[k + 1] = step[k + 1, g[k]]

\* Every number of rounds can be run.
LEMMA RoundsExist ==
    ASSUME NEW S, NEW s0 \in S, NEW step \in [Nat \X S -> S]
    PROVE  \A n \in Nat : \E g : Rounds(g, n, S, s0, step)
  <1> DEFINE T == {n \in Nat : \E g : Rounds(g, n, S, s0, step)}
  <1>1. 0 \in T
    <2>1. Rounds([k \in 0..0 |-> s0], 0, S, s0, step)
      BY DEF Rounds
    <2> QED
      BY <2>1
  <1>2. ASSUME NEW n \in Nat, n \in T PROVE n + 1 \in T
    <2>1. PICK g : Rounds(g, n, S, s0, step)
      BY <1>2
    <2>a. /\ g \in [0..n -> S]
          /\ g[0] = s0
          /\ \A k \in 0..(n - 1) : g[k + 1] = step[k + 1, g[k]]
      BY <2>1 DEF Rounds
    <2> DEFINE v == step[n + 1, g[n]]
               h == [k \in 0..(n + 1) |-> IF k = n + 1 THEN v ELSE g[k]]
    <2>2. v \in S
      <3>0. n \in 0..n
        OBVIOUS
      <3>1. g[n] \in S
        BY <2>a, <3>0
      <3>2. <<n + 1, g[n]>> \in Nat \X S
        BY <3>1
      <3> QED
        BY <3>2
    <2>b. v = step[n + 1, g[n]]
      OBVIOUS
    <2> HIDE DEF v
    <2>3. h \in [0..(n + 1) -> S]
      <3>1. ASSUME NEW k \in 0..(n + 1), k # n + 1 PROVE g[k] \in S
        <4>1. k \in 0..n
          BY <3>1
        <4> QED
          BY <4>1, <2>a
      <3> QED
        BY <3>1, <2>2
    <2>4. h[0] = s0
      <3>1. 0 \in 0..(n + 1) /\ 0 # n + 1
        OBVIOUS
      <3>2. h[0] = g[0]
        BY <3>1
      <3> QED
        BY <2>a, <3>2
    <2>5. ASSUME NEW k \in 0..n PROVE h[k + 1] = step[k + 1, h[k]]
      <3>1. CASE k = n
        <4>1. h[k + 1] = v /\ h[k] = g[n]
          BY <3>1
        <4> QED
          BY <4>1, <3>1, <2>b
      <3>2. CASE k # n
        <4>1. k \in 0..(n - 1) /\ h[k + 1] = g[k + 1] /\ h[k] = g[k]
          BY <3>2
        <4> HIDE DEF h
        <4> QED
          BY <2>a, <4>1
      <3> QED
        BY <3>1, <3>2
    <2>6. Rounds(h, n + 1, S, s0, step)
      <3> HIDE DEF h
      <3>1. (n + 1) - 1 = n
        OBVIOUS
      <3> QED
        BY <2>3, <2>4, <2>5, <3>1 DEF Rounds
    <2> QED
      BY <2>6
  <1> HIDE DEF T
  <1>3. \A n \in Nat : n \in T
    BY <1>1, <1>2, Induction
  <1> QED
    BY <1>3 DEF T

\* Two runs of the same rounds agree.
LEMMA RoundsAgree ==
    ASSUME NEW S, NEW s0, NEW step, NEW n \in Nat, n > 0, NEW g, NEW h,
           Rounds(g, n, S, s0, step), Rounds(h, n - 1, S, s0, step)
    PROVE  \A k \in Nat : k <= n - 1 => g[k] = h[k]
  <1> DEFINE T == {k \in Nat : k <= n - 1 => g[k] = h[k]}
  <1>1. 0 \in T
    BY DEF Rounds
  <1>2. ASSUME NEW k \in Nat, k \in T PROVE k + 1 \in T
    <2> SUFFICES ASSUME k + 1 <= n - 1 PROVE g[k + 1] = h[k + 1]
      OBVIOUS
    <2>1. g[k] = h[k] /\ k \in 0..(n - 1) /\ k \in 0..((n - 1) - 1)
      BY <1>2
    <2> QED
      BY <2>1 DEF Rounds
  <1> HIDE DEF T
  <1>3. \A k \in Nat : k \in T
    BY <1>1, <1>2, Induction
  <1> QED
    BY <1>3 DEF T

\* A function that is defined by what it does round by round exists, so that
\* its definition says what it is.
Iterable(S, s0, step) == s0 \in S /\ step \in [Nat \X S -> S]

Iterates(g, S, s0, step) ==
    /\ g \in [Nat -> S]
    /\ g[0] = s0
    /\ \A n \in Nat : n # 0 => g[n] = step[n, g[n - 1]]

LEMMA Iteration ==
    ASSUME NEW S, NEW s0, NEW step, Iterable(S, s0, step)
    PROVE  \E g : Iterates(g, S, s0, step)
  <1>0. s0 \in S /\ step \in [Nat \X S -> S]
    BY DEF Iterable
  <1> DEFINE R == [n \in Nat |-> CHOOSE g : Rounds(g, n, S, s0, step)]
             f == [n \in Nat |-> R[n][n]]
  <1>1. \A n \in Nat : Rounds(R[n], n, S, s0, step)
    BY <1>0, RoundsExist
  <1> HIDE DEF R
  <1>2. ASSUME NEW n \in Nat PROVE f[n] \in S
    <2>1. Rounds(R[n], n, S, s0, step)
      BY <1>1
    <2>2. R[n] \in [0..n -> S]
      BY <2>1 DEF Rounds
    <2>3. n \in 0..n
      OBVIOUS
    <2>4. R[n][n] \in S
      BY <2>2, <2>3
    <2> QED
      BY <2>4
  <1>3. f[0] = s0
    BY <1>1 DEF Rounds
  <1>4. ASSUME NEW n \in Nat, n # 0 PROVE f[n] = step[n, f[n - 1]]
    <2>1. n - 1 \in Nat /\ n - 1 \in 0..(n - 1) /\ (n - 1) + 1 = n /\ n - 1 <= n
      BY <1>4
    <2>2. PICK g : g = R[n] /\ Rounds(g, n, S, s0, step)
      BY <1>1
    <2>3. PICK h : h = R[n - 1] /\ Rounds(h, n - 1, S, s0, step)
      BY <1>1, <2>1
    <2>a. \A k \in Nat : k <= n - 1 => g[k] = h[k]
      <3>1. n > 0 /\ Rounds(g, n, S, s0, step) /\ Rounds(h, n - 1, S, s0, step)
        BY <2>1, <2>2, <2>3
      <3> QED
        BY ONLY n \in Nat, <3>1, RoundsAgree
    <2>4. g[n - 1] = h[n - 1]
      BY <2>1, <2>a
    <2>5. g[(n - 1) + 1] = step[(n - 1) + 1, g[n - 1]]
      BY <2>1, <2>2 DEF Rounds
    <2>6. f[n] = g[n] /\ f[n - 1] = h[n - 1]
      BY <2>1, <2>2, <2>3
    <2> QED
      BY <2>1, <2>4, <2>5, <2>6
  <1>5. f \in [Nat -> S]
    BY <1>2
  <1> HIDE DEF f
  <1> QED
    BY <1>3, <1>4, <1>5 DEF Iterates

-----------------------------------------------------------------------------
(* Detectors: what is written *)

\* Inputs are sequences of runes, texts are sequences of cells.
WrittenOK ==
    /\ topic = "pattern" => re \in Regexps /\ written \in Seq(Runes)
    /\ \A t \in Topics : topic = t => written \in Seq(CellsOf(t))

\* What is written stays made of the cells of its topic.
LEMMA WritingOK == Writing => []WrittenOK
  <1>1. WriteInit => WrittenOK
    BY DEF WriteInit, WrittenOK, Topics
  <1>2. WrittenOK /\ [WriteNext]_writeVars => WrittenOK'
    <2> SUFFICES ASSUME WrittenOK, [WriteNext]_writeVars PROVE WrittenOK'
      OBVIOUS
    <2>1. ASSUME NEW r \in Runes, WriteRune(r) PROVE WrittenOK'
      BY <2>1 DEF WriteRune, WrittenOK, Topics
    <2>2. ASSUME NEW c \in UNION {CellsOf(t) : t \in {topic} \cap Topics}, WriteCell(c)
          PROVE  WrittenOK'
      <3>1. c \in CellsOf(topic) /\ topic \in Topics
        OBVIOUS
      <3>2. topic' = topic /\ re' = re /\ written' = Append(written, c)
        BY <2>2 DEF WriteCell
      <3> QED
        BY <3>1, <3>2 DEF WrittenOK, Topics
    <2>3. CASE UNCHANGED writeVars
      BY <2>3 DEF writeVars, WrittenOK
    <2> QED
      BY <2>1, <2>2, <2>3 DEF WriteNext
  <1> QED
    BY <1>1, <1>2, PTL DEF Writing

-----------------------------------------------------------------------------
(* Detectors: the value of a label *)

\* What the scanner may be like after some rounds: it stands in the field of
\* the label, and what it took holds no label behind its first word and no
\* number but those tied to an authority.
Scanned(cells, s, numbers) ==
    /\ s.count = 0 => s.start = 0 /\ s.end = 0
    /\ s.count > 0 => 1 <= s.start /\ s.start <= s.end /\ s.end = s.pos
    /\ \A k \in 1..s.pos : ~FieldBreak(cells[k].gap)
    /\ s.count > 0 =>
          \A k \in s.start..s.end :
              IF cells[k].tok \in Numbers
              THEN numbers /\ k > s.start /\ issuerNumber(cells, k)
              ELSE k > s.start => cells[k].tok \notin FieldLabels

Scanners(cells, numbers) ==
    {s \in [pos: 0..Len(cells), start: 0..Len(cells), end: 0..Len(cells), count: Nat,
            skippedPrefix: BOOLEAN, stop: BOOLEAN] : Scanned(cells, s, numbers)}

\* A number that is tied to an authority stands in the field of the word before.
LEMMA IssuerNumberNoBreak ==
    ASSUME NEW cells, NEW i, issuerNumber(cells, i)
    PROVE  /\ i <= Len(cells)
           /\ cells[i].tok \in Numbers
           /\ ~FieldBreak(cells[i].gap)
  <1>1. i <= Len(cells) /\ cells[i].tok \in Numbers
    BY DEF issuerNumber, Numbers
  <1>2. CASE cells[i].gap = <<"-">>
    <2>1. \A x \in DOMAIN <<"-">> : <<"-">>[x] = "-"
      OBVIOUS
    <2>2. \A x \in DOMAIN cells[i].gap : cells[i].gap[x] = "-"
      BY <1>2, <2>1
    <2> QED
      BY <1>1, <2>2 DEF FieldBreak, Range
  <1>3. CASE \E k \in DOMAIN cells[i].gap :
             /\ cells[i].gap[k] = "#"
             /\ \A j \in DOMAIN cells[i].gap \ {k} : cells[i].gap[j] = " "
    BY <1>1, <1>3 DEF FieldBreak, Range
  <1> QED
    BY <1>1, <1>2, <1>3 DEF issuerNumber

\* A round of the scanner that accepts a word.
LEMMA AcceptWordKeeps ==
    ASSUME NEW C, NEW cells \in Seq(C), NEW numbers \in BOOLEAN, NEW prefixes,
           NEW s \in Scanners(cells, numbers), NEW i \in (s.pos + 1)..Len(cells),
           cells[i].tok \in WordTokens,
           \A k \in (s.pos + 1)..(i - 1) : cells[k].tok \notin WordTokens,
           ~endsAtGap(s, gapBetween(cells, s.pos, i))
    PROVE  acceptWord(cells, s, i, prefixes, numbers) \in Scanners(cells, numbers)
  <1> DEFINE r == acceptWord(cells, s, i, prefixes, numbers)
             end == IF numbers /\ issuerNumber(cells, i + 1) THEN i + 1 ELSE i
  <1>0. /\ s \in [pos: 0..Len(cells), start: 0..Len(cells), end: 0..Len(cells), count: Nat,
                  skippedPrefix: BOOLEAN, stop: BOOLEAN]
        /\ Scanned(cells, s, numbers) /\ Len(cells) \in Nat /\ i \in Nat /\ i > s.pos /\ i <= Len(cells)
    BY DEF Scanners
  <1>1. \A k \in (s.pos + 1)..i : ~FieldBreak(cells[k].gap)
    <2> SUFFICES ASSUME NEW k \in (s.pos + 1)..i, FieldBreak(cells[k].gap) PROVE FALSE
      OBVIOUS
    <2>1. Range(cells[k].gap) \subseteq gapBetween(cells, s.pos, i)
      BY DEF gapBetween
    <2>2. gapBetween(cells, s.pos, i) \cap {";", "newline"} # {}
      BY <2>1 DEF FieldBreak
    <2> QED
      BY <2>2 DEF endsAtGap
  <1>2. s.count > 0 => \A k \in (s.pos + 1)..(i - 1) : cells[k].tok \notin Numbers
    <2> SUFFICES ASSUME s.count > 0, NEW k \in (s.pos + 1)..(i - 1), cells[k].tok \in Numbers
                 PROVE  FALSE
      OBVIOUS
    <2>1. "digit" \in gapBetween(cells, s.pos, i)
      BY DEF gapBetween
    <2> QED
      BY <2>1 DEF endsAtGap
  <1>3. CASE r = [s EXCEPT !.stop = TRUE]
    <2>1. r \in [pos: 0..Len(cells), start: 0..Len(cells), end: 0..Len(cells), count: Nat,
                  skippedPrefix: BOOLEAN, stop: BOOLEAN]
      BY <1>0, <1>3
    <2>2. r.pos = s.pos /\ r.count = s.count /\ r.start = s.start /\ r.end = s.end
      BY <1>0, <1>3
    <2> HIDE DEF r
    <2>3. Scanned(cells, r, numbers)
      BY <1>0, <2>2 DEF Scanned
    <2> QED
      BY <2>1, <2>3 DEF Scanners, r
  <1>4. CASE s.count = 0 /\ r = [s EXCEPT !.skippedPrefix = TRUE, !.pos = i]
    <2>1. r \in [pos: 0..Len(cells), start: 0..Len(cells), end: 0..Len(cells), count: Nat,
                  skippedPrefix: BOOLEAN, stop: BOOLEAN]
      <3>1. i \in 0..Len(cells)
        BY <1>0
      <3> HIDE DEF r
      <3> QED
        BY <1>0, <1>4, <3>1
    <2>2. r.pos = i /\ r.count = 0 /\ r.start = s.start /\ r.end = s.end
      BY <1>0, <1>4
    <2> HIDE DEF r
    <2>3. \A k \in 1..i : ~FieldBreak(cells[k].gap)
      BY <1>0, <1>1 DEF Scanned
    <2>4. Scanned(cells, r, numbers)
      BY <1>0, <1>4, <2>2, <2>3 DEF Scanned
    <2> QED
      BY <2>1, <2>4 DEF Scanners, r
  <1>5. CASE /\ cells[i].tok \in PlainWords
             /\ s.count > 0 => cells[i].tok \notin FieldLabels
             /\ r = [s EXCEPT !.start = IF @ = 0 THEN i ELSE @,
                              !.end = end, !.pos = end, !.count = @ + 1]
    <2>0. /\ end \in {i, i + 1} /\ end <= Len(cells)
          /\ end = i + 1 => numbers /\ issuerNumber(cells, i + 1)
      BY <1>0, IssuerNumberNoBreak
    <2>1. r \in [pos: 0..Len(cells), start: 0..Len(cells), end: 0..Len(cells), count: Nat,
                  skippedPrefix: BOOLEAN, stop: BOOLEAN]
      <3>1. end \in 0..Len(cells) /\ i \in 0..Len(cells) /\ s.count + 1 \in Nat
        BY <1>0, <2>0
      <3> HIDE DEF end, r
      <3> QED
        BY <1>0, <1>5, <3>1
    <2>2. /\ r.pos = end /\ r.count = s.count + 1 /\ r.end = end
          /\ r.start = IF s.start = 0 THEN i ELSE s.start
      <3> HIDE DEF end
      <3> QED
        BY <1>0, <1>5
    <2> HIDE DEF r, end
    <2>3. \A k \in 1..end : ~FieldBreak(cells[k].gap)
      <3> SUFFICES ASSUME NEW k \in 1..end PROVE ~FieldBreak(cells[k].gap)
        OBVIOUS
      <3>1. CASE k <= s.pos
        BY <1>0, <3>1 DEF Scanned
      <3>2. CASE k > s.pos /\ k <= i
        BY <1>0, <3>2, <1>1
      <3>3. CASE k = i + 1
        BY <3>3, <2>0, IssuerNumberNoBreak
      <3> QED
        BY <3>1, <3>2, <3>3, <2>0, <1>0
    <2>4. cells[i].tok \notin Numbers
      BY <1>5 DEF Numbers, ShortNumbers, PlainWords, FieldLabels, Markers, DobMarkers
    <2>5. ASSUME NEW k \in r.start..end
          PROVE  IF cells[k].tok \in Numbers
                 THEN numbers /\ k > r.start /\ issuerNumber(cells, k)
                 ELSE k > r.start => cells[k].tok \notin FieldLabels
      <3>1. CASE k = i + 1
        <4>1. end = i + 1
          BY <2>0, <2>2, <3>1, <1>0
        <4>2. cells[k].tok \in Numbers /\ numbers /\ issuerNumber(cells, k)
          BY <4>1, <2>0, <3>1, IssuerNumberNoBreak
        <4>3. r.start <= i
          BY <1>0, <2>2 DEF Scanned
        <4> QED
          BY <4>2, <4>3, <3>1, <1>0, <2>1
      <3>2. CASE k = i
        <4>1. CASE s.count > 0
          BY <4>1, <2>4, <1>5, <3>2
        <4>2. CASE s.count = 0
          BY <4>2, <2>4, <1>0, <2>2, <3>2 DEF Scanned
        <4> QED
          BY <4>1, <4>2, <1>0
      <3>3. CASE k < i
        <4>1. s.count > 0
          BY <1>0, <2>2, <3>3, <2>1 DEF Scanned
        <4>2. r.start = s.start /\ s.end = s.pos /\ k \in Nat
          BY <1>0, <4>1, <2>1, <2>2 DEF Scanned
        <4>3. CASE k <= s.pos
          BY <4>1, <4>2, <4>3, <1>0, <2>0 DEF Scanned
        <4>4. CASE k > s.pos
          <5>1. k \in (s.pos + 1)..(i - 1)
            BY <4>4, <3>3, <4>2, <1>0
          <5>2. cells[k].tok \notin WordTokens
            BY <5>1
          <5>3. FieldLabels \subseteq WordTokens
            BY DEF WordTokens, PlainWords
          <5> QED
            BY <5>1, <5>2, <5>3, <1>2, <4>1
        <4> QED
          BY <4>3, <4>4, <4>2, <1>0
      <3> QED
        BY <3>1, <3>2, <3>3, <2>0, <2>1, <1>0
    <2>6. r.start >= 1 /\ r.start <= end
      BY <1>0, <2>0, <2>2 DEF Scanned
    <2>7. Scanned(cells, r, numbers)
      BY <1>0, <2>1, <2>2, <2>3, <2>5, <2>6 DEF Scanned
    <2> QED
      BY <2>1, <2>7 DEF Scanners, r
  <1> QED
    BY <1>3, <1>4, <1>5 DEF acceptWord

\* Every round of the scanner keeps what holds of it.
LEMMA ScanWordKeeps ==
    ASSUME NEW C, NEW cells \in Seq(C), NEW numbers \in BOOLEAN, NEW prefixes, NEW max,
           NEW s \in Scanners(cells, numbers)
    PROVE  scanWord(cells, s, max, prefixes, numbers) \in Scanners(cells, numbers)
  <1> DEFINE ahead == {k \in (s.pos + 1)..Len(cells) : cells[k].tok \in WordTokens}
             next == CHOOSE k \in ahead : \A l \in ahead : k <= l
  <1>0. s.pos \in Nat /\ Len(cells) \in Nat
    BY DEF Scanners
  <1>1. CASE ahead # {} /\ ~endsAtGap(s, gapBetween(cells, s.pos, next))
    <2>1. ahead \in SUBSET Nat
      BY <1>0
    <2>2. \E k \in ahead : \A l \in ahead : k <= l
      BY ONLY <2>1, <1>1, LeastElement
    <2>3. next \in ahead /\ \A l \in ahead : next <= l
      BY <2>2
    <2> HIDE DEF next
    <2>4. next \in (s.pos + 1)..Len(cells) /\ cells[next].tok \in WordTokens
      BY <2>3
    <2>5. \A k \in (s.pos + 1)..(next - 1) : cells[k].tok \notin WordTokens
      <3> SUFFICES ASSUME NEW k \in (s.pos + 1)..(next - 1), cells[k].tok \in WordTokens
                   PROVE  FALSE
        OBVIOUS
      <3>1. k \in ahead
        BY <2>4, <1>0
      <3> QED
        BY <3>1, <2>3, <2>4, <1>0
    <2>6. acceptWord(cells, s, next, prefixes, numbers) \in Scanners(cells, numbers)
      BY <1>1, <2>4, <2>5, AcceptWordKeeps
    <2> QED
      BY <2>6 DEF scanWord, next
  <1>2. CASE ~(ahead # {} /\ ~endsAtGap(s, gapBetween(cells, s.pos, next)))
    BY <1>2 DEF scanWord
  <1> QED
    BY <1>1, <1>2

\* The scanner after every number of rounds is one of those.
LEMMA ScanLabelKeeps ==
    ASSUME NEW C, NEW cells \in Seq(C), NEW numbers \in BOOLEAN, NEW prefixes, NEW max
    PROVE  \A n \in Nat : scanLabel(cells, max, prefixes, numbers)[n] \in Scanners(cells, numbers)
  <1> DEFINE S == Scanners(cells, numbers)
             step == [p \in Nat \X S |-> scanWord(cells, p[2], max, prefixes, numbers)]
             scan == scanLabel(cells, max, prefixes, numbers)
             T == {n \in Nat : scan[n] \in S}
  <1>1. ScanStart \in S
    <2>1. Len(cells) \in Nat
      OBVIOUS
    <2> QED
      BY <2>1 DEF Scanners, ScanStart, Scanned
  <1>2. Iterable(S, ScanStart, step)
    BY <1>1, ScanWordKeeps DEF Iterable
  <1>3. \A n \in Nat : \A s \in S : step[n, s] = scanWord(cells, s, max, prefixes, numbers)
    OBVIOUS
  <1> HIDE DEF S, step
  <1>a. PICK g : Iterates(g, S, ScanStart, step)
    BY ONLY <1>2, Iteration
  <1>4. /\ g \in [Nat -> S]
        /\ g[0] = ScanStart
        /\ \A n \in Nat : n # 0 => g[n] = step[n, g[n - 1]]
    BY ONLY <1>a DEF Iterates
  <1>5. g = [n \in Nat |-> IF n = 0 THEN ScanStart
                           ELSE scanWord(cells, g[n - 1], max, prefixes, numbers)]
    <2>1. ASSUME NEW n \in Nat, n # 0
          PROVE  g[n] = scanWord(cells, g[n - 1], max, prefixes, numbers)
      <3>1. n - 1 \in Nat
        BY <2>1
      <3> QED
        BY <2>1, <3>1, <1>3, <1>4
    <2> QED
      BY <1>4, <2>1
  <1>6. scan = [n \in Nat |-> IF n = 0 THEN ScanStart
                              ELSE scanWord(cells, scan[n - 1], max, prefixes, numbers)]
    BY <1>5 DEF scanLabel
  <1> HIDE DEF scan
  <1>7. 0 \in T
    BY <1>1, <1>6
  <1>8. ASSUME NEW n \in Nat, n \in T PROVE n + 1 \in T
    <2>1. scan[n + 1] = scanWord(cells, scan[n], max, prefixes, numbers)
      BY <1>6
    <2>2. scan[n + 1] \in S
      BY <1>8, <2>1, ScanWordKeeps DEF S
    <2> QED
      BY <2>2
  <1> HIDE DEF T
  <1>9. \A n \in Nat : n \in T
    BY ONLY <1>7, <1>8, Induction
  <1> QED
    BY <1>9 DEF T, S, scan

\* A value that was found without a break, a label or a loose number in it.
LEMMA ValueFacts ==
    ASSUME NEW C, NEW cells \in Seq(C), NEW numbers \in BOOLEAN, NEW prefixes, NEW max,
           NEW refused, NEW v,
           v = ValueOf(collectLabelValue(cells, max, prefixes, numbers), refused), v # NoValue
    PROVE  /\ v.start \in 1..Len(cells) /\ v.end \in 1..Len(cells)
           /\ \A k \in 1..v.end : ~FieldBreak(cells[k].gap)
           /\ \A k \in v.start..v.end :
                 IF cells[k].tok \in Numbers
                 THEN numbers /\ k > v.start /\ issuerNumber(cells, k)
                 ELSE k > v.start => cells[k].tok \notin FieldLabels
  <1> DEFINE s == collectLabelValue(cells, max, prefixes, numbers)
  <1>1. s \in Scanners(cells, numbers)
    <2>1. Len(cells) \in Nat
      OBVIOUS
    <2> QED
      BY <2>1, ScanLabelKeeps DEF collectLabelValue
  <1> HIDE DEF s
  <1>2. s.count # 0 /\ v = [start |-> s.start, end |-> s.end]
    BY DEF ValueOf, s
  <1>3. s.count > 0 /\ v.start = s.start /\ v.end = s.end
    BY <1>1, <1>2 DEF Scanners
  <1>4. v.start \in 1..Len(cells) /\ v.end \in 1..Len(cells)
    BY <1>1, <1>3 DEF Scanners, Scanned
  <1> QED
    BY <1>1, <1>3, <1>4 DEF Scanners, Scanned

\* A cell is a gap and a token.
LEMMA CellShape ==
    ASSUME NEW t, NEW c \in CellsOf(t)
    PROVE  c = [gap |-> c.gap, tok |-> c.tok]
  BY DEF CellsOf

\* The text behind an issuer marker differs in its first gap alone.
LEMMA BehindIssuerMarker ==
    ASSUME NEW C, NEW cells \in Seq(C), \A c \in C : c = [gap |-> c.gap, tok |-> c.tok]
    PROVE  LET rest == behindIssuerMarker(cells) IN
           /\ (\E D : rest \in Seq(D)) /\ Len(rest) = Len(cells)
           /\ \A k \in DOMAIN cells : rest[k].tok = cells[k].tok
           /\ \A k \in 2..Len(cells) : issuerNumber(rest, k) => issuerNumber(cells, k)
  <1> DEFINE rest == behindIssuerMarker(cells)
             first == [cells[1] EXCEPT !.gap = Tail(@)]
  <1>1. CASE cells = <<>> \/ cells[1].gap = <<>>
    <2>1. rest = cells
      BY <1>1 DEF behindIssuerMarker
    <2> QED
      BY <2>1
  <1>2. CASE ~(cells = <<>> \/ cells[1].gap = <<>>)
    <2>0. Len(cells) \in Nat /\ 1 \in DOMAIN cells /\ DOMAIN cells = 1..Len(cells)
      BY <1>2
    <2>1. rest = [cells EXCEPT ![1] = first]
      BY <1>2 DEF behindIssuerMarker
    <2>2. first.tok = cells[1].tok
      <3>1. cells[1] = [gap |-> cells[1].gap, tok |-> cells[1].tok]
        BY <2>0
      <3> QED
        BY <3>1
    <2> HIDE DEF first, rest
    <2>3. rest \in Seq(C \cup {first}) /\ Len(rest) = Len(cells)
      BY <2>0, <2>1
    <2>4. rest[1] = first /\ \A k \in DOMAIN cells \ {1} : rest[k] = cells[k]
      BY <2>0, <2>1
    <2>5. \A k \in DOMAIN cells : rest[k].tok = cells[k].tok
      BY <2>2, <2>4
    <2>6. ASSUME NEW k \in 2..Len(cells), issuerNumber(rest, k) PROVE issuerNumber(cells, k)
      <3>1. rest[k] = cells[k] /\ (k < Len(cells) => rest[k + 1] = cells[k + 1])
        BY <2>0, <2>4
      <3> QED
        BY <2>3, <2>6, <3>1 DEF issuerNumber
    <2> QED
      BY <2>3, <2>5, <2>6 DEF rest
  <1> QED
    BY <1>1, <1>2

\* What is masked as the value of a label (collectLabelValue of helpers.go) is a
\* value of that label: the scan, which begins behind what the label's marker
\* matched, stops at the end of the field, at the next label and at a loose
\* number, for every text and vocabulary.
THEOREM LabelledValues == Writing => []LabelledValueStaysInItsField
  <1>1. WrittenOK => LabelledValueStaysInItsField
    <2> DEFINE Stays(d, v, behind) ==
            /\ \A k \in 1..v.end : ~FieldBreak(behind[k].gap)
            /\ \A k \in v.start..v.end :
                  IF written[k].tok \in Numbers
                  THEN d = "passport_issuer" /\ k > v.start /\ issuerNumber(written, k)
                  ELSE k > v.start => written[k].tok \notin FieldLabels
    <2> SUFFICES ASSUME WrittenOK, topic = "label", NEW d \in DOMAIN Labelled(written),
                        Labelled(written)[d].value # NoValue
                 PROVE  Stays(d, Labelled(written)[d].value, Labelled(written)[d].behind)
      BY DEF LabelledValueStaysInItsField
    <2> DEFINE v == Labelled(written)[d].value
    <2>0. d \in {"card_holder", "citizenship", "place_of_birth", "passport_issuer"}
      BY DEF Labelled
    <2>1. written \in Seq(CellsOf("label"))
      BY DEF WrittenOK, Topics
    <2>2. CASE d = "card_holder"
      <3>1. v = ValueOf(collectLabelValue(written, 3, {}, FALSE), FALSE)
              /\ Labelled(written)[d].behind = written
        BY <2>2 DEF Labelled, cardHolder
      <3> HIDE DEF v
      <3>2. Stays(d, v, written)
        BY <2>1, <3>1, ValueFacts DEF v
      <3> QED
        BY <3>1, <3>2 DEF v
    <2>3. CASE d = "citizenship"
      <3>1. v = citizenship(written) /\ Labelled(written)[d].behind = written
        BY <2>3 DEF Labelled
      <3>2. PICK refused : v = ValueOf(collectLabelValue(written, 3, {}, FALSE), refused)
        BY <3>1 DEF citizenship
      <3> HIDE DEF v
      <3>3. Stays(d, v, written)
        BY <2>1, <3>2, ValueFacts DEF v
      <3> QED
        BY <3>1, <3>3 DEF v
    <2>4. CASE d = "place_of_birth"
      <3>1. v = placeOfBirth(written) /\ Labelled(written)[d].behind = written
        BY <2>4 DEF Labelled
      <3>2. PICK refused :
                v = ValueOf(collectLabelValue(written, 4, PlacePrefixes, FALSE), refused)
        BY <3>1 DEF placeOfBirth
      <3> HIDE DEF v
      <3>3. Stays(d, v, written)
        BY <2>1, <3>2, ValueFacts DEF v
      <3> QED
        BY <3>1, <3>3 DEF v
    <2>5. CASE d = "passport_issuer"
      <3> DEFINE rest == behindIssuerMarker(written)
      <3>1. v = passportIssuer(written) /\ Labelled(written)[d].behind = rest
        BY <2>5 DEF Labelled
      <3>2. PICK refused : v = ValueOf(collectLabelValue(rest, 8, {}, TRUE), refused)
        BY <3>1 DEF passportIssuer
      <3>3. \A c \in CellsOf("label") : c = [gap |-> c.gap, tok |-> c.tok]
        BY CellShape
      <3>4. /\ \E D : rest \in Seq(D)
            /\ \A k \in DOMAIN written : rest[k].tok = written[k].tok
            /\ \A k \in 2..Len(written) : issuerNumber(rest, k) => issuerNumber(written, k)
            /\ Len(rest) = Len(written)
        BY <2>1, <3>3, BehindIssuerMarker
      <3>5. PICK D : rest \in Seq(D)
        BY <3>4
      <3> HIDE DEF v, rest
      <3>6. /\ v.start \in 1..Len(rest) /\ v.end \in 1..Len(rest)
            /\ \A k \in 1..v.end : ~FieldBreak(rest[k].gap)
            /\ \A k \in v.start..v.end :
                  IF rest[k].tok \in Numbers
                  THEN k > v.start /\ issuerNumber(rest, k)
                  ELSE k > v.start => rest[k].tok \notin FieldLabels
        BY <3>2, <3>5, ValueFacts DEF v
      <3>7. ASSUME NEW k \in v.start..v.end
            PROVE  IF written[k].tok \in Numbers
                   THEN k > v.start /\ issuerNumber(written, k)
                   ELSE k > v.start => written[k].tok \notin FieldLabels
        <4>1. k \in DOMAIN written /\ k \in Nat /\ (k > v.start => k \in 2..Len(written))
          BY <2>1, <3>4, <3>6
        <4> QED
          BY <3>4, <3>6, <4>1
      <3> QED
        BY <2>5, <3>1, <3>6, <3>7 DEF v
    <2> QED
      BY <2>0, <2>2, <2>3, <2>4, <2>5
  <1> QED
    BY <1>1, WritingOK, PTL

-----------------------------------------------------------------------------
(* Detectors: the markers beside a number *)

\* The cells from a to b are the field of cell i.
FieldOf(cells, i, a, b) ==
    /\ a \in 1..i
    /\ b \in i..Len(cells)
    /\ a = 1 \/ FieldBreak(cells[a].gap)
    /\ \A k \in (a + 1)..i : ~FieldBreak(cells[k].gap)
    /\ b = Len(cells) \/ FieldBreak(cells[b + 1].gap)
    /\ \A k \in (i + 1)..b : ~FieldBreak(cells[k].gap)

\* sub holds the cells from a to b, that of i among them.
CutOut(C, sub, cells, i, a, b) ==
    /\ Len(cells) \in Nat /\ i \in 1..Len(cells) /\ a \in 1..i /\ b \in i..Len(cells)
    /\ sub \in Seq(C)
    /\ Len(sub) = b - a + 1
    /\ DOMAIN sub = 1..(b - a + 1)
    /\ \A k \in 1..(b - a + 1) : sub[k] = cells[a + k - 1]
    /\ \A k \in a..b : sub[k - a + 1] = cells[k]
    /\ i - a + 1 \in 1..(b - a + 1)
    /\ sub[i - a + 1] = cells[i]

\* A field as a text of its own.
LEMMA FieldCells ==
    ASSUME NEW C, NEW cells \in Seq(C), NEW i \in DOMAIN cells, NEW a, NEW b, FieldOf(cells, i, a, b)
    PROVE  CutOut(C, SubSeq(cells, a, b), cells, i, a, b)
  <1> DEFINE sub == SubSeq(cells, a, b)
  <1>1. Len(cells) \in Nat /\ i \in 1..Len(cells) /\ a \in 1..i /\ b \in i..Len(cells)
    BY DEF FieldOf
  <1>2. sub \in Seq(C) /\ Len(sub) = b - a + 1
    BY <1>1
  <1>3. \A k \in 1..(b - a + 1) : sub[k] = cells[a + k - 1]
    BY <1>1
  <1>4. DOMAIN sub = 1..(b - a + 1)
    BY <1>2
  <1> HIDE DEF sub
  <1>5. ASSUME NEW k \in a..b PROVE sub[k - a + 1] = cells[k]
    <2>1. k - a + 1 \in 1..(b - a + 1) /\ a + (k - a + 1) - 1 = k
      BY <1>1
    <2> QED
      BY <2>1, <1>3
  <1>6. i - a + 1 \in 1..(b - a + 1) /\ sub[i - a + 1] = cells[i]
    BY <1>1, <1>5
  <1>7. CutOut(C, sub, cells, i, a, b)
    BY <1>1, <1>2, <1>3, <1>4, <1>5, <1>6 DEF CutOut
  <1> QED
    BY <1>7 DEF sub

\* The cells that a marker before cell i is looked for in are those of its
\* field.
LEMMA PrefixShift ==
    ASSUME NEW C, NEW cells \in Seq(C), NEW i \in DOMAIN cells, NEW a, NEW b, FieldOf(cells, i, a, b)
    PROVE  /\ \A k \in fieldPrefix(cells, i) :
                 k \in a..(i - 1) /\ k - a + 1 \in fieldPrefix(SubSeq(cells, a, b), i - a + 1)
           /\ \A k \in fieldPrefix(SubSeq(cells, a, b), i - a + 1) :
                 k \in 1..(i - a) /\ a + k - 1 \in fieldPrefix(cells, i)
  <1> DEFINE sub == SubSeq(cells, a, b)
  <1>1. /\ Len(cells) \in Nat /\ i \in 1..Len(cells) /\ a \in 1..i /\ b \in i..Len(cells)
        /\ \A k \in 1..(b - a + 1) : sub[k] = cells[a + k - 1]
        /\ \A k \in a..b : sub[k - a + 1] = cells[k]
    <2>1. CutOut(C, sub, cells, i, a, b)
      BY FieldCells
    <2> HIDE DEF sub
    <2> QED
      BY <2>1 DEF CutOut
  <1>2. Window \in Nat
    BY FieldsAssumption
  <1> HIDE DEF sub
  <1>3. ASSUME NEW k \in fieldPrefix(cells, i)
        PROVE  k \in a..(i - 1) /\ k - a + 1 \in fieldPrefix(sub, i - a + 1)
    <2>1. k \in 1..(i - 1) /\ i - k <= Window /\ \A j \in (k + 1)..i : ~FieldBreak(cells[j].gap)
      BY DEF fieldPrefix
    <2>2. k >= a
      <3> SUFFICES ASSUME k < a PROVE FALSE
        BY <2>1, <1>1
      <3>1. a \in (k + 1)..i /\ a # 1
        BY <1>1, <2>1
      <3> QED
        BY <3>1, <2>1 DEF FieldOf
    <2>3. k - a + 1 \in 1..((i - a + 1) - 1) /\ (i - a + 1) - (k - a + 1) <= Window
      BY <1>1, <2>1, <2>2, <1>2
    <2>4. ASSUME NEW j \in (k - a + 1 + 1)..(i - a + 1) PROVE ~FieldBreak(sub[j].gap)
      <3>0. i \in Nat /\ a \in Nat /\ b \in Nat /\ k \in Nat /\ a <= i /\ i <= b /\ a <= k
        BY <1>1, <2>1, <2>2
      <3>1. j \in 1..(b - a + 1) /\ a + j - 1 \in (k + 1)..i
        BY ONLY <3>0, j \in (k - a + 1 + 1)..(i - a + 1)
      <3> QED
        BY <3>1, <2>1, <1>1
    <2> QED
      BY <1>1, <2>1, <2>2, <2>3, <2>4 DEF fieldPrefix
  <1>4. ASSUME NEW k \in fieldPrefix(sub, i - a + 1)
        PROVE  k \in 1..(i - a) /\ a + k - 1 \in fieldPrefix(cells, i)
    <2>1. /\ k \in 1..((i - a + 1) - 1) /\ (i - a + 1) - k <= Window
          /\ \A j \in (k + 1)..(i - a + 1) : ~FieldBreak(sub[j].gap)
      BY DEF fieldPrefix
    <2>a. i \in Nat /\ a \in Nat /\ b \in Nat /\ k \in Nat /\ 1 <= a /\ a <= i /\ i <= b /\ 1 <= k
      BY <1>1, <2>1
    <2>2. a + k - 1 \in 1..(i - 1) /\ i - (a + k - 1) <= Window
      BY ONLY <1>2, <2>1, <2>a
    <2>3. ASSUME NEW j \in (a + k - 1 + 1)..i PROVE ~FieldBreak(cells[j].gap)
      <3>1. j \in a..b /\ j - a + 1 \in (k + 1)..(i - a + 1)
        BY ONLY <2>a, j \in (a + k - 1 + 1)..i
      <3> QED
        BY <3>1, <2>1, <1>1
    <2> QED
      BY <1>1, <2>1, <2>2, <2>3 DEF fieldPrefix
  <1> QED
    BY <1>3, <1>4 DEF sub

\* What lastMarkerEnd finds: the last cell with such a marker, or none.
LEMMA LastMarkerFacts ==
    ASSUME NEW cells, NEW i \in Nat, NEW markers
    PROVE  \/ /\ lastMarkerEnd(cells, i, markers) = 0
              /\ \A k \in fieldPrefix(cells, i) : cells[k].tok \notin markers
           \/ /\ lastMarkerEnd(cells, i, markers) \in fieldPrefix(cells, i)
              /\ cells[lastMarkerEnd(cells, i, markers)].tok \in markers
              /\ \A k \in fieldPrefix(cells, i) :
                    cells[k].tok \in markers => k <= lastMarkerEnd(cells, i, markers)
  <1> DEFINE seen == {k \in fieldPrefix(cells, i) : cells[k].tok \in markers}
             top == CHOOSE k \in seen : \A l \in seen : l <= k
  <1>1. CASE seen = {}
    BY <1>1 DEF lastMarkerEnd
  <1>2. CASE seen # {}
    <2>1. seen \in SUBSET Nat /\ \A y \in seen : y <= i
      BY DEF fieldPrefix
    <2>2. \E k \in seen : \A l \in seen : l <= k
      BY ONLY <1>2, <2>1, i \in Nat, GreatestElement
    <2>3. top \in seen /\ \A l \in seen : l <= top
      BY <2>2
    <2>4. lastMarkerEnd(cells, i, markers) = top
      BY <1>2 DEF lastMarkerEnd
    <2> HIDE DEF top
    <2> QED
      BY <2>3, <2>4
  <1> QED
    BY <1>1, <1>2

\* The last marker is at the same place of the field.
LEMMA LastMarkerShift ==
    ASSUME NEW C, NEW cells \in Seq(C), NEW i \in DOMAIN cells, NEW a, NEW b, FieldOf(cells, i, a, b),
           NEW markers
    PROVE  LET e == lastMarkerEnd(cells, i, markers)
               f == lastMarkerEnd(SubSeq(cells, a, b), i - a + 1, markers)
           IN  \/ e = 0 /\ f = 0
               \/ e \in a..(i - 1) /\ f = e - a + 1
  <1> DEFINE sub == SubSeq(cells, a, b)
             j == i - a + 1
             e == lastMarkerEnd(cells, i, markers)
             f == lastMarkerEnd(sub, j, markers)
  <1>1. /\ Len(cells) \in Nat /\ i \in 1..Len(cells) /\ a \in 1..i /\ b \in i..Len(cells)
        /\ \A k \in 1..(b - a + 1) : sub[k] = cells[a + k - 1]
        /\ \A k \in a..b : sub[k - a + 1] = cells[k]
    <2>1. CutOut(C, sub, cells, i, a, b)
      BY FieldCells
    <2> HIDE DEF sub
    <2> QED
      BY <2>1 DEF CutOut
  <1>2. /\ \A k \in fieldPrefix(cells, i) : k \in a..(i - 1) /\ k - a + 1 \in fieldPrefix(sub, j)
        /\ \A k \in fieldPrefix(sub, j) : k \in 1..(i - a) /\ a + k - 1 \in fieldPrefix(cells, i)
    BY PrefixShift
  <1>3. \/ /\ e = 0
           /\ \A k \in fieldPrefix(cells, i) : cells[k].tok \notin markers
        \/ /\ e \in fieldPrefix(cells, i)
           /\ cells[e].tok \in markers
           /\ \A k \in fieldPrefix(cells, i) : cells[k].tok \in markers => k <= e
    BY <1>1, LastMarkerFacts
  <1>4. \/ /\ f = 0
           /\ \A k \in fieldPrefix(sub, j) : sub[k].tok \notin markers
        \/ /\ f \in fieldPrefix(sub, j)
           /\ sub[f].tok \in markers
           /\ \A k \in fieldPrefix(sub, j) : sub[k].tok \in markers => k <= f
    <2>1. j \in Nat
      BY <1>1
    <2> QED
      BY <2>1, LastMarkerFacts
  <1> HIDE DEF sub, j, e, f
  <1>5. ASSUME NEW k \in fieldPrefix(cells, i), cells[k].tok \in markers
        PROVE  k - a + 1 \in fieldPrefix(sub, j) /\ sub[k - a + 1].tok \in markers /\ k \in a..(i - 1)
    <2>1. k \in a..(i - 1) /\ k - a + 1 \in fieldPrefix(sub, j)
      BY <1>2
    <2>2. k \in a..b
      BY <2>1, <1>1
    <2>3. sub[k - a + 1] = cells[k]
      BY <2>2, <1>1
    <2> QED
      BY <2>1, <2>3, <1>5
  <1>6. ASSUME NEW k \in fieldPrefix(sub, j), sub[k].tok \in markers
        PROVE  /\ a + k - 1 \in fieldPrefix(cells, i) /\ cells[a + k - 1].tok \in markers
               /\ k \in 1..(i - a)
    <2>1. k \in 1..(i - a) /\ a + k - 1 \in fieldPrefix(cells, i)
      BY <1>2
    <2>2. k \in 1..(b - a + 1)
      BY <2>1, <1>1
    <2>3. sub[k] = cells[a + k - 1]
      BY <2>2, <1>1
    <2> QED
      BY <2>1, <2>3, <1>6
  <1>7. (e = 0 /\ f = 0) \/ (e \in a..(i - 1) /\ f = e - a + 1)
    <2>1. CASE e = 0 /\ \A k \in fieldPrefix(cells, i) : cells[k].tok \notin markers
      BY <2>1, <1>4, <1>6
    <2>2. CASE /\ e \in fieldPrefix(cells, i)
               /\ cells[e].tok \in markers
               /\ \A k \in fieldPrefix(cells, i) : cells[k].tok \in markers => k <= e
      <3>1. e - a + 1 \in fieldPrefix(sub, j) /\ sub[e - a + 1].tok \in markers /\ e \in a..(i - 1)
        BY <2>2, <1>5
      <3>2. f \in fieldPrefix(sub, j) /\ sub[f].tok \in markers /\ e - a + 1 <= f
        BY <3>1, <1>4
      <3>3. a + f - 1 \in fieldPrefix(cells, i) /\ cells[a + f - 1].tok \in markers /\ f \in 1..(i - a)
        BY <3>2, <1>6
      <3>4. a + f - 1 <= e
        BY <3>3, <2>2
      <3> QED
        BY <3>1, <3>2, <3>3, <3>4, <1>1
    <2> QED
      BY <2>1, <2>2, <1>3
  <1> QED
    BY <1>7 DEF e, f, sub, j

\* Of some groups one is the first of those whose marker ends last.
LEMMA SomeNearest ==
    ASSUME NEW n \in Nat \ {0}, NEW m \in Nat, NEW ends \in [1..n -> 0..m]
    PROVE  Nearest(ends) # {}
  <1> DEFINE E == {ends[g] : g \in 1..n}
  <1>1. E \in SUBSET Nat /\ E # {} /\ \A y \in E : y <= m
    <2>1. 1 \in 1..n
      OBVIOUS
    <2> QED
      BY <2>1
  <1> HIDE DEF E
  <1>2. PICK e \in E : \A y \in E : y <= e
    BY ONLY <1>1, m \in Nat, GreatestElement
  <1> DEFINE G == {g \in 1..n : ends[g] = e}
  <1>3. G \in SUBSET Nat /\ G # {}
    BY DEF E
  <1> HIDE DEF G
  <1>4. PICK g \in G : \A h \in G : g <= h
    BY ONLY <1>3, LeastElement
  <1>5. g \in 1..n /\ ends[g] = e /\ e \in Nat
    BY <1>1 DEF G
  <1>6. ASSUME NEW h \in 1..n PROVE ends[h] <= ends[g] /\ (h < g => ends[h] < ends[g])
    <2>1. ends[h] \in E /\ ends[h] \in Nat
      BY DEF E
    <2>2. h < g => h \notin G
      BY <1>4, <1>5
    <2> QED
      BY <1>2, <1>5, <2>1, <2>2 DEF G
  <1> QED
    BY <1>5, <1>6 DEF Nearest

\* A marker found in a text and the one found in a field that begins at cell a.
SameMarker(m, o, cells, i, a, groups) ==
    \/ m = [group |-> 0, end |-> 0] /\ o = m
    \/ \E g \in DOMAIN groups : \E e \in a..(i - 1) :
          /\ m = [group |-> g, end |-> e]
          /\ o = [group |-> g, end |-> e - a + 1]
          /\ e = lastMarkerEnd(cells, i, groups[g])
          /\ \A h \in DOMAIN groups : lastMarkerEnd(cells, i, groups[h]) <= e

\* The nearest marker of a cell is the nearest one of its field.
LEMMA NearestShift ==
    ASSUME NEW C, NEW cells \in Seq(C), NEW i \in DOMAIN cells, NEW a, NEW b, FieldOf(cells, i, a, b),
           NEW n \in Nat \ {0}, NEW groups, DOMAIN groups = 1..n
    PROVE  SameMarker(nearestPrecedingMarkerMatch(cells, i, groups),
                      nearestPrecedingMarkerMatch(SubSeq(cells, a, b), i - a + 1, groups),
                      cells, i, a, groups)
  <1> DEFINE sub == SubSeq(cells, a, b)
             j == i - a + 1
             ends == [g \in DOMAIN groups |-> lastMarkerEnd(cells, i, groups[g])]
             ends2 == [g \in DOMAIN groups |-> lastMarkerEnd(sub, j, groups[g])]
             m == nearestPrecedingMarkerMatch(cells, i, groups)
             o == nearestPrecedingMarkerMatch(sub, j, groups)
             best == CHOOSE g \in Nearest(ends) : TRUE
  <1>1. Len(cells) \in Nat /\ i \in 1..Len(cells) /\ a \in 1..i /\ b \in i..Len(cells)
    <2>1. CutOut(C, sub, cells, i, a, b)
      BY FieldCells
    <2> HIDE DEF sub
    <2> QED
      BY <2>1 DEF CutOut
  <1>2. \A g \in 1..n : \/ ends[g] = 0 /\ ends2[g] = 0
                        \/ ends[g] \in a..(i - 1) /\ ends2[g] = ends[g] - a + 1
    BY LastMarkerShift
  <1>3. DOMAIN ends = 1..n /\ DOMAIN ends2 = 1..n
    OBVIOUS
  <1>a. \A g \in 1..n : ends[g] = lastMarkerEnd(cells, i, groups[g])
    OBVIOUS
  <1>4. /\ m = IF ends[best] = 0 THEN [group |-> 0, end |-> 0]
                                 ELSE [group |-> best, end |-> ends[best]]
        /\ Nearest(ends2) = Nearest(ends) =>
              o = IF ends2[best] = 0 THEN [group |-> 0, end |-> 0]
                                     ELSE [group |-> best, end |-> ends2[best]]
    BY DEF nearestPrecedingMarkerMatch
  <1>b. ends \in [1..n -> 0..i]
    <2>1. \A g \in 1..n : ends[g] \in 0..i
      BY <1>1, <1>2
    <2> QED
      BY <2>1
  <1> HIDE DEF ends, ends2, m, o, sub, j
  <1>5. \A g, h \in 1..n : /\ ends[h] <= ends[g] <=> ends2[h] <= ends2[g]
                           /\ ends[h] < ends[g] <=> ends2[h] < ends2[g]
    <2> SUFFICES ASSUME NEW g \in 1..n, NEW h \in 1..n
                 PROVE  /\ ends[h] <= ends[g] <=> ends2[h] <= ends2[g]
                        /\ ends[h] < ends[g] <=> ends2[h] < ends2[g]
      OBVIOUS
    <2>1. /\ \/ ends[g] = 0 /\ ends2[g] = 0
             \/ ends[g] \in a..(i - 1) /\ ends2[g] = ends[g] - a + 1
          /\ \/ ends[h] = 0 /\ ends2[h] = 0
             \/ ends[h] \in a..(i - 1) /\ ends2[h] = ends[h] - a + 1
      BY <1>2
    <2>2. PICK x, y, u, v : x = ends[g] /\ y = ends[h] /\ u = ends2[g] /\ v = ends2[h]
      OBVIOUS
    <2>3. /\ \/ x = 0 /\ u = 0
             \/ x \in a..(i - 1) /\ u = x - a + 1
          /\ \/ y = 0 /\ v = 0
             \/ y \in a..(i - 1) /\ v = y - a + 1
      BY <2>1, <2>2
    <2>4. (y <= x <=> v <= u) /\ (y < x <=> v < u)
      BY ONLY <2>3, <1>1
    <2> QED
      BY <2>2, <2>4
  <1>6. Nearest(ends2) = Nearest(ends)
    BY <1>3, <1>5 DEF Nearest
  <1>7. best \in Nearest(ends)
    <2>1. Nearest(ends) # {}
      BY ONLY <1>b, <1>1, i \in 1..Len(cells), n \in Nat \ {0}, SomeNearest
    <2> QED
      BY <2>1
  <1> HIDE DEF best
  <1>8. best \in 1..n /\ \A h \in 1..n : ends[h] <= ends[best]
    BY <1>3, <1>7 DEF Nearest
  <1>9. CASE ends[best] = 0
    <2>1. ends2[best] = 0
      BY <1>1, <1>2, <1>8, <1>9
    <2>2. m = [group |-> 0, end |-> 0] /\ o = m
      BY <1>4, <1>6, <1>9, <2>1
    <2> QED
      BY <2>2 DEF m, o, sub, j, SameMarker
  <1>10. CASE ends[best] # 0
    <2>1. ends[best] \in a..(i - 1) /\ ends2[best] = ends[best] - a + 1 /\ ends2[best] # 0
      BY <1>1, <1>2, <1>8, <1>10
    <2>2. m = [group |-> best, end |-> ends[best]] /\ o = [group |-> best, end |-> ends[best] - a + 1]
      BY <1>4, <1>6, <1>10, <2>1
    <2>3. /\ ends[best] = lastMarkerEnd(cells, i, groups[best])
          /\ \A h \in 1..n : lastMarkerEnd(cells, i, groups[h]) <= ends[best]
      BY <1>a, <1>8
    <2> QED
      BY <1>8, <2>1, <2>2, <2>3 DEF m, o, sub, j, SameMarker
  <1> QED
    BY <1>9, <1>10

\* No number of another field is attached to the number.
LEMMA SequenceShift ==
    ASSUME NEW C, NEW cells \in Seq(C), NEW i \in DOMAIN cells, NEW a, NEW b, FieldOf(cells, i, a, b)
    PROVE  partOfLongerDigitSequence(SubSeq(cells, a, b), i - a + 1)
              <=> partOfLongerDigitSequence(cells, i)
  <1> DEFINE sub == SubSeq(cells, a, b)
             j == i - a + 1
  <1>1. /\ Len(cells) \in Nat /\ i \in 1..Len(cells) /\ a \in 1..i /\ b \in i..Len(cells)
        /\ Len(sub) = b - a + 1
        /\ \A k \in a..b : sub[k - a + 1] = cells[k]
        /\ sub[j] = cells[i]
    <2>1. CutOut(C, sub, cells, i, a, b)
      BY FieldCells
    <2> HIDE DEF sub
    <2> QED
      BY <2>1 DEF CutOut
  <1> HIDE DEF sub
  <1>2. \A gap : gap \in SequenceGaps => ~FieldBreak(gap)
    <2>0. \A c : \A x \in DOMAIN <<c>> : <<c>>[x] = c
      OBVIOUS
    <2>1. \A x \in DOMAIN <<"-">> : <<"-">>[x] = "-"
      BY <2>0
    <2>2. \A x \in DOMAIN <<" ">> : <<" ">>[x] = " "
      BY <2>0
    <2>3. ~FieldBreak(<<"-">>)
      BY <2>1 DEF FieldBreak, Range
    <2>4. ~FieldBreak(<<" ">>)
      BY <2>2 DEF FieldBreak, Range
    <2> QED
      BY <2>3, <2>4 DEF SequenceGaps
  <1>3. precededByMoreDigits(sub, j) <=> precededByMoreDigits(cells, i)
    <2>1. CASE i > a
      <3>0. i \in Nat /\ a \in Nat /\ b \in Nat /\ 1 <= a /\ i <= b
        BY <1>1
      <3>1. i - 1 \in a..b /\ j > 1 /\ i > 1 /\ (i - 1) - a + 1 = j - 1
        BY ONLY <2>1, <3>0 DEF j
      <3>2. sub[j - 1] = cells[i - 1]
        <4>1. sub[(i - 1) - a + 1] = cells[i - 1]
          BY <1>1, <3>1
        <4> QED
          BY ONLY <3>1, <4>1
      <3> QED
        BY <1>1, <3>1, <3>2 DEF precededByMoreDigits
    <2>2. CASE i = a
      <3>1. j = 1
        BY <1>1, <2>2
      <3>2. i > 1 => FieldBreak(cells[i].gap)
        BY <1>1, <2>2 DEF FieldOf
      <3> QED
        BY <1>2, <3>1, <3>2 DEF precededByMoreDigits
    <2> QED
      BY <2>1, <2>2, <1>1
  <1>4. followedByMoreDigits(sub, j) <=> followedByMoreDigits(cells, i)
    <2>1. CASE i < b
      <3>0. /\ i \in Nat /\ a \in Nat /\ b \in Nat /\ a <= i /\ b <= Len(cells)
            /\ Len(cells) \in Nat /\ Len(sub) = b - a + 1
        BY <1>1
      <3>1. i + 1 \in a..b /\ j < Len(sub) /\ i < Len(cells) /\ (i + 1) - a + 1 = j + 1
        BY ONLY <2>1, <3>0 DEF j
      <3>2. sub[j + 1] = cells[i + 1]
        <4>1. sub[(i + 1) - a + 1] = cells[i + 1]
          BY <1>1, <3>1
        <4> QED
          BY ONLY <3>1, <4>1
      <3> QED
        BY <3>1, <3>2 DEF followedByMoreDigits
    <2>2. CASE i = b
      <3>1. ~(j < Len(sub))
        BY <1>1, <2>2
      <3>2. i < Len(cells) => FieldBreak(cells[i + 1].gap)
        BY <1>1, <2>2 DEF FieldOf
      <3> QED
        BY <1>2, <3>1, <3>2 DEF followedByMoreDigits
    <2> QED
      BY <2>1, <2>2, <1>1
  <1> QED
    BY <1>3, <1>4 DEF partOfLongerDigitSequence, sub

\* A marker beside a postal code counts only in the field of the code.
LEMMA PostalShift ==
    ASSUME NEW C, NEW cells \in Seq(C), NEW i \in DOMAIN cells, NEW a, NEW b, FieldOf(cells, i, a, b)
    PROVE  postalCode(SubSeq(cells, a, b), i - a + 1) = postalCode(cells, i)
  <1> DEFINE sub == SubSeq(cells, a, b)
             j == i - a + 1
  <1>1. /\ Len(cells) \in Nat /\ i \in 1..Len(cells) /\ a \in 1..i /\ b \in i..Len(cells)
        /\ DOMAIN sub = 1..(b - a + 1)
        /\ \A k \in a..b : sub[k - a + 1] = cells[k]
        /\ sub[j] = cells[i]
    <2>1. CutOut(C, sub, cells, i, a, b)
      BY FieldCells
    <2> HIDE DEF sub
    <2> QED
      BY <2>1 DEF CutOut
  <1>w. Window \in Nat
    BY FieldsAssumption
  <1> HIDE DEF sub
  <1>2. \A gap : FieldBreak(gap) => SentenceBreak(gap)
    BY DEF SentenceBreak
  <1> DEFINE Near(t, p, k) ==
                /\ t[k].tok = "client"
                /\ \A l \in ((k + 1)..p) \cup ((p + 1)..k) : ~SentenceBreak(t[l].gap)
  <1>3. ASSUME NEW k \in contextBounds(cells, i), Near(cells, i, k)
        PROVE  k - a + 1 \in contextBounds(sub, j) /\ Near(sub, j, k - a + 1)
    <2>1. k \in 1..Len(cells) /\ k \in (i - Window)..(i + Window)
      BY DEF contextBounds
    <2>2. k >= a
      <3> SUFFICES ASSUME k < a PROVE FALSE
        BY <2>1, <1>1
      <3>1. a \in (k + 1)..i /\ a # 1
        BY <1>1, <2>1
      <3>2. FieldBreak(cells[a].gap)
        BY <3>1 DEF FieldOf
      <3> QED
        BY <3>1, <3>2, <1>2, <1>3
    <2>3. k <= b
      <3> SUFFICES ASSUME k > b PROVE FALSE
        BY <2>1, <1>1
      <3>1. b + 1 \in (i + 1)..k /\ b # Len(cells)
        BY <1>1, <2>1
      <3>2. FieldBreak(cells[b + 1].gap)
        BY <3>1 DEF FieldOf
      <3> QED
        BY <3>1, <3>2, <1>2, <1>3
    <2>4. k \in a..b
      BY <2>1, <2>2, <2>3, <1>1
    <2>a. i \in Nat /\ a \in Nat /\ b \in Nat /\ k \in Nat /\ 1 <= a /\ a <= i /\ i <= b
      BY <1>1, <2>1
    <2>5. k - a + 1 \in contextBounds(sub, j)
      <3>1. k - a + 1 \in 1..(b - a + 1)
        BY ONLY <2>4, <2>a
      <3>2. k - a + 1 \in (j - Window)..(j + Window)
        BY ONLY <1>w, <2>1, <2>a DEF j
      <3> QED
        BY <1>1, <3>1, <3>2 DEF contextBounds
    <2>6. sub[k - a + 1].tok = "client"
      BY <1>1, <1>3, <2>4
    <2>7. ASSUME NEW l \in ((k - a + 1 + 1)..j) \cup ((j + 1)..(k - a + 1))
          PROVE  ~SentenceBreak(sub[l].gap)
      <3>1. l + a - 1 \in ((k + 1)..i) \cup ((i + 1)..k) /\ l + a - 1 \in a..b
                /\ (l + a - 1) - a + 1 = l
        BY ONLY <2>4, <2>a, l \in ((k - a + 1 + 1)..j) \cup ((j + 1)..(k - a + 1)) DEF j
      <3>2. sub[l] = cells[l + a - 1]
        <4>1. sub[(l + a - 1) - a + 1] = cells[l + a - 1]
          BY <1>1, <3>1
        <4> QED
          BY ONLY <3>1, <4>1
      <3> QED
        BY <3>1, <3>2, <1>3
    <2> QED
      BY <2>5, <2>6, <2>7
  <1>4. ASSUME NEW k \in contextBounds(sub, j), Near(sub, j, k)
        PROVE  k + a - 1 \in contextBounds(cells, i) /\ Near(cells, i, k + a - 1)
    <2>1. k \in 1..(b - a + 1) /\ k \in (j - Window)..(j + Window)
      BY <1>1 DEF contextBounds
    <2>2. k + a - 1 \in a..b /\ (k + a - 1) - a + 1 = k
      BY <1>1, <2>1
    <2>3. k + a - 1 \in contextBounds(cells, i)
      <3>0. i \in Nat /\ a \in Nat /\ b \in Nat /\ b <= Len(cells) /\ Len(cells) \in Nat /\ a >= 1
        BY <1>1
      <3>1. k + a - 1 \in DOMAIN cells
        BY <2>2, <3>0
      <3>2. k + a - 1 \in (i - Window)..(i + Window)
        BY ONLY <1>w, <2>1, <3>0 DEF j
      <3> QED
        BY <3>1, <3>2 DEF contextBounds
    <2>4. cells[k + a - 1].tok = "client"
      BY <1>1, <1>4, <2>2
    <2>5. ASSUME NEW l \in ((k + a - 1 + 1)..i) \cup ((i + 1)..(k + a - 1))
          PROVE  ~SentenceBreak(cells[l].gap)
      <3>1. l - a + 1 \in ((k + 1)..j) \cup ((j + 1)..k) /\ l \in a..b
        <4>1. k \in Nat /\ a \in Nat /\ b \in Nat /\ i \in Nat /\ k + a - 1 <= b /\ i <= b
          BY <1>1, <2>1, <2>2
        <4>2. CASE l \in (k + a - 1 + 1)..i
          BY <4>1, <4>2
        <4>3. CASE l \in (i + 1)..(k + a - 1)
          <5>1. l \in Int /\ i + 1 <= l /\ l <= k + a - 1
            BY <4>1, <4>3
          <5>2. a <= i
            BY <1>1
          <5>3. l - a + 1 \in (j + 1)..k /\ l \in a..b
            BY <4>1, <5>1, <5>2
          <5> QED
            BY <5>3
        <4> QED
          BY <4>2, <4>3
      <3>2. sub[l - a + 1] = cells[l]
        BY <1>1, <3>1
      <3> QED
        BY <3>1, <3>2, <1>4
    <2> QED
      BY <2>3, <2>4, <2>5
  <1>5. addressConfidence(sub, j) = addressConfidence(cells, i)
    <2>1. (\E k \in contextBounds(cells, i) : Near(cells, i, k))
             <=> (\E k \in contextBounds(sub, j) : Near(sub, j, k))
      <3> HIDE DEF Near
      <3> QED
        BY <1>3, <1>4
    <2> HIDE DEF j
    <2> QED
      BY <2>1 DEF addressConfidence
  <1>6. postalLabelled(sub, j) <=> postalLabelled(cells, i)
    <2>1. CASE i > a
      <3>0. i \in Nat /\ a \in Nat /\ b \in Nat /\ 1 <= a /\ i <= b
        BY <1>1
      <3>1. i - 1 \in a..b /\ j > 1 /\ i > 1 /\ (i - 1) - a + 1 = j - 1
        BY ONLY <2>1, <3>0 DEF j
      <3>2. sub[j - 1] = cells[i - 1]
        <4>1. sub[(i - 1) - a + 1] = cells[i - 1]
          BY <1>1, <3>1
        <4> QED
          BY ONLY <3>1, <4>1
      <3> QED
        BY <1>1, <3>1, <3>2 DEF postalLabelled
    <2>2. CASE i = a
      <3>1. j = 1
        BY <1>1, <2>2
      <3>2. i > 1 => FieldBreak(cells[i].gap)
        BY <1>1, <2>2 DEF FieldOf
      <3>3. FieldBreak(cells[i].gap) => ~(Range(cells[i].gap) \subseteq {" ", ":"})
        BY DEF FieldBreak
      <3>4. ~postalLabelled(sub, j)
        <4> HIDE DEF j
        <4> QED
          BY <3>1 DEF postalLabelled
      <3>5. ~postalLabelled(cells, i)
        BY <3>2, <3>3 DEF postalLabelled, OnlyOf
      <3> QED
        BY <3>4, <3>5
    <2> QED
      BY <2>1, <2>2, <1>1
  <1> HIDE DEF j
  <1>7. postalCode(sub, j) = postalCode(cells, i)
    BY <1>1, <1>5, <1>6 DEF postalCode
  <1> QED
    BY <1>7 DEF sub, j

\* A birth year stands right behind its label, also in its field alone.
LEMMA BirthYearShift ==
    ASSUME NEW C, NEW cells \in Seq(C), NEW i \in DOMAIN cells, NEW a, NEW b, FieldOf(cells, i, a, b),
           isBirthYear(cells, i) \/ isBirthYear(SubSeq(cells, a, b), i - a + 1)
    PROVE  i > 1 /\ cells[i].tok = "yyyy" /\ cells[i - 1].tok = "year"
  <1> DEFINE sub == SubSeq(cells, a, b)
             j == i - a + 1
  <1>1. /\ Len(cells) \in Nat /\ i \in 1..Len(cells) /\ a \in 1..i /\ b \in i..Len(cells)
        /\ \A k \in a..b : sub[k - a + 1] = cells[k]
        /\ sub[j] = cells[i]
    <2>1. CutOut(C, sub, cells, i, a, b)
      BY FieldCells
    <2> HIDE DEF sub
    <2> QED
      BY <2>1 DEF CutOut
  <1>b. \A any, k : isBirthYear(any, k)
                     => k > 1 /\ any[k].tok = "yyyy" /\ any[k - 1].tok = "year"
    <2> TAKE any, k
    <2>1. isBirthYear(any, k) => yearOnly(any, k)
      BY Zenon DEF isBirthYear
    <2>2. yearOnly(any, k) => k > 1 /\ any[k].tok = "yyyy" /\ any[k - 1].tok = "year"
      BY Zenon DEF yearOnly
    <2> QED
      BY <2>1, <2>2
  <1>2. CASE isBirthYear(cells, i)
    BY <1>2, <1>b
  <1>3. CASE isBirthYear(sub, j)
    <2>1. j > 1 /\ sub[j].tok = "yyyy" /\ sub[j - 1].tok = "year"
      BY <1>3, <1>b
    <2>2. i > 1 /\ i - 1 \in a..b /\ (i - 1) - a + 1 = j - 1
      <3>1. i \in Nat /\ a \in Nat /\ b \in Nat /\ 1 <= a /\ i <= b
        BY <1>1
      <3>2. i - a + 1 > 1
        BY <2>1
      <3> QED
        BY ONLY <3>1, <3>2 DEF j
    <2>3. sub[(i - 1) - a + 1] = cells[i - 1]
      BY <1>1, <2>2
    <2> HIDE DEF sub
    <2> QED
      BY <1>1, <2>1, <2>2, <2>3
  <1> QED
    BY <1>2, <1>3

\* A number is explained by the markers of its own field.
LEMMA VerdictShift ==
    ASSUME NEW C, NEW cells \in Seq(C), NEW i \in DOMAIN cells, NEW a, NEW b, FieldOf(cells, i, a, b)
    PROVE  LET own == Verdict(SubSeq(cells, a, b), i - a + 1)
               v   == Verdict(cells, i)
           IN  /\ own.cvv = v.cvv /\ own.pin = v.pin /\ own.postal = v.postal
               /\ own.date = v.date
                     \/ (i > 1 /\ cells[i].tok = "yyyy" /\ cells[i - 1].tok = "year")
  <1> DEFINE sub == SubSeq(cells, a, b)
             j == i - a + 1
  <1>1. /\ Len(cells) \in Nat /\ i \in 1..Len(cells) /\ a \in 1..i /\ b \in i..Len(cells)
        /\ sub[j] = cells[i]
    <2>1. CutOut(C, sub, cells, i, a, b)
      BY FieldCells
    <2> HIDE DEF sub
    <2> QED
      BY <2>1 DEF CutOut
  <1>2. /\ partOfLongerDigitSequence(sub, j) <=> partOfLongerDigitSequence(cells, i)
        /\ postalCode(sub, j) = postalCode(cells, i)
    BY SequenceShift, PostalShift
  <1> DEFINE AtSamePlace(m, o) ==
                /\ o.group = m.group
                /\ m.group # 0 => (o.end = j - 1 <=> m.end = i - 1)
  <1>3. ASSUME NEW n \in Nat \ {0}, NEW groups, DOMAIN groups = 1..n
        PROVE  AtSamePlace(nearestPrecedingMarkerMatch(cells, i, groups),
                           nearestPrecedingMarkerMatch(sub, j, groups))
    <2> DEFINE m == nearestPrecedingMarkerMatch(cells, i, groups)
               o == nearestPrecedingMarkerMatch(sub, j, groups)
    <2>1. \/ m = [group |-> 0, end |-> 0] /\ o = m
          \/ \E g \in 1..n : \E e \in a..(i - 1) :
                /\ m = [group |-> g, end |-> e]
                /\ o = [group |-> g, end |-> e - a + 1]
      <3>1. SameMarker(nearestPrecedingMarkerMatch(cells, i, groups),
                       nearestPrecedingMarkerMatch(SubSeq(cells, a, b), i - a + 1, groups),
                       cells, i, a, groups)
        BY <1>3, NearestShift
      <3>2. SameMarker(m, o, cells, i, a, groups)
        BY <3>1
      <3> HIDE DEF m, o
      <3> QED
        BY <3>2, <1>3 DEF SameMarker
    <2> HIDE DEF m, o
    <2>2. o.group = m.group /\ (m.group # 0 => (o.end = j - 1 <=> m.end = i - 1))
      <3>1. CASE m = [group |-> 0, end |-> 0] /\ o = m
        BY <3>1
      <3>2. ASSUME NEW g \in 1..n, NEW e \in a..(i - 1), m = [group |-> g, end |-> e],
                   o = [group |-> g, end |-> e - a + 1]
            PROVE  o.group = m.group /\ (o.end = j - 1 <=> m.end = i - 1)
        <4>1. o.group = g /\ m.group = g /\ o.end = e - a + 1 /\ m.end = e
          BY <3>2
        <4>2. e - a + 1 = j - 1 <=> e = i - 1
          <5>1. e \in Int /\ a \in Int /\ i \in Int
            BY <1>1
          <5> QED
            BY <5>1
        <4> QED
          BY <4>1, <4>2
      <3> QED
        BY <2>1, <3>1, <3>2
    <2> QED
      BY <2>2 DEF m, o
  <1>d. 3 \in Nat \ {0} /\ 5 \in Nat \ {0}
    OBVIOUS
  <1> HIDE DEF sub, j, AtSamePlace
  <1>4. cvvLocalContext(sub, j) <=> cvvLocalContext(cells, i)
    <2> DEFINE groups == <<{"cvv"}, DobMarkers, {"issue"}, {"generic"}, {"pin"}>>
    <2>1. DOMAIN groups = 1..5
      OBVIOUS
    <2> HIDE DEF groups
    <2>2. nearestPrecedingMarkerMatch(sub, j, groups).group
             = nearestPrecedingMarkerMatch(cells, i, groups).group
      BY <1>3, <1>d, <2>1 DEF AtSamePlace
    <2> QED
      BY <2>2 DEF cvvLocalContext, groups
  <1>5. pinLocalContext(sub, j) <=> pinLocalContext(cells, i)
    <2> DEFINE groups == <<{"pin"}, DobMarkers, {"issue"}, {"generic"}, {"cvv"}>>
    <2>1. DOMAIN groups = 1..5
      OBVIOUS
    <2> HIDE DEF groups
    <2>2. nearestPrecedingMarkerMatch(sub, j, groups).group
             = nearestPrecedingMarkerMatch(cells, i, groups).group
      BY <1>3, <1>d, <2>1 DEF AtSamePlace
    <2> QED
      BY <2>2 DEF pinLocalContext, groups
  <1>6. classify(sub, j) = classify(cells, i)
    <2> DEFINE groups == <<DobMarkers, {"issue"}, {"generic"}>>
               m == nearestPrecedingMarkerMatch(cells, i, groups)
               o == nearestPrecedingMarkerMatch(sub, j, groups)
    <2>1. DOMAIN groups = 1..3
      OBVIOUS
    <2>2. /\ classify(cells, i) =
                CASE m.group = 1 -> <<"date_of_birth", "high">>
                  [] m.group = 2 /\ m.end = i - 1 -> <<"passport_issue_date", "high">>
                  [] m.group = 3 -> <<"date_of_birth", "medium">>
                  [] OTHER -> <<>>
          /\ classify(sub, j) =
                CASE o.group = 1 -> <<"date_of_birth", "high">>
                  [] o.group = 2 /\ o.end = j - 1 -> <<"passport_issue_date", "high">>
                  [] o.group = 3 -> <<"date_of_birth", "medium">>
                  [] OTHER -> <<>>
      BY DEF classify
    <2> HIDE DEF groups
    <2>3. o.group = m.group /\ (m.group # 0 => (o.end = j - 1 <=> m.end = i - 1))
      BY <1>3, <1>d, <2>1 DEF AtSamePlace
    <2> HIDE DEF m, o
    <2> QED
      BY <2>2, <2>3
  <1>7. /\ isCVV(sub, j) = isCVV(cells, i) /\ isCardPIN(sub, j) = isCardPIN(cells, i)
        /\ postalCode(sub, j) = postalCode(cells, i)
    BY <1>1, <1>2, <1>4, <1>5 DEF isCVV, isCardPIN
  <1>8. \/ dateType(sub, j) = dateType(cells, i)
        \/ i > 1 /\ cells[i].tok = "yyyy" /\ cells[i - 1].tok = "year"
    <2>1. CASE isBirthYear(cells, i) \/ isBirthYear(sub, j)
      BY <2>1, BirthYearShift DEF sub, j
    <2>2. CASE ~isBirthYear(cells, i) /\ ~isBirthYear(sub, j)
      BY <1>1, <1>6, <2>2 DEF dateType
    <2> QED
      BY <2>1, <2>2
  <1> QED
    BY <1>7, <1>8 DEF Verdict, sub, j

\* The nearer of two markers makes a code either a CVV or a PIN.
LEMMA NotBothCodes ==
    ASSUME NEW C, NEW cells \in Seq(C), NEW i \in DOMAIN cells, NEW a, NEW b, FieldOf(cells, i, a, b)
    PROVE  ~(isCVV(cells, i) /\ isCardPIN(cells, i))
  <1> SUFFICES ASSUME cvvLocalContext(cells, i), pinLocalContext(cells, i) PROVE FALSE
    BY DEF isCVV, isCardPIN
  <1> DEFINE cvv == <<{"cvv"}, DobMarkers, {"issue"}, {"generic"}, {"pin"}>>
             pin == <<{"pin"}, DobMarkers, {"issue"}, {"generic"}, {"cvv"}>>
             c == lastMarkerEnd(cells, i, {"cvv"})
             p == lastMarkerEnd(cells, i, {"pin"})
  <1>1. DOMAIN cvv = 1..5 /\ DOMAIN pin = 1..5
    OBVIOUS
  <1>2. /\ nearestPrecedingMarkerMatch(cells, i, cvv).group = 1
        /\ nearestPrecedingMarkerMatch(cells, i, pin).group = 1
    BY DEF cvvLocalContext, pinLocalContext
  <1>3. cvv[1] = {"cvv"} /\ cvv[5] = {"pin"} /\ pin[1] = {"pin"} /\ pin[5] = {"cvv"}
    OBVIOUS
  <1> HIDE DEF cvv, pin
  <1>4. ASSUME NEW groups, DOMAIN groups = 1..5,
               nearestPrecedingMarkerMatch(cells, i, groups).group = 1
        PROVE  /\ lastMarkerEnd(cells, i, groups[1]) \in a..(i - 1)
               /\ lastMarkerEnd(cells, i, groups[5]) <= lastMarkerEnd(cells, i, groups[1])
    <2>0. 5 \in Nat \ {0}
      OBVIOUS
    <2>1. SameMarker(nearestPrecedingMarkerMatch(cells, i, groups),
                     nearestPrecedingMarkerMatch(SubSeq(cells, a, b), i - a + 1, groups),
                     cells, i, a, groups)
      BY <2>0, <1>4, NearestShift
    <2>2. PICK e \in a..(i - 1) : /\ e = lastMarkerEnd(cells, i, groups[1])
                                  /\ \A h \in 1..5 : lastMarkerEnd(cells, i, groups[h]) <= e
      <3> DEFINE m == nearestPrecedingMarkerMatch(cells, i, groups)
      <3>1. PICK g \in 1..5, e \in a..(i - 1) :
                /\ m = [group |-> g, end |-> e]
                /\ e = lastMarkerEnd(cells, i, groups[g])
                /\ \A h \in 1..5 : lastMarkerEnd(cells, i, groups[h]) <= e
        <4>1. m # [group |-> 0, end |-> 0]
          BY <1>4
        <4> HIDE DEF m
        <4> QED
          BY <2>1, <1>4, <4>1 DEF SameMarker, m
      <3>2. g = 1
        BY <3>1, <1>4
      <3> QED
        BY <3>1, <3>2
    <2> QED
      BY <2>2
  <1>5. c \in a..(i - 1) /\ p <= c
    BY <1>1, <1>2, <1>3, <1>4
  <1>6. p \in a..(i - 1) /\ c <= p
    BY <1>1, <1>2, <1>3, <1>4
  <1>7. i \in Nat /\ a \in Nat /\ a >= 1
    <2> DEFINE sub == SubSeq(cells, a, b)
    <2>1. CutOut(C, sub, cells, i, a, b)
      BY FieldCells
    <2> HIDE DEF sub
    <2> QED
      BY <2>1 DEF CutOut
  <1>8. c = p /\ c # 0
    <2> HIDE DEF c, p
    <2> QED
      BY <1>5, <1>6, <1>7
  <1>9. cells[c].tok \in {"cvv"} /\ cells[p].tok \in {"pin"}
    BY <1>7, <1>8, LastMarkerFacts
  <1> QED
    BY <1>8, <1>9

\* Every cell lies in a field.
LEMMA FieldExists ==
    ASSUME NEW C, written \in Seq(C), NEW i \in DOMAIN written
    PROVE  FieldOf(written, i, FieldFrom(i), FieldTo(i))
  <1>0. Len(written) \in Nat /\ i \in 1..Len(written)
    OBVIOUS
  <1>1. \E a \in 1..i : /\ a = 1 \/ FieldBreak(written[a].gap)
                        /\ \A k \in (a + 1)..i : ~FieldBreak(written[k].gap)
    <2> DEFINE A == {k \in 1..i : k = 1 \/ FieldBreak(written[k].gap)}
    <2>1. A \in SUBSET Nat /\ A # {} /\ i \in Nat /\ \A y \in A : y <= i
      <3>1. 1 \in A
        BY <1>0
      <3> QED
        BY <3>1, <1>0
    <2> HIDE DEF A
    <2>2. PICK a \in A : \A y \in A : y <= a
      BY ONLY <2>1, GreatestElement
    <2>3. ASSUME NEW k \in (a + 1)..i PROVE ~FieldBreak(written[k].gap)
      <3>1. a \in 1..i /\ k \in 1..i /\ ~(k <= a)
        BY <2>2, <1>0 DEF A
      <3> QED
        BY <3>1, <2>2 DEF A
    <2> QED
      BY <2>2, <2>3 DEF A
  <1>2. \E b \in i..Len(written) : /\ b = Len(written) \/ FieldBreak(written[b + 1].gap)
                                   /\ \A k \in (i + 1)..b : ~FieldBreak(written[k].gap)
    <2> DEFINE B == {k \in i..Len(written) : k = Len(written) \/ FieldBreak(written[k + 1].gap)}
    <2>1. B \in SUBSET Nat /\ B # {}
      <3>1. Len(written) \in B
        BY <1>0
      <3> QED
        BY <3>1, <1>0
    <2> HIDE DEF B
    <2>2. PICK b \in B : \A y \in B : b <= y
      BY ONLY <2>1, LeastElement
    <2>3. ASSUME NEW k \in (i + 1)..b PROVE ~FieldBreak(written[k].gap)
      <3>1. b \in i..Len(written) /\ k - 1 \in i..Len(written) /\ ~(b <= k - 1) /\ (k - 1) + 1 = k
        BY <2>2, <1>0 DEF B
      <3>2. k - 1 \notin B
        BY <3>1, <2>2
      <3> QED
        BY <3>1, <3>2 DEF B
    <2> QED
      BY <2>2, <2>3 DEF B
  <1>3. /\ FieldFrom(i) \in 1..i
        /\ FieldFrom(i) = 1 \/ FieldBreak(written[FieldFrom(i)].gap)
        /\ \A k \in (FieldFrom(i) + 1)..i : ~FieldBreak(written[k].gap)
    BY <1>1 DEF FieldFrom
  <1>4. /\ FieldTo(i) \in i..Len(written)
        /\ FieldTo(i) = Len(written) \/ FieldBreak(written[FieldTo(i) + 1].gap)
        /\ \A k \in (i + 1)..FieldTo(i) : ~FieldBreak(written[k].gap)
    BY <1>2 DEF FieldTo
  <1> QED
    BY <1>3, <1>4 DEF FieldOf

\* The detectors of CVV, PIN, postal codes and dates say of a number what they
\* would say of it in its field alone (nearestPrecedingMarkerMatch of helpers.go
\* stops at the beginning of the field), the date of a year right behind its
\* label excepted (yearOnlyRe of date.go), and never both CVV and PIN.
THEOREM FieldsAreApart == Writing => []FieldsDoNotLeak
  <1>1. WrittenOK => FieldsDoNotLeak
    <2> DEFINE Own(i) == Verdict(SubSeq(written, FieldFrom(i), FieldTo(i)), i - FieldFrom(i) + 1)
    <2> SUFFICES ASSUME WrittenOK, topic = "marker", NEW i \in DOMAIN written
                 PROVE  /\ Verdict(written, i)
                              = [Own(i) EXCEPT !.date = IF YearBehindLabel(i)
                                                        THEN Verdict(written, i).date ELSE @]
                        /\ ~(Verdict(written, i).cvv /\ Verdict(written, i).pin)
      BY DEF FieldsDoNotLeak
    <2>1. written \in Seq(CellsOf("marker"))
      BY DEF WrittenOK, Topics
    <2>2. FieldOf(written, i, FieldFrom(i), FieldTo(i))
      BY <2>1, FieldExists
    <2>3. /\ Own(i).cvv = Verdict(written, i).cvv /\ Own(i).pin = Verdict(written, i).pin
          /\ Own(i).postal = Verdict(written, i).postal
          /\ Own(i).date = Verdict(written, i).date \/ YearBehindLabel(i)
      BY <2>1, <2>2, VerdictShift DEF YearBehindLabel
    <2>4. \A any, k : Verdict(any, k)
                        = [cvv |-> Verdict(any, k).cvv, pin |-> Verdict(any, k).pin,
                            postal |-> Verdict(any, k).postal, date |-> Verdict(any, k).date]
      BY DEF Verdict
    <2>5. PICK own : own = Own(i)
      OBVIOUS
    <2>6. PICK v : v = Verdict(written, i)
      OBVIOUS
    <2>7. /\ own = [cvv |-> own.cvv, pin |-> own.pin, postal |-> own.postal, date |-> own.date]
          /\ v = [cvv |-> v.cvv, pin |-> v.pin, postal |-> v.postal, date |-> v.date]
      BY <2>4, <2>5, <2>6
    <2>8. v = [own EXCEPT !.date = IF YearBehindLabel(i) THEN v.date ELSE @]
      <3> HIDE DEF Own
      <3>1. own.cvv = v.cvv /\ own.pin = v.pin /\ own.postal = v.postal
              /\ (own.date = v.date \/ YearBehindLabel(i))
        BY <2>3, <2>5, <2>6
      <3> QED
        BY <2>7, <3>1
    <2>9. ~(isCVV(written, i) /\ isCardPIN(written, i))
      BY <2>1, <2>2, NotBothCodes
    <2>10. v.cvv = isCVV(written, i) /\ v.pin = isCardPIN(written, i)
      BY <2>6 DEF Verdict
    <2> QED
      BY <2>5, <2>6, <2>8, <2>9, <2>10
  <1> QED
    BY <1>1, WritingOK, PTL

-----------------------------------------------------------------------------
(* Detectors: names *)

\* Words, whatever the tokens of the text.
Words(cells) ==
    Seq([gap: {cells[n].gap : n \in Nat}, parts: Seq({cells[n].tok : n \in Nat})])

\* A token makes a word of its own or is a part of the last one.
LEMMA AddTokenKeeps ==
    ASSUME NEW cells, NEW words \in Words(cells), NEW n \in Nat
    PROVE  addToken(words, cells[n]) \in Words(cells)
  <1> DEFINE G == {cells[k].gap : k \in Nat}
             K == {cells[k].tok : k \in Nat}
             W == [gap: G, parts: Seq(K)]
             c == cells[n]
  <1>1. words \in Seq(W) /\ c.gap \in G /\ c.tok \in K
    BY DEF Words
  <1>2. Words(cells) = Seq(W)
    BY DEF Words
  <1> HIDE DEF G, K, c
  <1>3. CASE words # <<>> /\ c.gap = <<"-">>
    <2>1. Len(words) \in 1..Len(words) /\ Len(words) \in DOMAIN words
      BY <1>1, <1>3
    <2>2. words[Len(words)] \in W
      <3> HIDE DEF W
      <3> QED
        BY <1>1, <2>1
    <2> DEFINE w == [words[Len(words)] EXCEPT !.parts = Append(@, c.tok)]
    <2>3. w \in W
      <3>1. PICK v : v = words[Len(words)] /\ v \in W
        BY <2>2
      <3>2. v.parts \in Seq(K) /\ Append(v.parts, c.tok) \in Seq(K)
        BY <1>1, <3>1
      <3>3. [v EXCEPT !.parts = Append(@, c.tok)] \in W
        BY <3>1, <3>2
      <3> HIDE DEF W
      <3> QED
        BY <3>1, <3>3
    <2>4. addToken(words, c) = [words EXCEPT ![Len(words)] = w]
      BY <1>3 DEF addToken
    <2> HIDE DEF w, W
    <2>5. [words EXCEPT ![Len(words)] = w] \in Seq(W)
      BY <1>1, <2>1, <2>3
    <2> QED
      BY <1>2, <2>4, <2>5 DEF c
  <1>4. CASE ~(words # <<>> /\ c.gap = <<"-">>)
    <2>1. addToken(words, c) = Append(words, [gap |-> c.gap, parts |-> <<c.tok>>])
      BY <1>4 DEF addToken
    <2>2. [gap |-> c.gap, parts |-> <<c.tok>>] \in W
      BY <1>1
    <2> HIDE DEF W
    <2> QED
      BY <1>1, <1>2, <2>1, <2>2 DEF c
  <1> QED
    BY <1>3, <1>4

\* The words of a text are a sequence.
LEMMA NameTokensAreWords ==
    ASSUME NEW C, NEW cells \in Seq(C)
    PROVE  nameTokens(cells) \in Words(cells)
  <1> DEFINE S == Words(cells)
             step == [p \in Nat \X S |-> addToken(p[2], cells[p[1]])]
             words == wordsUpTo(cells)
             T == {n \in Nat : words[n] \in S}
  <1>1. <<>> \in S
    BY DEF Words
  <1>2. Iterable(S, <<>>, step)
    BY <1>1, AddTokenKeeps DEF Iterable
  <1>3. \A n \in Nat : \A s \in S : step[n, s] = addToken(s, cells[n])
    OBVIOUS
  <1> HIDE DEF S, step
  <1>a. PICK g : Iterates(g, S, <<>>, step)
    BY ONLY <1>2, Iteration
  <1>4. /\ g \in [Nat -> S]
        /\ g[0] = <<>>
        /\ \A n \in Nat : n # 0 => g[n] = step[n, g[n - 1]]
    BY ONLY <1>a DEF Iterates
  <1>5. g = [n \in Nat |-> IF n = 0 THEN <<>> ELSE addToken(g[n - 1], cells[n])]
    <2>1. ASSUME NEW n \in Nat, n # 0 PROVE g[n] = addToken(g[n - 1], cells[n])
      <3>1. n - 1 \in Nat
        BY <2>1
      <3> QED
        BY <2>1, <3>1, <1>3, <1>4
    <2> QED
      BY <1>4, <2>1
  <1>6. words = [n \in Nat |-> IF n = 0 THEN <<>> ELSE addToken(words[n - 1], cells[n])]
    BY <1>5 DEF wordsUpTo
  <1> HIDE DEF words
  <1>7. 0 \in T
    BY <1>1, <1>6
  <1>8. ASSUME NEW n \in Nat, n \in T PROVE n + 1 \in T
    <2>1. words[n + 1] = addToken(words[n], cells[n + 1])
      BY <1>6
    <2>2. words[n + 1] \in S
      BY <1>8, <2>1, AddTokenKeeps DEF S
    <2> QED
      BY <2>2
  <1> HIDE DEF T
  <1>9. \A n \in Nat : n \in T
    BY ONLY <1>7, <1>8, Induction
  <1>10. Len(cells) \in Nat
    OBVIOUS
  <1> QED
    BY <1>9, <1>10 DEF T, S, words, nameTokens

\* No word that a candidate takes is a stop word.
LEMMA CandidateFacts ==
    ASSUME NEW words, NEW i \in Nat
    PROVE  LET c == nameCandidate(words, i) IN
           /\ c.count \in 0..3
           /\ c.count # 0 => \A k \in i..(i + c.count - 1) : ~nameStop(words[k])
  <1> DEFINE strong == markerImmediatelyBefore(words, i, StrongMarkers)
             count == nameWordCount(words, i, strong)
             c == nameCandidate(words, i)
  <1>1. count \in 1..3 /\ \A k \in (i + 1)..(i + count - 1) : ~nameStop(words[k])
    <2>1. /\ count \in {1, 2, 3}
          /\ count # 1 => ~nameStop(words[i + 1])
          /\ count = 3 => ~nameStop(words[i + 2])
      <3> HIDE DEF strong
      <3> QED
        BY DEF nameWordCount
    <2> HIDE DEF count
    <2>2. CASE count = 1
      BY <2>2
    <2>3. CASE count = 2
      BY <2>1, <2>3
    <2>4. CASE count = 3
      BY <2>1, <2>4
    <2> QED
      BY <2>1, <2>2, <2>3, <2>4
  <1>2. \/ c.count = 0
        \/ c.count = count /\ ~nameStop(words[i])
    BY DEF nameCandidate, nameStart
  <1> HIDE DEF count, c
  <1>3. /\ c.count \in 0..3
        /\ c.count # 0 => \A k \in i..(i + c.count - 1) : ~nameStop(words[k])
    BY <1>1, <1>2
  <1> QED
    BY <1>3 DEF c

\* The pass after every number of rounds: it goes on, and it has either not
\* passed word i or found the name that begins there.
LEMMA PassFacts ==
    ASSUME NEW W, NEW words \in Seq(W), NEW i \in 2..Len(words), nameStop(words[i - 1]),
           nameCandidate(words, i).count # 0
    PROVE  nameCandidate(words, i) \in passOver(words)[Len(words)].found
  <1> DEFINE F == {nameCandidate(words, k) : k \in Nat}
             S == [at: Nat, found: SUBSET F]
             start == [at |-> 1, found |-> {}]
             step == [p \in Nat \X S |-> tryWord(words, p[2])]
             pass == passOver(words)
             J(n, p) == /\ p \in S
                        /\ p.at >= 1
                        /\ p.at > n \/ p.at > Len(words)
                        /\ p.at <= i \/ nameCandidate(words, i) \in p.found
             T == {n \in Nat : J(n, pass[n])}
  <1>0. Len(words) \in Nat
    OBVIOUS
  <1>1. \A p \in S : tryWord(words, p) \in S
    <2> TAKE p \in S
    <2>1. p.at \in Nat /\ p.found \in SUBSET F /\ p = [at |-> p.at, found |-> p.found]
      OBVIOUS
    <2> DEFINE c == nameCandidate(words, p.at)
    <2>2. c \in F /\ c.count \in 0..3
      BY <2>1, CandidateFacts
    <2>3. /\ tryWord(words, p) \in {p, [p EXCEPT !.at = @ + 1],
                                     [at |-> p.at + c.count, found |-> p.found \cup {c}]}
      BY DEF tryWord
    <2> HIDE DEF c, F
    <2>4. p.at + c.count \in Nat /\ p.found \cup {c} \in SUBSET F
      BY <2>1, <2>2
    <2>5. [p EXCEPT !.at = @ + 1] \in S
      BY <2>1
    <2> QED
      BY <2>3, <2>4, <2>5
  <1>2. start \in S
    OBVIOUS
  <1> HIDE DEF S
  <1>3. Iterable(S, start, step)
    BY <1>1, <1>2 DEF Iterable
  <1>4. \A n \in Nat : \A s \in S : step[n, s] = tryWord(words, s)
    OBVIOUS
  <1> HIDE DEF step, start
  <1>a. PICK g : Iterates(g, S, start, step)
    BY ONLY <1>3, Iteration
  <1>5. /\ g \in [Nat -> S]
        /\ g[0] = start
        /\ \A n \in Nat : n # 0 => g[n] = step[n, g[n - 1]]
    BY ONLY <1>a DEF Iterates
  <1>6. g = [n \in Nat |-> IF n = 0 THEN start ELSE tryWord(words, g[n - 1])]
    <2>1. ASSUME NEW n \in Nat, n # 0 PROVE g[n] = tryWord(words, g[n - 1])
      <3>1. n - 1 \in Nat
        BY <2>1
      <3> QED
        BY <2>1, <3>1, <1>4, <1>5
    <2> QED
      BY <1>5, <2>1
  <1>7. pass = [n \in Nat |-> IF n = 0 THEN start ELSE tryWord(words, pass[n - 1])]
    BY <1>6 DEF passOver, start
  <1> HIDE DEF pass
  <1>8. 0 \in T
    <2>1. pass[0] = start /\ start.at = 1
      BY <1>7 DEF start
    <2> QED
      BY <1>2, <2>1
  <1>9. ASSUME NEW n \in Nat, n \in T PROVE n + 1 \in T
    <2> DEFINE p == pass[n]
               r == tryWord(words, p)
               c == nameCandidate(words, p.at)
    <2>1. pass[n + 1] = r
      BY <1>7
    <2>2. J(n, p)
      BY <1>9
    <2> HIDE DEF p
    <2>3. p.at \in Nat /\ r \in S /\ p = [at |-> p.at, found |-> p.found]
      BY <2>2, <1>1 DEF S
    <2>4. c.count \in 0..3 /\ (c.count # 0 => \A k \in (p.at)..(p.at + c.count - 1) : ~nameStop(words[k]))
      BY <2>3, CandidateFacts
    <2>5. CASE p.at > Len(words)
      <3>1. r = p
        BY <2>5 DEF tryWord
      <3> QED
        BY <2>1, <2>2, <2>5, <3>1, <1>0
    <2>6. CASE p.at <= Len(words) /\ c.count = 0
      <3>1. r = [p EXCEPT !.at = @ + 1]
        BY <2>6, <2>3, <1>0 DEF tryWord
      <3>2. r.at = p.at + 1 /\ r.found = p.found
        BY <3>1, <2>3
      <3>3. p.at # i
        BY <2>6
      <3> HIDE DEF r, c
      <3>4. J(n + 1, r)
        BY <2>2, <2>3, <2>6, <3>2, <3>3, <1>0
      <3> QED
        BY <2>1, <3>4
    <2>7. CASE p.at <= Len(words) /\ c.count # 0
      <3>1. r = [at |-> p.at + c.count, found |-> p.found \cup {c}]
        BY <2>7, <2>3, <1>0 DEF tryWord
      <3>2. r.at = p.at + c.count /\ r.found = p.found \cup {c}
        BY <3>1
      <3>3. p.at = i => nameCandidate(words, i) \in r.found
        BY <3>2
      <3> HIDE DEF r, c
      <3>4. p.at < i => r.at <= i
        <4> SUFFICES ASSUME p.at < i, r.at > i PROVE FALSE
          BY <2>3, <2>4, <3>2
        <4>1. i - 1 \in (p.at)..(p.at + c.count - 1)
          BY <2>3, <2>4, <3>2
        <4> QED
          BY <4>1, <2>4, <2>7
      <3>5. J(n + 1, r)
        BY <2>2, <2>3, <2>4, <2>7, <3>2, <3>3, <3>4, <1>0
      <3> QED
        BY <2>1, <3>5
    <2> QED
      BY <2>3, <2>5, <2>6, <2>7, <1>0
  <1> HIDE DEF T
  <1>10. \A n \in Nat : n \in T
    BY ONLY <1>8, <1>9, Induction
  <1>11. J(Len(words), pass[Len(words)])
    BY <1>0, <1>10 DEF T
  <1>12. pass[Len(words)].at \in Nat
    BY <1>11 DEF S
  <1> QED
    BY <1>0, <1>11, <1>12 DEF pass

\* A name right behind a strong marker that nameStop lists too, and that no
\* hyphen stands right before, is always reported, with high confidence and its
\* label: the greedy pass of full_name.go over the words never steps over it
\* from a candidate that began earlier.
THEOREM LabelledNames == Writing => []LabelledNameReported
  <1>1. WrittenOK => LabelledNameReported
    <2> SUFFICES ASSUME WrittenOK, topic = "name",
                        NEW i \in 2..Len(nameTokens(written)),
                        Whole(nameTokens(written)[i - 1], StrongMarkers \cap Stops),
                        ~EndsInHyphen(nameTokens(written)[i - 1].gap),
                        Separates(nameTokens(written)[i].gap),
                        ~nameStop(nameTokens(written)[i]), nameLetters(nameTokens(written)[i]),
                        \/ commonGivenName(nameTokens(written)[i])
                        \/ surnameForm(nameTokens(written)[i])
                 PROVE  \E c \in Candidates(written) :
                           c.start = i /\ c.conf = "high" /\ c.label /\ ~c.trap
      BY DEF LabelledNameReported
    <2> DEFINE words == nameTokens(written)
               c == nameCandidate(words, i)
    <2>1. written \in Seq(CellsOf("name"))
      BY DEF WrittenOK, Topics
    <2>2. words \in Words(written)
      BY <2>1, NameTokensAreWords
    <2> HIDE DEF words
    <2>3. i \in Nat /\ i > 1
      BY <2>2 DEF words, Words
    <2>4. PICK m \in StrongMarkers \cap Stops : words[i - 1].parts = <<m>>
      <3>1. /\ Len(words[i - 1].parts) = 1
            /\ words[i - 1].parts[1] \in StrongMarkers \cap Stops
        BY DEF words, Whole
      <3>2. PICK K : words[i - 1].parts \in Seq(K)
        <4>1. i - 1 \in 1..Len(words)
          <5>1. words \in Seq([gap: {written[n].gap : n \in Nat},
                               parts: Seq({written[n].tok : n \in Nat})])
            BY <2>2 DEF Words
          <5>2. Len(words) \in Nat
            BY <5>1
          <5>3. i \in 2..Len(words)
            BY DEF words
          <5> QED
            BY <5>2, <5>3
        <4>2. PICK W : words \in Seq(W) /\ \A w \in W : \E K : w.parts \in Seq(K)
          BY <2>2 DEF Words
        <4> QED
          BY <4>1, <4>2
      <3> QED
        BY <3>1, <3>2
    <2>5. nameStop(words[i - 1])
      BY <2>4 DEF nameStop, Whole
    <2>6. markerImmediatelyBefore(words, i, StrongMarkers)
      <3>1. precedingNameLabel(words, i) = <<>> \o <<m>>
        BY <2>3, <2>4 DEF words, precedingNameLabel
      <3>2. <<>> \o <<m>> = <<m>>
        OBVIOUS
      <3> QED
        BY <3>1, <3>2 DEF markerImmediatelyBefore
    <2>7. /\ ~nameStop(words[i]) /\ nameLetters(words[i])
          /\ commonGivenName(words[i]) \/ surnameForm(words[i])
      BY DEF words
    <2>8. nameConfidence(words, i, nameWordCount(words, i, TRUE), TRUE) = "high"
      BY <2>7 DEF nameConfidence
    <2>9. c = [count |-> nameWordCount(words, i, TRUE), start |-> i, conf |-> "high",
               needs |-> FALSE, label |-> TRUE, trap |-> FALSE]
      BY <2>6, <2>7, <2>8 DEF nameCandidate, nameStart
    <2>10. c.count # 0
      <3>1. nameWordCount(words, i, TRUE) # 0
        BY DEF nameWordCount
      <3> HIDE DEF c
      <3>2. c.count = nameWordCount(words, i, TRUE)
        BY <2>9
      <3> QED
        BY <3>1, <3>2
    <2>11. c \in passOver(words)[Len(words)].found
      <3> HIDE DEF c
      <3>1. PICK W : words \in Seq(W)
        BY <2>2 DEF Words
      <3> QED
        BY <3>1, <2>5, <2>10, PassFacts DEF c, words
    <2>12. c \in Candidates(written)
      BY <2>11 DEF Candidates, words
    <2>13. c.start = i /\ c.conf = "high" /\ c.label /\ ~c.trap
      BY <2>9
    <2> HIDE DEF c
    <2> QED
      BY <2>12, <2>13
  <1> QED
    BY <1>1, WritingOK, PTL

-----------------------------------------------------------------------------
(* Functions over trees *)

\* What a function over trees is defined by: rank says how high a tree is, and
\* the value of a tree depends on those of lower trees alone.
TreeStep(T, V, v0, rank, step) ==
    /\ v0 \in V
    /\ rank \in [T -> Nat]
    /\ step \in [T \X [T -> V] -> V]
    /\ \A x \in T : \A e, f \in [T -> V] :
          (\A y \in T : rank[y] < rank[x] => e[y] = f[y]) => step[x, e] = step[x, f]

Solves(e, T, V, step) ==
    /\ e \in [T -> V]
    /\ \A x \in T : e[x] = step[x, e]

\* A function that is defined tree by tree exists: what the rounds of an
\* iteration make of a tree does not change once the round is above the tree.
LEMMA TreeRecursion ==
    ASSUME NEW T, NEW V, NEW v0, NEW rank, NEW step, TreeStep(T, V, v0, rank, step)
    PROVE  \E e : Solves(e, T, V, step)
  <1> DEFINE S == [T -> V]
             start == [x \in T |-> v0]
             round == [p \in Nat \X S |-> [x \in T |-> step[x, p[2]]]]
  <1>1. /\ v0 \in V
        /\ rank \in [T -> Nat]
        /\ \A x \in T : \A e \in S : step[x, e] \in V
        /\ \A x \in T : \A e, f \in S :
              (\A y \in T : rank[y] < rank[x] => e[y] = f[y]) => step[x, e] = step[x, f]
    <2>1. step \in [T \X S -> V]
      BY DEF TreeStep
    <2>2. \A x \in T : \A e \in S : step[x, e] \in V
      <3> HIDE DEF S
      <3> QED
        BY <2>1
    <2> QED
      BY <2>2 DEF TreeStep
  <1>2. start \in S
    BY <1>1
  <1>3. \A n \in Nat : \A e \in S : /\ round[n, e] = [x \in T |-> step[x, e]]
                                    /\ round[n, e] \in S
    BY <1>1
  <1>4. Iterable(S, start, round)
    <2>1. \A e \in S : [x \in T |-> step[x, e]] \in S
      BY <1>1
    <2> HIDE DEF S, start
    <2> QED
      BY <1>2, <2>1 DEF Iterable
  <1> HIDE DEF S, start, round
  <1>a. PICK g : Iterates(g, S, start, round)
    BY ONLY <1>4, Iteration
  <1>5. /\ g \in [Nat -> S]
        /\ \A n \in Nat : n # 0 => g[n] = round[n, g[n - 1]]
    BY ONLY <1>a DEF Iterates
  <1>6. ASSUME NEW n \in Nat, NEW x \in T PROVE g[n + 1][x] = step[x, g[n]]
    <2>1. g[n + 1] = round[n + 1, g[n]] /\ g[n] \in S /\ n + 1 \in Nat
      <3>1. n + 1 \in Nat /\ n + 1 # 0 /\ (n + 1) - 1 = n
        OBVIOUS
      <3> QED
        BY <1>5, <3>1
    <2>2. g[n + 1] = [y \in T |-> step[y, g[n]]]
      BY <1>3, <2>1
    <2> QED
      BY <2>2
  <1>r. \A x \in T : rank[x] \in Nat
    <2>1. rank \in [T -> Nat]
      BY <1>1
    <2> QED
      BY ONLY <2>1
  <1>s. \A n \in Nat : g[n] \in S
    BY ONLY <1>5
  <1> DEFINE P == {n \in Nat : \A x \in T : rank[x] < n => g[n + 1][x] = g[n][x]}
  <1>7. 0 \in P
    BY <1>r
  <1>8. ASSUME NEW n \in Nat, n \in P PROVE n + 1 \in P
    <2> SUFFICES ASSUME NEW x \in T, rank[x] < n + 1
                 PROVE  g[(n + 1) + 1][x] = g[n + 1][x]
      OBVIOUS
    <2>1. g[(n + 1) + 1][x] = step[x, g[n + 1]] /\ g[n + 1][x] = step[x, g[n]]
      <3>1. n + 1 \in Nat
        OBVIOUS
      <3> HIDE DEF P
      <3> QED
        BY <1>6, <3>1
    <2>2. \A y \in T : rank[y] < rank[x] => g[n + 1][y] = g[n][y]
      <3> SUFFICES ASSUME NEW y \in T, rank[y] < rank[x] PROVE g[n + 1][y] = g[n][y]
        OBVIOUS
      <3>1. rank[y] < n
        BY <1>r
      <3> QED
        BY <1>8, <3>1
    <2>3. g[n + 1] \in S /\ g[n] \in S
      <3>1. n + 1 \in Nat
        OBVIOUS
      <3> HIDE DEF P
      <3> QED
        BY <1>s, <3>1
    <2> QED
      BY <1>1, <2>1, <2>2, <2>3
  <1>9. \A n \in Nat : n \in P
    <2> HIDE DEF P
    <2> QED
      BY ONLY <1>7, <1>8, Induction
  <1> DEFINE e == [x \in T |-> g[rank[x] + 1][x]]
             Q == {n \in Nat : \A x \in T : rank[x] < n => g[n][x] = e[x]}
  <1>10. 0 \in Q
    BY <1>r
  <1>11. ASSUME NEW n \in Nat, n \in Q PROVE n + 1 \in Q
    <2> SUFFICES ASSUME NEW x \in T, rank[x] < n + 1 PROVE g[n + 1][x] = e[x]
      OBVIOUS
    <2>1. CASE rank[x] < n
      BY <1>9, <1>11, <2>1
    <2>2. CASE rank[x] = n
      BY <2>2
    <2> QED
      BY <1>r, <2>1, <2>2
  <1>12. \A n \in Nat : n \in Q
    <2> HIDE DEF Q
    <2> QED
      BY ONLY <1>10, <1>11, Induction
  <1>13. e \in S
    <2>1. ASSUME NEW x \in T PROVE e[x] \in V
      <3>1. rank[x] + 1 \in Nat
        BY <1>r
      <3>2. g[rank[x] + 1] \in S
        BY <1>5, <3>1
      <3> QED
        BY <3>2 DEF S
    <2> QED
      BY <2>1 DEF S
  <1>14. ASSUME NEW x \in T PROVE e[x] = step[x, e]
    <2>1. rank[x] \in Nat /\ g[rank[x]] \in S
      BY <1>1, <1>5
    <2>2. e[x] = step[x, g[rank[x]]]
      BY <1>6, <2>1
    <2>3. \A y \in T : rank[y] < rank[x] => g[rank[x]][y] = e[y]
      BY <1>12, <2>1
    <2> HIDE DEF e
    <2> QED
      BY <1>1, <1>13, <2>1, <2>2, <2>3
  <1> HIDE DEF e
  <1>15. Solves(e, T, V, step)
    BY <1>13, <1>14 DEF Solves, S
  <1> QED
    BY <1>15

-----------------------------------------------------------------------------
(* Detectors: matches of a tree *)

\* Where matches end, by where they begin: never before.
EndSets(L) ==
    {f \in [0..L -> SUBSET (0..L)] : \A i \in 0..L : f[i] \subseteq i..L}

\* A step leads on from where it begins.
LEMMA StepFacts ==
    ASSUME NEW L \in Nat, NEW ends \in EndSets(L), NEW i \in 0..L, NEW from \in SUBSET (i..L)
    PROVE  /\ Step(ends, from) \in SUBSET (i..L)
           /\ Step(ends, from) # {} => from # {} /\ \E k \in 0..L : ends[k] # {}
  <1>1. \A k \in from : k \in 0..L /\ k >= i /\ ends[k] \subseteq k..L
    BY DEF EndSets
  <1>2. ASSUME NEW j \in Step(ends, from)
        PROVE  j \in i..L /\ \E k \in from : j \in ends[k]
    <2>1. PICK k \in from : j \in ends[k]
      BY DEF Step
    <2>2. j \in k..L /\ k >= i /\ k \in 0..L
      BY <1>1, <2>1
    <2> QED
      BY <2>1, <2>2
  <1> QED
    BY <1>1, <1>2

\* Matches of one part in a row.
LEMMA StepTimesFacts ==
    ASSUME NEW L \in Nat, NEW ends \in EndSets(L), NEW i \in 0..L
    PROVE  \A n \in Nat :
              /\ StepTimes(ends, {i})[n] \in SUBSET (i..L)
              /\ n > 0 /\ StepTimes(ends, {i})[n] # {} => \E k \in 0..L : ends[k] # {}
  <1> DEFINE S == SUBSET (i..L)
             start == {i}
             step == [p \in Nat \X S |-> Step(ends, p[2])]
             reach == StepTimes(ends, start)
             T == {n \in Nat : /\ reach[n] \in S
                               /\ n > 0 /\ reach[n] # {} => \E k \in 0..L : ends[k] # {}}
  <1>1. start \in S
    OBVIOUS
  <1>2. \A R \in S : Step(ends, R) \in S /\ (Step(ends, R) # {} => \E k \in 0..L : ends[k] # {})
    BY StepFacts
  <1> HIDE DEF S, start
  <1>3. Iterable(S, start, step)
    BY <1>1, <1>2 DEF Iterable
  <1>4. \A n \in Nat : \A R \in S : step[n, R] = Step(ends, R)
    OBVIOUS
  <1> HIDE DEF step
  <1>a. PICK g : Iterates(g, S, start, step)
    BY ONLY <1>3, Iteration
  <1>5. /\ g \in [Nat -> S]
        /\ g[0] = start
        /\ \A n \in Nat : n # 0 => g[n] = step[n, g[n - 1]]
    BY ONLY <1>a DEF Iterates
  <1>6. g = [n \in Nat |-> IF n = 0 THEN start ELSE Step(ends, g[n - 1])]
    <2>1. ASSUME NEW n \in Nat, n # 0 PROVE g[n] = Step(ends, g[n - 1])
      <3>1. n - 1 \in Nat
        BY <2>1
      <3> QED
        BY <2>1, <3>1, <1>4, <1>5
    <2> QED
      BY <1>5, <2>1
  <1>7. reach = [n \in Nat |-> IF n = 0 THEN start ELSE Step(ends, reach[n - 1])]
    BY <1>6 DEF StepTimes
  <1> HIDE DEF reach
  <1>8. 0 \in T
    BY <1>1, <1>7
  <1>9. ASSUME NEW n \in Nat, n \in T PROVE n + 1 \in T
    <2>1. reach[n + 1] = Step(ends, reach[n]) /\ reach[n] \in S
      BY <1>7, <1>9
    <2> QED
      BY <1>2, <2>1
  <1> HIDE DEF T
  <1>10. \A n \in Nat : n \in T
    BY ONLY <1>8, <1>9, Induction
  <1> QED
    BY <1>10 DEF T, reach, S, start

\* A match of each part in turn: every part has one.
LEMMA StepEachFacts ==
    ASSUME NEW L \in Nat, NEW parts \in Seq(EndSets(L)), NEW i \in 0..L
    PROVE  /\ StepEach(parts, {i})[Len(parts)] \in SUBSET (i..L)
           /\ StepEach(parts, {i})[Len(parts)] # {} =>
                 \A m \in 1..Len(parts) : \E k \in 0..L : parts[m][k] # {}
  <1> DEFINE S == SUBSET (i..L)
             start == {i}
             N == Len(parts)
             step == [p \in Nat \X S |-> IF p[1] \in 1..N THEN Step(parts[p[1]], p[2]) ELSE p[2]]
             reach == StepEach(parts, start)
             T == {n \in Nat : n <= N =>
                      /\ reach[n] \in S
                      /\ reach[n] # {} => \A m \in 1..n : \E k \in 0..L : parts[m][k] # {}}
  <1>0. N \in Nat /\ \A m \in 1..N : parts[m] \in EndSets(L)
    <2> HIDE DEF S
    <2> QED
      OBVIOUS
  <1>1. start \in S
    OBVIOUS
  <1>2. ASSUME NEW m \in 1..N, NEW R \in S
        PROVE  /\ Step(parts[m], R) \in S
               /\ Step(parts[m], R) # {} => R # {} /\ \E k \in 0..L : parts[m][k] # {}
    BY <1>0, StepFacts
  <1> HIDE DEF S, start, N
  <1>3. Iterable(S, start, step)
    BY <1>1, <1>2 DEF Iterable
  <1>4. ASSUME NEW n \in 1..N, NEW R \in S PROVE step[n, R] = Step(parts[n], R)
    <2>1. <<n, R>> \in Nat \X S
      BY <1>0
    <2>2. <<n, R>>[1] = n /\ <<n, R>>[2] = R
      OBVIOUS
    <2>3. step[<<n, R>>] = IF n \in 1..N THEN Step(parts[n], R) ELSE R
      BY <2>1, <2>2
    <2> QED
      BY <2>3
  <1> HIDE DEF step
  <1>a. PICK g : Iterates(g, S, start, step)
    BY ONLY <1>3, Iteration
  <1>5. /\ g \in [Nat -> S]
        /\ g[0] = start
        /\ \A n \in Nat : n # 0 => g[n] = step[n, g[n - 1]]
    BY ONLY <1>a DEF Iterates
  <1> DEFINE h == [n \in 0..N |-> g[n]]
  <1>6. h = [n \in 0..N |-> IF n = 0 THEN start ELSE Step(parts[n], h[n - 1])]
    <2>1. ASSUME NEW n \in 0..N, n # 0 PROVE h[n] = Step(parts[n], h[n - 1])
      <3>1. n \in Nat /\ n \in 1..N /\ n - 1 \in Nat /\ n - 1 \in 0..N
        BY <1>0, <2>1
      <3>2. h[n] = step[n, g[n - 1]] /\ h[n - 1] = g[n - 1] /\ g[n - 1] \in S
        BY <1>5, <2>1, <3>1
      <3> HIDE DEF h
      <3> QED
        BY <1>4, <3>1, <3>2
    <2>2. h[0] = start
      <3>1. 0 \in 0..N
        BY <1>0
      <3> QED
        BY <1>5, <3>1
    <2> QED
      BY <2>1, <2>2
  <1> HIDE DEF h
  <1>7. reach = [n \in 0..N |-> IF n = 0 THEN start ELSE Step(parts[n], reach[n - 1])]
    BY <1>6 DEF StepEach, N
  <1> HIDE DEF reach
  <1>8. 0 \in T
    BY <1>0, <1>1, <1>7
  <1>9. ASSUME NEW n \in Nat, n \in T PROVE n + 1 \in T
    <2> SUFFICES ASSUME n + 1 <= N
                 PROVE  /\ reach[n + 1] \in S
                        /\ reach[n + 1] # {} =>
                              \A m \in 1..(n + 1) : \E k \in 0..L : parts[m][k] # {}
      OBVIOUS
    <2>1. n + 1 \in 1..N /\ n + 1 \in 0..N /\ n <= N
      BY <1>0
    <2>2. reach[n + 1] = Step(parts[n + 1], reach[n])
      BY <1>7, <2>1
    <2>3. reach[n] \in S /\ (reach[n] # {} => \A m \in 1..n : \E k \in 0..L : parts[m][k] # {})
      BY <1>9, <2>1
    <2>4. /\ Step(parts[n + 1], reach[n]) \in S
          /\ Step(parts[n + 1], reach[n]) # {} =>
                reach[n] # {} /\ \E k \in 0..L : parts[n + 1][k] # {}
      BY <1>2, <2>1, <2>3
    <2>5. \A m \in 1..(n + 1) : m \in 1..n \/ m = n + 1
      OBVIOUS
    <2> QED
      BY <2>2, <2>3, <2>4, <2>5
  <1> HIDE DEF T
  <1>10. \A n \in Nat : n \in T
    BY ONLY <1>8, <1>9, Induction
  <1>11. N \in T
    BY <1>0, <1>10
  <1>12. /\ reach[N] \in S
         /\ reach[N] # {} => \A m \in 1..N : \E k \in 0..L : parts[m][k] # {}
    BY <1>0, <1>11 DEF T
  <1> QED
    BY <1>12 DEF reach, S, start, N

\* The matches of a tree depend on those of its subtrees alone.
LEMMA EndsAtAgree ==
    ASSUME NEW x, NEW e, NEW f, NEW runes, NEW i, \A y \in Subtrees(x) : e[y] = f[y]
    PROVE  EndsAt(x, e, runes, i) = EndsAt(x, f, runes, i)
  <1>a. x.op \in {"capture", "star", "plus", "repeat"} => e[x.sub] = f[x.sub]
    BY DEF Subtrees
  <1>b. x.op \in {"concat", "alternate"} => \A y \in Range(x.subs) : e[y] = f[y]
    BY DEF Subtrees
  <1>1. CASE x.op = "capture"
    <2>1. EndsAt(x, e, runes, i) = e[x.sub][i]
      BY <1>1 DEF EndsAt
    <2>2. EndsAt(x, f, runes, i) = f[x.sub][i]
      BY <1>1 DEF EndsAt
    <2> QED
      BY <2>1, <2>2, <1>a, <1>1
  <1>2. CASE x.op = "star"
    <2>1. EndsAt(x, e, runes, i) = UNION {StepTimes(e[x.sub], {i})[n] : n \in 0..Len(runes)}
      BY <1>2 DEF EndsAt
    <2>2. EndsAt(x, f, runes, i) = UNION {StepTimes(f[x.sub], {i})[n] : n \in 0..Len(runes)}
      BY <1>2 DEF EndsAt
    <2>3. \A n : StepTimes(e[x.sub], {i})[n] = StepTimes(f[x.sub], {i})[n]
      BY <1>a, <1>2
    <2> QED
      BY <2>1, <2>2, <2>3
  <1>3. CASE x.op = "plus"
    <2>1. EndsAt(x, e, runes, i) = UNION {StepTimes(e[x.sub], {i})[n] : n \in 1..(Len(runes) + 1)}
      BY <1>3 DEF EndsAt
    <2>2. EndsAt(x, f, runes, i) = UNION {StepTimes(f[x.sub], {i})[n] : n \in 1..(Len(runes) + 1)}
      BY <1>3 DEF EndsAt
    <2>3. \A n : StepTimes(e[x.sub], {i})[n] = StepTimes(f[x.sub], {i})[n]
      BY <1>a, <1>3
    <2> QED
      BY <2>1, <2>2, <2>3
  <1>4. CASE x.op = "repeat"
    <2> DEFINE top == IF x.max = -1 THEN x.min + Len(runes) ELSE x.max
    <2>1. EndsAt(x, e, runes, i) = UNION {StepTimes(e[x.sub], {i})[n] : n \in x.min..top}
      BY <1>4 DEF EndsAt
    <2>2. EndsAt(x, f, runes, i) = UNION {StepTimes(f[x.sub], {i})[n] : n \in x.min..top}
      BY <1>4 DEF EndsAt
    <2> HIDE DEF top
    <2>3. \A n : StepTimes(e[x.sub], {i})[n] = StepTimes(f[x.sub], {i})[n]
      BY <1>a, <1>4
    <2> QED
      BY <2>1, <2>2, <2>3
  <1>5. CASE x.op = "concat"
    <2>1. \A k \in DOMAIN x.subs : e[x.subs[k]] = f[x.subs[k]]
      BY <1>b, <1>5 DEF Range
    <2>2. [k \in DOMAIN x.subs |-> e[x.subs[k]]] = [k \in DOMAIN x.subs |-> f[x.subs[k]]]
      BY <2>1
    <2>3. EndsAt(x, e, runes, i)
             = StepEach([k \in DOMAIN x.subs |-> e[x.subs[k]]], {i})[Len(x.subs)]
      BY <1>5 DEF EndsAt
    <2>4. EndsAt(x, f, runes, i)
             = StepEach([k \in DOMAIN x.subs |-> f[x.subs[k]]], {i})[Len(x.subs)]
      BY <1>5 DEF EndsAt
    <2> QED
      BY <2>2, <2>3, <2>4
  <1>6. CASE x.op = "alternate"
    <2>1. EndsAt(x, e, runes, i) = UNION {e[y][i] : y \in Range(x.subs)}
      BY <1>6 DEF EndsAt
    <2>2. EndsAt(x, f, runes, i) = UNION {f[y][i] : y \in Range(x.subs)}
      BY <1>6 DEF EndsAt
    <2> QED
      BY <2>1, <2>2, <1>b, <1>6
  <1>7. CASE x.op = "literal"
    BY <1>7 DEF EndsAt
  <1>8. CASE x.op \in {"any", "empty"}
    BY <1>8 DEF EndsAt
  <1>9. CASE x.op \notin {"literal", "any", "empty", "capture", "star", "plus", "repeat",
                         "concat", "alternate"}
    BY <1>9 DEF EndsAt
  <1> QED
    BY <1>1, <1>2, <1>3, <1>4, <1>5, <1>6, <1>7, <1>8, <1>9

\* The parts of a tree of several.
LEMMA PartsFacts ==
    ASSUME NEW V, NEW x \in Trees, x.op \in {"concat", "alternate"}, NEW e,
           \A y \in Subtrees(x) : e[y] \in V
    PROVE  /\ x.subs \in Seq(Trees) /\ Len(x.subs) \in Nat /\ DOMAIN x.subs = 1..Len(x.subs)
           /\ [k \in DOMAIN x.subs |-> e[x.subs[k]]] \in Seq(V)
           /\ Len([k \in DOMAIN x.subs |-> e[x.subs[k]]]) = Len(x.subs)
           /\ \A k \in DOMAIN x.subs : x.subs[k] \in Subtrees(x) /\ x.subs[k] \in Trees
           /\ \A y \in Subtrees(x) : \E k \in DOMAIN x.subs : y = x.subs[k]
  <1>1. x.subs \in Seq(Trees)
    BY PatternsAssumption
  <1>2. Subtrees(x) = Range(x.subs)
    BY DEF Subtrees
  <1>3. /\ Len(x.subs) \in Nat /\ DOMAIN x.subs = 1..Len(x.subs)
        /\ \A k \in DOMAIN x.subs : x.subs[k] \in Trees
    BY <1>1
  <1>4. \A k \in DOMAIN x.subs : x.subs[k] \in Subtrees(x)
    BY <1>2 DEF Range
  <1>5. \A y \in Subtrees(x) : \E k \in DOMAIN x.subs : y = x.subs[k]
    BY <1>2 DEF Range
  <1> DEFINE parts == [k \in 1..Len(x.subs) |-> e[x.subs[k]]]
  <1>6. parts \in [1..Len(x.subs) -> V]
    BY <1>3, <1>4
  <1>7. parts \in Seq(V) /\ Len(parts) = Len(x.subs)
    <2>1. parts \in Seq(V)
      BY <1>3, <1>6
    <2>2. DOMAIN parts = 1..Len(x.subs)
      OBVIOUS
    <2> HIDE DEF parts
    <2> QED
      BY <1>3, <2>1, <2>2
  <1> QED
    BY <1>1, <1>3, <1>4, <1>5, <1>7

\* Matches of a tree end within the input and not before they begin.
LEMMA EndsAtTyped ==
    ASSUME NEW runes \in Seq(Runes), NEW x \in Trees, NEW e,
           \A y \in Subtrees(x) : e[y] \in EndSets(Len(runes)), NEW i \in 0..Len(runes)
    PROVE  EndsAt(x, e, runes, i) \in SUBSET (i..Len(runes))
  <1> DEFINE L == Len(runes)
  <1>0. L \in Nat
    OBVIOUS
  <1> HIDE DEF L
  <1>a. i \in 0..L /\ i \in i..L
    BY <1>0 DEF L
  <1>1. CASE x.op \in {"star", "plus", "repeat"}
    <2>1. e[x.sub] \in EndSets(L)
      BY <1>1 DEF Subtrees, L
    <2>2. \A n \in Nat : StepTimes(e[x.sub], {i})[n] \in SUBSET (i..L)
      BY <1>0, <1>a, <2>1, StepTimesFacts
    <2>3. x.op = "repeat" => \A n \in x.min..(IF x.max = -1 THEN x.min + L ELSE x.max) : n \in Nat
      <3>1. CASE x.op = "repeat"
        <4>1. x.min \in Nat /\ (IF x.max = -1 THEN x.min + L ELSE x.max) \in Int
          BY <1>0, <3>1, PatternsAssumption
        <4> DEFINE top == IF x.max = -1 THEN x.min + L ELSE x.max
        <4> HIDE DEF top
        <4>2. \A n \in x.min..top : n \in Nat
          BY <4>1 DEF top
        <4> QED
          BY <4>2 DEF top
      <3> QED
        BY <3>1
    <2>4. ASSUME NEW j \in EndsAt(x, e, runes, i)
          PROVE  \E n \in Nat : j \in StepTimes(e[x.sub], {i})[n]
      <3>1. CASE x.op = "star"
        <4>1. EndsAt(x, e, runes, i) = UNION {StepTimes(e[x.sub], {i})[n] : n \in 0..L}
          BY <3>1 DEF EndsAt, L
        <4>2. PICK n \in 0..L : j \in StepTimes(e[x.sub], {i})[n]
          BY <4>1
        <4>3. n \in Nat
          BY <1>0
        <4> QED
          BY <4>2, <4>3
      <3>2. CASE x.op = "plus"
        <4>1. EndsAt(x, e, runes, i) = UNION {StepTimes(e[x.sub], {i})[n] : n \in 1..(L + 1)}
          BY <3>2 DEF EndsAt, L
        <4>2. PICK n \in 1..(L + 1) : j \in StepTimes(e[x.sub], {i})[n]
          BY <4>1
        <4>3. n \in Nat
          BY <1>0
        <4> QED
          BY <4>2, <4>3
      <3>3. CASE x.op = "repeat"
        <4>1. EndsAt(x, e, runes, i) =
                 UNION {StepTimes(e[x.sub], {i})[n] :
                           n \in x.min..(IF x.max = -1 THEN x.min + L ELSE x.max)}
          BY <3>3 DEF EndsAt, L
        <4> QED
          BY <2>3, <3>3, <4>1
      <3> QED
        BY <1>1, <3>1, <3>2, <3>3
    <2> QED
      BY <2>2, <2>4 DEF L
  <1>2. CASE x.op = "capture"
    <2>1. e[x.sub] \in EndSets(L)
      BY <1>2 DEF Subtrees, L
    <2>2. EndsAt(x, e, runes, i) = e[x.sub][i]
      BY <1>2 DEF EndsAt
    <2> QED
      BY <1>a, <2>1, <2>2 DEF EndSets, L
  <1>3. CASE x.op = "concat"
    <2> DEFINE parts == [k \in DOMAIN x.subs |-> e[x.subs[k]]]
    <2>0. \A y \in Subtrees(x) : e[y] \in EndSets(L)
      BY DEF L
    <2>1. parts \in Seq(EndSets(L)) /\ Len(parts) = Len(x.subs)
      BY <1>3, <2>0, PartsFacts
    <2>2. EndsAt(x, e, runes, i) = StepEach(parts, {i})[Len(x.subs)]
      BY <1>3 DEF EndsAt
    <2> HIDE DEF parts
    <2> QED
      BY <1>0, <1>a, <2>1, <2>2, StepEachFacts DEF L
  <1>4. CASE x.op = "alternate"
    <2>1. Subtrees(x) = Range(x.subs)
      BY <1>4 DEF Subtrees
    <2>2. EndsAt(x, e, runes, i) = UNION {e[y][i] : y \in Range(x.subs)}
      BY <1>4 DEF EndsAt
    <2>3. \A y \in Range(x.subs) : e[y][i] \in SUBSET (i..L)
      BY <1>a, <2>1 DEF EndSets, L
    <2> QED
      BY <2>2, <2>3 DEF L
  <1>5. CASE x.op = "literal"
    <2>1. Len(x.runes) \in Nat
      BY <1>5, PatternsAssumption
    <2>2. \A j \in EndsAt(x, e, runes, i) : j = i + Len(x.runes) /\ j \in 0..L
      BY <1>5 DEF EndsAt, L
    <2> QED
      BY <1>0, <1>a, <2>1, <2>2 DEF L
  <1>6. CASE x.op = "any"
    <2>1. EndsAt(x, e, runes, i) = {i + 1} \cap (1..L)
      BY <1>6 DEF EndsAt, L
    <2> QED
      BY <1>0, <1>a, <2>1 DEF L
  <1>7. CASE x.op = "empty"
    <2>1. EndsAt(x, e, runes, i) = {i}
      BY <1>7 DEF EndsAt
    <2> QED
      BY <1>a, <2>1 DEF L
  <1>8. CASE x.op \notin {"literal", "any", "empty", "capture", "star", "plus", "repeat",
                         "concat", "alternate"}
    BY <1>8 DEF EndsAt
  <1> QED
    BY <1>1, <1>2, <1>3, <1>4, <1>5, <1>6, <1>7, <1>8

\* The matches of every tree are what EndsAt says of them.
LEMMA EndsIs ==
    ASSUME NEW runes \in Seq(Runes)
    PROVE  Ends(runes) = [x \in Trees |-> [i \in 0..Len(runes) |-> EndsAt(x, Ends(runes), runes, i)]]
  <1> DEFINE L == Len(runes)
             V == EndSets(L)
             v0 == [i \in 0..L |-> {}]
             step == [p \in Trees \X [Trees -> V] |-> [i \in 0..L |-> EndsAt(p[1], p[2], runes, i)]]
  <1>0. L \in Nat
    OBVIOUS
  <1>1. v0 \in V
    BY <1>0 DEF EndSets
  <1>2. /\ Height \in [Trees -> Nat]
        /\ \A x \in Trees : \A y \in Subtrees(x) : y \in Trees /\ Height[y] < Height[x]
    BY PatternsAssumption
  <1>3. ASSUME NEW x \in Trees, NEW e \in [Trees -> V]
        PROVE  [i \in 0..L |-> EndsAt(x, e, runes, i)] \in V
    <2>1. \A y \in Subtrees(x) : e[y] \in EndSets(Len(runes))
      BY <1>2
    <2>2. \A i \in 0..L : EndsAt(x, e, runes, i) \in SUBSET (i..L)
      BY <2>1, EndsAtTyped
    <2>3. \A i \in 0..L : i..L \subseteq 0..L
      BY <1>0
    <2> HIDE DEF L
    <2> QED
      BY <2>2, <2>3 DEF EndSets
  <1>4. \A x \in Trees : \A e \in [Trees -> V] :
           step[x, e] = [i \in 0..L |-> EndsAt(x, e, runes, i)]
    <2> HIDE DEF V, L
    <2> QED
      OBVIOUS
  <1> HIDE DEF L, V, v0
  <1>5. step \in [Trees \X [Trees -> V] -> V]
    BY <1>3
  <1> HIDE DEF step
  <1>6. TreeStep(Trees, V, v0, Height, step)
    <2>1. ASSUME NEW x \in Trees, NEW e \in [Trees -> V], NEW f \in [Trees -> V],
                 \A y \in Trees : Height[y] < Height[x] => e[y] = f[y]
          PROVE  step[x, e] = step[x, f]
      <3>1. \A y \in Subtrees(x) : e[y] = f[y]
        BY <1>2, <2>1
      <3>2. \A i \in 0..L : EndsAt(x, e, runes, i) = EndsAt(x, f, runes, i)
        BY <3>1, EndsAtAgree
      <3>3. /\ step[x, e] = [i \in 0..L |-> EndsAt(x, e, runes, i)]
            /\ step[x, f] = [i \in 0..L |-> EndsAt(x, f, runes, i)]
        BY <1>4
      <3> QED
        BY <3>2, <3>3
    <2> QED
      BY <1>1, <1>2, <1>5, <2>1 DEF TreeStep
  <1>7. PICK e : Solves(e, Trees, V, step)
    BY ONLY <1>6, TreeRecursion
  <1>8. e \in [Trees -> V] /\ \A x \in Trees : e[x] = [i \in 0..L |-> EndsAt(x, e, runes, i)]
    BY <1>4, <1>7 DEF Solves
  <1>9. e = [x \in Trees |-> [i \in 0..Len(runes) |-> EndsAt(x, e, runes, i)]]
    BY <1>8 DEF L
  <1> QED
    BY <1>9 DEF Ends

-----------------------------------------------------------------------------
(* Detectors: the literals of a tree *)

Literals == [text: Seq(Runes), fold: BOOLEAN, first: SUBSET Runes]

\* The lists of all parts in one list.
LEMMA JoinedFacts ==
    ASSUME NEW parts \in Seq(Seq(Literals))
    PROVE  /\ joined(parts)[Len(parts)] \in Seq(Literals)
           /\ \A m \in 1..Len(parts) : \A q \in DOMAIN parts[m] :
                 \E r \in DOMAIN joined(parts)[Len(parts)] :
                    joined(parts)[Len(parts)][r] = parts[m][q]
  <1> DEFINE S == Seq(Literals)
             N == Len(parts)
             step == [p \in Nat \X S |-> IF p[1] \in 1..N THEN p[2] \o parts[p[1]] ELSE p[2]]
             all == joined(parts)
             T == {n \in Nat : n <= N =>
                      /\ all[n] \in S
                      /\ \A m \in 1..n : \A q \in DOMAIN parts[m] :
                            \E r \in DOMAIN all[n] : all[n][r] = parts[m][q]}
  <1>0. N \in Nat /\ \A m \in 1..N : parts[m] \in S
    OBVIOUS
  <1>1. <<>> \in S
    OBVIOUS
  <1>2. ASSUME NEW s \in S, NEW t \in S
        PROVE  /\ s \o t \in S
               /\ \A q \in DOMAIN s : q \in DOMAIN (s \o t) /\ (s \o t)[q] = s[q]
               /\ \A q \in DOMAIN t : Len(s) + q \in DOMAIN (s \o t) /\ (s \o t)[Len(s) + q] = t[q]
    OBVIOUS
  <1> HIDE DEF S, N
  <1>3. Iterable(S, <<>>, step)
    BY <1>0, <1>1, <1>2 DEF Iterable
  <1>4. ASSUME NEW n \in 1..N, NEW s \in S PROVE step[n, s] = s \o parts[n]
    <2>1. <<n, s>> \in Nat \X S
      BY <1>0
    <2>2. <<n, s>>[1] = n /\ <<n, s>>[2] = s
      OBVIOUS
    <2>3. step[<<n, s>>] = IF n \in 1..N THEN s \o parts[n] ELSE s
      BY <2>1, <2>2
    <2> QED
      BY <2>3
  <1> HIDE DEF step
  <1>a. PICK g : Iterates(g, S, <<>>, step)
    BY ONLY <1>3, Iteration
  <1>5. /\ g \in [Nat -> S]
        /\ g[0] = <<>>
        /\ \A n \in Nat : n # 0 => g[n] = step[n, g[n - 1]]
    BY ONLY <1>a DEF Iterates
  <1> DEFINE h == [n \in 0..N |-> g[n]]
  <1>6. h = [n \in 0..N |-> IF n = 0 THEN <<>> ELSE h[n - 1] \o parts[n]]
    <2>1. ASSUME NEW n \in 0..N, n # 0 PROVE h[n] = h[n - 1] \o parts[n]
      <3>1. n \in Nat /\ n \in 1..N /\ n - 1 \in Nat /\ n - 1 \in 0..N
        BY <1>0, <2>1
      <3>2. h[n] = step[n, g[n - 1]] /\ h[n - 1] = g[n - 1] /\ g[n - 1] \in S
        BY <1>5, <2>1, <3>1
      <3> HIDE DEF h
      <3> QED
        BY <1>4, <3>1, <3>2
    <2>2. h[0] = <<>>
      <3>1. 0 \in 0..N
        BY <1>0
      <3> QED
        BY <1>5, <3>1
    <2> QED
      BY <2>1, <2>2
  <1> HIDE DEF h
  <1>7. all = [n \in 0..N |-> IF n = 0 THEN <<>> ELSE all[n - 1] \o parts[n]]
    BY <1>6 DEF joined, N
  <1> HIDE DEF all
  <1>8. 0 \in T
    BY <1>0, <1>1, <1>7
  <1>9. ASSUME NEW n \in Nat, n \in T PROVE n + 1 \in T
    <2> SUFFICES ASSUME n + 1 <= N
                 PROVE  /\ all[n + 1] \in S
                        /\ \A m \in 1..(n + 1) : \A q \in DOMAIN parts[m] :
                              \E r \in DOMAIN all[n + 1] : all[n + 1][r] = parts[m][q]
      OBVIOUS
    <2>1. n + 1 \in 1..N /\ n + 1 \in 0..N /\ n <= N
      BY <1>0
    <2>2. all[n + 1] = all[n] \o parts[n + 1]
      <3>1. n + 1 # 0 /\ (n + 1) - 1 = n
        OBVIOUS
      <3> DEFINE v == n + 1
      <3>2. v \in 0..N /\ v # 0 /\ v - 1 = n
        BY <2>1, <3>1
      <3> HIDE DEF v
      <3>3. all[v] = all[v - 1] \o parts[v]
        BY <1>7, <3>2
      <3> QED
        BY <3>2, <3>3 DEF v
    <2>3. /\ all[n] \in S
          /\ \A m \in 1..n : \A q \in DOMAIN parts[m] :
                \E r \in DOMAIN all[n] : all[n][r] = parts[m][q]
      BY <1>9, <2>1
    <2>4. parts[n + 1] \in S
      BY <1>0, <2>1
    <2>5. all[n + 1] \in S
      BY <1>2, <2>2, <2>3, <2>4
    <2>6. ASSUME NEW m \in 1..(n + 1), NEW q \in DOMAIN parts[m]
          PROVE  \E r \in DOMAIN all[n + 1] : all[n + 1][r] = parts[m][q]
      <3>1. CASE m \in 1..n
        <4>1. PICK r \in DOMAIN all[n] : all[n][r] = parts[m][q]
          BY <2>3, <3>1
        <4>2. r \in DOMAIN (all[n] \o parts[n + 1]) /\ (all[n] \o parts[n + 1])[r] = all[n][r]
          BY <1>2, <2>3, <2>4
        <4> QED
          BY <2>2, <4>1, <4>2
      <3>2. CASE m = n + 1
        <4>1. /\ Len(all[n]) + q \in DOMAIN (all[n] \o parts[n + 1])
              /\ (all[n] \o parts[n + 1])[Len(all[n]) + q] = parts[n + 1][q]
          BY <1>2, <2>3, <2>4, <3>2
        <4> QED
          BY <2>2, <3>2, <4>1
      <3> QED
        BY <3>1, <3>2
    <2> QED
      BY <2>5, <2>6
  <1> HIDE DEF T
  <1>10. \A n \in Nat : n \in T
    BY ONLY <1>8, <1>9, Induction
  <1>11. N \in T
    BY <1>0, <1>10
  <1>12. /\ all[N] \in S
         /\ \A m \in 1..N : \A q \in DOMAIN parts[m] : \E r \in DOMAIN all[N] : all[N][r] = parts[m][q]
    BY <1>0, <1>11 DEF T
  <1> QED
    BY <1>12 DEF all, S, N

\* The list of a concatenation is that of one of its parts.
LEMMA ConcatLiteralsFacts ==
    ASSUME NEW C, NEW parts \in Seq(C)
    PROVE  \/ concatLiterals(parts) = <<>>
           \/ \E k \in DOMAIN parts : concatLiterals(parts) = parts[k]
  <1> DEFINE best == {k \in DOMAIN parts :
                         /\ shortestLiteral(parts[k]) > 0
                         /\ \A l \in DOMAIN parts :
                               shortestLiteral(parts[l]) <= shortestLiteral(parts[k])}
             first == CHOOSE k \in best : \A l \in best : k <= l
  <1>1. concatLiterals(parts) = IF best = {} THEN <<>> ELSE parts[first]
    BY DEF concatLiterals
  <1>2. best \in SUBSET Nat
    OBVIOUS
  <1>3. best \subseteq DOMAIN parts
    OBVIOUS
  <1> HIDE DEF best
  <1>4. CASE best # {}
    <2>1. \E k \in best : \A l \in best : k <= l
      BY ONLY <1>2, <1>4, LeastElement
    <2>2. first \in best
      BY <2>1
    <2> HIDE DEF first
    <2> QED
      BY <1>1, <1>3, <1>4, <2>2
  <1> QED
    BY <1>1, <1>4

\* The literals of a tree depend on those of its subtrees alone.
LEMMA LiteralsOfAgree ==
    ASSUME NEW x, NEW e, NEW f, \A y \in Subtrees(x) : e[y] = f[y]
    PROVE  literalsOf(x, e) = literalsOf(x, f)
  <1>1. CASE x.op \in {"capture", "plus", "repeat"}
    <2>1. e[x.sub] = f[x.sub]
      BY <1>1 DEF Subtrees
    <2> QED
      BY <1>1, <2>1 DEF literalsOf
  <1>2. CASE x.op \in {"concat", "alternate"}
    <2>1. \A k \in DOMAIN x.subs : e[x.subs[k]] = f[x.subs[k]]
      BY <1>2 DEF Subtrees, Range
    <2>2. [k \in DOMAIN x.subs |-> e[x.subs[k]]] = [k \in DOMAIN x.subs |-> f[x.subs[k]]]
      BY <2>1
    <2> QED
      BY <1>2, <2>2 DEF literalsOf
  <1>3. CASE x.op \notin {"capture", "plus", "repeat", "concat", "alternate"}
    BY <1>3 DEF literalsOf
  <1> QED
    BY <1>1, <1>2, <1>3

\* The literals of a tree are a list of literals.
LEMMA LiteralsOfTyped ==
    ASSUME NEW x \in Trees, NEW e, \A y \in Subtrees(x) : e[y] \in Seq(Literals)
    PROVE  literalsOf(x, e) \in Seq(Literals)
  <1>1. CASE x.op = "literal"
    <2>1. x.runes \in Seq(Runes) /\ x.fold \in BOOLEAN
      BY <1>1, PatternsAssumption
    <2>2. CASE x.runes = <<>>
      BY <1>1, <2>2 DEF literalsOf, regexpLiteral
    <2>3. CASE x.runes # <<>>
      <3> DEFINE l == [text |-> x.runes, fold |-> x.fold,
                       first |-> IF x.fold THEN Orbit[x.runes[1]] ELSE {x.runes[1]}]
      <3>1. x.runes[1] \in Runes
        BY <2>1, <2>3
      <3>2. Orbit[x.runes[1]] \subseteq Runes
        BY <3>1, PatternsAssumption
      <3>3. l \in Literals
        BY <2>1, <3>1, <3>2 DEF Literals
      <3>4. literalsOf(x, e) = <<l>>
        BY <1>1, <2>3 DEF literalsOf, regexpLiteral
      <3> HIDE DEF l
      <3> QED
        BY <3>3, <3>4
    <2> QED
      BY <2>2, <2>3
  <1>2. CASE x.op \in {"capture", "plus", "repeat"}
    <2>1. e[x.sub] \in Seq(Literals)
      BY <1>2 DEF Subtrees
    <2>2. literalsOf(x, e) \in {e[x.sub], <<>>}
      BY <1>2 DEF literalsOf
    <2>3. <<>> \in Seq(Literals)
      OBVIOUS
    <2> QED
      BY <2>1, <2>2, <2>3
  <1>3. CASE x.op \in {"concat", "alternate"}
    <2> DEFINE parts == [k \in DOMAIN x.subs |-> e[x.subs[k]]]
    <2>1. parts \in Seq(Seq(Literals))
      BY <1>3, PartsFacts
    <2>2. /\ x.op = "concat" => literalsOf(x, e) = concatLiterals(parts)
          /\ x.op = "alternate" => literalsOf(x, e) = alternateLiterals(parts)
      BY DEF literalsOf
    <2> HIDE DEF parts
    <2>3. concatLiterals(parts) \in Seq(Literals)
      <3>1. \A k \in DOMAIN parts : parts[k] \in Seq(Literals)
        BY <2>1
      <3>2. <<>> \in Seq(Literals)
        OBVIOUS
      <3> QED
        BY <2>1, <3>1, <3>2, ConcatLiteralsFacts
    <2>4. alternateLiterals(parts) \in Seq(Literals)
      BY <2>1, JoinedFacts DEF alternateLiterals
    <2> QED
      BY <1>3, <2>2, <2>3, <2>4
  <1>4. CASE x.op \notin {"literal", "capture", "plus", "repeat", "concat", "alternate"}
    BY <1>4 DEF literalsOf
  <1> QED
    BY <1>1, <1>2, <1>3, <1>4

\* The literals of every tree are what literalsOf says of them.
LEMMA RequiredLiteralsIs ==
    requiredLiterals = [x \in Trees |-> literalsOf(x, requiredLiterals)]
  <1> DEFINE V == Seq(Literals)
             step == [p \in Trees \X [Trees -> V] |-> literalsOf(p[1], p[2])]
  <1>1. <<>> \in V
    OBVIOUS
  <1>2. /\ Height \in [Trees -> Nat]
        /\ \A x \in Trees : \A y \in Subtrees(x) : y \in Trees /\ Height[y] < Height[x]
    BY PatternsAssumption
  <1>3. ASSUME NEW x \in Trees, NEW e \in [Trees -> V] PROVE literalsOf(x, e) \in V
    <2>1. \A y \in Subtrees(x) : e[y] \in Seq(Literals)
      BY <1>2
    <2> QED
      BY <2>1, LiteralsOfTyped
  <1> HIDE DEF V
  <1>4. \A x \in Trees : \A e \in [Trees -> V] : step[x, e] = literalsOf(x, e)
    OBVIOUS
  <1>5. step \in [Trees \X [Trees -> V] -> V]
    BY <1>3
  <1> HIDE DEF step
  <1>6. TreeStep(Trees, V, <<>>, Height, step)
    <2>1. ASSUME NEW x \in Trees, NEW e \in [Trees -> V], NEW f \in [Trees -> V],
                 \A y \in Trees : Height[y] < Height[x] => e[y] = f[y]
          PROVE  step[x, e] = step[x, f]
      <3>1. \A y \in Subtrees(x) : e[y] = f[y]
        BY <1>2, <2>1
      <3>2. literalsOf(x, e) = literalsOf(x, f)
        BY <3>1, LiteralsOfAgree
      <3> QED
        BY <1>4, <3>2
    <2> QED
      BY <1>1, <1>2, <1>5, <2>1 DEF TreeStep
  <1>7. PICK e : Solves(e, Trees, V, step)
    BY ONLY <1>6, TreeRecursion
  <1>8. e \in [Trees -> V] /\ \A x \in Trees : e[x] = literalsOf(x, e)
    BY <1>4, <1>7 DEF Solves
  <1>9. e = [x \in Trees |-> literalsOf(x, e)]
    BY <1>8
  <1> QED
    BY <1>9 DEF requiredLiterals

-----------------------------------------------------------------------------
(* Detectors: the prefilter *)

\* An input has one of the literals, or none is known.
Expected(runes, needles) ==
    needles = <<>> \/ \E k \in DOMAIN needles : matches(needles[k], runes)

\* A tree that matches somewhere has one of its literals in the input.
Answers(runes, ends, needles) ==
    /\ ends \in EndSets(Len(runes))
    /\ needles \in Seq(Literals)
    /\ (\E i \in 0..Len(runes) : ends[i] # {}) => Expected(runes, needles)

\* Where a literal matches, its needle does.
LEMMA LiteralAnswers ==
    ASSUME NEW runes \in Seq(Runes), NEW x \in Trees, x.op = "literal", NEW e, NEW r,
           NEW i \in 0..Len(runes), EndsAt(x, e, runes, i) # {}
    PROVE  Expected(runes, literalsOf(x, r))
  <1> DEFINE L == Len(runes)
             n == Len(x.runes)
             l == [text |-> x.runes, fold |-> x.fold,
                   first |-> IF x.fold THEN Orbit[x.runes[1]] ELSE {x.runes[1]}]
             s == SubSeq(runes, i + 1, i + n)
  <1>0. L \in Nat /\ x.runes \in Seq(Runes) /\ n \in Nat /\ x.fold \in BOOLEAN
    BY PatternsAssumption
  <1>1. PICK j \in EndsAt(x, e, runes, i) : TRUE
    OBVIOUS
  <1>2. j = i + n /\ j \in 0..L /\ MatchesLiteral(x, SubSeq(runes, i + 1, j))
    BY DEF EndsAt
  <1>3. i + n <= L /\ MatchesLiteral(x, s) /\ i \in Nat
    BY <1>0, <1>2
  <1>4. CASE x.runes = <<>>
    BY <1>4 DEF literalsOf, regexpLiteral, Expected
  <1>5. CASE x.runes # <<>>
    <2>1. literalsOf(x, r) = <<l>>
      BY <1>5 DEF literalsOf, regexpLiteral
    <2>2. n >= 1
      BY <1>0, <1>5
    <2>3. l.text = x.runes /\ l.fold = x.fold /\ (x.fold => l.first = Orbit[x.runes[1]])
      OBVIOUS
    <2> HIDE DEF l
    <2>4. CASE x.fold
      <3>1. EqualFold(x.runes, s)
        BY <1>3, <2>4 DEF MatchesLiteral
      <3>2. s[1] \in Orbit[x.runes[1]]
        BY <1>0, <2>2, <3>1 DEF EqualFold
      <3>3. i + 1 \in 1..L /\ s[1] = runes[i + 1]
        BY <1>0, <1>3, <2>2
      <3>4. (IF (i + 1) + n - 1 < L THEN (i + 1) + n - 1 ELSE L) = i + n
        <4>1. i + n <= L /\ i \in Nat /\ n \in Nat /\ L \in Nat
          BY <1>0, <1>3
        <4> HIDE DEF L, n
        <4>2. (i + 1) + n - 1 = i + n
          BY ONLY <4>1
        <4>3. (IF i + n < L THEN i + n ELSE L) = i + n
          BY ONLY <4>1
        <4> QED
          BY ONLY <4>2, <4>3
      <3> DEFINE to == IF (i + 1) + n - 1 < L THEN (i + 1) + n - 1 ELSE L
      <3>5. EqualFold(x.runes, SubSeq(runes, i + 1, to))
        BY <3>1, <3>4
      <3>6. matches(l, runes)
        <4> HIDE DEF s
        <4> QED
          BY <2>3, <2>4, <3>2, <3>3, <3>5 DEF matches
      <3> QED
        BY <2>1, <3>6 DEF Expected
    <2>5. CASE ~x.fold
      <3>1. s = x.runes
        BY <1>3, <2>5 DEF MatchesLiteral
      <3>2. i \in 0..(L - n)
        BY <1>0, <1>3
      <3>3. matches(l, runes)
        BY <2>3, <2>5, <3>1, <3>2 DEF matches
      <3> QED
        BY <2>1, <3>3 DEF Expected
    <2> QED
      BY <2>4, <2>5, <1>0
  <1> QED
    BY <1>4, <1>5

\* Where a tree matches, one of its literals does, when that holds of its
\* subtrees.
LEMMA TreeAnswers ==
    ASSUME NEW runes \in Seq(Runes), NEW x \in Trees, NEW e, NEW r,
           \A y \in Subtrees(x) : Answers(runes, e[y], r[y]),
           NEW i \in 0..Len(runes), EndsAt(x, e, runes, i) # {}
    PROVE  Expected(runes, literalsOf(x, r))
  <1> DEFINE L == Len(runes)
  <1>0. L \in Nat
    OBVIOUS
  <1>1. CASE x.op = "literal"
    BY <1>1, LiteralAnswers
  <1>2. CASE x.op = "capture"
    <2>1. Answers(runes, e[x.sub], r[x.sub])
      BY <1>2 DEF Subtrees
    <2>2. EndsAt(x, e, runes, i) = e[x.sub][i] /\ literalsOf(x, r) = r[x.sub]
      BY <1>2 DEF EndsAt, literalsOf
    <2> QED
      BY <2>1, <2>2 DEF Answers
  <1>3. CASE x.op = "plus" \/ (x.op = "repeat" /\ x.min > 0)
    <2>1. Answers(runes, e[x.sub], r[x.sub])
      BY <1>3 DEF Subtrees
    <2>2. literalsOf(x, r) = r[x.sub]
      BY <1>3 DEF literalsOf
    <2>3. \E n \in Nat : n > 0 /\ StepTimes(e[x.sub], {i})[n] # {}
      <3>1. CASE x.op = "plus"
        <4>1. EndsAt(x, e, runes, i) = UNION {StepTimes(e[x.sub], {i})[n] : n \in 1..(L + 1)}
          BY <3>1 DEF EndsAt
        <4> HIDE DEF L
        <4>a. PICK j : j \in EndsAt(x, e, runes, i)
          OBVIOUS
        <4>2. PICK n \in 1..(L + 1) : j \in StepTimes(e[x.sub], {i})[n]
          BY <4>1, <4>a
        <4>3. n \in Nat /\ n > 0
          BY <1>0
        <4> QED
          BY <4>2, <4>3
      <3>2. CASE x.op = "repeat" /\ x.min > 0
        <4> DEFINE top == IF x.max = -1 THEN x.min + L ELSE x.max
        <4>1. EndsAt(x, e, runes, i) = UNION {StepTimes(e[x.sub], {i})[n] : n \in x.min..top}
          BY <3>2 DEF EndsAt
        <4>2. x.min \in Nat /\ top \in Int
          BY <1>0, <3>2, PatternsAssumption
        <4> HIDE DEF L, top
        <4>a. PICK j : j \in EndsAt(x, e, runes, i)
          OBVIOUS
        <4>3. PICK n \in x.min..top : j \in StepTimes(e[x.sub], {i})[n]
          BY <4>1, <4>a
        <4>4. n \in Nat /\ n > 0
          BY <3>2, <4>2
        <4> QED
          BY <4>3, <4>4
      <3> QED
        BY <1>3, <3>1, <3>2
    <2>4. e[x.sub] \in EndSets(L)
      BY <2>1 DEF Answers
    <2>5. \E k \in 0..L : e[x.sub][k] # {}
      <3> HIDE DEF L
      <3>1. i \in 0..L
        BY DEF L
      <3> QED
        BY <1>0, <2>3, <2>4, <3>1, StepTimesFacts
    <2> QED
      BY <2>1, <2>2, <2>5 DEF Answers
  <1>4. CASE x.op = "concat"
    <2> DEFINE parts == [k \in DOMAIN x.subs |-> e[x.subs[k]]]
               lists == [k \in DOMAIN x.subs |-> r[x.subs[k]]]
    <2>1. /\ \A y \in Subtrees(x) : e[y] \in EndSets(L)
          /\ \A y \in Subtrees(x) : r[y] \in Seq(Literals)
      BY DEF Answers
    <2>2. /\ Len(x.subs) \in Nat /\ DOMAIN x.subs = 1..Len(x.subs)
          /\ parts \in Seq(EndSets(L)) /\ Len(parts) = Len(x.subs)
          /\ \A k \in DOMAIN x.subs : x.subs[k] \in Subtrees(x)
      <3>1. x.op \in {"concat", "alternate"}
        BY <1>4
      <3> HIDE DEF L
      <3>2. parts \in Seq(EndSets(L))
        BY <2>1, <3>1, PartsFacts
      <3>3. Len(parts) = Len(x.subs)
        BY <2>1, <3>1, PartsFacts
      <3>4. Len(x.subs) \in Nat /\ DOMAIN x.subs = 1..Len(x.subs)
        BY <2>1, <3>1, PartsFacts
      <3>5. \A k \in DOMAIN x.subs : x.subs[k] \in Subtrees(x)
        BY <2>1, <3>1, PartsFacts
      <3> HIDE DEF parts
      <3> QED
        BY <3>2, <3>3, <3>4, <3>5
    <2>3. lists \in Seq(Seq(Literals))
      BY <1>4, <2>1, PartsFacts
    <2>4. EndsAt(x, e, runes, i) = StepEach(parts, {i})[Len(parts)]
      <3>1. EndsAt(x, e, runes, i) = StepEach(parts, {i})[Len(x.subs)]
        BY <1>4 DEF EndsAt
      <3> HIDE DEF parts
      <3> QED
        BY <2>2, <3>1
    <2>5. literalsOf(x, r) = concatLiterals(lists)
      BY <1>4 DEF literalsOf
    <2>6. \A k \in DOMAIN x.subs : parts[k] = e[x.subs[k]] /\ lists[k] = r[x.subs[k]]
      OBVIOUS
    <2>7. DOMAIN lists = DOMAIN x.subs
      OBVIOUS
    <2> HIDE DEF parts, lists, L
    <2>8. \A m \in 1..Len(parts) : \E k \in 0..L : parts[m][k] # {}
      <3>1. i \in 0..L
        BY DEF L
      <3> QED
        BY <1>0, <2>2, <2>4, <3>1, StepEachFacts
    <2>9. CASE concatLiterals(lists) = <<>>
      BY <2>5, <2>9 DEF Expected
    <2>10. ASSUME NEW k \in DOMAIN lists, concatLiterals(lists) = lists[k]
           PROVE  Expected(runes, literalsOf(x, r))
      <3>1. k \in DOMAIN x.subs /\ k \in 1..Len(parts)
        BY <2>2, <2>7
      <3>2. Answers(runes, e[x.subs[k]], r[x.subs[k]])
        BY <2>2, <3>1
      <3>3. \E p \in 0..L : e[x.subs[k]][p] # {}
        BY <2>6, <2>8, <3>1
      <3>4. Expected(runes, r[x.subs[k]])
        BY <3>2, <3>3 DEF Answers, L
      <3> QED
        BY <2>5, <2>6, <2>10, <3>1, <3>4
    <2> QED
      BY <2>3, <2>9, <2>10, ConcatLiteralsFacts
  <1>5. CASE x.op = "alternate"
    <2> DEFINE lists == [k \in DOMAIN x.subs |-> r[x.subs[k]]]
               all == joined(lists)[Len(lists)]
    <2>1. \A y \in Subtrees(x) : r[y] \in Seq(Literals)
      BY DEF Answers
    <2>2. /\ Len(x.subs) \in Nat /\ DOMAIN x.subs = 1..Len(x.subs)
          /\ lists \in Seq(Seq(Literals)) /\ Len(lists) = Len(x.subs)
          /\ \A y \in Subtrees(x) : \E k \in DOMAIN x.subs : y = x.subs[k]
      <3>1. x.op \in {"concat", "alternate"}
        BY <1>5
      <3>2. lists \in Seq(Seq(Literals))
        BY <2>1, <3>1, PartsFacts
      <3>3. Len(lists) = Len(x.subs)
        BY <2>1, <3>1, PartsFacts
      <3>4. Len(x.subs) \in Nat /\ DOMAIN x.subs = 1..Len(x.subs)
        BY <2>1, <3>1, PartsFacts
      <3>5. \A y \in Subtrees(x) : \E k \in DOMAIN x.subs : y = x.subs[k]
        BY <1>5 DEF Subtrees, Range
      <3> HIDE DEF lists
      <3> QED
        BY <3>2, <3>3, <3>4, <3>5
    <2>3. EndsAt(x, e, runes, i) = UNION {e[y][i] : y \in Range(x.subs)}
      BY <1>5 DEF EndsAt
    <2>4. Subtrees(x) = Range(x.subs)
      BY <1>5 DEF Subtrees
    <2>5. PICK y \in Subtrees(x) : e[y][i] # {}
      BY <2>3, <2>4
    <2>6. PICK k \in DOMAIN x.subs : y = x.subs[k]
      BY <2>2
    <2>7. Expected(runes, r[y])
      BY <2>5 DEF Answers
    <2>8. lists[k] = r[y] /\ k \in 1..Len(lists) /\ k \in DOMAIN lists
      BY <2>2, <2>6
    <2>9. literalsOf(x, r) = IF <<>> \in Range(lists) \/ Len(all) > MaxNeedles THEN <<>> ELSE all
      BY <1>5 DEF literalsOf, alternateLiterals
    <2>10. \A m \in 1..Len(lists) : \A q \in DOMAIN lists[m] :
              \E t \in DOMAIN all : all[t] = lists[m][q]
      BY <2>2, JoinedFacts
    <2> HIDE DEF lists, all
    <2>11. CASE <<>> \in Range(lists) \/ Len(all) > MaxNeedles
      BY <2>9, <2>11 DEF Expected
    <2>12. CASE ~(<<>> \in Range(lists) \/ Len(all) > MaxNeedles)
      <3>1. lists[k] # <<>>
        BY <2>8, <2>12 DEF Range
      <3>2. PICK q \in DOMAIN lists[k] : matches(lists[k][q], runes)
        BY <2>7, <2>8, <3>1 DEF Expected
      <3>3. PICK t \in DOMAIN all : all[t] = lists[k][q]
        BY <2>8, <2>10, <3>2
      <3>4. matches(all[t], runes)
        BY <3>2, <3>3
      <3> QED
        BY <2>9, <2>12, <3>3, <3>4 DEF Expected
    <2> QED
      BY <2>11, <2>12
  <1>6. CASE /\ x.op \notin {"literal", "capture", "plus", "concat", "alternate"}
             /\ ~(x.op = "repeat" /\ x.min > 0)
    <2>1. literalsOf(x, r) = <<>>
      BY <1>6 DEF literalsOf
    <2> QED
      BY <2>1 DEF Expected
  <1> QED
    BY <1>1, <1>2, <1>3, <1>4, <1>5, <1>6

\* Every tree that matches somewhere has one of its literals in the input.
LEMMA EveryTreeAnswers ==
    ASSUME NEW runes \in Seq(Runes)
    PROVE  \A x \in Trees : Answers(runes, Ends(runes)[x], requiredLiterals[x])
  <1> DEFINE L == Len(runes)
             e == Ends(runes)
             r == requiredLiterals
             T == {n \in Nat : \A x \in Trees : Height[x] < n => Answers(runes, e[x], r[x])}
  <1>0. L \in Nat
    OBVIOUS
  <1>1. e = [x \in Trees |-> [i \in 0..L |-> EndsAt(x, e, runes, i)]]
    BY EndsIs
  <1>2. r = [x \in Trees |-> literalsOf(x, r)]
    BY RequiredLiteralsIs
  <1>3. \A x \in Trees : \A y \in Subtrees(x) : y \in Trees /\ Height[y] < Height[x]
    BY PatternsAssumption
  <1>4. \A x \in Trees : Height[x] \in Nat
    <2>1. Height \in [Trees -> Nat]
      BY PatternsAssumption
    <2> QED
      BY ONLY <2>1
  <1> HIDE DEF e, r
  <1>5. 0 \in T
    BY <1>4
  <1>6. ASSUME NEW n \in Nat, n \in T PROVE n + 1 \in T
    <2> SUFFICES ASSUME NEW x \in Trees, Height[x] < n + 1 PROVE Answers(runes, e[x], r[x])
      OBVIOUS
    <2>1. ASSUME NEW y \in Subtrees(x) PROVE Answers(runes, e[y], r[y])
      <3>1. y \in Trees /\ Height[y] \in Nat /\ Height[x] \in Nat /\ Height[y] < Height[x]
        BY <1>3, <1>4
      <3>2. Height[y] < n
        BY <3>1
      <3> QED
        BY <1>6, <3>1, <3>2
    <2>2. /\ e[x] = [i \in 0..L |-> EndsAt(x, e, runes, i)]
          /\ r[x] = literalsOf(x, r)
      BY <1>1, <1>2
    <2>3. \A i \in 0..L : EndsAt(x, e, runes, i) \in SUBSET (i..L)
      <3>1. \A y \in Subtrees(x) : e[y] \in EndSets(Len(runes))
        BY <2>1 DEF Answers
      <3> QED
        BY <3>1, EndsAtTyped
    <2>4. e[x] \in EndSets(L)
      <3>1. \A i \in 0..L : i..L \subseteq 0..L
        BY <1>0
      <3> HIDE DEF L
      <3>2. \A i \in 0..L : e[x][i] = EndsAt(x, e, runes, i)
        BY <2>2
      <3>3. \A i \in 0..L : e[x][i] \in SUBSET (0..L) /\ e[x][i] \subseteq i..L
        BY <2>3, <3>1, <3>2
      <3>4. e[x] \in [0..L -> SUBSET (0..L)]
        BY <2>2, <2>3, <3>1
      <3> QED
        BY <3>3, <3>4 DEF EndSets
    <2>5. r[x] \in Seq(Literals)
      <3>1. \A y \in Subtrees(x) : r[y] \in Seq(Literals)
        BY <2>1 DEF Answers
      <3> QED
        BY <2>2, <3>1, LiteralsOfTyped
    <2>6. ASSUME NEW i \in 0..L, e[x][i] # {} PROVE Expected(runes, r[x])
      <3>1. EndsAt(x, e, runes, i) # {}
        BY <2>2, <2>6
      <3> QED
        BY <2>1, <2>2, <3>1, TreeAnswers
    <2> QED
      BY <2>4, <2>5, <2>6 DEF Answers
  <1> HIDE DEF T
  <1>7. \A n \in Nat : n \in T
    BY ONLY <1>5, <1>6, Induction
  <1>8. ASSUME NEW x \in Trees PROVE Answers(runes, e[x], r[x])
    <2>1. Height[x] + 1 \in T /\ Height[x] < Height[x] + 1
      BY <1>4, <1>7
    <2> QED
      BY <2>1 DEF T
  <1> QED
    BY <1>8 DEF e, r

\* The prefilter of pattern.go never changes an answer: where an expression
\* matches, one of the literals requiredLiterals derived from it stands in the
\* text. So a type that operators configure is found wherever its expression
\* matches something.
THEOREM PrefilterIsTransparent == Writing => []PrefilterChangesNothing
  <1>1. WrittenOK => PrefilterChangesNothing
    <2> SUFFICES ASSUME WrittenOK, topic = "pattern"
                 PROVE  /\ FindAll(re, written) = Matches(re, written)
                        /\ customFindings(re, written) =
                              {m \in Matches(re, written) : m[1] < m[2]}
      BY DEF PrefilterChangesNothing
    <2> DEFINE L == Len(written)
               ends == Ends(written)[re]
    <2>1. written \in Seq(Runes) /\ re \in Trees /\ L \in Nat
      BY DetectorsAssumption DEF WrittenOK
    <2>2. Answers(written, ends, requiredLiterals[re])
      BY <2>1, EveryTreeAnswers
    <2> HIDE DEF ends
    <2>3. \A m \in Matches(re, written) :
             /\ m[1] \in 0..L /\ m[2] \in 0..L
             /\ m[2] \in ends[m[1]]
      BY DEF Matches, ends
    <2>4. ends \in EndSets(L)
      BY <2>2 DEF Answers
    <2>5. \A m \in Matches(re, written) : m[1] <= m[2]
      <3> SUFFICES ASSUME NEW m \in Matches(re, written) PROVE m[1] <= m[2]
        OBVIOUS
      <3>1. m[1] \in 0..L /\ m[2] \in ends[m[1]]
        BY <2>3
      <3>2. ends[m[1]] \subseteq (m[1])..L
        BY <2>4, <3>1 DEF EndSets
      <3>3. m[2] \in (m[1])..L
        BY <3>1, <3>2
      <3> QED
        BY <2>1, <3>1, <3>3
    <2>6. FindAll(re, written) = Matches(re, written)
      <3>1. CASE possible(re, written)
        BY <3>1 DEF FindAll
      <3>2. CASE ~possible(re, written)
        <4>1. ~Expected(written, requiredLiterals[re])
          BY <3>2 DEF possible, Expected
        <4>2. \A i \in 0..L : ends[i] = {}
          BY <2>2, <4>1 DEF Answers
        <4>3. Matches(re, written) = {}
          BY <2>3, <4>2
        <4> QED
          BY <3>2, <4>3 DEF FindAll
      <3> QED
        BY <3>1, <3>2
    <2>7. customFindings(re, written) = {m \in Matches(re, written) : m[1] < m[2]}
      <3>1. ASSUME NEW m \in Matches(re, written) PROVE m[1] # m[2] <=> m[1] < m[2]
        <4>1. m[1] \in 0..L /\ m[2] \in 0..L /\ m[1] <= m[2]
          BY <2>3, <2>5, <3>1
        <4> QED
          BY <2>1, <4>1
      <3>2. customFindings(re, written) = {m \in Matches(re, written) : m[1] # m[2]}
        BY <2>6 DEF customFindings
      <3> QED
        BY <3>1, <3>2
    <2> QED
      BY <2>6, <2>7
  <1> QED
    BY <1>1, WritingOK, PTL
=============================================================================
