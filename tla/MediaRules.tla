------------------------------ MODULE MediaRules ------------------------------
(***************************************************************************)
(* From the rows of the image detector to the signals of a moderation:     *)
(* onnx_yolo_detection_provider.py reads its candidates and suppresses     *)
(* those that overlap a better one, media_moderation_service.py applies    *)
(* the policy of the guild, and api_moderation_service.py maps what is     *)
(* left to labels.                                                         *)
(*                                                                         *)
(* Confidences, thresholds and overlaps are percentages.  A box is         *)
(* <<left, top, right, bottom>> in the image; the scaling of the image to  *)
(* the model's input and back is left out.                                 *)
(***************************************************************************)
EXTENDS Integers, SequencesExt

CONSTANT ClassNames  \* the sequence of the manifest

\* The names of the classes, in the order of the scores of a row, whose score
\* is the greatest: argmax takes the first.
Best(scores) ==
  CHOOSE i \in DOMAIN scores :
    /\ \A j \in DOMAIN scores : scores[j] <= scores[i]
    /\ \A j \in 1..i - 1 : scores[j] < scores[i]

\* A row has an objectness of 100 in the layout without one.
Detection(row) ==
  LET class == Best(row.scores) IN
  [class |-> ClassNames[class],
   confidence |-> (row.scores[class] * row.objectness) \div 100,
   box |-> row.box]

\* The elements of s at the given places, in their order.
Picked(s, places) ==
  LET kept[i \in 0..Len(s)] ==
        IF i = 0 THEN <<>>
        ELSE IF i \in places THEN Append(kept[i - 1], s[i])
        ELSE kept[i - 1] IN
  kept[Len(s)]

Candidates(rows, config) ==
  LET all == [i \in DOMAIN rows |-> Detection(rows[i])] IN
  Picked(all, {i \in DOMAIN all : all[i].confidence >= config.confidence})

Area(box) == Max({0, box[3] - box[1]}) * Max({0, box[4] - box[2]})
Intersection(a, b) ==
  Area(<<Max({a[1], b[1]}), Max({a[2], b[2]}),
         Min({a[3], b[3]}), Min({a[4], b[4]})>>)

\* _iou above the threshold; boxes without area do not overlap.
Overlap(a, b, threshold) ==
  LET union == (Area(a) + Area(b)) - Intersection(a, b) IN
  union > 0 /\ 100 * Intersection(a, b) > threshold * union

\* The most confident first; sorted() keeps the order of equal ones.
Before(ds, i, j) ==
  \/ ds[i].confidence > ds[j].confidence
  \/ ds[i].confidence = ds[j].confidence /\ i < j
Place(ds, i) == 1 + Cardinality({j \in DOMAIN ds : Before(ds, j, i)})
AtPlace(ds, p) == CHOOSE i \in DOMAIN ds : Place(ds, i) = p
ByConfidence(ds) == [p \in DOMAIN ds |-> ds[AtPlace(ds, p)]]

\* Mutant: a box of another class suppresses too.
SuppressedAcross(ds, threshold) ==
  LET sorted == ByConfidence(ds)
      kept[i \in 0..Len(ds)] ==
        IF i = 0 THEN <<>>
        ELSE IF \E k \in DOMAIN kept[i - 1] :
                  Overlap(kept[i - 1][k].box, sorted[i].box, threshold)
        THEN kept[i - 1]
        ELSE Append(kept[i - 1], sorted[i]) IN
  kept[Len(ds)]

\* _class_aware_nms
Suppressed(ds, threshold) ==
  LET sorted == ByConfidence(ds)
      clash(d, e) ==
        d.class = e.class /\ Overlap(d.box, e.box, threshold)
      kept[i \in 0..Len(ds)] ==
        IF i = 0 THEN <<>>
        ELSE IF \E k \in DOMAIN kept[i - 1] :
                  clash(kept[i - 1][k], sorted[i])
        THEN kept[i - 1]
        ELSE Append(kept[i - 1], sorted[i]) IN
  kept[Len(ds)]

FirstOf(s, n) == SubSeq(s, 1, Min({n, Len(s)}))

\* _infer_sync
Inferred(rows, config) ==
  FirstOf(Suppressed(Candidates(rows, config), config.iou), config.most)

Enabled(class, policy) ==
  class \in DOMAIN policy.classes /\ policy.classes[class].enabled
Threshold(class, policy) ==
  Max({policy.confidence, policy.classes[class].confidence})

\* _apply_yolo_policy
Applied(detections, policy) ==
  LET high == {i \in DOMAIN detections :
                 /\ Enabled(detections[i].class, policy)
                 /\ detections[i].confidence
                    >= Threshold(detections[i].class, policy)} IN
  FirstOf(Suppressed(Picked(detections, high), policy.iou), policy.most)

\* _build_media_signals, for the detections of one attachment
ImageSignals(detections, policy) ==
  LET high == {i \in DOMAIN detections :
                 /\ Enabled(detections[i].class, policy)
                 /\ detections[i].confidence
                    >= policy.classes[detections[i].class].confidence}
      reported == Picked(detections, high) IN
  [i \in DOMAIN reported |->
     [label      |-> policy.classes[reported[i].class].label,
      severity   |-> policy.classes[reported[i].class].severity,
      confidence |-> reported[i].confidence,
      class      |-> reported[i].class,
      box        |-> reported[i].box]]
=============================================================================
