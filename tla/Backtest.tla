------------------------------- MODULE Backtest -------------------------------
(***************************************************************************)
(* The backtest of the anomaly signal over a recording: replay/player.py,  *)
(* analytics/zscore.py, analytics/anomaly.py and analytics/backtest.py,    *)
(* for one token of a recording that grows frame by frame.  Prices are in  *)
(* points, strengths and magnitudes in percent.  Of the book's components  *)
(* the imbalance is modelled; the changes of spread and depth join the     *)
(* mean in the same way.                                                   *)
(***************************************************************************)
EXTENDS Integers, Sequences, SequencesExt, FiniteSetsExt

CONSTANTS FrameKind,  \* what a frame may hold: [last, mid, volume, lean]
          Unpriced,   \* stands for a missing price, volume or imbalance
          Window,     \* zscore_window
          MinHistory, \* min_history
          FlatMove,   \* FLAT_BASELINE_MIN_MOVE
          ZCap,       \* the z-score that saturates its component
          AccelCap,   \* the acceleration that saturates its component
          Recent,     \* frames of the recent volume
          Earlier,    \* frames of the volume before it
          Strong,     \* strength_threshold
          Follow,     \* move_threshold
          Ahead,      \* horizon
          MaxFrames   \* bound on the recording

ASSUME HorizonIsAhead == Ahead \in Nat /\ Ahead >= 1   \* run_backtest raises otherwise

VARIABLE frames
fVars == <<frames>>

Priced(x) == x # Unpriced
Abs(x) == IF x < 0 THEN -x ELSE x
Total(s) == FoldSeq(LAMBDA x, y : x + y, 0, s)

-----------------------------------------------------------------------------
(* replay/player.py                                                        *)

(* _frame_price: the last trade, else the midpoint of the book. *)
PriceAt(fs, i) == IF Priced(fs[i].last) THEN fs[i].last ELSE fs[i].mid

(* "asking for history up to frame i never returns data from frame > i". *)
Upto(fs, i) == SubSeq(fs, 1, i)

(* The dense series: frames without a price or volume are left out. *)
Prices(fs) == SelectSeq([i \in DOMAIN fs |-> PriceAt(fs, i)], Priced)
Volumes(fs) == SelectSeq([i \in DOMAIN fs |-> fs[i].volume], Priced)

(* An entry taken from the dense series, which is not indexed by frames. *)
DenseAnchorPrice(fs, i) == IF i <= Len(Prices(fs)) THEN Prices(fs)[i] ELSE Unpriced

(* The frame-aligned price an event is anchored on. *)
AnchorPrice(fs, i) == PriceAt(fs, i)

-----------------------------------------------------------------------------
(* rolling_zscore: the last return against a baseline that excludes it.    *)
Returns(p) == [i \in 1..(Len(p) - 1) |-> p[i + 1] - p[i]]
Baseline(r) == SubSeq(r, Max({1, Len(r) - Window}), Len(r) - 1)
ZScorable(r) == Len(r) >= MinHistory + 1

(* n times the distance of the last return from the mean of the baseline, and *)
(* n squared times n - 1 times the variance.                                  *)
Deviation(r) == Len(Baseline(r)) * Last(r) - Total(Baseline(r))
Variance(r) == LET b == Baseline(r)
               IN  Len(b) * (Len(b) * Total([i \in DOMAIN b |-> b[i] * b[i]])
                             - Total(b) * Total(b))

(* A flat baseline gives an extreme for a material move and nothing otherwise. *)
HasZ(p) == /\ ZScorable(Returns(p))
           /\ \/ Variance(Returns(p)) > 0
              \/ Abs(Deviation(Returns(p))) >= FlatMove * Len(Baseline(Returns(p)))

(* The magnitude squash(z, ZCap), in percent. *)
ZMagnitude(r) ==
    IF Variance(r) = 0 THEN 100
    ELSE Max({k \in 0..100 :
                 Deviation(r) * Deviation(r) * (Len(Baseline(r)) - 1) * 10000
                     >= k * k * ZCap * ZCap * Variance(r)})

ZDirection(r) ==
    CASE Deviation(r) > 0 -> "up" [] Deviation(r) < 0 -> "down" [] OTHER -> "none"

-----------------------------------------------------------------------------
(* _components_at and composite_anomaly_score.                             *)

(* _volume_deltas: what each frame added to the cumulative volume. *)
Deltas(v) == <<0>> \o [i \in 1..(Len(v) - 1) |-> Max({0, v[i + 1] - v[i]})]

(* The volume of the recent frames relative to that of the frames before. *)
AccelMagnitude(v) ==
    LET d == Deltas(v)
        recent == Total(SubSeq(d, Len(d) - Recent + 1, Len(d))) * Earlier
        base == Total(SubSeq(d, Len(d) - Recent - Earlier + 1, Len(d) - Recent)) * Recent
    IN  IF Len(d) < Recent + Earlier THEN Unpriced
        ELSE IF base = 0 THEN IF recent > 0 THEN 100 ELSE 0
        ELSE Min({100, (100 * Abs(recent - base)) \div (AccelCap * base)})

(* The components at the last frame of h, with their weights. *)
Components(h, z) ==
    {[name |-> "unusual_return", weight |-> 24, size |-> z],
     [name |-> "volume_acceleration", weight |-> 12, size |-> AccelMagnitude(Volumes(h))],
     [name |-> "book_imbalance", weight |-> 12,
      size |-> IF Priced(Last(h).lean) THEN Abs(Last(h).lean) ELSE Unpriced]}

(* The weights renormalise over what is present; a reading whose price *)
(* features do not clear the floor earns half at most.                 *)
Strength(h) ==
    LET z == ZMagnitude(Returns(Prices(h)))
        present == {c \in Components(h, z) : Priced(c.size)}
        mean == MapThenSumSet(LAMBDA c : c.weight * c.size, present)
                    \div MapThenSumSet(LAMBDA c : c.weight, present)
    IN  IF z <= 5 THEN Min({50, mean}) ELSE mean

-----------------------------------------------------------------------------
(* run_backtest                                                            *)
Fires(fs, i) ==
    LET h == Upto(fs, i)
    IN  /\ Priced(AnchorPrice(fs, i))
        /\ Len(Prices(h)) >= MinHistory /\ HasZ(Prices(h))
        /\ Strength(h) >= Strong

Forward(fs, i) == IF i + Ahead <= Len(fs) THEN AnchorPrice(fs, i + Ahead) ELSE Unpriced

Followed(direction, move) == \/ direction = "up" /\ move >= Follow
                             \/ direction = "down" /\ -move >= Follow

EventAt(fs, i) ==
    LET direction == ZDirection(Returns(Prices(Upto(fs, i))))
        forward == Forward(fs, i)
    IN  [frame |-> i, strength |-> Strength(Upto(fs, i)), direction |-> direction,
         entry |-> AnchorPrice(fs, i), forward |-> forward,
         verdict |-> IF ~Priced(forward) THEN "missing"
                     ELSE IF Followed(direction, forward - AnchorPrice(fs, i))
                          THEN "followed" ELSE "not"]

Events(fs) == {EventAt(fs, i) : i \in {j \in DOMAIN fs : Fires(fs, j)}}
(* A longer recording of the same market. *)
Record(f) == Len(frames) < MaxFrames /\ frames' = Append(frames, f)

FInit == frames = <<>>
FNext == \E f \in FrameKind : Record(f)

-----------------------------------------------------------------------------
SignalOf(e) == [frame |-> e.frame, strength |-> e.strength,
                direction |-> e.direction, entry |-> e.entry]

(* "a signal at frame i is computed using only frames 0..i; its outcome is  *)
(* evaluated using only frames i+1..i+H" (backtest.py:3): recording further *)
(* frames leaves the signals of the earlier ones as they were, adds none to *)
(* them, and changes no verdict once given.                                 *)
EventsKept ==
    LET before == Events(frames)
        after == Events(frames')
    IN  /\ {SignalOf(e) : e \in before}
               = {SignalOf(e) : e \in {l \in after : l.frame <= Len(frames)}}
        /\ {e \in before : e.verdict # "missing"} \subseteq after
NoPeek == [][EventsKept]_fVars

=============================================================================
