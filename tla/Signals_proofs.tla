---------------------------- MODULE Signals_proofs ----------------------------
(***************************************************************************)
(* Proofs about Verdicts, for any tones the voters may take, any days and  *)
(* any failures of the compose, and about IndicatorRows, for any           *)
(* indicators and any readings.                                            *)
(*                                                                         *)
(* The verdicts come down to what the tables do with counts: at most five  *)
(* votes are cast, and a voter the two horizons share counts on both.  The *)
(* pages read rows and counts back separately, so what they show agrees    *)
(* only because of when each of the two was written last.                  *)
(*                                                                         *)
(* A row comes out again as it was because its frames are cut at its day,  *)
(* whatever the indicator makes of them.  RowIsCurrent ties the stored row *)
(* to those frames.                                                        *)
(*                                                                         *)
(* A page agrees with the tone for another reason with each indicator:     *)
(* the same threshold twice, a run that is as long as a streak, a cross    *)
(* that is the newest of two windows, a rate on the same day found in two  *)
(* ways.  IsFrame is what all of them rest on.                             *)
(***************************************************************************)
EXTENDS MCSignals, NumberLemmas

\* Each horizon of a ticker has five voters.
LEMMA FiveVoters ==
    /\ IsFiniteSet(DirectionNames) /\ Cardinality(DirectionNames) = 5
    /\ IsFiniteSet(ShortNames) /\ Cardinality(ShortNames) = 5
  <1> DEFINE Of(a, b, c, d, e) == (((({} \cup {a}) \cup {b}) \cup {c}) \cup {d}) \cup {e}
  <1>1. ASSUME NEW a, NEW b, NEW c, NEW d, NEW e,
               a \notin {b, c, d, e}, b \notin {c, d, e}, c \notin {d, e}, d # e
        PROVE  IsFiniteSet(Of(a, b, c, d, e)) /\ Cardinality(Of(a, b, c, d, e)) = 5
    <2>1. IsFiniteSet({} \cup {a}) /\ Cardinality({} \cup {a}) = 1
      BY FS_EmptySet, FS_AddElement
    <2>2. IsFiniteSet(({} \cup {a}) \cup {b}) /\ Cardinality(({} \cup {a}) \cup {b}) = 2
      BY <2>1, <1>1, FS_AddElement
    <2>3. /\ IsFiniteSet((({} \cup {a}) \cup {b}) \cup {c})
          /\ Cardinality((({} \cup {a}) \cup {b}) \cup {c}) = 3
      BY <2>2, <1>1, FS_AddElement
    <2>4. /\ IsFiniteSet(((({} \cup {a}) \cup {b}) \cup {c}) \cup {d})
          /\ Cardinality(((({} \cup {a}) \cup {b}) \cup {c}) \cup {d}) = 4
      BY <2>3, <1>1, FS_AddElement
    <2> QED
      BY <2>4, <1>1, FS_AddElement
  <1>2. DirectionNames = Of("price_vs_ma", "rsi", "volume_anomaly", "relative_strength", "cho")
    BY DEF DirectionNames
  <1>3. ShortNames = Of("rsi", "macd", "bollinger", "volume_anomaly", "ttm_squeeze")
    BY DEF ShortNames
  <1> HIDE DEF Of
  <1> QED
    BY <1>1, <1>2, <1>3

\* The votes counted are those of different voters, and a full count is a
\* unanimous one.
LEMMA CountsFit ==
    ASSUME NEW V, IsFiniteSet(V), NEW tones
    PROVE  /\ Greens(tones, V) \in Nat /\ Reds(tones, V) \in Nat
           /\ Greens(tones, V) + Reds(tones, V) <= Cardinality(V)
           /\ Greens(tones, V) = Cardinality(V) => \A n \in V : tones[n] = "green"
  <1> DEFINE G == {n \in V : tones[n] = "green"}
             R == {n \in V : tones[n] = "red"}
  <1>1. /\ IsFiniteSet(G) /\ IsFiniteSet(R)
        /\ Cardinality(V) = Cardinality(G) => V = G
        /\ IsFiniteSet(G \cup R) /\ Cardinality(G \cup R) <= Cardinality(V)
    BY FS_Subset
  <1>2. G \cap R = {}
    OBVIOUS
  <1>3. Cardinality(G) \in Nat /\ Cardinality(R) \in Nat /\ Cardinality(V) \in Nat
    BY <1>1, FS_CardinalityType
  <1>4. Cardinality(G \cup R) = Cardinality(G) + Cardinality(R)
    <2>1. Cardinality(G \cap R) = 0
      BY <1>2, FS_EmptySet
    <2>2. Cardinality(G \cup R) = Cardinality(G) + Cardinality(R) - Cardinality(G \cap R)
      BY <1>1, FS_Union
    <2> HIDE DEF G, R
    <2> QED
      BY <2>1, <2>2, <1>3
  <1>5. Greens(tones, V) = Cardinality(G) /\ Reds(tones, V) = Cardinality(R)
    BY DEF Greens, Reds
  <1>6. V = G => \A n \in V : tones[n] = "green"
    OBVIOUS
  <1> HIDE DEF G, R
  <1> QED
    BY <1>1, <1>3, <1>4, <1>5, <1>6

\* Two voters of one tone are two votes at least.
LEMMA TwoCount ==
    ASSUME NEW V, IsFiniteSet(V), NEW tones, NEW a \in V, NEW b \in V, a # b
    PROVE  /\ tones[a] = "green" /\ tones[b] = "green" => Greens(tones, V) >= 2
           /\ tones[a] = "red" /\ tones[b] = "red" => Reds(tones, V) >= 2
  <1>1. Cardinality({a, b}) = 2
    <2>1. IsFiniteSet({a}) /\ Cardinality({a}) = 1
      BY FS_Singleton
    <2>2. Cardinality({a} \cup {b}) = 2
      BY <2>1, FS_AddElement
    <2>3. {a} \cup {b} = {a, b}
      OBVIOUS
    <2> QED
      BY <2>2, <2>3
  <1>2. ASSUME NEW T \in SUBSET V, {a, b} \subseteq T PROVE Cardinality(T) >= 2
    <2>1. IsFiniteSet(T) /\ IsFiniteSet({a, b})
      BY FS_Subset
    <2>2. Cardinality({a, b}) <= Cardinality(T) /\ Cardinality(T) \in Nat
      BY <1>2, <2>1, FS_Subset, FS_CardinalityType
    <2> QED
      BY <1>1, <2>2
  <1>3. tones[a] = "green" /\ tones[b] = "green" => {a, b} \subseteq {n \in V : tones[n] = "green"}
    OBVIOUS
  <1>4. tones[a] = "red" /\ tones[b] = "red" => {a, b} \subseteq {n \in V : tones[n] = "red"}
    OBVIOUS
  <1> QED
    BY <1>2, <1>3, <1>4 DEF Greens, Reds

\* The ranks as numbers.
LEMMA Ranks ==
    /\ ActionRank("strong_buy") = 5 /\ ActionRank("buy") = 4 /\ ActionRank("hold") = 3
    /\ ActionRank("watch") = 2 /\ ActionRank("reduce") = 1 /\ ActionRank("exit") = 0
    /\ PostureRank("offensive") = 2 /\ PostureRank("normal") = 1 /\ PostureRank("defensive") = 0
  BY DEF ActionRank, PostureRank

\* What the action table says of five votes: a strong buy is unanimous, two
\* greens keep it at watch or above, two reds at watch or below.
LEMMA TableHasNoGap ==
    ASSUME NEW g \in Nat, NEW r \in Nat, g + r <= 5
    PROVE  /\ ActionFor(g, r) = "strong_buy" => g = 5
           /\ g >= 2 => ActionRank(ActionFor(g, r)) >= ActionRank("watch")
           /\ r >= 2 => ActionRank(ActionFor(g, r)) <= ActionRank("watch")
  BY Ranks DEF ActionFor

\* Fewer greens and more reds never mean a better action.
LEMMA TableIsMonotone ==
    ASSUME NEW g \in Nat, NEW r \in Nat, g + r <= 5,
           NEW g2 \in Nat, NEW r2 \in Nat, g2 + r2 <= 5, g2 <= g, r <= r2
    PROVE  ActionRank(ActionFor(g2, r2)) <= ActionRank(ActionFor(g, r))
  BY Ranks DEF ActionFor

\* Nor a better posture.
LEMMA PosturesAreMonotone ==
    ASSUME NEW g \in Nat, NEW r \in Nat, NEW g2 \in Nat, NEW r2 \in Nat, g2 <= g, r <= r2
    PROVE  /\ PostureRank(PostureFor(g2, r2)) <= PostureRank(PostureFor(g, r))
           /\ PostureRank(PostureShortFor(g2, r2)) <= PostureRank(PostureShortFor(g, r))
  BY Ranks DEF PostureFor, PostureShortFor

\* What a ticker's snapshot says is what the tables made of some rows.
SnapshotIsComposed ==
    snap # NoSnapshot /\ side = "ticker" =>
        \E tones : /\ snap.main = Action(tones) /\ snap.near = ActionShort(tones)
                   /\ snap.timing = Timing(tones)

\* Composed verdicts of the two horizons never advise the opposite: a strong
\* buy is unanimous, and two of its voters, or the two of the badge, are
\* enough to keep the other horizon from the other side.
LEMMA ComposedIsNotOpposed ==
    ASSUME NEW tones
    PROVE  /\ Action(tones) = "strong_buy" => ActionRank(ActionShort(tones)) >= ActionRank("watch")
           /\ ActionShort(tones) = "strong_buy" => ActionRank(Action(tones)) >= ActionRank("watch")
           /\ Timing(tones) = "unfavorable" => ActionRank(ActionShort(tones)) <= ActionRank("watch")
           /\ Timing(tones) = "favorable" => ActionRank(ActionShort(tones)) >= ActionRank("watch")
  <1> DEFINE g == Greens(tones, DirectionNames)
             r == Reds(tones, DirectionNames)
             gs == Greens(tones, ShortNames)
             rs == Reds(tones, ShortNames)
  <1>1. /\ g \in Nat /\ r \in Nat /\ g + r <= 5
        /\ g = 5 => \A n \in DirectionNames : tones[n] = "green"
    BY FiveVoters, CountsFit
  <1>2. /\ gs \in Nat /\ rs \in Nat /\ gs + rs <= 5
        /\ gs = 5 => \A n \in ShortNames : tones[n] = "green"
    BY FiveVoters, CountsFit
  <1>3. /\ "rsi" \in DirectionNames /\ "volume_anomaly" \in DirectionNames
        /\ "rsi" \in ShortNames /\ "volume_anomaly" \in ShortNames
        /\ "macd" \in ShortNames /\ "bollinger" \in ShortNames
    BY DEF DirectionNames, ShortNames
  <1>4. g = 5 => gs >= 2
    BY <1>1, <1>3, FiveVoters, TwoCount
  <1>5. gs = 5 => g >= 2
    BY <1>2, <1>3, FiveVoters, TwoCount
  <1>6. Timing(tones) = "favorable" => gs >= 2
    <2>1. Timing(tones) = "favorable" => tones["macd"] = "green" /\ tones["bollinger"] = "green"
      BY DEF Timing, TimingNames
    <2> QED
      BY <2>1, <1>3, FiveVoters, TwoCount
  <1>7. Timing(tones) = "unfavorable" => rs >= 2
    <2>1. Timing(tones) = "unfavorable" => tones["macd"] = "red" /\ tones["bollinger"] = "red"
      BY DEF Timing, TimingNames
    <2> QED
      BY <2>1, <1>3, FiveVoters, TwoCount
  <1>8. Action(tones) = ActionFor(g, r) /\ ActionShort(tones) = ActionFor(gs, rs)
    BY DEF Action, ActionShort
  <1> HIDE DEF g, r, gs, rs
  <1> QED
    BY <1>1, <1>2, <1>4, <1>5, <1>6, <1>7, <1>8, TableHasNoGap

\* Whatever tones the voters take and whichever compose fails, the verdicts a
\* ticker's page shows side by side never advise the opposite of each other.
THEOREM HorizonsNeverOppose == VerdictSpec => []NeverOpposed
  <1>1. VerdictInit => SnapshotIsComposed
    BY DEF VerdictInit, SnapshotIsComposed
  <1>2. SnapshotIsComposed /\ [VerdictNext]_verdictVars => SnapshotIsComposed'
    <2> SUFFICES ASSUME SnapshotIsComposed, [VerdictNext]_verdictVars PROVE SnapshotIsComposed'
      OBVIOUS
    <2>1. ASSUME NEW n, NEW t, Update(n, t) PROVE SnapshotIsComposed'
      <3>1. side' = side /\ (side = "ticker" => snap' = ComposeTicker(rows'))
        BY <2>1 DEF Update, Compose
      <3>2. \A tones : /\ ComposeTicker(tones).main = Action(tones)
                       /\ ComposeTicker(tones).near = ActionShort(tones)
                       /\ ComposeTicker(tones).timing = Timing(tones)
        BY DEF ComposeTicker
      <3> QED
        BY <3>1, <3>2 DEF SnapshotIsComposed
    <2>2. CASE UNCHANGED <<side, snap>>
      BY <2>2 DEF SnapshotIsComposed, NoSnapshot
    <2>3. ASSUME NEW n, NEW t, UpdateWithoutSnapshot(n, t) PROVE UNCHANGED <<side, snap>>
      BY <2>3 DEF UpdateWithoutSnapshot
    <2>4. NextDay \/ UNCHANGED verdictVars => UNCHANGED <<side, snap>>
      BY DEF NextDay, verdictVars
    <2> QED
      BY <2>1, <2>2, <2>3, <2>4 DEF VerdictNext
  <1>3. SnapshotIsComposed => NeverOpposed
    BY ComposedIsNotOpposed DEF SnapshotIsComposed, NeverOpposed
  <1> QED
    BY <1>1, <1>2, <1>3, PTL DEF VerdictSpec

\* One vote that turned for the worse takes a green away or adds a red.
LEMMA OneWorseCounts ==
    ASSUME NEW V, IsFiniteSet(V), NEW old, NEW new, NEW n \in DOMAIN old,
           Worse(old[n], new[n]), new = [old EXCEPT ![n] = new[n]], V \subseteq DOMAIN old
    PROVE  Greens(new, V) <= Greens(old, V) /\ Reds(old, V) <= Reds(new, V)
  <1>1. {m \in V : new[m] = "green"} \subseteq {m \in V : old[m] = "green"}
    BY DEF Worse
  <1>2. {m \in V : old[m] = "red"} \subseteq {m \in V : new[m] = "red"}
    BY DEF Worse
  <1>3. IsFiniteSet({m \in V : old[m] = "green"}) /\ IsFiniteSet({m \in V : new[m] = "red"})
    BY FS_Subset
  <1> QED
    BY <1>1, <1>2, <1>3, FS_Subset DEF Greens, Reds

\* The market's voters are finitely many.
LEMMA MarketVotersAreFinite == IsFiniteSet(RegimeNames) /\ IsFiniteSet(RegimeShortNames)
  <1>1. /\ RegimeNames = {"spx_ma", "ad_day", "vix"} \cup {"yield_spread", "hyg_ief", "unrate"}
        /\ RegimeShortNames = {"vix", "ad_day"} \cup {"vix_term", "skew"}
    BY DEF RegimeNames, RegimeShortNames
  <1>2. ASSUME NEW a, NEW b, NEW c PROVE IsFiniteSet({a, b, c})
    <2>1. IsFiniteSet({a} \cup {b})
      BY FS_Singleton, FS_AddElement
    <2>2. {a, b, c} = ({a} \cup {b}) \cup {c}
      OBVIOUS
    <2> QED
      BY <2>1, <2>2, FS_AddElement
  <1>3. ASSUME NEW a, NEW b PROVE IsFiniteSet({a, b})
    <2>1. IsFiniteSet({a}) /\ {a, b} = {a} \cup {b}
      BY FS_Singleton
    <2> QED
      BY <2>1, FS_AddElement
  <1> QED
    BY <1>1, <1>2, <1>3, FS_Union

\* The rows are always those of the side's voters.
RowsAreOfVoters == side \in {"ticker", "market"} /\ DOMAIN rows = Voters

\* No step that turns one vote for the worse raises a verdict composed from the
\* rows before into the one composed from the rows after, on either horizon and
\* either side, whatever happened in between.
THEOREM WorseRowsNeverBetterVerdict == VerdictSpec => WorseNeverBetter
  <1>1. VerdictInit => RowsAreOfVoters
    BY DEF VerdictInit, RowsAreOfVoters
  <1>2. RowsAreOfVoters /\ [VerdictNext]_verdictVars => RowsAreOfVoters'
    <2> SUFFICES ASSUME RowsAreOfVoters, [VerdictNext]_verdictVars PROVE RowsAreOfVoters'
      OBVIOUS
    <2>1. ASSUME NEW n, NEW t, Update(n, t) \/ UpdateWithoutSnapshot(n, t)
          PROVE  RowsAreOfVoters'
      BY <2>1 DEF Update, UpdateWithoutSnapshot, RowsAreOfVoters, Voters
    <2>2. NextDay \/ UNCHANGED verdictVars => RowsAreOfVoters'
      BY DEF NextDay, verdictVars, RowsAreOfVoters, Voters
    <2> QED
      BY <2>1, <2>2 DEF VerdictNext
  <1>3. ASSUME RowsAreOfVoters, [VerdictNext]_verdictVars, OneWorse,
               ComposedFrom(rows, snap), ComposedFrom(rows', snap')
        PROVE  Rank(snap'.main) <= Rank(snap.main) /\ Rank(snap'.near) <= Rank(snap.near)
    <2>1. side' = side
      BY <1>3 DEF VerdictNext, verdictVars, Update, UpdateWithoutSnapshot, NextDay
    <2>2. PICK n \in Voters : Worse(rows[n], rows'[n]) /\ rows' = [rows EXCEPT ![n] = rows'[n]]
      BY <1>3 DEF OneWorse
    <2>3. ASSUME NEW V, IsFiniteSet(V), V \subseteq Voters
          PROVE  Greens(rows', V) <= Greens(rows, V) /\ Reds(rows, V) <= Reds(rows', V)
      BY <1>3, <2>2, <2>3, OneWorseCounts DEF RowsAreOfVoters
    <2>4. CASE side = "ticker"
      <3>1. /\ snap.main = Action(rows) /\ snap.near = ActionShort(rows)
            /\ snap'.main = Action(rows') /\ snap'.near = ActionShort(rows')
        BY <1>3, <2>1, <2>4 DEF ComposedFrom, Compose, ComposeTicker
      <3>2. DirectionNames \subseteq Voters /\ ShortNames \subseteq Voters
        BY <2>4 DEF Voters, TickerVoters
      <3>3. ActionRank(Action(rows')) <= ActionRank(Action(rows))
        <4>1. /\ Greens(rows', DirectionNames) <= Greens(rows, DirectionNames)
              /\ Reds(rows, DirectionNames) <= Reds(rows', DirectionNames)
          BY <2>3, <3>2, FiveVoters
        <4> QED
          BY <4>1, FiveVoters, CountsFit, TableIsMonotone DEF Action
      <3>4. ActionRank(ActionShort(rows')) <= ActionRank(ActionShort(rows))
        <4>1. /\ Greens(rows', ShortNames) <= Greens(rows, ShortNames)
              /\ Reds(rows, ShortNames) <= Reds(rows', ShortNames)
          BY <2>3, <3>2, FiveVoters
        <4> QED
          BY <4>1, FiveVoters, CountsFit, TableIsMonotone DEF ActionShort
      <3> QED
        BY <2>4, <3>1, <3>3, <3>4 DEF Rank
    <2>5. CASE side = "market"
      <3>1. /\ snap.main = Posture(rows) /\ snap.near = PostureShort(rows)
            /\ snap'.main = Posture(rows') /\ snap'.near = PostureShort(rows')
        BY <1>3, <2>1, <2>5 DEF ComposedFrom, Compose, ComposeMarket
      <3>2. RegimeNames \subseteq Voters /\ RegimeShortNames \subseteq Voters
        BY <2>5 DEF Voters, MarketVoters
      <3>3. PostureRank(Posture(rows')) <= PostureRank(Posture(rows))
        <4>1. /\ Greens(rows', RegimeNames) <= Greens(rows, RegimeNames)
              /\ Reds(rows, RegimeNames) <= Reds(rows', RegimeNames)
          BY <2>3, <3>2, MarketVotersAreFinite
        <4> QED
          BY <4>1, MarketVotersAreFinite, CountsFit, PosturesAreMonotone DEF Posture
      <3>4. PostureRank(PostureShort(rows')) <= PostureRank(PostureShort(rows))
        <4>1. /\ Greens(rows', RegimeShortNames) <= Greens(rows, RegimeShortNames)
              /\ Reds(rows, RegimeShortNames) <= Reds(rows', RegimeShortNames)
          BY <2>3, <3>2, MarketVotersAreFinite
        <4> QED
          BY <4>1, MarketVotersAreFinite, CountsFit, PosturesAreMonotone DEF PostureShort
      <3> QED
        BY <2>5, <3>1, <3>3, <3>4 DEF Rank
    <2> QED
      BY <1>3, <2>4, <2>5 DEF RowsAreOfVoters
  <1> QED
    BY <1>1, <1>2, <1>3, PTL DEF VerdictSpec, WorseNeverBetter, NotBetter

\* The snapshot counts the rows a page shows beside it, as long as no failed
\* compose has left it behind them; on the market page rows of another date
\* are not shown.
CountsAreOfRows ==
    snap # NoSnapshot /\ ~torn /\ (side = "ticker" \/ rowsDay = snap.day) =>
        /\ snap.greens = Greens(rows, Main) /\ snap.reds = Reds(rows, Main)
        /\ snap.nearGreens = Greens(rows, Near) /\ snap.nearReds = Reds(rows, Near)

\* Every voter is listed on a page, on the side of its vote.
LEMMA ListedVotesAreCounted ==
    ASSUME side \in {"ticker", "market"}
    PROVE  \A names \in {Main, Near} :
              /\ On(Listed(Voters), names, "pro") = Greens(rows, names)
              /\ On(Listed(Voters), names, "con") = Reds(rows, names)
  <1> SUFFICES ASSUME NEW names \in {Main, Near}
               PROVE  /\ On(Listed(Voters), names, "pro") = Greens(rows, names)
                      /\ On(Listed(Voters), names, "con") = Reds(rows, names)
    OBVIOUS
  <1>1. Listed(Voters) \cap names = names
    BY DEF Listed, Voters, TickerVoters, MarketVoters, Main, Near, DirectionNames, ShortNames,
           RegimeNames, RegimeShortNames, TimingGroup, MacroGroup
  <1>2. \A tone : (Side(tone) = "pro" <=> tone = "green") /\ (Side(tone) = "con" <=> tone = "red")
    BY DEF Side
  <1>3. /\ {n \in names : Side(rows[n]) = "pro"} = {n \in names : rows[n] = "green"}
        /\ {n \in names : Side(rows[n]) = "con"} = {n \in names : rows[n] = "red"}
    BY <1>2
  <1> QED
    BY <1>1, <1>3 DEF On, Greens, Reds

\* Whatever composes fail and on whatever days: the rows a page lists for and
\* against are the votes its snapshot counted, unless the compose of those
\* very rows was the one that failed.
THEOREM PagesAddUp == VerdictSpec => []PageAddsUp
  <1> DEFINE Inv == RowsAreOfVoters /\ CountsAreOfRows
  <1>1. VerdictInit => Inv
    BY DEF VerdictInit, RowsAreOfVoters, CountsAreOfRows
  <1>2. Inv /\ [VerdictNext]_verdictVars => Inv'
    <2> SUFFICES ASSUME Inv, [VerdictNext]_verdictVars PROVE Inv'
      OBVIOUS
    <2>1. ASSUME NEW n, NEW t, Update(n, t) PROVE Inv'
      <3>1. RowsAreOfVoters' /\ side' = side
        BY <2>1 DEF Update, RowsAreOfVoters, Voters
      <3>2. /\ snap'.greens = Greens(rows', Main) /\ snap'.reds = Reds(rows', Main)
            /\ snap'.nearGreens = Greens(rows', Near) /\ snap'.nearReds = Reds(rows', Near)
        BY <2>1 DEF Update, RowsAreOfVoters, Compose, ComposeTicker, ComposeMarket, Main, Near
      <3>3. Main' = Main /\ Near' = Near
        BY <3>1 DEF Main, Near
      <3> QED
        BY <3>1, <3>2, <3>3 DEF CountsAreOfRows
    <2>2. ASSUME NEW n, NEW t, UpdateWithoutSnapshot(n, t) PROVE Inv'
      <3>1. RowsAreOfVoters'
        BY <2>2 DEF UpdateWithoutSnapshot, RowsAreOfVoters, Voters
      <3>2. torn' \/ (side' # "ticker" /\ rowsDay' # snap'.day)
        BY <2>2 DEF UpdateWithoutSnapshot
      <3> QED
        BY <3>1, <3>2 DEF CountsAreOfRows
    <2>3. CASE UNCHANGED <<side, rows, rowsDay, snap, torn>>
      BY <2>3 DEF RowsAreOfVoters, Voters, CountsAreOfRows, NoSnapshot, Main, Near
    <2>4. NextDay \/ UNCHANGED verdictVars => UNCHANGED <<side, rows, rowsDay, snap, torn>>
      BY DEF NextDay, verdictVars
    <2> QED
      BY <2>1, <2>2, <2>3, <2>4 DEF VerdictNext
  <1>3. Inv => PageAddsUp
    <2> SUFFICES ASSUME Inv, Shown # {}, ~torn
                 PROVE  /\ On(Shown, Main, "pro") = snap.greens /\ On(Shown, Main, "con") = snap.reds
                        /\ On(Shown, Near, "pro") = snap.nearGreens
                        /\ On(Shown, Near, "con") = snap.nearReds
      BY DEF PageAddsUp
    <2>1. /\ snap # NoSnapshot /\ (side = "ticker" \/ rowsDay = snap.day)
          /\ Shown = Listed(Voters)
      BY DEF Shown
    <2> QED
      BY <2>1, ListedVotesAreCounted DEF CountsAreOfRows, RowsAreOfVoters
  <1> QED
    BY <1>1, <1>2, <1>3, PTL DEF VerdictSpec

\* A composed snapshot has the fields of a row of its table.
LEMMA ComposedIsTyped ==
    ASSUME NEW tones, today \in Nat
    PROVE  Compose(tones) \in Snapshots
  <1>1. \A V \in {DirectionNames, ShortNames, RegimeNames, RegimeShortNames} :
            Greens(tones, V) \in Nat /\ Reds(tones, V) \in Nat
    <2> SUFFICES ASSUME NEW V \in {DirectionNames, ShortNames, RegimeNames, RegimeShortNames}
                 PROVE  Greens(tones, V) \in Nat /\ Reds(tones, V) \in Nat
      OBVIOUS
    <2>1. IsFiniteSet(V)
      BY FiveVoters, MarketVotersAreFinite, Zenon
    <2> HIDE DEF Greens, Reds
    <2> QED
      BY <2>1, CountsFit
  <1>2. \A g, r : ActionFor(g, r) \in Said /\ PostureFor(g, r) \in Said /\ PostureShortFor(g, r) \in Said
    <2> SUFFICES ASSUME NEW g, NEW r
                 PROVE  ActionFor(g, r) \in Said /\ PostureFor(g, r) \in Said /\ PostureShortFor(g, r) \in Said
      OBVIOUS
    <2>1. ActionFor(g, r) \in {"strong_buy", "buy", "hold", "watch", "reduce", "exit"}
      BY Zenon DEF ActionFor
    <2>2. PostureFor(g, r) \in {"offensive", "defensive", "normal"}
      BY Zenon DEF PostureFor
    <2>3. PostureShortFor(g, r) \in {"offensive", "defensive", "normal"}
      BY Zenon DEF PostureShortFor
    <2> QED
      BY <2>1, <2>2, <2>3 DEF Said
  <1>3. Timing(tones) \in {"favorable", "unfavorable", "mixed", "none"}
    BY DEF Timing
  <1>4. ComposeTicker(tones) \in Snapshots
    BY <1>1, <1>2, <1>3 DEF Snapshots, Said, ComposeTicker, Action, ActionShort
  <1>5. ComposeMarket(tones) \in Snapshots
    BY <1>1, <1>2 DEF Snapshots, Said, ComposeMarket, Posture, PostureShort
  <1> QED
    BY <1>4, <1>5 DEF Compose

\* The rows start as tones of the voters, and the snapshot as a row of its table.
LEMMA VerdictStarts == VerdictInit => VerdictTypeOK
  <1> SUFFICES ASSUME VerdictInit PROVE VerdictTypeOK
    OBVIOUS
  <1>1. snap \in Snapshots
    BY DEF VerdictInit, NoSnapshot, Snapshots, Said
  <1>2. rows \in [Voters -> Stored]
    BY DEF VerdictInit, Stored
  <1> QED
    BY <1>1, <1>2 DEF VerdictInit, VerdictTypeOK

\* Each action keeps them so.
LEMMA VerdictTypeStep == VerdictTypeOK /\ [VerdictNext]_verdictVars => VerdictTypeOK'
  <1> SUFFICES ASSUME VerdictTypeOK, [VerdictNext]_verdictVars PROVE VerdictTypeOK'
    OBVIOUS
  <1>1. \A n \in Voters : Outcomes[n] \subseteq Stored
    BY VotersHaveTones DEF Voters
  <1>2. ASSUME NEW n \in Voters, NEW t \in Outcomes[n], rows' = [rows EXCEPT ![n] = t], side' = side
        PROVE  rows' \in [Voters' -> Stored]
    BY <1>1, <1>2 DEF VerdictTypeOK, Voters
  <1>3. ASSUME NEW n \in Voters, NEW t \in Outcomes[n], Update(n, t) PROVE VerdictTypeOK'
    <2>1. snap' = Compose(rows')
      BY <1>3 DEF Update
    <2>2. Compose(rows') \in Snapshots
      BY ComposedIsTyped DEF VerdictTypeOK
    <2> QED
      BY <1>2, <1>3, <2>1, <2>2 DEF Update, VerdictTypeOK
  <1>4. ASSUME NEW n \in Voters, NEW t \in Outcomes[n], UpdateWithoutSnapshot(n, t) PROVE VerdictTypeOK'
    BY <1>2, <1>4 DEF UpdateWithoutSnapshot, VerdictTypeOK
  <1>5. CASE NextDay
    BY <1>5 DEF NextDay, VerdictTypeOK, Voters
  <1>6. CASE UNCHANGED verdictVars
    BY <1>6 DEF verdictVars, VerdictTypeOK, Voters
  <1> QED
    BY <1>3, <1>4, <1>5, <1>6 DEF VerdictNext

\* The rows are tones of the voters and the snapshot is a row of its table.
THEOREM VerdictTypeCorrect == VerdictSpec => []VerdictTypeOK
  BY VerdictStarts, VerdictTypeStep, PTL DEF VerdictSpec

-----------------------------------------------------------------------------
(* Rows judged again *)

\* Every table has a value or Missing for each day so far.
TablesTyped ==
    /\ left \in Seq(Left[name] \cup {Missing})
    /\ right \in Seq(Right[name] \cup {Missing})
    /\ Len(right) = Len(left)

\* A row that nothing made stale is what its day's frames still say.
RowIsCurrent ==
    row # NoRow =>
        /\ row = [day |-> row.day, res |-> row.res] /\ row.day \in 0 .. now
        /\ ~stale => row.res = JudgedAt(row.day)

RowInv == TablesTyped /\ RowIsCurrent

\* A frame up to a day is made of that day and those before.
LEMMA FrameIsCut ==
    ASSUME NEW table, NEW other, NEW d \in Nat, \A i \in 1 .. d : other[i] = table[i]
    PROVE  FrameTo(other, d) = FrameTo(table, d)
  <1> DEFINE Rows(t) == [i \in 1 .. d |-> [d |-> i, v |-> t[i]]]
  <1>1. Rows(other) = Rows(table)
    OBVIOUS
  <1> HIDE DEF Rows
  <1>2. FrameTo(table, d) = Selected(Rows(table), Known) /\ FrameTo(other, d) = Selected(Rows(other), Known)
    BY DEF FrameTo, Rows
  <1> QED
    BY <1>1, <1>2

\* So what comes after a day does not change how it is judged.
LEMMA JudgedAlike ==
    ASSUME NEW d \in Nat, name' = name,
           \A i \in 1 .. d : left'[i] = left[i] /\ right'[i] = right[i]
    PROVE  Compute(name, FrameTo(left', d), FrameTo(right', d)) = JudgedAt(d)
  BY FrameIsCut DEF JudgedAt

\* Each action keeps a current row current, or marks it stale.
LEMMA RowStep == RowInv /\ [RowsNext]_rowVars => RowInv'
  <1> SUFFICES ASSUME RowInv, [RowsNext]_rowVars PROVE RowInv'
    OBVIOUS
  <1> USE DEF RowInv
  <1>t. now \in Nat /\ now = Len(left)
    BY DEF TablesTyped, now
  <1>1. CASE NewDay
    <2>1. PICK x \in Left[name] \cup {Missing}, y \in Right[name] \cup {Missing} :
              left' = Append(left, x) /\ right' = Append(right, y)
      BY <1>1 DEF NewDay
    <2>2. UNCHANGED <<name, row, stale>>
      BY <1>1 DEF NewDay
    <2>3. TablesTyped'
      BY <2>1, <2>2 DEF TablesTyped
    <2>4. now' = now + 1 /\ \A i \in 1 .. now : left'[i] = left[i] /\ right'[i] = right[i]
      BY <2>1, <1>t DEF TablesTyped, now
    <2>5. RowIsCurrent'
      <3> SUFFICES ASSUME row # NoRow
                   PROVE  /\ row.day \in 0 .. now'
                          /\ ~stale => row.res = Compute(name, FrameTo(left', row.day), FrameTo(right', row.day))
        BY <2>2 DEF RowIsCurrent, JudgedAt
      <3>1. row.day \in 0 .. now /\ (~stale => row.res = JudgedAt(row.day))
        BY DEF RowIsCurrent
      <3>2. row.day \in Nat /\ \A i \in 1 .. row.day : left'[i] = left[i] /\ right'[i] = right[i]
        BY <3>1, <2>4, <1>t
      <3> QED
        BY <1>t, <2>2, <2>4, <3>1, <3>2, JudgedAlike
    <2> QED
      BY <2>3, <2>5
  <1>2. CASE DailyUpdate \/ Revalidate
    <2>1. UNCHANGED <<name, left, right>>
      BY <1>2 DEF DailyUpdate, Revalidate
    <2>2. PICK d \in 0 .. now : row' = [day |-> d, res |-> JudgedAt(d)]
      BY <1>t, <1>2 DEF DailyUpdate, Revalidate, RowIsCurrent
    <2>3. row'.day = d /\ row'.res = JudgedAt(d) /\ now' = now
      BY <2>1, <2>2 DEF now
    <2>4. Compute(name', FrameTo(left', d), FrameTo(right', d)) = JudgedAt(d)
      BY <2>1 DEF JudgedAt
    <2>5. RowIsCurrent'
      BY <2>2, <2>3, <2>4 DEF RowIsCurrent, JudgedAt
    <2> QED
      BY <2>1, <2>5 DEF TablesTyped
  <1>3. CASE Arrive
    <2>1. PICK d \in 1 .. (now - 1) :
              \E x \in Left[name] : /\ left' = [left EXCEPT ![d] = x]
                                    /\ stale' = (stale \/ (row # NoRow /\ d <= row.day))
      BY <1>3 DEF Arrive
    <2>2. PICK x \in Left[name] : left' = [left EXCEPT ![d] = x]
      BY <2>1
    <2>3. UNCHANGED <<name, row, right>>
      BY <1>3 DEF Arrive
    <2>4. left' \in Seq(Left[name] \cup {Missing}) /\ Len(left') = Len(left)
      BY <2>2, <1>t DEF TablesTyped
    <2>5. \A i \in 1 .. now : i # d => left'[i] = left[i]
      BY <2>2, <1>t DEF TablesTyped
    <2>6. RowIsCurrent'
      <3> SUFFICES ASSUME row # NoRow
                   PROVE  /\ row.day \in 0 .. now
                          /\ ~stale' => row.res = Compute(name, FrameTo(left', row.day), FrameTo(right', row.day))
        BY <2>3, <2>4 DEF RowIsCurrent, JudgedAt, now
      <3>1. row.day \in 0 .. now /\ row.day \in Nat /\ (~stale => row.res = JudgedAt(row.day))
        BY <1>t DEF RowIsCurrent
      <3>2. ASSUME ~stale' PROVE ~stale /\ ~(d <= row.day)
        BY <2>1, <3>2
      <3>3. ASSUME ~stale' PROVE \A i \in 1 .. row.day : left'[i] = left[i] /\ right'[i] = right[i]
        BY <1>t, <2>3, <2>5, <3>1, <3>2, <3>3
      <3> QED
        BY <2>3, <3>1, <3>2, <3>3, JudgedAlike
    <2> QED
      BY <2>3, <2>4, <2>6 DEF TablesTyped
  <1>4. CASE UNCHANGED rowVars
    <2>1. UNCHANGED <<name, left, right, row, stale>>
      BY <1>4 DEF rowVars
    <2> QED
      BY <2>1 DEF TablesTyped, RowIsCurrent, JudgedAt, now
  <1> QED
    BY <1>1, <1>2, <1>3, <1>4 DEF RowsNext

\* A day judged again gives the row it has, however many days have passed and
\* whatever came in for later ones, for every indicator and any values.
THEOREM RowsReproduce == RowsSpec => Reproduces
  <1>1. RowsInit => RowInv
    BY DEF RowsInit, RowInv, TablesTyped, RowIsCurrent
  <1>2. RowInv => SameAgain
    <2> SUFFICES ASSUME RowInv, Revalidate, ~stale PROVE row' = row
      BY DEF SameAgain
    <2> QED
      BY DEF RowInv, RowIsCurrent, Revalidate
  <1> QED
    BY <1>1, <1>2, RowStep, PTL DEF RowsSpec, Reproduces

-----------------------------------------------------------------------------
(* Frames *)

\* What every indicator and page is given: rows dated within a number of days,
\* in order, each with a value.
IsFrame(F, V, top) ==
    /\ Len(F) \in Nat /\ F = [k \in 1 .. Len(F) |-> F[k]]
    /\ \A k \in 1 .. Len(F) : F[k].d \in 1 .. top /\ F[k].v \in V
    /\ \A j, k \in 1 .. Len(F) : j < k => F[j].d < F[k].d

\* The rows kept of a table, whose dates and values are those of a frame.
KeptRows(s, kept) == [k \in 1 .. Cardinality(kept) |-> s[NthOf(kept, k)]]
DatedRows(s, kept, V, top) ==
    /\ \A i \in kept : s[i].d \in 1 .. top /\ s[i].v \in V
    /\ \A i, j \in kept : i < j => s[i].d < s[j].d
HasKept(T, s, kept, m) ==
    /\ kept = 1 .. m => T = [k \in 1 .. m |-> s[k]]
    /\ \A i \in kept : \E k \in 1 .. Len(T) : T[k] = s[i]

\* They are a frame, the whole table if all are kept, and each kept row is one.
LEMMA KeptFrame ==
    ASSUME NEW V, NEW top, NEW m \in Nat, NEW s, NEW kept \in SUBSET (1 .. m),
           DatedRows(s, kept, V, top)
    PROVE  IsFrame(KeptRows(s, kept), V, top) /\ HasKept(KeptRows(s, kept), s, kept, m)
  <1> DEFINE T == KeptRows(s, kept)
             c == Cardinality(kept)
  <1>1. /\ c \in Nat
        /\ \A k \in 1 .. c : NthOf(kept, k) \in kept
        /\ \A j, k \in 1 .. c : j < k => NthOf(kept, j) < NthOf(kept, k)
        /\ \A i \in kept : \E k \in 1 .. c : NthOf(kept, k) = i
        /\ kept = 1 .. m => c = m /\ \A k \in 1 .. m : NthOf(kept, k) = k
    <2>1. /\ c \in 0 .. m
          /\ \A k \in 1 .. c : NthOf(kept, k) \in kept
          /\ \A j, k \in 1 .. c : j < k => NthOf(kept, j) < NthOf(kept, k)
          /\ \A i \in kept : \E k \in 1 .. c : NthOf(kept, k) = i
          /\ kept = 1 .. m => c = m /\ \A k \in 1 .. m : NthOf(kept, k) = k
      BY NthEnumerates, Zenon
    <2> HIDE DEF c
    <2> QED
      BY <2>1
  <1>2. T = [k \in 1 .. c |-> s[NthOf(kept, k)]]
    BY DEF KeptRows
  <1> HIDE DEF c, T
  <1>3. Len(T) = c /\ \A k \in 1 .. c : T[k] = s[NthOf(kept, k)]
    <2>1. c \in Nat
      BY <1>1
    <2> QED
      BY <1>2, <2>1
  <1>4. T = [k \in 1 .. Len(T) |-> T[k]]
    <2>1. DOMAIN T = 1 .. Len(T) /\ T = [k \in DOMAIN T |-> T[k]]
      BY <1>2, <1>3
    <2> QED
      BY <2>1, Zenon
  <1>5. \A k \in 1 .. c : T[k].d \in 1 .. top /\ T[k].v \in V
    BY <1>1, <1>3 DEF DatedRows
  <1>6. ASSUME NEW j \in 1 .. c, NEW k \in 1 .. c, j < k PROVE T[j].d < T[k].d
    <2>1. NthOf(kept, j) \in kept /\ NthOf(kept, k) \in kept /\ NthOf(kept, j) < NthOf(kept, k)
      BY <1>1, <1>6
    <2>2. T[j] = s[NthOf(kept, j)] /\ T[k] = s[NthOf(kept, k)]
      BY <1>3
    <2> QED
      BY <2>1, <2>2 DEF DatedRows
  <1>7. kept = 1 .. m => T = [k \in 1 .. m |-> s[k]]
    BY <1>1, <1>2
  <1>8. \A i \in kept : \E k \in 1 .. c : T[k] = s[i]
    BY <1>1, <1>3
  <1> QED
    BY <1>1, <1>3, <1>4, <1>5, <1>6, <1>7, <1>8 DEF IsFrame, HasKept, T

\* A table loaded up to a day is a frame.
LEMMA LoadedFrame ==
    ASSUME NEW V, NEW table, NEW d \in Nat, \A i \in 1 .. d : table[i] \in V \cup {Missing}
    PROVE  IsFrame(FrameTo(table, d), V, d)
  <1> DEFINE s == [i \in 1 .. d |-> [d |-> i, v |-> table[i]]]
             kept == {i \in DOMAIN s : Known(s[i])}
             T == FrameTo(table, d)
  <1>1. DOMAIN s = 1 .. d /\ \A i \in 1 .. d : s[i].d = i /\ s[i].v = table[i]
    OBVIOUS
  <1>2. T = KeptRows(s, kept)
    BY DEF FrameTo, Selected, KeptRows
  <1>3. kept \in SUBSET (1 .. d)
    BY <1>1
  <1>4. DatedRows(s, kept, V, d)
    <2>1. \A i \in kept : i \in 1 .. d /\ s[i].v # Missing
      BY <1>1 DEF Known
    <2> HIDE DEF s, kept
    <2> QED
      BY <1>1, <2>1 DEF DatedRows
  <1> HIDE DEF s, kept, T
  <1> QED
    BY <1>2, <1>3, <1>4, KeptFrame DEF T

\* The rows of a frame on some dates are a frame: the whole of it on all of its
\* dates, and not empty if one of them is among the dates.
LEMMA DatedFrame ==
    ASSUME NEW V, NEW top \in Nat, NEW F, IsFrame(F, V, top), NEW D
    PROVE  /\ IsFrame(OnDates(F, D), V, top)
           /\ (\A i \in 1 .. Len(F) : F[i].d \in D) => OnDates(F, D) = F
           /\ \A i \in 1 .. Len(F) : F[i].d \in D => Len(OnDates(F, D)) > 0
  <1> DEFINE kept == {i \in DOMAIN F : F[i].d \in D}
             T == OnDates(F, D)
             m == Len(F)
  <1>1. m \in Nat /\ DOMAIN F = 1 .. m /\ F = [k \in 1 .. m |-> F[k]]
    BY DEF IsFrame
  <1>2. T = KeptRows(F, kept)
    BY DEF OnDates, Selected, KeptRows
  <1>3. kept \in SUBSET (1 .. m)
    BY <1>1
  <1>4. DatedRows(F, kept, V, top)
    BY <1>3 DEF IsFrame, DatedRows
  <1>5. \A i \in 1 .. m : F[i].d \in D => i \in kept
    BY <1>1
  <1> HIDE DEF kept, T, m
  <1>6. /\ IsFrame(T, V, top)
        /\ kept = 1 .. m => T = [k \in 1 .. m |-> F[k]]
        /\ \A i \in kept : \E k \in 1 .. Len(T) : T[k] = F[i]
    <2>1. IsFrame(KeptRows(F, kept), V, top) /\ HasKept(KeptRows(F, kept), F, kept, m)
      BY <1>1, <1>3, <1>4, KeptFrame
    <2> QED
      BY <1>2, <2>1 DEF HasKept
  <1>7. Len(T) \in Nat
    BY <1>6 DEF IsFrame
  <1>8. (\A i \in 1 .. m : F[i].d \in D) => T = F
    <2>1. (\A i \in 1 .. m : F[i].d \in D) => kept = 1 .. m
      BY <1>3, <1>5
    <2> QED
      BY <1>1, <1>6, <2>1, Zenon
  <1>9. \A i \in 1 .. m : F[i].d \in D => Len(T) > 0
    BY <1>5, <1>6, <1>7
  <1> QED
    BY <1>6, <1>8, <1>9 DEF T, m

\* A latest row has one of the dates and one of the values.
LEMMA BackIsValue ==
    ASSUME NEW V, NEW top \in Nat, NEW F, IsFrame(F, V, top), NEW n \in Nat, n < Len(F)
    PROVE  Back(F, n) \in V
  BY DEF IsFrame, Back

\* The date of a frame is a day, or 0 for none, and so is the older of two.
LEMMA AsOfIsDay ==
    ASSUME NEW top \in Nat
    PROVE  /\ \A F, V : IsFrame(F, V, top) => FrameAsOf(F) \in 0 .. top
           /\ \A a, b \in 0 .. top : OldestOf(a, b) \in 0 .. top
  <1>1. ASSUME NEW F, NEW V, IsFrame(F, V, top) PROVE FrameAsOf(F) \in 0 .. top
    <2>1. CASE F = <<>>
      BY <2>1 DEF FrameAsOf
    <2>2. CASE F # <<>>
      <3>1. Len(F) \in 1 .. Len(F)
        BY <1>1, <2>2 DEF IsFrame
      <3>2. F[Len(F)].d \in 1 .. top
        BY <1>1, <3>1 DEF IsFrame
      <3> QED
        BY <2>2, <3>2 DEF FrameAsOf
    <2> QED
      BY <2>1, <2>2
  <1> QED
    BY <1>1 DEF OldestOf

\* The values a window adds up to are a number.
LEMMA WindowIsNumber ==
    ASSUME NEW top \in Nat, NEW F, IsFrame(F, Int, top), NEW i \in 0 .. Len(F), NEW n \in Nat, n <= i
    PROVE  SumTo(F, i, n) \in Int
  <1> DEFINE S == (i - n + 1) .. i
             v == [k \in S |-> F[k].v]
  <1>1. Len(F) \in Nat /\ S \in SUBSET (1 .. Len(F)) /\ IsFiniteSet(S)
    <2>1. Len(F) \in Nat /\ i \in Nat
      BY DEF IsFrame
    <2>2. S \in SUBSET (1 .. Len(F))
      BY <2>1
    <2>3. i - n + 1 \in Int /\ i \in Int
      BY <2>1
    <2>4. IsFiniteSet(S)
      BY <2>3, FS_Interval
    <2> QED
      BY <2>1, <2>2, <2>4
  <1>2. \A k \in S : v[k] \in Int
    BY <1>1 DEF IsFrame
  <1>3. SumOf(v, S) \in Int
    <2> HIDE DEF v, S
    <2> QED
      BY <1>1, <1>2, SumAnyOrder
  <1>4. SumTo(F, i, n) = MapThenSumSet(LAMBDA k : F[k].v, S)
    BY DEF SumTo, SumOver, Value
  <1>5. MapThenSumSet(LAMBDA k : F[k].v, S) = SumOf(v, S)
    BY ZenonT(40) DEF SumOf, MapThenSumSet, MapThenFoldSet
  <1> HIDE DEF S, v
  <1>6. SumTo(F, i, n) = SumOf(v, S)
    BY <1>4, <1>5, Zenon
  <1> QED
    BY <1>3, <1>6

-----------------------------------------------------------------------------
(* An indicator's tone and its page *)

\* The lengths of windows, and what the rows asked for allow.
LEMMA LengthsArePositive ==
    /\ SlowMA \in Nat /\ SlowMA > 0 /\ CrossBack \in Nat /\ CrossBack > 0
    /\ MacdBack \in Nat /\ MacdBack > 0 /\ Win \in Nat /\ Win > 0
    /\ Streak \in Nat /\ Streak > 0 /\ RateDays \in Nat /\ RateDays > 0 /\ AdWin \in Nat /\ AdWin > 0
    /\ \A n \in PerTicker \cup MarketRegime : MinBars[n] \in Nat /\ MinBars[n] > 0
    /\ MinBars["price_vs_ma"] >= SlowMA /\ MinBars["cho"] >= 2
    /\ MinBars["relative_strength"] > Win /\ MinBars["dxy"] >= Win + Streak
  BY IndicatorAssumption DEF Lengths, EnoughRows

\* The fields of what an indicator returns.
LEMMA ResultFields ==
    ASSUME NEW t, NEW date
    PROVE  /\ Result(t, date).tone = t /\ Result(t, date).ok = TRUE
           /\ Insufficient(date).ok = FALSE
  BY DEF Result, Insufficient

\* A run that ends at the last row is there if the last row has the property.
LEMMA RunIsThere ==
    ASSUME NEW n \in Nat, NEW R \in SUBSET (1 .. n)
    PROVE  Max({0} \cup R) \in Nat /\ (Max({0} \cup R) > 0 <=> R # {})
           /\ (R # {} => Max({0} \cup R) \in R) /\ \A k \in R : Max({0} \cup R) >= k
  <1> DEFINE S == {0} \cup R
  <1>1. S \in SUBSET (0 .. n) /\ S # {} /\ 0 \in S
    OBVIOUS
  <1>2. Max(S) \in S /\ \A y \in S : Max(S) >= y
    <2> HIDE DEF S
    <2> QED
      BY <1>1, MaxIsGreatest
  <1>3. Max(S) \in Nat
    <2>1. Max(S) \in 0 .. n
      BY <1>1, <1>2, Zenon
    <2> QED
      BY <2>1
  <1>4. ASSUME NEW k \in R PROVE k > 0 /\ k \in Nat
    <2>1. R \subseteq 1 .. n
      BY Zenon
    <2>2. k \in 1 .. n
      BY <2>1, Zenon
    <2> QED
      BY <2>2
  <1> DEFINE x == Max(S)
  <1>5. x \in Nat /\ x \in {0} \cup R /\ \A y \in R : x >= y
    BY <1>2, <1>3
  <1>6. Max({0} \cup R) = x
    OBVIOUS
  <1> HIDE DEF S, x
  <1>7. ASSUME NEW k \in R PROVE x > 0
    BY <1>4, <1>5
  <1>8. x > 0 <=> R # {}
    <2>1. x > 0 => x \in R
      BY <1>5
    <2> QED
      BY <1>7, <2>1
  <1>9. R # {} => x \in R
    BY <1>5, <1>8
  <1> QED
    BY <1>5, <1>6, <1>8, <1>9

\* The newest cross, as the loop finds it, is one of the recent crosses.
LEMMA LatestIsRecent ==
    ASSUME NEW g, NEW back, Len(g) \in Nat
    PROVE  /\ LatestCross(g, back) = "bullish" => RecentUp(g, back)
           /\ LatestCross(g, back) = "bearish" => RecentDown(g, back)
  <1> DEFINE at == {i \in RecentPlaces(g, back) : CrossUp(g, i) \/ CrossDown(g, i)}
  <1>1. at \in SUBSET (0 .. Len(g))
    BY DEF RecentPlaces
  <1>2. at # {} => Max(at) \in at
    <2> HIDE DEF at
    <2> QED
      BY <1>1, MaxIsGreatest
  <1>3. LatestCross(g, back) = IF at = {} THEN "none" ELSE IF CrossUp(g, Max(at)) THEN "bullish" ELSE "bearish"
    BY DEF LatestCross
  <1>4. \A i \in at : i \in RecentPlaces(g, back) /\ (CrossUp(g, i) \/ CrossDown(g, i))
    OBVIOUS
  <1> HIDE DEF at
  <1>5. LatestCross(g, back) = "bullish" => at # {} /\ CrossUp(g, Max(at))
    BY <1>3
  <1>6. LatestCross(g, back) = "bearish" => at # {} /\ ~CrossUp(g, Max(at))
    BY <1>3
  <1> QED
    BY <1>2, <1>4, <1>5, <1>6 DEF RecentUp, RecentDown

\* The averages' page counts a run above both exactly when the tone is green,
\* and names no cross the indicator did not see.
LEMMA AveragesAgree ==
    ASSUME NEW F, NEW w \in Nat, w > 0, Len(F) \in Nat, PriceVsMA(F).ok
    PROVE  /\ (PriceVsMA(F).tone = "green") <=> MASays(F, w).above > 0
           /\ MASays(F, w).cross = "bullish" => MACrosses(F).golden
           /\ MASays(F, w).cross = "bearish" => MACrosses(F).death
  <1> DEFINE n == Len(F)
             Above == AboveMA(F, n, FastMA) > 0 /\ AboveMA(F, n, SlowMA) > 0
             P(i) == i >= SlowMA /\ AboveMA(F, i, FastMA) > 0 /\ AboveMA(F, i, SlowMA) > 0
             R == {k \in 1 .. n : \A i \in (n - k + 1) .. n : i \in InWindow(F, w) /\ P(i)}
  <1>1. ~(n < MinBars["price_vs_ma"])
    BY ResultFields, Zenon DEF PriceVsMA
  <1>2. n >= SlowMA /\ n > 0
    <2>1. "price_vs_ma" \in PerTicker
      BY DEF PerTicker
    <2>2. MinBars["price_vs_ma"] \in Nat
      BY <2>1, LengthsArePositive
    <2> QED
      BY <1>1, <2>2, LengthsArePositive
  <1>3. (PriceVsMA(F).tone = "green") <=> Above
    <2>1. PriceVsMA(F).tone = IF Above THEN "green" ELSE IF AboveMA(F, Len(F), SlowMA) >= 0 THEN "yellow" ELSE "red"
      BY <1>1, ResultFields, Zenon DEF PriceVsMA
    <2> HIDE DEF Above
    <2> QED
      BY <2>1
  <1>4. MASays(F, w).above = Max({0} \cup R) /\ MASays(F, w).cross = LatestCross(MAGap(F), CrossBack)
    BY DEF MASays, RunOf
  <1>5. n \in DOMAIN F => n \in InWindow(F, w)
    BY <1>2 DEF InWindow
  <1>6. R # {} <=> Above
    <2>1. ASSUME NEW k \in R PROVE Above
      <3>1. n \in (n - k + 1) .. n
        BY <1>2
      <3> QED
        BY <2>1, <3>1
    <2>2. ASSUME Above PROVE 1 \in R
      <3>1. (n - 1 + 1) .. n = {n}
        BY <1>2
      <3>2. P(n)
        BY <1>2, <2>2
      <3> QED
        BY <1>2, <1>5, <3>1, <3>2
    <2> QED
      BY <2>1, <2>2
  <1>7. R \in SUBSET (1 .. n)
    OBVIOUS
  <1>8. Len(MAGap(F)) \in Nat
    BY <1>2, LengthsArePositive DEF MAGap
  <1>9. MACrosses(F).golden = RecentUp(MAGap(F), CrossBack) /\ MACrosses(F).death = RecentDown(MAGap(F), CrossBack)
    BY DEF MACrosses
  <1> HIDE DEF R, Above, n
  <1>10. (PriceVsMA(F).tone = "green") <=> MASays(F, w).above > 0
    BY <1>3, <1>4, <1>6, <1>7, RunIsThere DEF n
  <1> QED
    BY <1>4, <1>8, <1>9, <1>10, LatestIsRecent

\* An indicator that is judged has a latest row.
LEMMA LatestRow ==
    ASSUME NEW n \in PerTicker \cup MarketRegime, NEW V, NEW top \in Nat, NEW F, IsFrame(F, V, top),
           ~(Len(F) < MinBars[n])
    PROVE  Len(F) \in Nat /\ Len(F) > 0 /\ Back(F, 0) \in V
  <1>1. Len(F) \in Nat
    BY DEF IsFrame
  <1>2. MinBars[n] \in Nat /\ MinBars[n] > 0
    BY LengthsArePositive
  <1>3. Len(F) > 0
    BY <1>1, <1>2
  <1> QED
    BY <1>1, <1>3, BackIsValue

\* Overbought and oversold are red and green on the page as in the tone.
LEMMA RsiAgrees ==
    ASSUME NEW top \in Nat, NEW F, IsFrame(F, [day : Int, week : Int], top), Rsi(F).ok
    PROVE  /\ Rsi(F).tone = "red" => RsiSays(F).zone = "overbought"
           /\ Rsi(F).tone = "green" => RsiSays(F).zone = "oversold"
  <1> DEFINE v == Back(F, 0)
  <1>1. ~(Len(F) < MinBars["rsi"])
    BY ResultFields, Zenon DEF Rsi
  <1>2. "rsi" \in PerTicker \cup MarketRegime
    BY DEF PerTicker
  <1>3. v.day \in Int /\ v.week \in Int
    <2>1. v \in [day : Int, week : Int]
      BY <1>1, <1>2, LatestRow, Zenon
    <2> HIDE DEF v
    <2> QED
      BY <2>1
  <1>4. Rsi(F).tone = IF v.week # NoReading /\ v.day > 70 /\ v.week > 70 THEN "red"
                      ELSE IF v.week # NoReading /\ v.day < 30 /\ v.week < 30 THEN "green" ELSE "yellow"
    BY <1>1, ResultFields, Zenon DEF Rsi
  <1>5. RsiSays(F).zone = IF v.day < 30 THEN "oversold" ELSE IF v.day < 50 THEN "neutral_weak"
                          ELSE IF v.day <= 70 THEN "neutral_strong" ELSE "overbought"
    BY DEF RsiSays
  <1> HIDE DEF v
  <1> QED
    BY <1>3, <1>4, <1>5

\* Beyond a band is the same to the page and to the tone.
LEMMA BollingerAgrees ==
    ASSUME NEW top \in Nat, NEW F, IsFrame(F, Int, top), Bollinger(F).ok
    PROVE  /\ (Bollinger(F).tone = "red") <=> (BollingerSays(F).zone = "over")
           /\ (Bollinger(F).tone = "green") <=> (BollingerSays(F).zone = "under")
  <1> DEFINE p == Back(F, 0)
  <1>1. ~(Len(F) < MinBars["bollinger"])
    BY ResultFields, Zenon DEF Bollinger
  <1>2. "bollinger" \in PerTicker \cup MarketRegime
    BY DEF PerTicker
  <1>3. p \in Int
    BY <1>1, <1>2, LatestRow, Zenon
  <1>4. Bollinger(F).tone = IF p > 100 THEN "red" ELSE IF p < 0 THEN "green" ELSE "yellow"
    BY <1>1, ResultFields, Zenon DEF Bollinger
  <1>5. BollingerSays(F).zone =
          IF p < 0 THEN "under" ELSE IF p < 20 THEN "near_lower" ELSE IF p < 40 THEN "below_middle"
          ELSE IF p < 60 THEN "near_middle" ELSE IF p < 80 THEN "above_middle"
          ELSE IF p <= 100 THEN "near_upper" ELSE "over"
    BY DEF BollingerSays
  <1> HIDE DEF p
  <1> QED
    BY <1>3, <1>4, <1>5

\* A green trend is drawn as trending.
LEMMA AdxAgrees ==
    ASSUME NEW top \in Nat, NEW F, IsFrame(F, [adx : Int, di : Int], top), Adx(F).ok
    PROVE  /\ Adx(F).tone = "green" => AdxSays(F).zone = "trending"
           /\ AdxDirection(F) = "up" => AdxSays(F).direction = "up"
  <1> DEFINE v == Back(F, 0)
             fading == Len(F) > Slope /\ 2 * (v.adx - Back(F, Slope).adx) < -Slope
  <1>1. ~(Len(F) < MinBars["adx"])
    BY ResultFields, Zenon DEF Adx
  <1>2. "adx" \in PerTicker \cup MarketRegime
    BY DEF PerTicker
  <1>3. v.adx \in Int /\ v.di \in Int
    <2>1. v \in [adx : Int, di : Int]
      BY <1>1, <1>2, LatestRow, Zenon
    <2> HIDE DEF v
    <2> QED
      BY <2>1
  <1>4. Adx(F).tone = IF v.adx >= 25 /\ ~fading THEN "green" ELSE "yellow"
    BY <1>1, ResultFields, Zenon DEF Adx
  <1>5. /\ AdxSays(F).zone = IF v.adx < 20 THEN "choppy" ELSE IF v.adx < 25 THEN "ambiguous" ELSE "trending"
        /\ AdxSays(F).direction = IF v.di >= 0 THEN "up" ELSE "down"
        /\ AdxDirection(F) = IF v.di > 0 THEN "up" ELSE "down"
    BY DEF AdxSays, AdxDirection
  <1> HIDE DEF v, fading
  <1>6. Adx(F).tone = "green" => v.adx >= 25
    BY <1>4
  <1> QED
    BY <1>3, <1>5, <1>6

\* The band of the average range is the tone.
LEMMA AtrAgrees ==
    ASSUME NEW top \in Nat, NEW F, IsFrame(F, Int, top), Atr(F).ok
    PROVE  /\ (Atr(F).tone = "red") <=> (AtrSays(F).band = "high")
           /\ (Atr(F).tone = "green") <=> (AtrSays(F).band = "calm")
  <1> DEFINE p == Back(F, 0)
  <1>1. ~(Len(F) < MinBars["atr"])
    BY ResultFields, Zenon DEF Atr
  <1>2. "atr" \in PerTicker \cup MarketRegime
    BY DEF PerTicker
  <1>3. p \in Int
    BY <1>1, <1>2, LatestRow, Zenon
  <1>4. Atr(F).tone = IF p >= 35 THEN "red" ELSE IF p >= 15 THEN "yellow" ELSE "green"
    <2> DEFINE t == IF p >= 35 THEN "red" ELSE IF p >= 15 THEN "yellow" ELSE "green"
    <2>1. Atr(F) = Result(t, FrameAsOf(F))
      BY <1>1 DEF Atr
    <2> HIDE DEF t
    <2>2. Atr(F).tone = t
      BY <2>1, ResultFields, Zenon
    <2> QED
      BY <2>2 DEF t
  <1>5. AtrSays(F).band = IF p < 15 THEN "calm" ELSE IF p < 35 THEN "elevated" ELSE "high"
    BY DEF AtrSays
  <1> HIDE DEF p
  <1> QED
    BY <1>3, <1>4, <1>5

\* A tone of the oscillator has the page's arrow, and never the other side's head.
LEMMA ChoAgrees ==
    ASSUME NEW top \in Nat, NEW F, IsFrame(F, [cho : Int, vol : Int], top), Cho(F).ok
    PROVE  /\ Cho(F).tone = "green" => ChoSays(F).arrow = "up" /\ ChoSays(F).head # "sellers"
           /\ Cho(F).tone = "red" => ChoSays(F).arrow = "down" /\ ChoSays(F).head # "buyers"
  <1> DEFINE v == Back(F, 0)
             u == Back(F, 1)
             flat == 20 * Magnitude(v.cho) < v.vol
  <1>1. ~(Len(F) < MinBars["cho"])
    BY ResultFields, Zenon DEF Cho
  <1>2. Len(F) \in Nat /\ Len(F) > 1
    <2>1. "cho" \in PerTicker \cup MarketRegime
      BY DEF PerTicker
    <2>2. MinBars["cho"] \in Nat /\ MinBars["cho"] >= 2
      BY <2>1, LengthsArePositive
    <2>3. Len(F) \in Nat
      BY DEF IsFrame
    <2> QED
      BY <1>1, <2>2, <2>3
  <1>3. v.cho \in Int /\ u.cho \in Int
    <2>0. 0 \in Nat /\ 1 \in Nat /\ 0 < Len(F) /\ 1 < Len(F)
      BY <1>2
    <2>1. v \in [cho : Int, vol : Int] /\ u \in [cho : Int, vol : Int]
      BY <2>0, BackIsValue, Zenon
    <2> HIDE DEF v, u
    <2> QED
      BY <2>1
  <1>4. Cho(F).tone = IF flat THEN "yellow"
                      ELSE IF v.cho > 0 /\ v.cho > u.cho THEN "green"
                      ELSE IF v.cho < 0 /\ v.cho < u.cho THEN "red" ELSE "yellow"
    BY <1>1, <1>2, ResultFields, Zenon DEF Cho
  <1>5. /\ ChoSays(F).head = IF Magnitude(v.cho) < 1000 THEN "near_zero" ELSE IF v.cho > 0 THEN "buyers" ELSE "sellers"
        /\ ChoSays(F).arrow = IF v.cho > u.cho THEN "up" ELSE IF v.cho < u.cho THEN "down" ELSE "flat"
    BY DEF ChoSays
  <1> HIDE DEF v, u, flat
  <1>6. /\ Cho(F).tone = "green" => v.cho > 0 /\ v.cho > u.cho
        /\ Cho(F).tone = "red" => v.cho < 0 /\ v.cho < u.cho
    BY <1>4
  <1>7. v.cho > u.cho => ChoSays(F).arrow = "up"
    BY <1>5
  <1>8. v.cho < u.cho => ChoSays(F).arrow = "down"
    BY <1>3, <1>5
  <1>9. v.cho > 0 => ChoSays(F).head # "sellers"
    BY <1>5
  <1>10. v.cho < 0 => ChoSays(F).head # "buyers"
    BY <1>3, <1>5
  <1> QED
    BY <1>6, <1>7, <1>8, <1>9, <1>10

\* Volume, volatility, skew, unemployment and the ratios: page and tone read the
\* same thresholds.
LEMMA SpikeAgrees ==
    ASSUME NEW F, VolumeAnomaly(F).ok
    PROVE  VolumeAnomaly(F).tone \in {"green", "red"} => VolumeSays(F).spike
  <1> DEFINE avg == SumOver(F, Len(F) - Win, Len(F) - 1, LAMBDA v : v.vol)
             spike == avg > 0 /\ Win * Back(F, 0).vol >= 2 * avg
             up == Back(F, 0).c > Back(F, 1).c
             down == Back(F, 0).c < Back(F, 1).c
  <1>1. ~(Len(F) < MinBars["volume_anomaly"])
    BY ResultFields, Zenon DEF VolumeAnomaly
  <1>2. VolumeAnomaly(F).tone = IF spike /\ up THEN "green" ELSE IF spike /\ down THEN "red" ELSE "yellow"
    BY <1>1, ResultFields, Zenon DEF VolumeAnomaly
  <1>3. VolumeSays(F).spike = spike
    BY DEF VolumeSays
  <1> HIDE DEF spike, up, down
  <1>4. VolumeAnomaly(F).tone \in {"green", "red"} => spike
    BY <1>2
  <1> QED
    BY <1>3, <1>4, Zenon

LEMMA LevelsAgree ==
    ASSUME NEW F
    PROVE  /\ Vix(F).ok => ((Vix(F).tone = "green") <=> (VixSays(F).zone = "normal"))
                           /\ ((Vix(F).tone = "red") <=> (VixSays(F).zone = "panic"))
           /\ Skew(F).ok => ((Skew(F).tone = "green") <=> (SkewSays(F).zone = "normal"))
                            /\ ((Skew(F).tone = "red") <=> (SkewSays(F).zone = "high"))
           /\ Unrate(F).ok => ((Unrate(F).tone = "green") <=> (UnrateSays(F).zone = "healthy"))
                              /\ ((Unrate(F).tone = "red") <=> (UnrateSays(F).zone = "recession"))
  <1>1. ASSUME Vix(F).ok
        PROVE  /\ (Vix(F).tone = "green") <=> (VixSays(F).zone = "normal")
               /\ (Vix(F).tone = "red") <=> (VixSays(F).zone = "panic")
    <2> DEFINE a == Back(F, 0) < 12
               b == Back(F, 0) <= 20
               c == Back(F, 0) <= 30
    <2>1. ~(Len(F) < MinBars["vix"])
      BY <1>1, ResultFields, Zenon DEF Vix
    <2>2. Vix(F).tone = IF a THEN "yellow" ELSE IF b THEN "green" ELSE IF c THEN "yellow" ELSE "red"
      <3> DEFINE t == IF a THEN "yellow" ELSE IF b THEN "green" ELSE IF c THEN "yellow" ELSE "red"
      <3>1. Vix(F) = Result(t, FrameAsOf(F))
        BY <2>1 DEF Vix
      <3> HIDE DEF t
      <3>2. Vix(F).tone = t
        BY <3>1, ResultFields, Zenon
      <3> QED
        BY <3>2 DEF t
    <2>3. VixSays(F).zone = IF a THEN "low" ELSE IF b THEN "normal" ELSE IF c THEN "elevated" ELSE "panic"
      BY DEF VixSays
    <2> HIDE DEF a, b, c
    <2> QED
      BY <2>2, <2>3
  <1>2. ASSUME Skew(F).ok
        PROVE  /\ (Skew(F).tone = "green") <=> (SkewSays(F).zone = "normal")
               /\ (Skew(F).tone = "red") <=> (SkewSays(F).zone = "high")
    <2> DEFINE a == Back(F, 0) <= 130
               b == Back(F, 0) < 145
    <2>1. ~(Len(F) < MinBars["skew"])
      BY <1>2, ResultFields, Zenon DEF Skew
    <2>2. Skew(F).tone = IF a THEN "green" ELSE IF b THEN "yellow" ELSE "red"
      BY <2>1, ResultFields, Zenon DEF Skew
    <2>3. SkewSays(F).zone = IF a THEN "normal" ELSE IF b THEN "elevated" ELSE "high"
      BY DEF SkewSays
    <2> HIDE DEF a, b
    <2> QED
      BY <2>2, <2>3
  <1>3. ASSUME Unrate(F).ok
        PROVE  /\ (Unrate(F).tone = "green") <=> (UnrateSays(F).zone = "healthy")
               /\ (Unrate(F).tone = "red") <=> (UnrateSays(F).zone = "recession")
    <2> DEFINE a == Sahm(F) >= 15
               b == Sahm(F) >= 9
    <2>1. ~(Len(F) < MinBars["unrate"])
      BY <1>3, ResultFields, Zenon DEF Unrate
    <2>2. Unrate(F).tone = IF a THEN "red" ELSE IF b THEN "yellow" ELSE "green"
      <3> DEFINE t == IF a THEN "red" ELSE IF b THEN "yellow" ELSE "green"
      <3>1. Unrate(F) = Result(t, FrameAsOf(F))
        BY <2>1 DEF Unrate
      <3> HIDE DEF t
      <3>2. Unrate(F).tone = t
        BY <3>1, ResultFields, Zenon
      <3> QED
        BY <3>2 DEF t
    <2>3. UnrateSays(F).zone = IF a THEN "recession" ELSE IF b THEN "warning" ELSE "healthy"
      BY DEF UnrateSays
    <2> HIDE DEF a, b
    <2> QED
      BY <2>2, <2>3
  <1> QED
    BY <1>1, <1>2, <1>3

LEMMA RatiosAgree ==
    ASSUME NEW F, NEW G, RatioTone(F, G).ok
    PROVE  /\ (RatioTone(F, G).tone = "green") <=> (RatioSays(F, G).head = "up")
           /\ (RatioTone(F, G).tone = "red") <=> (RatioSays(F, G).head = "down")
  <1> DEFINE slope == RatioSlope(F, G)
  <1>1. /\ ~(F = <<>> \/ G = <<>>)
        /\ ~(\E n \in {Len(F), Len(G), Cardinality(Shared(F, G))} : n < MinBars["hyg_ief"])
    BY ResultFields, Zenon DEF RatioTone
  <1>2. RatioTone(F, G).tone = CASE slope = "up" -> "green" [] slope = "down" -> "red" [] OTHER -> "yellow"
    BY <1>1, ResultFields, Zenon DEF RatioTone
  <1>3. RatioSays(F, G).head = slope
    BY DEF RatioSays
  <1> HIDE DEF slope
  <1> QED
    BY <1>2, <1>3

\* Net accumulation beyond the tone's threshold is beyond the page's.
LEMMA NetDaysAgree ==
    ASSUME NEW top \in Nat, NEW F, IsFrame(F, [move : Int, vol : Int], top), AdDay(F).ok
    PROVE  /\ AdDay(F).tone = "green" => AdSays(F).head = "accumulation"
           /\ AdDay(F).tone = "red" => AdSays(F).head = "distribution"
  <1> DEFINE net == NetDays(F, AdWin)
             S == (Len(F) - AdWin + 1) .. Len(F)
             up == {i \in S : F[i].v.move > 0 /\ Expanding(F, i)}
             down == {i \in S : F[i].v.move < 0 /\ Expanding(F, i)}
  <1>1. ~(Len(F) < MinBars["ad_day"])
    BY ResultFields, Zenon DEF AdDay
  <1>2. IsFiniteSet(S)
    <2>1. Len(F) - AdWin + 1 \in Int /\ Len(F) \in Int
      BY LengthsArePositive DEF IsFrame
    <2> QED
      BY <2>1, FS_Interval
  <1>3. Cardinality(up) \in Nat /\ Cardinality(down) \in Nat
    <2>1. up \subseteq S /\ down \subseteq S
      OBVIOUS
    <2> HIDE DEF S, up, down
    <2> QED
      BY <1>2, <2>1, FS_Subset, FS_CardinalityType
  <1>4. net = Cardinality(up) - Cardinality(down)
    BY DEF NetDays
  <1>5. AdDay(F).tone = IF net >= 3 THEN "green" ELSE IF net <= -3 THEN "red" ELSE "yellow"
    BY <1>1, ResultFields, Zenon DEF AdDay
  <1>6. AdSays(F).head = IF net > 1 THEN "accumulation" ELSE IF net < -1 THEN "distribution" ELSE "neutral"
    BY DEF AdSays, AdLabel
  <1> HIDE DEF up, down
  <1>7. net \in Int
    BY <1>3, <1>4
  <1> HIDE DEF net
  <1> QED
    BY <1>5, <1>6, <1>7

\* The newest cross of the page's longer window, if it is fresh, is the newest of
\* the tone's shorter one.
LEMMA MacdAgrees ==
    ASSUME NEW top \in Nat, NEW F, IsFrame(F, Int, top), Macd(F).ok, NEW w \in Nat, w > MacdBack
    PROVE  LET fresh == MacdSays(F, w).age < MacdBack
           IN  /\ (Macd(F).tone = "green") <=> (MacdSays(F, w).cross = "bullish" /\ fresh)
               /\ (Macd(F).tone = "red") <=> (MacdSays(F, w).cross = "bearish" /\ fresh)
  <1> DEFINE n == Len(F)
             h == Histogram(F)
             at(b) == {i \in RecentPlaces(h, b) : CrossUp(h, i) \/ CrossDown(h, i)}
             M == at(MacdBack)
             W == at(w - 1)
             up(i) == CrossUp(h, i)
  <1>1. n \in Nat /\ Len(h) = n /\ MacdBack \in Nat /\ MacdBack > 0
    BY LengthsArePositive DEF IsFrame, Histogram
  <1>2. /\ M \in SUBSET (1 .. n) /\ W \in SUBSET (1 .. n)
        /\ M \in SUBSET (0 .. n) /\ W \in SUBSET (0 .. n)
    BY <1>1 DEF RecentPlaces
  <1>3. \A i : i \in M <=> i \in W /\ i > n - MacdBack
    <2>1. ASSUME NEW i
          PROVE  i \in RecentPlaces(h, MacdBack) <=> i \in RecentPlaces(h, w - 1) /\ i > n - MacdBack
      BY <1>1 DEF RecentPlaces
    <2> QED
      BY <2>1
  <1>4. ~(Len(F) < MinBars["macd"])
    BY ResultFields, Zenon DEF Macd
  <1>5. Macd(F).tone = CASE LatestCross(h, MacdBack) = "bullish" -> "green"
                          [] LatestCross(h, MacdBack) = "bearish" -> "red" [] OTHER -> "yellow"
    BY <1>4, ResultFields, Zenon DEF Macd
  <1>6. \A b : LatestCross(h, b) = IF at(b) = {} THEN "none" ELSE IF up(Max(at(b))) THEN "bullish" ELSE "bearish"
    BY DEF LatestCross
  <1>7. /\ MacdSays(F, w).cross = LatestCross(h, w - 1)
        /\ MacdSays(F, w).age = IF W = {} THEN 0 ELSE n - Max(W)
    BY <1>1, Zenon DEF MacdSays
  <1>8. /\ M # {} => Macd(F).tone = IF up(Max(M)) THEN "green" ELSE "red"
        /\ M = {} => Macd(F).tone = "yellow"
    <2>1. LatestCross(h, MacdBack) = IF M = {} THEN "none" ELSE IF up(Max(M)) THEN "bullish" ELSE "bearish"
      BY <1>6
    <2> HIDE DEF M, up
    <2> QED
      BY <1>5, <2>1
  <1>9. /\ W # {} => MacdSays(F, w).cross = IF up(Max(W)) THEN "bullish" ELSE "bearish"
        /\ W = {} => MacdSays(F, w).cross = "none"
    <2>1. LatestCross(h, w - 1) = IF W = {} THEN "none" ELSE IF up(Max(W)) THEN "bullish" ELSE "bearish"
      BY <1>6
    <2> HIDE DEF W, up
    <2> QED
      BY <1>7, <2>1
  <1> HIDE DEF M, W, n, h, at, up
  <1>10. CASE W = {}
    <2>1. M = {}
      BY <1>3, <1>10
    <2> QED
      BY <1>8, <1>9, <1>10, <2>1
  <1>11. CASE W # {}
    <2>1. Max(W) \in W /\ \A y \in W : Max(W) >= y
      BY <1>1, <1>2, <1>11, MaxIsGreatest
    <2>2. M # {} => Max(M) \in M /\ \A y \in M : Max(M) >= y
      BY <1>1, <1>2, MaxIsGreatest
    <2>3. Max(W) \in 1 .. n
      BY <1>2, <2>1, Zenon
    <2>4. MacdSays(F, w).age < MacdBack <=> Max(W) > n - MacdBack
      BY <1>1, <1>7, <1>11, <2>3
    <2>5. CASE Max(W) > n - MacdBack
      <3>1. Max(W) \in M
        BY <1>3, <2>1, <2>5
      <3>2. Max(M) \in M /\ Max(M) >= Max(W)
        BY <2>2, <3>1
      <3>3. Max(M) \in W
        BY <1>3, <3>2
      <3>4. Max(W) >= Max(M) /\ Max(M) \in 1 .. n
        BY <1>2, <2>1, <3>3
      <3>5. Max(M) = Max(W)
        BY <2>3, <3>2, <3>4
      <3> QED
        BY <1>8, <1>9, <1>11, <2>4, <2>5, <3>1, <3>5
    <2>6. CASE ~(Max(W) > n - MacdBack)
      <3>1. M = {}
        <4>1. ASSUME NEW y \in M PROVE FALSE
          <5>1. y \in W /\ y > n - MacdBack
            BY <1>3
          <5>2. Max(W) >= y /\ y \in 1 .. n
            BY <1>2, <2>1, <5>1
          <5> QED
            BY <1>1, <2>3, <2>6, <5>1, <5>2
        <4> QED
          BY <4>1
      <3> QED
        BY <1>8, <2>4, <2>6, <3>1
    <2> QED
      BY <2>5, <2>6
  <1> QED
    BY <1>10, <1>11

\* A run that ends at the last place is at least s long exactly when the last s
\* places are good.
LEMMA LongRun ==
    ASSUME NEW m \in Nat, NEW Good, NEW s \in 1 .. m
    PROVE  Max({0} \cup {k \in 1 .. m : \A i \in (m - k + 1) .. m : i \in Good}) >= s
             <=> \A i \in (m - s + 1) .. m : i \in Good
  <1> DEFINE R == {k \in 1 .. m : \A i \in (m - k + 1) .. m : i \in Good}
             x == Max({0} \cup R)
  <1>1. R \in SUBSET (1 .. m)
    OBVIOUS
  <1>2. x \in Nat /\ (x > 0 <=> R # {}) /\ (R # {} => x \in R) /\ \A k \in R : x >= k
    <2> HIDE DEF R
    <2> QED
      BY <1>1, RunIsThere
  <1>3. ASSUME \A i \in (m - s + 1) .. m : i \in Good PROVE x >= s
    <2>1. s \in R
      BY <1>3
    <2> HIDE DEF R, x
    <2> QED
      BY <1>2, <2>1
  <1>4. ASSUME x >= s, NEW i \in (m - s + 1) .. m PROVE i \in Good
    <2>1. x > 0
      <3> HIDE DEF x
      <3> QED
        BY <1>2, <1>4
    <2>2. x \in R
      <3> HIDE DEF x, R
      <3> QED
        BY <1>2, <2>1
    <2>3. x \in 1 .. m /\ \A j \in (m - x + 1) .. m : j \in Good
      BY <2>2
    <2> HIDE DEF x
    <2>4. i \in (m - x + 1) .. m
      BY <1>4, <2>3
    <2> QED
      BY <2>3, <2>4
  <1> QED
    BY <1>3, <1>4

\* The dollar's page finds a run of Streak steps exactly when the tone does.
LEMMA DxyAgrees ==
    ASSUME NEW top \in Nat, NEW F, IsFrame(F, Int, top), Dxy(F).ok
    PROVE  /\ (Dxy(F).tone = "red") <=> DxySays(F).rising
           /\ (Dxy(F).tone = "green") <=> DxySays(F).falling
  <1> DEFINE m == Len(F) - Win
             t == DollarSteps(F)
             Up == {k \in 1 .. m : t[k] > 0}
             Down == {k \in 1 .. m : t[k] < 0}
             run(sign) == Max({0} \cup {n \in 1..Len(t) : \A k \in (Len(t) - n + 1)..Len(t) : sign * t[k] > 0})
  <1>1. ~(Len(F) < MinBars["dxy"])
    BY ResultFields, Zenon DEF Dxy
  <1>2. /\ Len(F) \in Nat /\ Win \in Nat /\ Win > 0 /\ Streak \in Nat /\ Streak > 0
        /\ Len(F) >= Win + Streak
    <2>1. "dxy" \in PerTicker \cup MarketRegime
      BY DEF PerTicker
    <2>2. MinBars["dxy"] \in Nat
      BY <2>1, LengthsArePositive
    <2>3. Len(F) \in Nat
      BY DEF IsFrame
    <2> QED
      BY <1>1, <2>2, <2>3, LengthsArePositive
  <1>3. m \in Nat /\ Streak \in 1 .. m
    BY <1>2
  <1>4. Len(t) = m /\ DOMAIN t = 1 .. m
    BY <1>3 DEF DollarSteps
  <1>5. ASSUME NEW k \in 1 .. m PROVE t[k] \in Int
    <2>1. /\ k + Win \in 0 .. Len(F) /\ k + Win - 1 \in 0 .. Len(F)
          /\ Win \in Nat /\ Win <= k + Win /\ Win <= k + Win - 1
      BY <1>2
    <2>2. SumTo(F, k + Win, Win) \in Int /\ SumTo(F, k + Win - 1, Win) \in Int
      BY <2>1, WindowIsNumber
    <2>3. t[k] = SumTo(F, k + Win, Win) - SumTo(F, k + Win - 1, Win)
      BY DEF DollarSteps
    <2> QED
      BY <2>2, <2>3
  <1>6. LastSteps(F) = (m - Streak + 1) .. m
    <2>1. LastSteps(F) = {k \in 1 .. m : k > Len(F) - Win - Streak}
      BY <1>4 DEF LastSteps
    <2> QED
      BY <1>2, <2>1
  <1>7. Dxy(F).tone = IF \A k \in LastSteps(F) : t[k] > 0 THEN "red"
                      ELSE IF \A k \in LastSteps(F) : t[k] < 0 THEN "green" ELSE "yellow"
    BY <1>1, ResultFields, Zenon DEF Dxy
  <1>8. DxySays(F).rising = (run(1) >= Streak) /\ DxySays(F).falling = (run(-1) >= Streak)
    BY Zenon DEF DxySays
  <1> HIDE DEF m, t
  <1>9. /\ run(1) = Max({0} \cup {n \in 1..m : \A k \in (m - n + 1)..m : k \in Up})
        /\ run(-1) = Max({0} \cup {n \in 1..m : \A k \in (m - n + 1)..m : k \in Down})
    <2>1. ASSUME NEW n \in 1 .. m, NEW k \in (m - n + 1) .. m
          PROVE  (1 * t[k] > 0 <=> k \in Up) /\ ((-1) * t[k] > 0 <=> k \in Down)
      <3>1. k \in 1 .. m
        BY <1>3
      <3>2. t[k] \in Int
        BY <1>5, <3>1
      <3> QED
        BY <3>1, <3>2
    <2>2. /\ {n \in 1..m : \A k \in (m - n + 1)..m : 1 * t[k] > 0} = {n \in 1..m : \A k \in (m - n + 1)..m : k \in Up}
          /\ {n \in 1..m : \A k \in (m - n + 1)..m : (-1) * t[k] > 0} =
             {n \in 1..m : \A k \in (m - n + 1)..m : k \in Down}
      <3> HIDE DEF Up, Down
      <3> QED
        BY <2>1, Zenon
    <2> HIDE DEF Up, Down
    <2> QED
      BY <1>4, <2>2, Zenon
  <1>10. /\ run(1) >= Streak <=> \A k \in (m - Streak + 1) .. m : k \in Up
         /\ run(-1) >= Streak <=> \A k \in (m - Streak + 1) .. m : k \in Down
    <2> DEFINE L(Good) == Max({0} \cup {n \in 1..m : \A k \in (m - n + 1)..m : k \in Good})
    <2>1. ASSUME NEW Good PROVE L(Good) >= Streak <=> \A k \in (m - Streak + 1) .. m : k \in Good
      <3> HIDE DEF Up, Down, run
      <3> QED
        BY <1>3, LongRun, Zenon
    <2>2. run(1) = L(Up) /\ run(-1) = L(Down)
      BY <1>9, Zenon
    <2> HIDE DEF L, Up, Down, run
    <2> QED
      BY <2>1, <2>2, Zenon
  <1>11. /\ (\A k \in (m - Streak + 1) .. m : k \in Up) <=> \A k \in LastSteps(F) : t[k] > 0
         /\ (\A k \in (m - Streak + 1) .. m : k \in Down) <=> \A k \in LastSteps(F) : t[k] < 0
    <2>1. \A k \in (m - Streak + 1) .. m : k \in 1 .. m
      BY <1>3
    <2> QED
      BY <1>6, <2>1
  <1>12. ~((\A k \in LastSteps(F) : t[k] > 0) /\ (\A k \in LastSteps(F) : t[k] < 0))
    <2>1. m \in LastSteps(F) /\ m \in 1 .. m
      BY <1>3, <1>6
    <2>2. t[m] \in Int
      BY <1>5, <2>1
    <2> QED
      BY <2>1, <2>2
  <1> HIDE DEF Up, Down, run
  <1>13. DxySays(F).rising <=> \A k \in LastSteps(F) : t[k] > 0
    BY <1>8, <1>10, <1>11, Zenon
  <1>14. DxySays(F).falling <=> \A k \in LastSteps(F) : t[k] < 0
    BY <1>8, <1>10, <1>11, Zenon
  <1> DEFINE Rise == \A k \in LastSteps(F) : t[k] > 0
             Fall == \A k \in LastSteps(F) : t[k] < 0
  <1>15. Dxy(F).tone = (IF Rise THEN "red" ELSE IF Fall THEN "green" ELSE "yellow") /\ ~(Rise /\ Fall)
    BY <1>7, <1>12, Zenon
  <1>16. (DxySays(F).rising <=> Rise) /\ (DxySays(F).falling <=> Fall)
    BY <1>13, <1>14, Zenon
  <1> HIDE DEF Rise, Fall
  <1>17. ((Dxy(F).tone = "red") <=> Rise) /\ ((Dxy(F).tone = "green") <=> Fall)
    BY <1>15
  <1> QED
    BY <1>16, <1>17, Zenon

\* The rate's page looks back over more days than the tone, and compares the
\* same two days.
LEMMA FedAgrees ==
    ASSUME NEW top \in Nat, NEW F, IsFrame(F, Int, top), FedRate(F).ok, NEW w \in Nat, w > RateDays
    PROVE  /\ (FedRate(F).tone = "red") <=> FedSays(F, w).delta > 25
           /\ (FedRate(F).tone = "green") <=> FedSays(F, w).delta < -25
  <1> DEFINE n == Len(F)
             end == FrameAsOf(F)
             before == {i \in DOMAIN F : F[i].d <= end - RateDays}
             delta == Back(F, 0) - F[Max(before)].v
             known == {d \in (end - w + 1)..end : \E i \in DOMAIN F : F[i].d <= d}
             span == (end - RateDays) .. end
  <1>1. before # {}
    BY ResultFields, Zenon DEF FedRate
  <1>2. n \in Nat /\ n > 0 /\ DOMAIN F = 1 .. n /\ before \in SUBSET (0 .. n)
    <2>1. Len(F) \in Nat /\ F = [k \in 1 .. Len(F) |-> F[k]]
      BY DEF IsFrame
    <2>2. DOMAIN F = 1 .. Len(F)
      BY <2>1, Zenon
    <2>3. PICK i \in before : TRUE
      BY <1>1
    <2>4. i \in 1 .. Len(F)
      BY <2>2, <2>3
    <2> QED
      BY <2>1, <2>2, <2>4
  <1>3. Max(before) \in before
    <2> HIDE DEF before, n
    <2> QED
      BY <1>1, <1>2, MaxIsGreatest
  <1>4. end = F[n].d /\ end \in 1 .. top /\ RateDays \in Nat /\ RateDays > 0
    <2>1. F # <<>> /\ n \in 1 .. n
      BY <1>2
    <2>2. FrameAsOf(F) = F[n].d
      BY <2>1 DEF FrameAsOf
    <2>3. F[n].d \in 1 .. top
      BY <2>1 DEF IsFrame
    <2> QED
      BY <2>2, <2>3, LengthsArePositive
  <1>5. span \subseteq known /\ IsFiniteSet(known)
    <2>1. PICK i \in DOMAIN F : F[i].d <= end - RateDays
      BY <1>3
    <2>2. F[i].d \in Int
      BY <1>2 DEF IsFrame
    <2> HIDE DEF end
    <2>3. ASSUME NEW d \in span PROVE d \in known
      <3>1. d \in (end - w + 1) .. end
        BY <1>4
      <3>2. F[i].d <= d
        BY <1>4, <2>1, <2>2
      <3> QED
        BY <3>1, <3>2
    <2>4. end - w + 1 \in Int /\ end \in Int /\ known \subseteq (end - w + 1) .. end
      BY <1>4
    <2> HIDE DEF known, span
    <2>5. IsFiniteSet(known)
      BY <2>4, FS_Interval, FS_Subset
    <2> QED
      BY <2>3, <2>5
  <1>6. ~(Cardinality(known) <= RateDays)
    <2>1. end - RateDays \in Int /\ end \in Int /\ end - RateDays <= end
      BY <1>4
    <2>2. Cardinality(span) = RateDays + 1
      <3>1. Cardinality(span) = IF end - RateDays > end THEN 0 ELSE end - (end - RateDays) + 1
        BY <2>1, FS_Interval, Zenon
      <3> HIDE DEF span, end
      <3> QED
        BY <1>4, <2>1, <3>1
    <2>3. Cardinality(known) \in Nat /\ Cardinality(span) <= Cardinality(known)
      <3> HIDE DEF known, span
      <3> QED
        BY <1>5, FS_Subset, FS_CardinalityType
    <2> HIDE DEF known, span
    <2> QED
      BY <1>4, <2>2, <2>3
  <1>7. RateOn(F, end - RateDays) = F[Max(before)].v
    BY DEF RateOn
  <1>8. RateOn(F, end) = Back(F, 0)
    <2> DEFINE A == {i \in DOMAIN F : F[i].d <= end}
    <2>1. n \in 1 .. n /\ \A i \in 1 .. n : F[i].d \in Int
      BY <1>2 DEF IsFrame
    <2>2. n \in A
      BY <1>2, <1>4, <2>1
    <2>3. A \in SUBSET (0 .. n)
      BY <1>2
    <2>4. Max(A) \in A /\ Max(A) >= n
      <3> HIDE DEF A, n
      <3> QED
        BY <1>2, <2>2, <2>3, MaxIsGreatest
    <2>5. Max(A) = n
      <3>1. Max(A) \in 0 .. n
        BY <2>3, <2>4, Zenon
      <3> HIDE DEF A, n
      <3> QED
        BY <1>2, <2>4, <3>1
    <2>6. RateOn(F, end) = F[Max(A)].v
      BY Zenon DEF RateOn
    <2>7. Back(F, 0) = F[n].v
      <3>1. n - 0 = n
        BY <1>2
      <3> QED
        BY <3>1, Zenon DEF Back
    <2> QED
      BY <2>5, <2>6, <2>7, Zenon
  <1>9. FedSays(F, w).delta =
          RateOn(F, end) - RateOn(F, IF Cardinality(known) <= RateDays THEN Min(known) ELSE end - RateDays)
    BY DEF FedSays
  <1>10. FedSays(F, w).delta = delta
    <2> HIDE DEF known
    <2>1. FedSays(F, w).delta = RateOn(F, end) - RateOn(F, end - RateDays)
      BY <1>6, <1>9, Zenon
    <2> QED
      BY <1>7, <1>8, <2>1, Zenon
  <1>11. FedRate(F).tone = IF delta < -25 THEN "green" ELSE IF delta > 25 THEN "red" ELSE "yellow"
    BY <1>1, ResultFields, Zenon DEF FedRate
  <1>12. delta \in Int
    <2>1. Back(F, 0) \in Int
      <3>1. 0 \in Nat /\ 0 < Len(F)
        BY <1>2
      <3> QED
        BY <3>1, BackIsValue, Zenon
    <2>2. F[Max(before)].v \in Int
      <3>1. Max(before) \in 1 .. n
        BY <1>2, <1>3
      <3> QED
        BY <3>1 DEF IsFrame
    <2> QED
      BY <2>1, <2>2
  <1> HIDE DEF delta
  <1> QED
    BY <1>10, <1>11, <1>12

\* Two frames on the same dates share all of their rows.
LEMMA SharedRows ==
    ASSUME NEW V, NEW top \in Nat, NEW F, NEW G, IsFrame(F, V, top), IsFrame(G, V, top), Aligned(F, G)
    PROVE  OnDates(F, Shared(F, G)) = F /\ OnDates(G, Shared(F, G)) = G
  <1>1. DOMAIN F = 1 .. Len(F) /\ DOMAIN G = 1 .. Len(G)
    BY DEF IsFrame
  <1>2. DOMAIN F = DOMAIN G /\ \A i \in DOMAIN F : F[i].d = G[i].d
    <2> DEFINE f == [i \in DOMAIN F |-> F[i].d]
               g == [i \in DOMAIN G |-> G[i].d]
    <2>1. f = g /\ DOMAIN f = DOMAIN F /\ DOMAIN g = DOMAIN G
      BY DEF Aligned
    <2>2. DOMAIN F = DOMAIN G
      BY <2>1, Zenon
    <2>3. ASSUME NEW i \in DOMAIN F PROVE f[i] = F[i].d /\ g[i] = G[i].d
      BY <2>2
    <2> QED
      BY <2>1, <2>2, <2>3, Zenon
  <1>3. /\ \A i \in 1 .. Len(F) : F[i].d \in Shared(F, G)
        /\ \A i \in 1 .. Len(G) : G[i].d \in Shared(F, G)
    BY <1>1, <1>2 DEF Shared
  <1> QED
    BY <1>3, DatedFrame

\* A lead in the tone is a lead on the page, where both see the same rows.
LEMMA StrengthAgrees ==
    ASSUME NEW top \in Nat, NEW F, NEW G, IsFrame(F, Nat, top), IsFrame(G, Nat, top),
           RelativeStrength(F, G).ok, NEW w, Aligned(F, G)
    PROVE  /\ RelativeStrength(F, G).tone = "green" => StrengthSays(F, G, w).diff > 0
           /\ RelativeStrength(F, G).tone = "red" => StrengthSays(F, G, w).diff < 0
  <1> DEFINE a == Back(F, 0) * Back(G, Win)
             b == Back(G, 0) * Back(F, Win)
             unit == Back(F, Win) * Back(G, Win)
  <1>1. /\ ~(F = <<>> \/ G = <<>>)
        /\ ~(Len(F) < MinBars["relative_strength"] \/ Len(G) < MinBars["relative_strength"])
    BY ResultFields, Zenon DEF RelativeStrength
  <1>2. /\ Win \in Nat /\ 0 \in Nat /\ Len(F) \in Nat
        /\ Win < Len(F) /\ 0 < Len(F) /\ Win < Len(G) /\ 0 < Len(G)
    <2>1. "relative_strength" \in PerTicker \cup MarketRegime
      BY DEF PerTicker
    <2>2. MinBars["relative_strength"] \in Nat /\ MinBars["relative_strength"] > Win
      BY <2>1, LengthsArePositive
    <2>3. Len(F) \in Nat /\ Len(G) \in Nat
      BY DEF IsFrame
    <2> QED
      BY <1>1, <2>2, <2>3, LengthsArePositive
  <1>3. Back(F, 0) \in Nat /\ Back(G, 0) \in Nat /\ Back(F, Win) \in Nat /\ Back(G, Win) \in Nat
    BY <1>2, BackIsValue, Zenon
  <1>4. RelativeStrength(F, G).tone =
          IF 50 * (a - b) > unit THEN "green" ELSE IF 50 * (a - b) < -unit THEN "red" ELSE "yellow"
    BY <1>1, ResultFields, Zenon DEF RelativeStrength
  <1>5. StrengthSays(F, G, w).diff = a - b
    <2>1. OnDates(F, Shared(F, G)) = F /\ OnDates(G, Shared(F, G)) = G
      BY SharedRows
    <2>2. StrengthSays(F, G, w).diff = IF Len(F) > Win THEN Lead(F, G, Win) ELSE 0
      BY <2>1, Zenon DEF StrengthSays
    <2>3. Len(F) > Win
      BY <1>2
    <2> QED
      BY <2>2, <2>3, Zenon DEF Lead
  <1>6. a \in Nat /\ b \in Nat /\ unit \in Nat
    BY <1>3
  <1> HIDE DEF a, b, unit
  <1> QED
    BY <1>4, <1>5, <1>6

\* The term structure is read the same way, where both see the same rows.
LEMMA VixTermAgrees ==
    ASSUME NEW top \in Nat, NEW F, NEW G, IsFrame(F, Nat, top), IsFrame(G, Nat, top),
           VixTerm(F, G).ok, Aligned(F, G)
    PROVE  /\ (VixTerm(F, G).tone = "green") <=> (VixTermSays(F, G).zone = "contango")
           /\ (VixTerm(F, G).tone = "red") <=> (VixTermSays(F, G).zone = "inverted")
  <1> DEFINE f == Back(F, 0)
             g == Back(G, 0)
  <1>1. /\ ~(F = <<>> \/ G = <<>>)
        /\ ~(Len(F) < MinBars["vix_term"] \/ Len(G) < MinBars["vix_term"])
    BY ResultFields, Zenon DEF VixTerm
  <1>2. f \in Nat /\ g \in Nat
    <2>1. "vix_term" \in PerTicker \cup MarketRegime
      BY DEF MarketRegime
    <2>2. ~(Len(F) < MinBars["vix_term"]) /\ ~(Len(G) < MinBars["vix_term"])
      BY <1>1
    <2> QED
      BY <2>1, <2>2, LatestRow, Zenon
  <1>3. VixTerm(F, G).tone = IF f >= g THEN "red" ELSE IF 100 * f < 95 * g THEN "green" ELSE "yellow"
    BY <1>1, ResultFields, Zenon DEF VixTerm
  <1>4. VixTermSays(F, G).zone = IF 100 * f < 95 * g THEN "contango" ELSE IF f < g THEN "flat" ELSE "inverted"
    <2>1. OnDates(F, Shared(F, G)) = F /\ OnDates(G, Shared(F, G)) = G
      BY SharedRows
    <2> QED
      BY <2>1, Zenon DEF VixTermSays
  <1> HIDE DEF f, g
  <1> QED
    BY <1>2, <1>3, <1>4

\* An inverted curve is red.
LEMMA YieldAgrees ==
    ASSUME NEW top \in Nat, NEW F, NEW G, IsFrame(F, Int, top), IsFrame(G, Int, top),
           YieldSpread(F, G).ok, NEW w
    PROVE  YieldSays(F, G, w).head = "inverted" => YieldSpread(F, G).tone = "red"
  <1> DEFINE D == Shared(F, G)
             A == OnDates(F, D)
             B == OnDates(G, D)
             f == Back(A, 0)
             g == Back(B, 0)
             inverted == {i \in InWindow(A, w) : A[i].v < B[i].v}
  <1>1. D # {}
    BY ResultFields, Zenon DEF YieldSpread
  <1>2. PICK i \in DOMAIN F, j \in DOMAIN G : F[i].d \in D /\ G[j].d \in D
    <2>1. PICK d \in D : TRUE
      BY <1>1
    <2>2. d \in {F[i].d : i \in DOMAIN F} /\ d \in {G[i].d : i \in DOMAIN G}
      BY <2>1 DEF Shared
    <2> HIDE DEF D
    <2> QED
      BY <2>1, <2>2
  <1>3. i \in 1 .. Len(F) /\ j \in 1 .. Len(G)
    BY DEF IsFrame
  <1>4. IsFrame(A, Int, top) /\ IsFrame(B, Int, top) /\ Len(A) > 0 /\ Len(B) > 0
    <2> HIDE DEF D
    <2> QED
      BY <1>2, <1>3, DatedFrame
  <1>5. f \in Int /\ g \in Int
    <2>1. 0 \in Nat /\ 0 < Len(A) /\ 0 < Len(B)
      BY <1>4
    <2> HIDE DEF A, B
    <2> QED
      BY <1>4, <2>1, BackIsValue, Zenon
  <1>6. YieldSpread(F, G).tone = IF f - g > 2 THEN "green" ELSE IF f - g > 0 THEN "yellow" ELSE "red"
    BY <1>1, ResultFields, Zenon DEF YieldSpread
  <1>7. YieldSays(F, G, w).head = IF f < g THEN "inverted" ELSE IF inverted = {} THEN "positive" ELSE "recovered"
    BY Zenon DEF YieldSays
  <1> HIDE DEF f, g, inverted
  <1>8. YieldSays(F, G, w).head = "inverted" => f < g
    BY <1>7
  <1> QED
    BY <1>5, <1>6, <1>8

\* Whatever the indicator, the page drawn from the frames it has judged does not
\* contradict its tone.
LEMMA PageAgrees ==
    ASSUME NEW n \in PerTicker \cup MarketRegime, NEW top \in Nat, NEW F, NEW G,
           IsFrame(F, Readings(n), top), n \in Paired => IsFrame(G, Readings(n), top),
           Compute(n, F, G).ok, NEW w \in Nat, w > MacdBack
    PROVE  SameVerdict(n, Compute(n, F, G).tone, F, G, w)
  <1> DEFINE c == Compute(n, F, G)
  <1>0. c.ok /\ Len(F) \in Nat
    BY DEF IsFrame
  <1>1. CASE n = "price_vs_ma"
    <2>1. c = PriceVsMA(F)
      BY <1>1 DEF Compute
    <2>2. w > 0
      BY LengthsArePositive
    <2>3. /\ (c.tone = "green") <=> MASays(F, w).above > 0
          /\ MASays(F, w).cross = "bullish" => MACrosses(F).golden
          /\ MASays(F, w).cross = "bearish" => MACrosses(F).death
      BY <1>0, <2>1, <2>2, AveragesAgree, Zenon
    <2> HIDE DEF c
    <2>4. SameVerdict(n, c.tone, F, G, w)
      BY <1>1, <2>3 DEF SameVerdict
    <2> QED
      BY <2>4 DEF c
  <1>2. CASE n = "spx_ma"
    <2>1. c = PriceVsMA(F)
      BY <1>2 DEF Compute, SpxMA
    <2>2. w > 0
      BY LengthsArePositive
    <2>3. /\ (c.tone = "green") <=> MASays(F, w).above > 0
          /\ MASays(F, w).cross = "bullish" => MACrosses(F).golden
          /\ MASays(F, w).cross = "bearish" => MACrosses(F).death
      BY <1>0, <2>1, <2>2, AveragesAgree, Zenon
    <2> HIDE DEF c
    <2>4. SameVerdict(n, c.tone, F, G, w)
      BY <1>2, <2>3 DEF SameVerdict, SpxMASays
    <2> QED
      BY <2>4 DEF c
  <1>3. CASE n = "rsi"
    <2>1. c = Rsi(F)
      BY <1>3 DEF Compute
    <2>2. IsFrame(F, [day : Int, week : Int], top)
      BY <1>3 DEF Readings
    <2>3. /\ c.tone = "red" => RsiSays(F).zone = "overbought"
          /\ c.tone = "green" => RsiSays(F).zone = "oversold"
      BY <1>0, <2>1, <2>2, RsiAgrees, Zenon
    <2> HIDE DEF c
    <2>4. SameVerdict(n, c.tone, F, G, w)
      BY <1>3, <2>3 DEF SameVerdict
    <2> QED
      BY <2>4 DEF c
  <1>4. CASE n = "macd"
    <2>1. c = Macd(F)
      BY <1>4 DEF Compute
    <2>2. IsFrame(F, Int, top)
      BY <1>4 DEF Readings
    <2>3. /\ (c.tone = "green") <=> (MacdSays(F, w).cross = "bullish" /\ MacdSays(F, w).age < MacdBack)
          /\ (c.tone = "red") <=> (MacdSays(F, w).cross = "bearish" /\ MacdSays(F, w).age < MacdBack)
      BY <1>0, <2>1, <2>2, MacdAgrees, Zenon
    <2> HIDE DEF c
    <2>4. SameVerdict(n, c.tone, F, G, w)
      BY <1>4, <2>3 DEF SameVerdict
    <2> QED
      BY <2>4 DEF c
  <1>5. CASE n = "bollinger"
    <2>1. c = Bollinger(F)
      BY <1>5 DEF Compute
    <2>2. IsFrame(F, Int, top)
      BY <1>5 DEF Readings
    <2>3. /\ (c.tone = "red") <=> (BollingerSays(F).zone = "over")
          /\ (c.tone = "green") <=> (BollingerSays(F).zone = "under")
      BY <1>0, <2>1, <2>2, BollingerAgrees, Zenon
    <2> HIDE DEF c
    <2>4. SameVerdict(n, c.tone, F, G, w)
      BY <1>5, <2>3 DEF SameVerdict
    <2> QED
      BY <2>4 DEF c
  <1>6. CASE n = "volume_anomaly"
    <2>1. c = VolumeAnomaly(F)
      BY <1>6 DEF Compute
    <2>2. c.tone \in {"green", "red"} => VolumeSays(F).spike
      BY <1>0, <2>1, SpikeAgrees, Zenon
    <2> HIDE DEF c
    <2>3. SameVerdict(n, c.tone, F, G, w)
      BY <1>6, <2>2 DEF SameVerdict
    <2> QED
      BY <2>3 DEF c
  <1>7. CASE n = "relative_strength"
    <2>1. c = RelativeStrength(F, G)
      BY <1>7 DEF Compute
    <2>2. IsFrame(F, Nat, top) /\ IsFrame(G, Nat, top)
      BY <1>7 DEF Readings, Paired
    <2>3. /\ Aligned(F, G) => (c.tone = "green" => StrengthSays(F, G, w).diff > 0)
          /\ Aligned(F, G) => (c.tone = "red" => StrengthSays(F, G, w).diff < 0)
      BY <1>0, <2>1, <2>2, StrengthAgrees
    <2> HIDE DEF c
    <2>4. SameVerdict(n, c.tone, F, G, w)
      BY <1>7, <2>3 DEF SameVerdict
    <2> QED
      BY <2>4 DEF c
  <1>8. CASE n = "adx"
    <2>1. c = Adx(F)
      BY <1>8 DEF Compute
    <2>2. IsFrame(F, [adx : Int, di : Int], top)
      BY <1>8 DEF Readings
    <2>3. /\ c.tone = "green" => AdxSays(F).zone = "trending"
          /\ AdxDirection(F) = "up" => AdxSays(F).direction = "up"
      BY <1>0, <2>1, <2>2, AdxAgrees, Zenon
    <2> HIDE DEF c
    <2>4. SameVerdict(n, c.tone, F, G, w)
      BY <1>8, <2>3 DEF SameVerdict
    <2> QED
      BY <2>4 DEF c
  <1>9. CASE n = "spx_adx"
    <2>1. c = Adx(F)
      BY <1>9 DEF Compute, SpxAdx
    <2>2. IsFrame(F, [adx : Int, di : Int], top)
      BY <1>9 DEF Readings
    <2>3. /\ c.tone = "green" => AdxSays(F).zone = "trending"
          /\ AdxDirection(F) = "up" => AdxSays(F).direction = "up"
      BY <1>0, <2>1, <2>2, AdxAgrees, Zenon
    <2> HIDE DEF c
    <2>4. SameVerdict(n, c.tone, F, G, w)
      BY <1>9, <2>3 DEF SameVerdict, SpxAdxSays
    <2> QED
      BY <2>4 DEF c
  <1>10. CASE n = "atr"
    <2>1. c = Atr(F)
      BY <1>10 DEF Compute
    <2>2. IsFrame(F, Int, top)
      BY <1>10 DEF Readings
    <2>3. /\ (c.tone = "red") <=> (AtrSays(F).band = "high")
          /\ (c.tone = "green") <=> (AtrSays(F).band = "calm")
      BY <1>0, <2>1, <2>2, AtrAgrees, Zenon
    <2> HIDE DEF c
    <2>4. SameVerdict(n, c.tone, F, G, w)
      BY <1>10, <2>3 DEF SameVerdict
    <2> QED
      BY <2>4 DEF c
  <1>11. CASE n = "ttm_squeeze"
    BY <1>11 DEF SameVerdict
  <1>12. CASE n = "cho"
    <2>1. c = Cho(F)
      BY <1>12 DEF Compute
    <2>2. IsFrame(F, [cho : Int, vol : Int], top)
      BY <1>12 DEF Readings
    <2>3. /\ c.tone = "green" => ChoSays(F).arrow = "up" /\ ChoSays(F).head # "sellers"
          /\ c.tone = "red" => ChoSays(F).arrow = "down" /\ ChoSays(F).head # "buyers"
      BY <1>0, <2>1, <2>2, ChoAgrees, Zenon
    <2> HIDE DEF c
    <2>4. SameVerdict(n, c.tone, F, G, w)
      BY <1>12, <2>3 DEF SameVerdict
    <2> QED
      BY <2>4 DEF c
  <1>13. CASE n = "dxy"
    <2>1. c = Dxy(F)
      BY <1>13 DEF Compute
    <2>2. IsFrame(F, Int, top)
      BY <1>13 DEF Readings
    <2>3. /\ (c.tone = "red") <=> DxySays(F).rising
          /\ (c.tone = "green") <=> DxySays(F).falling
      BY <1>0, <2>1, <2>2, DxyAgrees, Zenon
    <2> HIDE DEF c
    <2>4. SameVerdict(n, c.tone, F, G, w)
      BY <1>13, <2>3 DEF SameVerdict
    <2> QED
      BY <2>4 DEF c
  <1>14. CASE n = "fed_rate"
    <2>1. c = FedRate(F)
      BY <1>14 DEF Compute
    <2>2. IsFrame(F, Int, top)
      BY <1>14 DEF Readings
    <2>3. /\ w > RateDays => ((c.tone = "red") <=> FedSays(F, w).delta > 25)
          /\ w > RateDays => ((c.tone = "green") <=> FedSays(F, w).delta < -25)
      BY <1>0, <2>1, <2>2, FedAgrees
    <2> HIDE DEF c
    <2>4. SameVerdict(n, c.tone, F, G, w)
      BY <1>14, <2>3 DEF SameVerdict
    <2> QED
      BY <2>4 DEF c
  <1>15. CASE n = "ad_day"
    <2>1. c = AdDay(F)
      BY <1>15 DEF Compute
    <2>2. IsFrame(F, [move : Int, vol : Int], top)
      BY <1>15 DEF Readings
    <2>3. /\ c.tone = "green" => AdSays(F).head = "accumulation"
          /\ c.tone = "red" => AdSays(F).head = "distribution"
      BY <1>0, <2>1, <2>2, NetDaysAgree, Zenon
    <2> HIDE DEF c
    <2>4. SameVerdict(n, c.tone, F, G, w)
      BY <1>15, <2>3 DEF SameVerdict
    <2> QED
      BY <2>4 DEF c
  <1>16. CASE n = "vix"
    <2>1. c = Vix(F)
      BY <1>16 DEF Compute
    <2>2. /\ (c.tone = "green") <=> (VixSays(F).zone = "normal")
          /\ (c.tone = "red") <=> (VixSays(F).zone = "panic")
      BY <1>0, <2>1, LevelsAgree, Zenon
    <2> HIDE DEF c
    <2>3. SameVerdict(n, c.tone, F, G, w)
      BY <1>16, <2>2 DEF SameVerdict
    <2> QED
      BY <2>3 DEF c
  <1>17. CASE n = "skew"
    <2>1. c = Skew(F)
      BY <1>17 DEF Compute
    <2>2. /\ (c.tone = "green") <=> (SkewSays(F).zone = "normal")
          /\ (c.tone = "red") <=> (SkewSays(F).zone = "high")
      BY <1>0, <2>1, LevelsAgree, Zenon
    <2> HIDE DEF c
    <2>3. SameVerdict(n, c.tone, F, G, w)
      BY <1>17, <2>2 DEF SameVerdict
    <2> QED
      BY <2>3 DEF c
  <1>18. CASE n = "unrate"
    <2>1. c = Unrate(F)
      BY <1>18 DEF Compute
    <2>2. /\ (c.tone = "green") <=> (UnrateSays(F).zone = "healthy")
          /\ (c.tone = "red") <=> (UnrateSays(F).zone = "recession")
      BY <1>0, <2>1, LevelsAgree, Zenon
    <2> HIDE DEF c
    <2>3. SameVerdict(n, c.tone, F, G, w)
      BY <1>18, <2>2 DEF SameVerdict
    <2> QED
      BY <2>3 DEF c
  <1>19. CASE n = "yield_spread"
    <2>1. c = YieldSpread(F, G)
      BY <1>19 DEF Compute
    <2>2. IsFrame(F, Int, top) /\ IsFrame(G, Int, top)
      BY <1>19 DEF Readings, Paired
    <2>3. YieldSays(F, G, w).head = "inverted" => c.tone = "red"
      BY <1>0, <2>1, <2>2, YieldAgrees, Zenon
    <2> HIDE DEF c
    <2>4. SameVerdict(n, c.tone, F, G, w)
      BY <1>19, <2>3 DEF SameVerdict
    <2> QED
      BY <2>4 DEF c
  <1>20. CASE n = "vix_term"
    <2>1. c = VixTerm(F, G)
      BY <1>20 DEF Compute
    <2>2. IsFrame(F, Nat, top) /\ IsFrame(G, Nat, top)
      BY <1>20 DEF Readings, Paired
    <2>3. /\ Aligned(F, G) => ((c.tone = "green") <=> (VixTermSays(F, G).zone = "contango"))
          /\ Aligned(F, G) => ((c.tone = "red") <=> (VixTermSays(F, G).zone = "inverted"))
      BY <1>0, <2>1, <2>2, VixTermAgrees
    <2> HIDE DEF c
    <2>4. SameVerdict(n, c.tone, F, G, w)
      BY <1>20, <2>3 DEF SameVerdict
    <2> QED
      BY <2>4 DEF c
  <1>21. CASE n = "rsp_spy"
    <2>1. c = RatioTone(F, G)
      BY <1>21 DEF Compute, RspSpy
    <2>2. /\ (c.tone = "green") <=> (RatioSays(F, G).head = "up")
          /\ (c.tone = "red") <=> (RatioSays(F, G).head = "down")
      BY <1>0, <2>1, RatiosAgree, Zenon
    <2> HIDE DEF c
    <2>3. SameVerdict(n, c.tone, F, G, w)
      BY <1>21, <2>2 DEF SameVerdict
    <2> QED
      BY <2>3 DEF c
  <1>22. CASE n = "hyg_ief"
    <2>1. c = RatioTone(F, G)
      BY <1>22 DEF Compute, HygIef
    <2>2. /\ (c.tone = "green") <=> (RatioSays(F, G).head = "up")
          /\ (c.tone = "red") <=> (RatioSays(F, G).head = "down")
      BY <1>0, <2>1, RatiosAgree, Zenon
    <2> HIDE DEF c
    <2>3. SameVerdict(n, c.tone, F, G, w)
      BY <1>22, <2>2 DEF SameVerdict
    <2> QED
      BY <2>3 DEF c
  <1>23. n \in {"price_vs_ma", "spx_ma", "rsi", "macd", "bollinger", "volume_anomaly", "relative_strength",
                "adx", "spx_adx", "atr", "ttm_squeeze", "cho", "dxy", "fed_rate", "ad_day", "vix", "skew", "unrate",
                "yield_spread", "vix_term", "rsp_spy", "hyg_ief"}
    BY DEF PerTicker, MarketRegime
  <1> QED
    BY <1>23, <1>1, <1>2, <1>3, <1>4, <1>5, <1>6, <1>7, <1>8, <1>9, <1>10, <1>11, <1>12, <1>13, <1>14, <1>15,
       <1>16, <1>17, <1>18, <1>19, <1>20, <1>21, <1>22, Zenon

-----------------------------------------------------------------------------
(* The indicators' rows: types, and the page beside the tone *)

\* What an indicator returns on frames dated within a number of days.
Verdicted(top) == [tone : Tones, ok : BOOLEAN, as_of : 0 .. top]

\* A result and a refusal are of that kind.
LEMMA ResultIsVerdict ==
    ASSUME NEW top \in Nat, NEW a \in 0 .. top
    PROVE  Insufficient(a) \in Verdicted(top) /\ \A t \in Tones : Result(t, a) \in Verdicted(top)
  <1>1. Insufficient(a) \in Verdicted(top)
    <2>1. "neutral" \in Tones /\ FALSE \in BOOLEAN
      BY DEF Tones
    <2> QED
      BY <2>1, Zenon DEF Insufficient, Verdicted
  <1>2. ASSUME NEW t \in Tones PROVE Result(t, a) \in Verdicted(top)
    <2>1. TRUE \in BOOLEAN
      OBVIOUS
    <2> QED
      BY <2>1, Zenon DEF Result, Verdicted
  <1> QED
    BY <1>1, <1>2

\* Every indicator of one frame gives a verdict.
LEMMA OneFrameIsJudged ==
    ASSUME NEW V, NEW top \in Nat, NEW F, IsFrame(F, V, top)
    PROVE  /\ PriceVsMA(F) \in Verdicted(top) /\ Rsi(F) \in Verdicted(top)
           /\ VolumeAnomaly(F) \in Verdicted(top) /\ Macd(F) \in Verdicted(top)
           /\ Bollinger(F) \in Verdicted(top) /\ Adx(F) \in Verdicted(top)
           /\ Atr(F) \in Verdicted(top) /\ TtmSqueeze(F) \in Verdicted(top)
           /\ Cho(F) \in Verdicted(top) /\ Dxy(F) \in Verdicted(top)
           /\ FedRate(F) \in Verdicted(top) /\ AdDay(F) \in Verdicted(top)
           /\ Vix(F) \in Verdicted(top) /\ Skew(F) \in Verdicted(top) /\ Unrate(F) \in Verdicted(top)
  <1> DEFINE a == FrameAsOf(F)
             Good(r) == r \in Verdicted(top)
  <1>1. a \in 0 .. top
    BY AsOfIsDay
  <1>2. /\ Good(Insufficient(a)) /\ Good(Result("green", a))
        /\ Good(Result("yellow", a)) /\ Good(Result("red", a))
    <2>1. "green" \in Tones /\ "yellow" \in Tones /\ "red" \in Tones
      BY DEF Tones
    <2> HIDE DEF a
    <2> QED
      BY <1>1, <2>1, ResultIsVerdict
  <1> HIDE DEF Good
  <1>3. \A p, q, b : /\ Good(IF b THEN Insufficient(a)
                             ELSE Result(IF p THEN "red" ELSE IF q THEN "green" ELSE "yellow", a))
                     /\ Good(IF b THEN Insufficient(a)
                             ELSE Result(IF p THEN "green" ELSE IF q THEN "red" ELSE "yellow", a))
                     /\ Good(IF b THEN Insufficient(a)
                             ELSE Result(IF p THEN "green" ELSE IF q THEN "yellow" ELSE "red", a))
                     /\ Good(IF b THEN Insufficient(a)
                             ELSE Result(IF p THEN "red" ELSE IF q THEN "yellow" ELSE "green", a))
                     /\ Good(IF b THEN Insufficient(a)
                             ELSE Result(IF p THEN "yellow" ELSE IF q THEN "green" ELSE "red", a))
                     /\ Good(IF b THEN Insufficient(a) ELSE Result(IF p THEN "green" ELSE "yellow", a))
    <2> HIDE DEF a
    <2> QED
      BY <1>2
  <1>4. Good(PriceVsMA(F)) /\ Good(Rsi(F)) /\ Good(VolumeAnomaly(F)) /\ Good(Bollinger(F))
    BY <1>3, Zenon DEF PriceVsMA, Rsi, VolumeAnomaly, Bollinger
  <1>5. Good(Adx(F)) /\ Good(Atr(F)) /\ Good(TtmSqueeze(F)) /\ Good(Dxy(F)) /\ Good(FedRate(F))
    BY <1>3, Zenon DEF Adx, Atr, TtmSqueeze, Dxy, FedRate
  <1>6. Good(AdDay(F)) /\ Good(Skew(F)) /\ Good(Unrate(F))
    BY <1>3, Zenon DEF AdDay, Skew, Unrate
  <1>7. Good(Macd(F))
    BY <1>2 DEF Macd
  <1>8. Good(Cho(F))
    BY <1>2 DEF Cho
  <1>9. Good(Vix(F))
    BY <1>2 DEF Vix
  <1> QED
    BY <1>4, <1>5, <1>6, <1>7, <1>8, <1>9 DEF Good

\* So does every indicator of two, dated by the older of them.
LEMMA TwoFramesAreJudged ==
    ASSUME NEW V, NEW top \in Nat, NEW F, NEW G, IsFrame(F, V, top), IsFrame(G, V, top)
    PROVE  /\ RelativeStrength(F, G) \in Verdicted(top) /\ YieldSpread(F, G) \in Verdicted(top)
           /\ VixTerm(F, G) \in Verdicted(top) /\ RatioTone(F, G) \in Verdicted(top)
  <1> DEFINE a == OldestOf(FrameAsOf(F), FrameAsOf(G))
             Good(r) == r \in Verdicted(top)
  <1>1. a \in 0 .. top /\ 0 \in 0 .. top
    BY AsOfIsDay
  <1>2. /\ Good(Insufficient(0)) /\ Good(Insufficient(a)) /\ Good(Result("green", a))
        /\ Good(Result("yellow", a)) /\ Good(Result("red", a))
    <2>1. "green" \in Tones /\ "yellow" \in Tones /\ "red" \in Tones
      BY DEF Tones
    <2> HIDE DEF a
    <2> QED
      BY <1>1, <2>1, ResultIsVerdict
  <1> HIDE DEF Good
  <1>3. Good(RelativeStrength(F, G))
    BY <1>2 DEF RelativeStrength
  <1>4. Good(YieldSpread(F, G))
    BY <1>2 DEF YieldSpread
  <1>5. Good(VixTerm(F, G))
    BY <1>2 DEF VixTerm
  <1>6. Good(RatioTone(F, G))
    BY <1>2 DEF RatioTone
  <1> QED
    BY <1>3, <1>4, <1>5, <1>6 DEF Good

\* Whatever the indicator, what it returns is a verdict.
LEMMA EveryNameIsJudged ==
    ASSUME NEW n \in PerTicker \cup MarketRegime, NEW V, NEW top \in Nat, NEW F, NEW G,
           IsFrame(F, V, top), n \in Paired => IsFrame(G, V, top)
    PROVE  Compute(n, F, G) \in Verdicted(top)
  <1>1. CASE n \in Paired
    <2>1. n \in {"relative_strength", "yield_spread", "vix_term", "rsp_spy", "hyg_ief"}
      BY <1>1 DEF Paired
    <2>2. Compute(n, F, G) \in {RelativeStrength(F, G), YieldSpread(F, G), VixTerm(F, G), RatioTone(F, G)}
      BY <2>1 DEF Compute, RspSpy, HygIef
    <2> QED
      BY <1>1, <2>2, TwoFramesAreJudged
  <1>2. CASE n \notin Paired
    <2>1. n \in {"price_vs_ma", "spx_ma", "rsi", "macd", "bollinger", "volume_anomaly", "adx", "spx_adx",
                 "atr", "ttm_squeeze", "cho", "dxy", "fed_rate", "ad_day", "vix", "skew", "unrate"}
      BY <1>2 DEF Paired, PerTicker, MarketRegime
    <2>2. Compute(n, F, G) \in {PriceVsMA(F), Rsi(F), VolumeAnomaly(F), Macd(F), Bollinger(F), Adx(F), Atr(F),
                                TtmSqueeze(F), Cho(F), Dxy(F), FedRate(F), AdDay(F), Vix(F), Skew(F), Unrate(F)}
      BY <2>1 DEF Compute, SpxMA, SpxAdx
    <2> QED
      BY <2>2, OneFrameIsJudged
  <1> QED
    BY <1>1, <1>2

\* The days of a behaviour are bounded, and its row holds a verdict.
RowTyped ==
    /\ name \in Subjects /\ watched \in Watched /\ late \in 0 .. MaxLate /\ stale \in BOOLEAN
    /\ now \in 0 .. MaxDay /\ row.res \in Verdicted(MaxDay)

\* The tables, loaded up to a day so far, are frames of the indicator's readings.
LEMMA TablesAreFrames ==
    ASSUME TablesTyped, name \in Subjects, NEW d \in 0 .. now
    PROVE  /\ IsFrame(FrameTo(left, d), Readings(name), d)
           /\ name \in Paired => IsFrame(FrameTo(right, d), Readings(name), d)
  <1>1. now \in Nat /\ now = Len(left) /\ d \in Nat
    BY DEF TablesTyped, now
  <1>2. \A i \in 1 .. d : left[i] \in Left[name] \cup {Missing} /\ right[i] \in Right[name] \cup {Missing}
    <2>1. \A i \in 1 .. Len(left) : left[i] \in Left[name] \cup {Missing} /\ right[i] \in Right[name] \cup {Missing}
      BY DEF TablesTyped
    <2> QED
      BY <1>1, <2>1
  <1>3. Left[name] \subseteq Readings(name) /\ (name \in Paired => Right[name] \subseteq Readings(name))
    BY RowsAssumption DEF Read
  <1>4. IsFrame(FrameTo(left, d), Readings(name), d)
    <2>1. \A i \in 1 .. d : left[i] \in Readings(name) \cup {Missing}
      BY <1>2, <1>3
    <2> QED
      BY <1>1, <2>1, LoadedFrame
  <1>5. ASSUME name \in Paired PROVE IsFrame(FrameTo(right, d), Readings(name), d)
    <2>1. \A i \in 1 .. d : right[i] \in Readings(name) \cup {Missing}
      BY <1>2, <1>3, <1>5
    <2> QED
      BY <1>1, <2>1, LoadedFrame
  <1> QED
    BY <1>4, <1>5

\* So the judgement of a day so far is a verdict.
LEMMA JudgementIsVerdict ==
    ASSUME TablesTyped, name \in Subjects, now \in 0 .. MaxDay, NEW d \in 0 .. now
    PROVE  JudgedAt(d) \in Verdicted(MaxDay)
  <1>1. d \in Nat /\ d <= MaxDay /\ MaxDay \in Nat /\ name \in PerTicker \cup MarketRegime
    BY RowsAssumption DEF Bounds
  <1>2. JudgedAt(d) \in Verdicted(d)
    BY <1>1, TablesAreFrames, EveryNameIsJudged DEF JudgedAt
  <1>3. 0 .. d \subseteq 0 .. MaxDay
    BY <1>1
  <1> QED
    BY <1>2, <1>3 DEF Verdicted

\* Each action keeps the types.
LEMMA RowTypeStep == RowInv /\ RowTyped /\ [RowsNext]_rowVars => RowTyped'
  <1> SUFFICES ASSUME RowInv, RowTyped, [RowsNext]_rowVars PROVE RowTyped'
    OBVIOUS
  <1>0. TablesTyped /\ name \in Subjects /\ now \in 0 .. MaxDay /\ now = Len(left) /\ MaxDay \in Nat
        /\ MaxLate \in Nat
    BY RowsAssumption DEF RowInv, RowTyped, Bounds, now
  <1>1. CASE NewDay
    <2>1. /\ now < MaxDay /\ \E x : left' = Append(left, x)
          /\ UNCHANGED <<name, row, watched, late, stale>>
      BY <1>1 DEF NewDay
    <2>2. now' = now + 1
      BY <1>0, <2>1 DEF TablesTyped, now
    <2>3. now' \in 0 .. MaxDay
      BY <1>0, <2>1, <2>2
    <2> QED
      BY <2>1, <2>3 DEF RowTyped
  <1>2. CASE DailyUpdate \/ Revalidate
    <2>1. UNCHANGED <<name, left, right, watched, late>> /\ stale' = FALSE
      BY <1>2 DEF DailyUpdate, Revalidate
    <2>2. PICK d \in 0 .. now : row' = [day |-> d, res |-> JudgedAt(d)]
      BY <1>0, <1>2 DEF DailyUpdate, Revalidate, RowInv, RowIsCurrent
    <2>3. row'.res \in Verdicted(MaxDay)
      BY <1>0, <2>2, JudgementIsVerdict
    <2> QED
      BY <2>1, <2>3 DEF RowTyped, now
  <1>3. CASE Arrive
    <2>1. UNCHANGED <<name, row, right, watched>> /\ late < MaxLate /\ late' = late + 1
      BY <1>3 DEF Arrive
    <2>2. \E d \in 1 .. (now - 1) : \E x \in Left[name] :
              left' = [left EXCEPT ![d] = x] /\ stale' = (stale \/ (row # NoRow /\ d <= row.day))
      BY <1>3 DEF Arrive
    <2>3. Len(left') = Len(left)
      BY <1>0, <2>2 DEF TablesTyped
    <2>4. stale' \in BOOLEAN
      BY <2>2
    <2>5. late' \in 0 .. MaxLate
      BY <1>0, <2>1 DEF RowTyped
    <2> QED
      BY <2>1, <2>3, <2>4, <2>5 DEF RowTyped, now
  <1>4. CASE UNCHANGED rowVars
    BY <1>4 DEF RowTyped, rowVars, now
  <1> QED
    BY <1>1, <1>2, <1>3, <1>4 DEF RowsNext

\* Both parts of the invariant hold as a behaviour starts.
LEMMA RowsStart == RowsInit => RowInv /\ RowTyped
  <1> SUFFICES ASSUME RowsInit PROVE RowInv /\ RowTyped
    OBVIOUS
  <1>1. MaxDay \in Nat /\ MaxLate \in Nat /\ 0 \in 0 .. MaxDay
    BY RowsAssumption DEF Bounds
  <1>2. row.res \in Verdicted(MaxDay)
    <2>1. Insufficient(0) \in Verdicted(MaxDay)
      BY <1>1, ResultIsVerdict
    <2> QED
      BY <2>1 DEF RowsInit, NoRow
  <1>3. RowInv
    BY DEF RowsInit, RowInv, TablesTyped, RowIsCurrent
  <1>4. now = 0
    BY DEF RowsInit, now
  <1>5. name \in Subjects /\ watched \in Watched /\ late = 0 /\ stale \in BOOLEAN
    BY DEF RowsInit
  <1>6. now \in 0 .. MaxDay /\ late \in 0 .. MaxLate
    BY <1>1, <1>4, <1>5
  <1> QED
    BY <1>2, <1>3, <1>5, <1>6 DEF RowTyped

\* Together they give the rows' types.
LEMMA RowsAreTyped == RowInv /\ RowTyped => RowsTypeOK
  <1> SUFFICES ASSUME RowInv, RowTyped PROVE RowsTypeOK
    OBVIOUS
  <1>1. row.res.tone \in Tones /\ row.res.ok \in BOOLEAN /\ row.res.as_of \in 0 .. MaxDay
    BY DEF RowTyped, Verdicted
  <1> QED
    BY <1>1 DEF RowInv, TablesTyped, RowTyped, RowsTypeOK

\* The page and the tone of the same day never contradict each other, for any
\* indicator, any readings and any window a page may be asked for.
THEOREM PageNeverContradicts == RowsSpec => []ChartAgrees
  <1>1. RowInv /\ RowTyped => ChartAgrees
    <2> SUFFICES ASSUME RowInv, RowTyped,
                        Compute(name, FrameTo(left, now), FrameTo(right, now)).ok, NEW w \in Windows
                 PROVE  SameVerdict(name, Compute(name, FrameTo(left, now), FrameTo(right, now)).tone,
                                    FrameTo(left, now), FrameTo(right, now), w)
      BY DEF ChartAgrees
    <2>1. /\ name \in Subjects /\ name \in PerTicker \cup MarketRegime /\ now \in Nat /\ now \in 0 .. now
          /\ w \in Nat /\ w > MacdBack
      BY RowsAssumption DEF RowTyped, Bounds
    <2>2. TablesTyped
      BY DEF RowInv
    <2>3. /\ IsFrame(FrameTo(left, now), Readings(name), now)
          /\ name \in Paired => IsFrame(FrameTo(right, now), Readings(name), now)
      BY <2>1, <2>2, TablesAreFrames
    <2> QED
      BY <2>1, <2>3, PageAgrees
  <1> QED
    BY <1>1, RowsStart, RowStep, RowTypeStep, PTL DEF RowsSpec

\* The rows keep their types.
THEOREM RowsTypeCorrect == RowsSpec => []RowsTypeOK
  BY RowsStart, RowStep, RowTypeStep, RowsAreTyped, PTL DEF RowsSpec

\* Rows and verdicts of one behaviour behave each as they do alone.
THEOREM SignalsBehaveAsAlone == Spec => RowsSpec /\ VerdictSpec
  <1>1. Init => RowsInit /\ VerdictInit
    BY DEF Init
  <1>2. [Next]_vars => [RowsNext]_rowVars /\ [VerdictNext]_verdictVars
    BY DEF Next, vars
  <1> QED
    BY <1>1, <1>2, PTL DEF Spec, RowsSpec, VerdictSpec

\* So both keep their types.
THEOREM SignalsTypeCorrect == Spec => []TypeOK
  <1>1. RowsTypeOK /\ VerdictTypeOK => TypeOK
    BY DEF TypeOK
  <1> QED
    BY <1>1, SignalsBehaveAsAlone, RowsTypeCorrect, VerdictTypeCorrect, PTL

\* And both keep what they promise: a page and its tone agree, a day judged again
\* gives the row it has, the horizons are never opposed, worse rows never mean a
\* better verdict, and the votes a page lists add up to what is stored.
THEOREM SignalsKeepTheirPromises ==
    Spec => [](ChartAgrees /\ PageAddsUp /\ NeverOpposed) /\ Reproduces /\ WorseNeverBetter
  BY SignalsBehaveAsAlone, PageNeverContradicts, RowsReproduce, PagesAddUp, HorizonsNeverOppose,
      WorseRowsNeverBetterVerdict, PTL
=============================================================================
