--------------------------- MODULE History_proofs ---------------------------
(***************************************************************************)
(* Proofs about what is computed from the stored history, for any prices,  *)
(* calls, calendar and parameters:                                         *)
(*                                                                         *)
(* 1. Backtest.  Each book is followed on its own through a day: what a    *)
(*    sale, a purchase and a close-out preserve is shown once (Kept,       *)
(*    Inside), then for the two stages of a day, then for the days.        *)
(* 2. Accuracy.  A call is graded at the first priced day its horizon      *)
(*    reaches (GradedIsFirst), so a later day changes no grade; a set of   *)
(*    days has a day of every rank up to its count, so a split has two     *)
(*    halves (RankIsReached).                                              *)
(* 3. PostureStreak.  That rows are true while nothing was late is not     *)
(*    inductive: a rebuild replays only its own range.  FirstIsFirst says  *)
(*    that nothing older than the range was composed, Restored that a      *)
(*    rebuild whose range covers every snapshot makes the rows true, and   *)
(*    TruthExtends, the step all of them share, that a day's row follows   *)
(*    from the row before it.                                              *)
(***************************************************************************)
EXTENDS Backtest, Accuracy, PostureStreak, NumberLemmas

---------------------------------------------------------------------------
(* The two books of the backtest page                                      *)

\* A book that is balanced, owes nothing and, when flat, has no open cycle.
Kept(b) ==
    /\ b \in Book
    /\ Balanced(b)
    /\ b.cash >= 0
    /\ Flat(b) => b.bought = 0 /\ b.invested = 0 /\ b.taken = 0

\* A book inside its stop and its target.
Inside(b, price, r) == ~StopLoss(b, price, r.stop) /\ ~TakeProfit(b, price, r.take)

\* A division rounds down.
LEMMA RoundsDown ==
    ASSUME NEW a \in Nat, NEW p \in Nat \ {0}
    PROVE  a \div p \in Nat /\ (a \div p) * p <= a
  OBVIOUS

\* A share of the account is not more than the account.
LEMMA ShareFits ==
    ASSUME NEW target \in 0 .. 100, NEW total \in Nat
    PROVE  (target * total) \div 100 \in Nat /\ (target * total) \div 100 <= total
  <1>1. target * total \in Nat /\ target * total <= 100 * total
    OBVIOUS
  <1>2. \A x \in Nat : x <= 100 * total => x \div 100 \in Nat /\ x \div 100 <= total
    OBVIOUS
  <1> QED
    BY <1>1, <1>2

\* A purchase pulls the cost basis towards the close, never past it.
LEMMA AverageStaysInside ==
    ASSUME NEW price \in Nat \ {0}, NEW n \in Nat, NEW bought \in Nat, NEW invested \in Nat,
           NEW pct \in Nat \ {0}
    PROVE  /\ 100 * price * bought > (100 - pct) * invested
                => 100 * price * (bought + n) > (100 - pct) * (invested + n * price)
           /\ 100 * price * bought < (100 + pct) * invested
                => 100 * price * (bought + n) < (100 + pct) * (invested + n * price)
           /\ n > 0 => 100 * price * n > (100 - pct) * (n * price)
           /\ n > 0 => 100 * price * n < (100 + pct) * (n * price)
  <1>1. /\ 100 * price * (bought + n) = 100 * price * bought + 100 * (n * price)
        /\ (100 - pct) * (invested + n * price) = (100 - pct) * invested + 100 * (n * price) - pct * (n * price)
        /\ (100 + pct) * (invested + n * price) = (100 + pct) * invested + 100 * (n * price) + pct * (n * price)
    OBVIOUS
  <1>2. n * price \in Nat /\ pct * (n * price) \in Nat
    OBVIOUS
  <1>3. n > 0 => pct * (n * price) > 0
    OBVIOUS
  <1> QED
    BY <1>1, <1>2, <1>3

\* The sale of what is left keeps a book, and leaves it flat.
LEMMA CloseOutKeeps ==
    ASSUME Capital \in Nat, NEW b, Kept(b), NEW price \in Nat \ {0}, NEW d \in Nat
    PROVE  Kept(CloseOut(b, price, d)) /\ Flat(CloseOut(b, price, d))
  <1> DEFINE c == CloseOut(b, price, d)
  <1>1. b.qty * price \in Nat
    BY DEF Kept, Book
  <1>2. /\ c.cash = b.cash + b.qty * price
        /\ c.earned = b.earned + (b.taken + b.qty * price - b.invested)
        /\ c.qty = 0 /\ c.bought = 0 /\ c.invested = 0 /\ c.taken = 0
    BY DEF CloseOut, Kept, Book
  <1>3. c \in Book
    <2>1. /\ b.cash + b.qty * price \in Int
          /\ b.earned + (b.taken + b.qty * price - b.invested) \in Int
          /\ b.trades + 1 \in Nat
      BY <1>1 DEF Kept, Book
    <2> QED
      BY <2>1 DEF CloseOut, Kept, Book
  <1>4. Balanced(c) /\ c.cash >= 0
    <2> HIDE DEF c
    <2> QED
      BY <1>1, <1>2 DEF Kept, Balanced, Book
  <1> HIDE DEF c
  <1>5. Kept(c) /\ Flat(c)
    BY <1>2, <1>3, <1>4 DEF Kept, Flat
  <1> QED
    BY <1>5 DEF c

\* A purchase the cash covers keeps a book.
LEMMA BuyKeeps ==
    ASSUME Capital \in Nat, NEW b, Kept(b), NEW n \in Nat, NEW price \in Nat \ {0}, NEW d \in Nat,
           n * price <= b.cash
    PROVE  Kept(Buy(b, n, price, d))
  <1> DEFINE c == Buy(b, n, price, d)
  <1>1. n * price \in Nat
    OBVIOUS
  <1>2. /\ c.cash = b.cash - n * price /\ c.qty = b.qty + n /\ c.bought = b.bought + n
        /\ c.invested = b.invested + n * price /\ c.taken = b.taken /\ c.earned = b.earned
    BY DEF Buy, Kept, Book
  <1>3. c \in Book
    <2>1. /\ b.cash - n * price \in Int /\ b.qty + n \in Nat /\ b.bought + n \in Nat
          /\ b.invested + n * price \in Nat /\ (IF Flat(b) THEN d ELSE b.opened) \in Nat
      BY <1>1 DEF Kept, Book
    <2> QED
      BY <2>1 DEF Buy, Kept, Book
  <1>4. n = 0 => n * price = 0
    OBVIOUS
  <1> HIDE DEF c
  <1>5. Balanced(c) /\ c.cash >= 0
    BY <1>1, <1>2 DEF Kept, Balanced, Book
  <1>6. Flat(c) => c.bought = 0 /\ c.invested = 0 /\ c.taken = 0
    BY <1>2, <1>4 DEF Kept, Flat, Book
  <1>7. Kept(c)
    BY <1>3, <1>5, <1>6 DEF Kept
  <1> QED
    BY <1>7 DEF c

\* The sale of a part of the position keeps a book.
LEMMA SellKeeps ==
    ASSUME Capital \in Nat, NEW b, Kept(b), NEW n \in Nat, NEW price \in Nat \ {0}, n < b.qty
    PROVE  Kept(Sell(b, n, price))
  <1> DEFINE c == Sell(b, n, price)
  <1>1. n * price \in Nat
    OBVIOUS
  <1>2. /\ c.cash = b.cash + n * price /\ c.qty = b.qty - n /\ c.bought = b.bought
        /\ c.invested = b.invested /\ c.taken = b.taken + n * price /\ c.earned = b.earned
    BY DEF Sell, Kept, Book
  <1>3. c \in Book
    <2>1. b.cash + n * price \in Int /\ b.qty - n \in Nat /\ b.taken + n * price \in Nat
      BY <1>1 DEF Kept, Book
    <2> QED
      BY <2>1 DEF Sell, Kept, Book
  <1> HIDE DEF c
  <1>4. Balanced(c) /\ c.cash >= 0 /\ ~Flat(c)
    BY <1>1, <1>2 DEF Kept, Balanced, Book, Flat
  <1>5. Kept(c)
    BY <1>3, <1>4 DEF Kept
  <1> QED
    BY <1>5 DEF c

\* The discipline of a day keeps a book and puts it inside its percentages.
LEMMA DisciplinedKeeps ==
    ASSUME Capital \in Nat, NEW b, Kept(b), NEW price \in Nat \ {0}, NEW d \in Nat, NEW r
    PROVE  Kept(Disciplined(b, price, d, r)) /\ Inside(Disciplined(b, price, d, r), price, r)
  <1>1. Flat(CloseOut(b, price, d)) => Inside(CloseOut(b, price, d), price, r)
    BY DEF Inside, StopLoss, TakeProfit
  <1> QED
    BY <1>1, CloseOutKeeps DEF Disciplined, Inside

\* The rebalancing of a day keeps a book, never spends more than the cash, and
\* leaves a book inside its percentages there.
LEMMA RebalancedKeeps ==
    ASSUME Capital \in Nat, NEW b, Kept(b), NEW price \in Nat \ {0}, NEW d \in Nat,
           NEW target \in 0 .. 100, NEW r, r.stop \in Nat \ {0}, r.take \in Nat \ {0}, Inside(b, price, r)
    PROVE  Kept(Rebalanced(b, price, d, target)) /\ Inside(Rebalanced(b, price, d, target), price, r)
  <1> DEFINE held == b.qty * price
             total == b.cash + held
             wanted == (target * total) \div 100
             bought == (wanted - held) \div price
             sold == (held - wanted) \div price
             c == Rebalanced(b, price, d, target)
  <1>1. held \in Nat /\ b.cash \in Nat /\ total \in Nat
    BY DEF Kept, Book
  <1>2. wanted \in Nat /\ wanted <= total
    <2> HIDE DEF total
    <2> QED
      BY <1>1, ShareFits
  <1>3. \/ c = b
        \/ wanted > held /\ c = Buy(b, bought, price, d)
        \/ wanted < held /\ c = CloseOut(b, price, d)
        \/ wanted < held /\ ~(sold >= b.qty) /\ c = Sell(b, sold, price)
    BY <1>1, <1>2 DEF Rebalanced
  <1>4. wanted > held => bought \in Nat /\ bought * price <= b.cash
    <2>1. wanted > held => wanted - held \in Nat /\ wanted - held <= b.cash
      <3> HIDE DEF held, wanted
      <3> QED
        BY <1>1, <1>2
    <2>2. \A a \in Nat : a \div price \in Nat /\ (a \div price) * price <= a
      BY RoundsDown
    <2>3. bought = (wanted - held) \div price
      OBVIOUS
    <2> HIDE DEF held, wanted, bought
    <2>4. wanted > held => bought \in Nat /\ bought * price <= wanted - held
      BY <2>1, <2>2, <2>3
    <2> QED
      BY <1>1, <1>2, <2>1, <2>4
  <1>5. wanted < held => sold \in Nat
    <2> HIDE DEF held, wanted
    <2>1. wanted < held => held - wanted \in Nat
      BY <1>1, <1>2
    <2> QED
      BY <2>1, RoundsDown
  <1> HIDE DEF held, total, wanted, bought, sold, c
  <1>6. CASE c = b
    BY <1>6 DEF c
  <1>7. CASE wanted > held /\ c = Buy(b, bought, price, d)
    <2>1. Kept(c)
      BY <1>4, <1>7, BuyKeeps
    <2>2. /\ b.bought \in Nat /\ b.invested \in Nat /\ b.qty \in Nat
          /\ c.qty = b.qty + bought /\ c.bought = b.bought + bought
          /\ c.invested = b.invested + bought * price
      BY <1>7 DEF Buy, Kept, Book
    <2>3. CASE Flat(b)
      <3>1. /\ c.qty = bought /\ c.bought = bought
            /\ bought * price \in Nat /\ c.invested = bought * price
        BY <1>4, <1>7, <2>2, <2>3 DEF Kept, Flat
      <3>2. bought > 0 => /\ 100 * price * bought > (100 - r.stop) * (bought * price)
                          /\ 100 * price * bought < (100 + r.take) * (bought * price)
        BY <1>4, <1>7, AverageStaysInside
      <3> QED
        BY <1>4, <1>7, <2>1, <3>1, <3>2 DEF Inside, StopLoss, TakeProfit, Flat, c
    <2>4. CASE ~Flat(b)
      <3>1. /\ 100 * price * b.bought > (100 - r.stop) * b.invested
            /\ 100 * price * b.bought < (100 + r.take) * b.invested
        BY <2>2, <2>4 DEF Inside, StopLoss, TakeProfit
      <3>2. /\ 100 * price * (b.bought + bought) > (100 - r.stop) * (b.invested + bought * price)
            /\ 100 * price * (b.bought + bought) < (100 + r.take) * (b.invested + bought * price)
        BY <1>4, <1>7, <2>2, <3>1, AverageStaysInside
      <3> QED
        BY <1>4, <1>7, <2>1, <2>2, <3>2 DEF Inside, StopLoss, TakeProfit, c
    <2> QED
      BY <2>3, <2>4
  <1>8. CASE wanted < held /\ c = CloseOut(b, price, d)
    BY <1>8, CloseOutKeeps DEF Inside, StopLoss, TakeProfit, c
  <1>9. CASE wanted < held /\ ~(sold >= b.qty) /\ c = Sell(b, sold, price)
    <2>1. Kept(c)
      <3>1. sold < b.qty
        BY <1>5, <1>9 DEF Kept, Book
      <3> QED
        BY <1>5, <1>9, <3>1, SellKeeps
    <2>2. c.bought = b.bought /\ c.invested = b.invested /\ ~Flat(b)
      BY <1>5, <1>9 DEF Sell, Kept, Book, Flat
    <2> QED
      BY <2>1, <2>2 DEF Inside, StopLoss, TakeProfit, c
  <1> QED
    BY <1>3, <1>6, <1>7, <1>8, <1>9

\* Marking a book to the market changes nothing else.
LEMMA MarkedKeeps ==
    ASSUME NEW b, Kept(b), NEW price \in Nat \ {0}, NEW r, Inside(b, price, r)
    PROVE  LET c == Marked(b, price) IN Kept(c) /\ Inside(c, price, r) /\ c.mark = c.cash + c.qty * price
  <1> DEFINE c == Marked(b, price)
  <1>1. b.cash + b.qty * price \in Int
    BY DEF Kept, Book
  <1>2. c \in Book
    BY <1>1 DEF Marked, Kept, Book
  <1>3. /\ c.cash = b.cash /\ c.qty = b.qty /\ c.bought = b.bought /\ c.invested = b.invested
        /\ c.taken = b.taken /\ c.earned = b.earned /\ c.mark = b.cash + b.qty * price
    BY DEF Marked, Kept, Book
  <1> HIDE DEF c
  <1>4. Kept(c) /\ Inside(c, price, r) /\ c.mark = c.cash + c.qty * price
    BY <1>2, <1>3 DEF Kept, Balanced, Flat, Inside, StopLoss, TakeProfit
  <1> QED
    BY <1>4 DEF c

\* The runs: percentages are positive, a target is a share of the account, and
\* the baseline of the grid has the page's parameters.
LEMMA RunsAreSound ==
    ASSUME Positive
    PROVE  /\ \A r \in Runs : /\ r.stop \in Nat \ {0} /\ r.take \in Nat \ {0}
                               /\ \A a \in Actions : Target(r, a) \in 0 .. 100
           /\ Page \in Runs /\ Baseline \subseteq Runs
           /\ \A r \in Baseline : /\ r.stop = Page.stop /\ r.take = Page.take
                                   /\ \A a \in Actions : Target(r, a) = Target(Page, a)
  <1>1. ASSUME NEW r \in Runs PROVE r.stop \in Nat \ {0} /\ r.take \in Nat \ {0}
    <2>1. CASE r \in Grid
      BY <2>1 DEF Positive, Grid
    <2>2. CASE r = Page
      BY <2>2 DEF Page
    <2> QED
      BY <1>1, <2>1, <2>2 DEF Runs
  <1>2. ASSUME NEW r \in Runs, NEW a \in Actions PROVE Target(r, a) \in 0 .. 100
    <2>1. r.sizing \in {"page", "aggressive", "conservative"}
      BY <1>2 DEF Runs, Grid, Page, Sizings
    <2>2. CASE r.sizing = "page"
      BY <1>2, <2>2 DEF Target, SizingOf, Actions
    <2>3. CASE r.sizing = "aggressive"
      BY <1>2, <2>3 DEF Target, SizingOf, Actions
    <2>4. CASE r.sizing = "conservative"
      BY <1>2, <2>4 DEF Target, SizingOf, Actions
    <2> QED
      BY <2>1, <2>2, <2>3, <2>4
  <1>3. Page \in Runs /\ Baseline \subseteq Runs
    BY DEF Runs, Baseline
  <1>4. ASSUME NEW r \in Baseline, NEW a \in Actions
        PROVE  r.stop = Page.stop /\ r.take = Page.take /\ Target(r, a) = Target(Page, a)
    <2>1. r.stop = Page.stop /\ r.take = Page.take /\ r.sizing = "aggressive" /\ Page.sizing = "page"
      BY <1>4 DEF Baseline, Page
    <2>2. SizingOf["aggressive"] = SizingOf["page"]
      BY DEF SizingOf
    <2> QED
      BY <2>1, <2>2 DEF Target
  <1>5. "exit" \in Actions
    BY DEF Actions
  <1> QED
    BY <1>1, <1>2, <1>3, <1>4, <1>5

\* Each book at the end of a day.
EndOfDay(b, r) ==
    /\ Kept(b)
    /\ b.mark = b.cash + b.qty * lastClose
    /\ lastClose = 0 => Flat(b)
    /\ Inside(b, lastClose, r)

\* The invariant of the walk.
WalkInv ==
    /\ walked \in Nat /\ lastClose \in Prices \cup {0}
    /\ books \in [Runs -> Book]
    /\ \A r \in Runs : EndOfDay(books[r], r)
    /\ \A r \in Baseline : books[r] = books[Page]

\* At the start every book holds the capital and nothing else.
LEMMA WalkStarts ==
    ASSUME Positive, WalkInit
    PROVE  WalkInv
  <1>1. NewBook \in Book /\ Balanced(NewBook) /\ Flat(NewBook) /\ Kept(NewBook)
    BY DEF Positive, NewBook, Book, Balanced, Flat, Kept
  <1>2. NewBook.mark = NewBook.cash + NewBook.qty * lastClose
    BY DEF Positive, NewBook, WalkInit
  <1>3. \A r : Inside(NewBook, lastClose, r)
    BY <1>1 DEF Inside, StopLoss, TakeProfit
  <1> QED
    BY <1>1, <1>2, <1>3, RunsAreSound DEF WalkInit, WalkInv, EndOfDay

\* A day with a close, whether or not it has a snapshot.
LEMMA PricedDayHolds ==
    ASSUME Positive, WalkInv, NEW price \in Prices,
           \/ \E action \in Actions : SignalDay(price, action)
           \/ QuietDay(price)
    PROVE  WalkInv'
  <1>1. /\ walked' \in Nat /\ walked' = walked + 1 /\ lastClose' = price /\ price \in Nat \ {0} /\ Capital \in Nat
    BY DEF SignalDay, QuietDay, WalkInv, Positive
  <1>2. \A r \in Runs : Kept(books[r])
    BY DEF WalkInv, EndOfDay
  <1>3. CASE QuietDay(price)
    <2>1. ASSUME NEW r \in Runs
          PROVE  /\ books'[r] = Marked(Disciplined(books[r], price, walked', r), price)
                 /\ Kept(books'[r]) /\ Inside(books'[r], price, r)
                 /\ books'[r].mark = books'[r].cash + books'[r].qty * price
      <3>1. books'[r] = Marked(Disciplined(books[r], price, walked', r), price)
        BY <1>3, <2>1 DEF QuietDay
      <3>2. /\ Kept(Disciplined(books[r], price, walked', r))
            /\ Inside(Disciplined(books[r], price, walked', r), price, r)
        BY <1>1, <1>2, <2>1, DisciplinedKeeps
      <3> QED
        BY <1>1, <3>1, <3>2, MarkedKeeps
    <2>2. \A r \in Baseline : books'[r] = books'[Page]
      BY <2>1, RunsAreSound DEF WalkInv, Disciplined, StopLoss, TakeProfit
    <2>3. books' \in [Runs -> Book]
      <3>1. books' = [r \in Runs |-> books'[r]]
        BY <1>3 DEF QuietDay
      <3> QED
        BY <2>1, <3>1 DEF Kept
    <2> QED
      BY <1>1, <2>1, <2>2, <2>3 DEF WalkInv, EndOfDay
  <1>4. ASSUME NEW action \in Actions, SignalDay(price, action) PROVE WalkInv'
    <2>1. ASSUME NEW r \in Runs
          PROVE  /\ books'[r] = Marked(Rebalanced(Disciplined(books[r], price, walked', r), price, walked',
                                                  Target(r, action)), price)
                 /\ Kept(books'[r]) /\ Inside(books'[r], price, r)
                 /\ books'[r].mark = books'[r].cash + books'[r].qty * price
      <3> DEFINE disciplined == Disciplined(books[r], price, walked', r)
                 rebalanced == Rebalanced(disciplined, price, walked', Target(r, action))
      <3>1. books'[r] = Marked(rebalanced, price)
        BY <1>4, <2>1 DEF SignalDay
      <3>2. Kept(disciplined) /\ Inside(disciplined, price, r)
        BY <1>1, <1>2, <2>1, DisciplinedKeeps
      <3>3. Kept(rebalanced) /\ Inside(rebalanced, price, r)
        <4>1. r.stop \in Nat \ {0} /\ r.take \in Nat \ {0} /\ Target(r, action) \in 0 .. 100
          BY <1>4, <2>1, RunsAreSound
        <4> HIDE DEF disciplined
        <4> QED
          BY <1>1, <3>2, <4>1, RebalancedKeeps
      <3> HIDE DEF rebalanced
      <3>4. /\ Kept(books'[r]) /\ Inside(books'[r], price, r)
            /\ books'[r].mark = books'[r].cash + books'[r].qty * price
        BY <1>1, <3>1, <3>3, MarkedKeeps
      <3> QED
        BY <3>1, <3>4 DEF rebalanced
    <2>2. \A r \in Baseline : books'[r] = books'[Page]
      <3>1. ASSUME NEW r \in Baseline
            PROVE  /\ books[r] = books[Page] /\ Target(r, action) = Target(Page, action)
                   /\ Disciplined(books[r], price, walked', r) = Disciplined(books[Page], price, walked', Page)
        BY <1>4, <3>1, RunsAreSound DEF WalkInv, Disciplined, StopLoss, TakeProfit
      <3> QED
        BY <2>1, <3>1, RunsAreSound
    <2>3. books' \in [Runs -> Book]
      <3>1. books' = [r \in Runs |-> books'[r]]
        BY <1>4 DEF SignalDay
      <3> QED
        BY <2>1, <3>1 DEF Kept
    <2> QED
      BY <1>1, <2>1, <2>2, <2>3 DEF WalkInv, EndOfDay
  <1> QED
    BY <1>3, <1>4

\* The invariant of every walk.
THEOREM WalkHolds == WalkSpec => []WalkInv
  <1> USE BacktestAssumption
  <1>1. WalkInit => WalkInv
    BY WalkStarts
  <1>2. WalkInv /\ [WalkNext]_walkVars => WalkInv'
    <2> SUFFICES ASSUME WalkInv, [WalkNext]_walkVars PROVE WalkInv'
      OBVIOUS
    <2>1. ASSUME NEW price \in Prices, NEW action \in Actions, SignalDay(price, action) PROVE WalkInv'
      BY <2>1, PricedDayHolds
    <2>2. ASSUME NEW price \in Prices, QuietDay(price) PROVE WalkInv'
      BY <2>2, PricedDayHolds
    <2>3. CASE UnpricedDay
      BY <2>3 DEF UnpricedDay, WalkInv, EndOfDay, Inside, StopLoss, TakeProfit, Kept, Balanced, Flat
    <2>4. CASE UNCHANGED walkVars
      BY <2>4 DEF walkVars, WalkInv, EndOfDay, Inside, StopLoss, TakeProfit, Kept, Balanced, Flat
    <2> QED
      BY <2>1, <2>2, <2>3, <2>4 DEF WalkNext
  <1> QED
    BY <1>1, <1>2, PTL DEF WalkSpec

\* The variables keep their types: no book ever holds a negative number of
\* shares.
THEOREM BacktestTypeCorrect == WalkSpec => []WalkTypeOK
  <1> USE BacktestAssumption
  <1>1. WalkInv => WalkTypeOK
    BY DEF WalkInv, WalkTypeOK
  <1> QED
    BY <1>1, WalkHolds, PTL

\* For any capital, closes, percentages and signals: the table of trades, the
\* final value and the chart's last point are the same money, the account owes
\* nothing, and the robustness page's baseline is the simulation page's result.
THEOREM BooksBalance == WalkSpec => []Ledger
  <1> USE BacktestAssumption
  <1>1. WalkInv => Ledger
    <2> SUFFICES ASSUME WalkInv PROVE Ledger
      OBVIOUS
    <2>1. ASSUME NEW r \in Runs
          PROVE  LET b == books[r] IN
                   /\ Balanced(b) /\ Unwound(b).cash = Capital + Unwound(b).earned
                   /\ Unwound(b).cash = b.mark
                   /\ b.cash >= 0 /\ b.qty >= 0
      <3> DEFINE b == books[r]
      <3>1. EndOfDay(b, r) /\ Capital \in Nat
        BY <2>1 DEF WalkInv, Positive
      <3>2. Balanced(b) /\ b.cash >= 0 /\ b.qty >= 0
        BY <3>1 DEF EndOfDay, Kept, Book
      <3>3. CASE Flat(b)
        <4>1. Unwound(b) = b /\ b.qty * lastClose = 0
          BY <3>3, <3>1 DEF Unwound, Flat, WalkInv, Positive
        <4> QED
          BY <3>1, <3>2, <3>3, <4>1 DEF EndOfDay, Kept, Book, Balanced
      <3>4. CASE ~Flat(b)
        <4>1. lastClose \in Nat \ {0} /\ walked \in Nat /\ Kept(b) /\ b.mark = b.cash + b.qty * lastClose
          BY <3>1, <3>4 DEF EndOfDay, WalkInv, Positive
        <4>2. Kept(Unwound(b)) /\ Flat(Unwound(b))
          BY <3>1, <3>4, <4>1, CloseOutKeeps DEF Unwound
        <4>3. Unwound(b).cash = b.cash + b.qty * lastClose
          BY <3>4, <4>1 DEF Unwound, CloseOut, Kept, Book
        <4>4. Unwound(b).cash = Capital + Unwound(b).earned
          BY <3>1, <4>2 DEF Kept, Balanced, Book
        <4> QED
          BY <3>2, <4>1, <4>3, <4>4
      <3> QED
        BY <3>3, <3>4
    <2>2. \A r \in Baseline : books[r] = books[Page]
      BY DEF WalkInv
    <2> QED
      BY <2>1, <2>2 DEF Ledger
  <1> QED
    BY <1>1, WalkHolds, PTL

\* For any closes, percentages and signals an open position ends its day inside
\* its stop and its target.
THEOREM DisciplineHolds == WalkSpec => []Disciplines
  <1> USE BacktestAssumption
  <1>1. WalkInv => Disciplines
    BY DEF WalkInv, EndOfDay, Inside, Disciplines
  <1> QED
    BY <1>1, WalkHolds, PTL

---------------------------------------------------------------------------
(* The grading pages                                                       *)

\* The bar a call is graded at is the first priced day its horizon reaches.
LEMMA GradedIsFirst ==
    ASSUME NEW n \in Nat, NEW table, DOMAIN table = 1 .. n, NEW d \in 1 .. n, NEW h \in Nat
    PROVE  /\ GradedAt(table, d, h) # 0 <=>
                d \in Priced(table) /\ \E e \in Priced(table) : e >= d + h
           /\ GradedAt(table, d, h) # 0 =>
                /\ GradedAt(table, d, h) \in Priced(table) /\ GradedAt(table, d, h) \in (d + h) .. n
                /\ \A e \in Priced(table) : e >= d + h => GradedAt(table, d, h) <= e
  <1> DEFINE later == {e \in Priced(table) : e >= d + h}
             g == GradedAt(table, d, h)
  <1>1. \A e \in Priced(table) : e \in 1 .. n
    BY DEF Priced
  <1>2. later \in SUBSET Nat /\ \A e \in later : e \in (d + h) .. n /\ e # 0
    BY <1>1
  <1>3. g = IF d \in Priced(table) THEN IF later = {} THEN 0 ELSE Min(later) ELSE 0
    BY DEF GradedAt, FirstOnOrAfter
  <1>4. later # {} => Min(later) \in later /\ \A e \in later : Min(later) <= e
    <2> HIDE DEF later
    <2> QED
      BY <1>2, MinIsLeast
  <1>5. later # {} <=> \E e \in Priced(table) : e >= d + h
    OBVIOUS
  <1>6. \A e \in later : e \in Priced(table)
    OBVIOUS
  <1>7. \A e \in Priced(table) : e >= d + h => e \in later
    OBVIOUS
  <1> HIDE DEF later, g
  <1>8. (g # 0 <=> d \in Priced(table) /\ later # {}) /\ (g # 0 => g = Min(later))
    BY <1>2, <1>3, <1>4
  <1>9. g # 0 => g \in Priced(table) /\ g \in (d + h) .. n /\ \A e \in Priced(table) : e >= d + h => g <= e
    BY <1>2, <1>4, <1>6, <1>7, <1>8
  <1> QED
    BY <1>5, <1>8, <1>9 DEF g

\* A later day changes no grade.
LEMMA AppendKeepsGrade ==
    ASSUME NEW S, NEW s \in Seq(S), NEW x, NEW d \in 1 .. Len(s), NEW h \in Nat,
           GradedAt(s, d, h) # 0
    PROVE  GradedAt(Append(s, x), d, h) = GradedAt(s, d, h)
  <1> DEFINE n == Len(s)
             t == Append(s, x)
             g == GradedAt(s, d, h)
             k == GradedAt(t, d, h)
  <1>1. n \in Nat /\ DOMAIN s = 1 .. n
    OBVIOUS
  <1>2. DOMAIN t = 1 .. (n + 1) /\ \A e \in 1 .. n : t[e] = s[e]
    OBVIOUS
  <1>3. Priced(s) = Priced(t) \cap (1 .. n)
    <2> HIDE DEF n, t
    <2> QED
      BY <1>1, <1>2 DEF Priced
  <1> HIDE DEF t, n
  <1>4. /\ d \in Priced(s) /\ g \in Priced(s) /\ g \in (d + h) .. n
        /\ \A e \in Priced(s) : e >= d + h => g <= e
    <2>1. d \in 1 .. n
      BY DEF n
    <2> QED
      BY <1>1, <2>1, GradedIsFirst
  <1>5. d \in 1 .. (n + 1) /\ n + 1 \in Nat
    BY <1>1 DEF n
  <1>6. k # 0
    BY <1>2, <1>3, <1>4, <1>5, GradedIsFirst
  <1>7. /\ k \in Priced(t) /\ k \in (d + h) .. (n + 1)
        /\ \A e \in Priced(t) : e >= d + h => k <= e
    BY <1>2, <1>5, <1>6, GradedIsFirst
  <1> HIDE DEF k, g
  <1>8. k <= g
    BY <1>3, <1>4, <1>7
  <1>9. k \in 1 .. n
    BY <1>1, <1>4, <1>7, <1>8
  <1>10. g <= k
    BY <1>3, <1>4, <1>7, <1>9
  <1>11. g = k
    BY <1>1, <1>4, <1>9, <1>8, <1>10
  <1> QED
    BY <1>11 DEF g, k, t

\* A bar that fills a gap keeps every grade, at that day or an earlier one.
LEMMA FillKeepsGrade ==
    ASSUME NEW n \in Nat, NEW s, NEW t, DOMAIN s = 1 .. n, DOMAIN t = 1 .. n,
           \A e \in 1 .. n : s[e] # Missing => t[e] = s[e],
           NEW d \in 1 .. n, NEW h \in Nat, GradedAt(s, d, h) # 0
    PROVE  GradedAt(t, d, h) \in (d + h) .. GradedAt(s, d, h)
  <1> DEFINE g == GradedAt(s, d, h)
             k == GradedAt(t, d, h)
  <1>1. \A e \in Priced(s) : e \in Priced(t)
    BY DEF Priced
  <1>2. d \in Priced(s) /\ g \in Priced(s) /\ g \in (d + h) .. n
    BY GradedIsFirst
  <1>3. d \in Priced(t) /\ g \in Priced(t) /\ g >= d + h
    BY <1>1, <1>2
  <1>4. k # 0
    BY <1>3, GradedIsFirst
  <1>5. k \in (d + h) .. n /\ \A e \in Priced(t) : e >= d + h => k <= e
    BY <1>4, GradedIsFirst
  <1> HIDE DEF g, k
  <1>6. k \in (d + h) .. g
    BY <1>2, <1>3, <1>5
  <1> QED
    BY <1>6 DEF g, k

\* The tables keep their types and their common length.
LEMMA GradeStepTyped ==
    ASSUME Horizoned, GradeTypeOK, GradeNext
    PROVE  GradeTypeOK'
  <1>1. CASE NewDay
    <2>1. PICK c \in Closes \cup {Missing}, s \in SpyCloses \cup {Missing}, a \in Calls \cup {Missing} :
            close' = Append(close, c) /\ spy' = Append(spy, s) /\ call' = Append(call, a) /\ fills' = fills
      BY <1>1 DEF NewDay
    <2>2. close' \in Seq(Closes \cup {Missing}) /\ Len(close') = Len(close) + 1
      BY <2>1 DEF GradeTypeOK
    <2>3. spy' \in Seq(SpyCloses \cup {Missing}) /\ Len(spy') = Len(spy) + 1
      BY <2>1 DEF GradeTypeOK
    <2>4. call' \in Seq(Calls \cup {Missing}) /\ Len(call') = Len(call) + 1
      BY <2>1 DEF GradeTypeOK
    <2> QED
      BY <2>1, <2>2, <2>3, <2>4 DEF GradeTypeOK
  <1>2. CASE FillBar
    <2>1. fills' \in 0 .. MaxFills /\ call' = call
      BY <1>2 DEF FillBar, GradeTypeOK, Horizoned
    <2>2. PICK d \in DOMAIN close :
            \/ \E c \in Closes : close' = [close EXCEPT ![d] = c] /\ spy' = spy
            \/ \E s \in SpyCloses : spy' = [spy EXCEPT ![d] = s] /\ close' = close
      BY <1>2 DEF FillBar, TableDays
    <2>3. close' \in Seq(Closes \cup {Missing}) /\ Len(close') = Len(close)
      BY <2>2 DEF GradeTypeOK
    <2>4. spy' \in Seq(SpyCloses \cup {Missing}) /\ Len(spy') = Len(spy)
      BY <2>2 DEF GradeTypeOK
    <2> QED
      BY <2>1, <2>3, <2>4 DEF GradeTypeOK
  <1> QED
    BY <1>1, <1>2 DEF GradeNext

\* No step takes a grade back or changes one that is given.
LEMMA StepKeepsGrades ==
    ASSUME Horizoned, GradeTypeOK, [GradeNext]_gradeVars
    PROVE  GradesKept
  <1> SUFFICES ASSUME NEW h \in Horizons
      PROVE  IF Len(call') > Len(call)
             THEN \A d \in Called :
                    /\ GradedAt(close, d, h) # 0 => GradedAt(close', d, h) = GradedAt(close, d, h)
                    /\ GradedAt(spy, d, h) # 0 => GradedAt(spy', d, h) = GradedAt(spy, d, h)
             ELSE \A d \in Graded(h) : GradedAt(close', d, h) \in (d + h) .. GradedAt(close, d, h)
    BY DEF GradesKept
  <1> DEFINE n == Len(close)
  <1>1. h \in Nat
    BY DEF Horizoned
  <1>2. /\ close \in Seq(Closes \cup {Missing}) /\ spy \in Seq(SpyCloses \cup {Missing})
        /\ call \in Seq(Calls \cup {Missing}) /\ Len(spy) = n /\ Len(call) = n
        /\ n \in Nat /\ DOMAIN close = 1 .. n /\ DOMAIN spy = 1 .. n
    BY DEF GradeTypeOK
  <1>3. \A d \in Called : d \in 1 .. n
    BY <1>2 DEF Called, TableDays
  <1> HIDE DEF n
  <1>4. CASE NewDay
    <2>1. PICK c, s, a : close' = Append(close, c) /\ spy' = Append(spy, s) /\ call' = Append(call, a)
      BY <1>4 DEF NewDay
    <2>2. Len(call') > Len(call)
      BY <1>2, <2>1
    <2>3. ASSUME NEW d \in Called
          PROVE  /\ GradedAt(close, d, h) # 0 => GradedAt(close', d, h) = GradedAt(close, d, h)
                 /\ GradedAt(spy, d, h) # 0 => GradedAt(spy', d, h) = GradedAt(spy, d, h)
      <3>1. d \in 1 .. Len(close) /\ d \in 1 .. Len(spy)
        BY <1>2, <1>3 DEF n
      <3>2. GradedAt(close, d, h) # 0 => GradedAt(Append(close, c), d, h) = GradedAt(close, d, h)
        BY <1>1, <1>2, <3>1, AppendKeepsGrade
      <3>3. GradedAt(spy, d, h) # 0 => GradedAt(Append(spy, s), d, h) = GradedAt(spy, d, h)
        BY <1>1, <1>2, <3>1, AppendKeepsGrade
      <3> QED
        BY <2>1, <3>2, <3>3
    <2> QED
      BY <2>2, <2>3
  <1>5. CASE FillBar \/ UNCHANGED gradeVars
    <2>1. call' = call
      BY <1>5 DEF FillBar, gradeVars
    <2>2. ~(Len(call') > Len(call))
      BY <1>2, <2>1
    <2>3. DOMAIN close' = 1 .. n /\ \A e \in 1 .. n : close[e] # Missing => close'[e] = close[e]
      <3>1. CASE close' = close
        BY <1>2, <3>1
      <3>2. CASE \E d \in TableDays : close[d] = Missing /\ \E c \in Closes : close' = [close EXCEPT ![d] = c]
        BY <1>2, <3>2 DEF TableDays
      <3> QED
        BY <1>5, <3>1, <3>2 DEF FillBar, gradeVars
    <2>4. ASSUME NEW d \in Graded(h) PROVE GradedAt(close', d, h) \in (d + h) .. GradedAt(close, d, h)
      <3>1. d \in 1 .. n /\ GradedAt(close, d, h) # 0
        BY <1>3 DEF Graded
      <3> QED
        BY <1>1, <1>2, <2>3, <3>1, FillKeepsGrade
    <2> QED
      BY <2>2, <2>4
  <1> QED
    BY <1>4, <1>5 DEF GradeNext

\* The pages' tables keep their types, for any closes, calls and horizons.
THEOREM GradeTypeCorrect == GradeSpec => []GradeTypeOK
  <1> USE AccuracyAssumption
  <1>1. GradeInit => GradeTypeOK
    BY DEF Horizoned, GradeInit, GradeTypeOK
  <1>2. GradeTypeOK /\ [GradeNext]_gradeVars => GradeTypeOK'
    <2>1. GradeTypeOK /\ UNCHANGED gradeVars => GradeTypeOK'
      BY DEF GradeTypeOK, gradeVars
    <2> QED
      BY <2>1, GradeStepTyped
  <1> QED
    BY <1>1, <1>2, PTL DEF GradeSpec

\* A grade is final, whatever days follow it; a bar that arrives late takes no
\* grade back and moves one only to an earlier day past its horizon.
THEOREM GradesAreFinal == GradeSpec => GradesFinal
  <1> USE AccuracyAssumption
  <1>1. GradeTypeOK /\ [GradeNext]_gradeVars => [GradesKept]_gradeVars
    BY StepKeepsGrades
  <1> QED
    BY <1>1, GradeTypeCorrect, PTL DEF GradeSpec, GradesFinal

\* A move is one of three.
LEMMA MovesAreThree ==
    ASSUME NEW table, NEW d, NEW h
    PROVE  Move(table, d, h) \in {"up", "down", "flat"}
  BY DEF Move, ClassifyMove

\* An action asks for one of three postures.
LEMMA PosturesAreThree ==
    ASSUME NEW action
    PROVE  PostureOf(action) \in {"offensive", "defensive", "normal"}
  BY DEF PostureOf

\* The days of a page are finitely many.
LEMMA CalledIsFinite ==
    ASSUME GradeTypeOK
    PROVE  IsFiniteSet(Called)
  <1>1. TableDays = 1 .. Len(close) /\ Len(close) \in Nat
    BY DEF GradeTypeOK, TableDays
  <1>2. IsFiniteSet(1 .. Len(close))
    BY <1>1, FS_Interval
  <1> QED
    BY <1>1, <1>2, FS_Subset DEF Called

\* The posture page and its baseline are about the same days, and no posture
\* gets more right than the market gave its direction, in any tables.
THEOREM PosturesAreOnBaseline == GradeSpec => []PostureOnBaseline
  <1> USE AccuracyAssumption
  <1>1. GradeTypeOK => PostureOnBaseline
    <2> SUFFICES ASSUME GradeTypeOK, NEW h \in Horizons
        PROVE  /\ Cardinality(UNION {PostureGraded(h, p) : p \in {"offensive", "defensive", "normal"}})
                    = BaselineCount(h, "up") + BaselineCount(h, "down") + BaselineCount(h, "flat")
               /\ \A p \in {"offensive", "defensive", "normal"} :
                    Cardinality(PostureCorrect(h, p)) <= BaselineCount(h, ExpectedOfPosture(p))
      BY DEF PostureOnBaseline
    <2> DEFINE B == BaselineDays(h)
               Moved(move) == {d \in B : Move(spy, d, h) = move}
    <2>1. IsFiniteSet(B)
      BY CalledIsFinite, FS_Subset DEF BaselineDays
    <2>2. UNION {PostureGraded(h, p) : p \in {"offensive", "defensive", "normal"}} = B
      <3>1. \A p : PostureGraded(h, p) = {d \in B : PostureOf(call[d]) = p}
        BY DEF PostureGraded, BaselineDays
      <3>2. \A d \in B : PostureOf(call[d]) \in {"offensive", "defensive", "normal"}
        BY PosturesAreThree
      <3> HIDE DEF B
      <3> QED
        BY <3>1, <3>2
    <2>3. \A move : IsFiniteSet(Moved(move)) /\ BaselineCount(h, move) = Cardinality(Moved(move))
      BY <2>1, FS_Subset DEF BaselineCount
    <2>4. Moved("up") \cup Moved("down") \cup Moved("flat") = B
      BY MovesAreThree
    <2>5. /\ Moved("up") \cap Moved("down") = {}
          /\ (Moved("up") \cup Moved("down")) \cap Moved("flat") = {}
      OBVIOUS
    <2>6. \A p \in {"offensive", "defensive", "normal"} :
            PostureCorrect(h, p) \in SUBSET Moved(ExpectedOfPosture(p))
      BY DEF PostureCorrect, PostureGraded, BaselineDays
    <2> HIDE DEF B, Moved
    <2>7. /\ IsFiniteSet(Moved("up") \cup Moved("down"))
          /\ Cardinality(Moved("up") \cup Moved("down")) = Cardinality(Moved("up")) + Cardinality(Moved("down"))
      BY <2>3, <2>5, ApartAddUp
    <2>8. Cardinality(B) = Cardinality(Moved("up") \cup Moved("down")) + Cardinality(Moved("flat"))
      BY <2>3, <2>4, <2>5, <2>7, ApartAddUp
    <2>9. \A p \in {"offensive", "defensive", "normal"} :
            Cardinality(PostureCorrect(h, p)) <= BaselineCount(h, ExpectedOfPosture(p))
      BY <2>3, <2>6, FS_Subset
    <2> QED
      BY <2>2, <2>3, <2>7, <2>8, <2>9
  <1> QED
    BY <1>1, GradeTypeCorrect, PTL

\* The longer the horizon, the fewer days are graded.
LEMMA LongerGradesFewer ==
    ASSUME NEW n \in Nat, NEW table, DOMAIN table = 1 .. n, NEW d \in 1 .. n,
           NEW h \in Nat, NEW k \in Nat, h <= k, GradedAt(table, d, k) # 0
    PROVE  GradedAt(table, d, h) # 0
  <1>1. d \in Priced(table) /\ GradedAt(table, d, k) \in Priced(table) /\ GradedAt(table, d, k) \in (d + k) .. n
    BY GradedIsFirst
  <1>2. GradedAt(table, d, k) >= d + h
    BY <1>1
  <1> QED
    BY <1>1, <1>2, GradedIsFirst

\* The nth snapshot is the one of rank n.
LEMMA NthHasRank ==
    ASSUME GradeTypeOK, NEW n \in 1 .. Cardinality(Called)
    PROVE  Nth(n) \in Called /\ RankIn(Called, Nth(n)) = n
  <1>1. Called \in SUBSET (1 .. Len(close)) /\ Len(close) \in Nat
    BY DEF GradeTypeOK, Called, TableDays
  <1>2. \E d \in Called : RankIn(Called, d) = n
    BY <1>1, RankIsReached
  <1>3. Nth(n) = CHOOSE d \in Called : RankIn(Called, d) = n
    BY DEF Nth, NthOf
  <1> QED
    BY <1>2, <1>3

\* A cut in percent is after the first and before the last.
LEMMA CutIsInside ==
    ASSUME Splits, NEW pct \in SplitPct, NEW n \in Nat, n >= MinSplit
    PROVE  SplitIndex(n, pct) \in 1 .. (n - 1)
  <1> DEFINE share == (n * pct) \div 100
  <1>1. pct \in 1 .. 99 /\ n >= 2
    BY DEF Splits
  <1>2. n * pct \in Nat /\ n * pct <= 99 * n
    BY <1>1
  <1>3. share \in 0 .. (n - 1)
    <2>1. \A x \in Nat : x <= 99 * n => x \div 100 \in 0 .. (n - 1)
      BY <1>1
    <2> QED
      BY <1>2, <2>1
  <1> HIDE DEF share
  <1>4. {1, share} \in SUBSET (0 .. n) /\ {1, share} # {}
    BY <1>1, <1>3
  <1>5. Max({1, share}) \in {1, share} /\ \A y \in {1, share} : Max({1, share}) >= y
    BY <1>4, MaxIsGreatest
  <1>6. Max({1, share}) \in 1 .. (n - 1)
    BY <1>1, <1>3, <1>5
  <1> QED
    BY <1>6 DEF SplitIndex, share

\* The halves of a split have a snapshot each, share no day and lose none.
LEMMA HalvesAreApart ==
    ASSUME GradeTypeOK, Splits
    PROVE  HalvesApart
  <1> SUFFICES ASSUME Cardinality(Called) >= MinSplit, NEW pct \in SplitPct
      PROVE  /\ TrainDays(pct) # {} /\ TestDays(pct) # {} /\ TrainDays(pct) \cap TestDays(pct) = {}
             /\ Called \subseteq TrainDays(pct) \cup TestDays(pct)
    BY DEF HalvesApart
  <1> DEFINE n == Cardinality(Called)
             m == Len(close)
             k == SplitIndex(n, pct)
             first == Nth(1)
             last == Nth(k)
             next == Nth(k + 1)
             end == Max(Called)
  <1>1. Called \in SUBSET (1 .. m) /\ m \in Nat
    BY DEF GradeTypeOK, Called, TableDays
  <1>2. n \in Nat /\ n >= 2 /\ MinSplit \in Nat
    BY CalledIsFinite, FS_CardinalityType DEF Splits
  <1>3. k \in 1 .. (n - 1)
    BY <1>2, CutIsInside
  <1> HIDE DEF k, n, m
  <1>4. /\ first \in Called /\ RankIn(Called, first) = 1
        /\ last \in Called /\ RankIn(Called, last) = k
        /\ next \in Called /\ RankIn(Called, next) = k + 1
    <2>1. 1 \in 1 .. n /\ k \in 1 .. n /\ k + 1 \in 1 .. n
      BY <1>2, <1>3
    <2> QED
      BY <2>1, NthHasRank DEF n
  <1> HIDE DEF first, last, next
  <1>5. /\ \A d \in Nat : RankIn(Called, d) \in Nat
        /\ \A d \in Nat, e \in Nat : d <= e => RankIn(Called, d) <= RankIn(Called, e)
        /\ \A d \in Nat, e \in Called : d < e => RankIn(Called, d) < RankIn(Called, e)
        /\ RankIn(Called, 0) = 0
    BY <1>1, RankClimbs
  <1>6. Called \in SUBSET (0 .. m) /\ \A d \in Called : d \in Nat /\ d > 0
    BY <1>1
  <1>7. end \in Called /\ \A y \in Called : end >= y
    BY <1>1, <1>4, <1>6, MaxIsGreatest
  <1> HIDE DEF end
  <1>8. first <= last /\ last < next /\ next <= end
    BY <1>3, <1>4, <1>5, <1>6, <1>7
  <1>9. ASSUME NEW d \in Called PROVE first <= d /\ d <= end /\ (d <= last \/ d >= next)
    <2>1. RankIn(Called, d) > 0 /\ d \in Nat /\ RankIn(Called, d) \in Nat
      BY <1>5, <1>6
    <2>2. d < first => RankIn(Called, d) < 1
      BY <1>4, <1>5, <2>1
    <2>3. d < next => RankIn(Called, d) < k + 1
      BY <1>4, <1>5, <2>1
    <2>4. last < d => k < RankIn(Called, d)
      BY <1>4, <1>5, <1>6
    <2> QED
      BY <1>3, <1>4, <1>6, <1>7, <2>1, <2>2, <2>3, <2>4
  <1>10. TrainDays(pct) = first .. last /\ TestDays(pct) = next .. end
    BY DEF TrainDays, TestDays, first, last, next, end, k, n
  <1>11. first \in Nat /\ last \in Nat /\ next \in Nat /\ end \in Nat
    BY <1>4, <1>6, <1>7
  <1>12. first .. last # {} /\ next .. end # {} /\ (first .. last) \cap (next .. end) = {}
    BY <1>8, <1>11
  <1>13. \A d \in Called : d \in first .. last \/ d \in next .. end
    BY <1>6, <1>9, <1>11
  <1> QED
    BY <1>10, <1>12, <1>13

\* The bars the average is taken of are numbers.
LEMMA BarsAreNumbers ==
    ASSUME GradeTypeOK, Averaged
    PROVE  Len(Bars) \in Nat /\ \A k \in 1 .. Len(Bars) : Bars[k] \in Int
  <1> DEFINE kept == {i \in DOMAIN spy : spy[i] # Missing}
             m == Len(spy)
  <1>1. m \in Nat /\ DOMAIN spy = 1 .. m /\ \A i \in 1 .. m : spy[i] \in SpyCloses \cup {Missing}
    BY DEF GradeTypeOK
  <1>2. kept \in SUBSET (1 .. m)
    BY <1>1
  <1>3. Bars = [k \in 1 .. Cardinality(kept) |-> spy[NthOf(kept, k)]]
    BY DEF Bars, Selected
  <1>4. \A i \in kept : spy[i] \in Int
    BY <1>1 DEF Averaged
  <1> HIDE DEF kept
  <1>5. Cardinality(kept) \in Nat /\ \A k \in 1 .. Cardinality(kept) : NthOf(kept, k) \in kept
    BY <1>1, <1>2, NthEnumerates
  <1>6. Len(Bars) = Cardinality(kept)
    BY <1>3, <1>5
  <1> QED
    BY <1>3, <1>4, <1>5, <1>6

\* What the loop of the moving average holds after k bars.
SumStep(f, k) ==
    IF k = 0 THEN 0 ELSE f[k - 1] + Bars[k] - (IF k > Rolling THEN Bars[k - Rolling] ELSE 0)
SummedTo(f, n) == f = [k \in 0 .. n |-> SumStep(f, k)]

\* There is such a running sum, bar by bar.
LEMMA SumExists ==
    ASSUME NEW n \in Nat
    PROVE  \E f : SummedTo(f, n)
  <1> DEFINE Good == {k \in Nat : \E f : SummedTo(f, k)}
  <1>1. 0 \in Good
    <2> DEFINE f == [d \in 0 .. 0 |-> 0]
    <2>1. \A d \in 0 .. 0 : SumStep(f, d) = 0
      BY DEF SumStep
    <2>2. SummedTo(f, 0)
      BY <2>1 DEF SummedTo
    <2> QED
      BY <2>2
  <1>2. ASSUME NEW k \in 0 .. n, k # n, k \in Good PROVE k + 1 \in Good
    <2>1. PICK f : SummedTo(f, k)
      BY <1>2
    <2> DEFINE g == [d \in 0 .. (k + 1) |-> IF d <= k THEN f[d] ELSE SumStep(f, d)]
    <2>2. \A d \in 0 .. k : f[d] = SumStep(f, d)
      BY <2>1 DEF SummedTo
    <2>3. \A d \in 0 .. (k + 1) : SumStep(g, d) = SumStep(f, d)
      <3> TAKE d \in 0 .. (k + 1)
      <3>1. CASE d = 0
        BY <3>1 DEF SumStep
      <3>2. CASE d # 0
        <4>1. d - 1 \in 0 .. (k + 1) /\ d - 1 <= k
          BY <3>2
        <4>2. g[d - 1] = f[d - 1]
          BY <4>1
        <4> HIDE DEF g
        <4> QED
          BY <4>2 DEF SumStep
      <3> QED
        BY <3>1, <3>2
    <2>4. \A d \in 0 .. (k + 1) : g[d] = SumStep(g, d)
      BY <2>2, <2>3
    <2>5. g = [d \in 0 .. (k + 1) |-> g[d]]
      OBVIOUS
    <2>6. SummedTo(g, k + 1)
      <3> HIDE DEF g
      <3> QED
        BY <2>4, <2>5 DEF SummedTo
    <2> QED
      BY <2>6
  <1> HIDE DEF Good
  <1>3. n \in Good
    BY <1>1, <1>2, Climb
  <1> QED
    BY <1>3 DEF Good

LEMMA RunningSumSteps ==
    ASSUME GradeTypeOK, Averaged
    PROVE  \A k \in 0 .. Len(Bars) : RunningSum[k] = SumStep(RunningSum, k)
  <1>1. RunningSum = CHOOSE f : SummedTo(f, Len(Bars))
    BY Zenon DEF RunningSum, SummedTo, SumStep
  <1>2. Len(Bars) \in Nat
    BY BarsAreNumbers
  <1>3. SummedTo(RunningSum, Len(Bars))
    BY <1>1, <1>2, SumExists, Zenon
  <1> QED
    BY <1>3 DEF SummedTo

\* The first bar of the window that ends at a bar.
WindowStart(k) == IF k > Rolling THEN k - Rolling + 1 ELSE 1

\* Taking one bar in and letting one go keeps the running sum that of the
\* window, however long the table is.
LEMMA RollingHolds ==
    ASSUME GradeTypeOK, Averaged
    PROVE  RollingIsWindow
  <1> DEFINE n == Len(Bars)
             W(k) == WindowStart(k) .. k
             Good == {k \in 0 .. n : RunningSum[k] = SumOf(Bars, W(k))}
  <1>1. n \in Nat /\ \A k \in 1 .. n : Bars[k] \in Int
    BY BarsAreNumbers
  <1>2. \A k \in 0 .. n : RunningSum[k] = SumStep(RunningSum, k)
    BY RunningSumSteps
  <1>3. Rolling \in Nat /\ Rolling > 0
    BY DEF Averaged
  <1> HIDE DEF n
  <1>4. ASSUME NEW a \in 1 .. (n + 1), NEW b \in 0 .. n
        PROVE  /\ SumOf(Bars, a .. b) \in Int
               /\ a .. b = {} => SumOf(Bars, a .. b) = 0
               /\ \A x \in a .. b : SumOf(Bars, a .. b) = Bars[x] + SumOf(Bars, (a .. b) \ {x})
    <2> DEFINE S == a .. b
    <2>1. IsFiniteSet(S) /\ \A x \in S : Bars[x] \in Int
      BY <1>1, FS_Interval
    <2> HIDE DEF S
    <2>2. /\ SumOf(Bars, S) \in Int
          /\ S = {} => SumOf(Bars, S) = 0
          /\ \A x \in S : SumOf(Bars, S) = Bars[x] + SumOf(Bars, S \ {x})
      BY <2>1, SumAnyOrder
    <2> QED
      BY <2>2 DEF S
  <1>40. ASSUME NEW a \in 1 .. (n + 1), NEW b \in 0 .. n, NEW x \in a .. b, NEW S, (a .. b) \ {x} = S
         PROVE  SumOf(Bars, a .. b) = Bars[x] + SumOf(Bars, S)
    BY <1>4, <1>40
  <1>5. 0 \in Good
    <2>1. W(0) = {} /\ W(0) = 1 .. 0
      BY <1>3 DEF WindowStart
    <2>2. SumOf(Bars, 1 .. 0) = 0
      BY <1>1, <1>4
    <2>3. RunningSum[0] = 0
      BY <1>1, <1>2 DEF SumStep
    <2> HIDE DEF W
    <2> QED
      BY <1>1, <2>1, <2>2, <2>3
  <1>6. ASSUME NEW k \in 0 .. n, k # n, k \in Good PROVE k + 1 \in Good
    <2> DEFINE a == WindowStart(k)
               b == WindowStart(k + 1)
    <2>1. /\ k \in Nat /\ k + 1 \in 1 .. n /\ a \in 1 .. (n + 1) /\ a <= k + 1 /\ b \in 1 .. (n + 1)
          /\ k + 1 > Rolling => a = k + 1 - Rolling /\ b = a + 1
          /\ ~(k + 1 > Rolling) => b = a
      BY <1>1, <1>3, <1>6 DEF WindowStart
    <2>2. RunningSum[k] = SumOf(Bars, a .. k)
      BY <1>6
    <2>3. RunningSum[k + 1] = RunningSum[k] + Bars[k + 1]
                                - (IF k + 1 > Rolling THEN Bars[k + 1 - Rolling] ELSE 0)
      <3>1. RunningSum[k + 1] = SumStep(RunningSum, k + 1) /\ (k + 1) - 1 = k /\ k + 1 # 0
        BY <1>2, <2>1
      <3> QED
        BY <1>3, <2>1, <3>1 DEF SumStep
    <2> HIDE DEF a, b, W, Good
    <2>4. SumOf(Bars, a .. (k + 1)) = Bars[k + 1] + SumOf(Bars, a .. k)
      <3>1. k + 1 \in a .. (k + 1) /\ (a .. (k + 1)) \ {k + 1} = a .. k
        BY <2>1
      <3> QED
        BY <1>40, <1>1, <2>1, <3>1
    <2>5. CASE k + 1 > Rolling
      <3>1. a \in a .. (k + 1) /\ (a .. (k + 1)) \ {a} = b .. (k + 1)
        BY <2>1, <2>5
      <3>2. SumOf(Bars, a .. (k + 1)) = Bars[a] + SumOf(Bars, b .. (k + 1))
        BY <1>40, <1>1, <2>1, <3>1
      <3>3. /\ SumOf(Bars, b .. (k + 1)) \in Int /\ SumOf(Bars, a .. k) \in Int
            /\ Bars[a] \in Int /\ Bars[k + 1] \in Int
        <4>1. a \in 1 .. n /\ k \in 0 .. n /\ k + 1 \in 0 .. n
          BY <1>1, <2>1, <2>5, <1>3
        <4> QED
          BY <1>1, <1>4, <2>1, <4>1
      <3>4. RunningSum[k + 1] = SumOf(Bars, b .. (k + 1))
        BY <2>1, <2>2, <2>3, <2>4, <2>5, <3>2, <3>3
      <3> QED
        BY <2>1, <3>4 DEF Good, W, b
    <2>6. CASE ~(k + 1 > Rolling)
      <3>1. SumOf(Bars, a .. k) \in Int /\ Bars[k + 1] \in Int
        BY <1>1, <1>4, <2>1
      <3>2. RunningSum[k + 1] = SumOf(Bars, b .. (k + 1))
        BY <2>1, <2>2, <2>3, <2>4, <2>6, <3>1
      <3> QED
        BY <2>1, <3>2 DEF Good, W, b
    <2> QED
      BY <2>5, <2>6
  <1> HIDE DEF Good
  <1>7. \A k \in 0 .. n : k \in Good
    BY <1>1, <1>5, <1>6, Climb
  <1>8. ASSUME NEW k \in 1 .. n PROVE Max({1, k - Rolling + 1}) = WindowStart(k)
    BY <1>1, <1>3, MaxOfTwo DEF WindowStart
  <1>9. \A k \in 1 .. n : RunningSum[k] = SumOf(Bars, Max({1, k - Rolling + 1}) .. k)
    BY <1>1, <1>7, <1>8 DEF Good
  <1> QED
    BY <1>9 DEF RollingIsWindow, SumOf, n

\* The samples of the studies: events are nested by horizon, the two halves of
\* a split share no day and leave no snapshot out, and the running sum is that
\* of its window, in any tables.
THEOREM SamplesAreSound == GradeSpec => []StudySamples
  <1> USE AccuracyAssumption
  <1>1. GradeTypeOK => EventsNested
    <2> SUFFICES ASSUME GradeTypeOK, NEW a \in Calls, NEW h \in Horizons, NEW k \in Horizons, h <= k,
                        NEW d \in EventDays(a, k)
                 PROVE  d \in EventDays(a, h)
      BY DEF EventsNested
    <2>1. h \in Nat /\ k \in Nat
      BY DEF Horizoned
    <2>2. /\ Len(close) \in Nat /\ DOMAIN close = 1 .. Len(close) /\ DOMAIN spy = 1 .. Len(close)
          /\ d \in 1 .. Len(close)
      BY DEF GradeTypeOK, EventDays, Called, TableDays
    <2>3. GradedAt(close, d, k) # 0 /\ GradedAt(spy, d, k) # 0
      BY DEF EventDays
    <2>4. GradedAt(close, d, h) # 0 /\ GradedAt(spy, d, h) # 0
      BY <2>1, <2>2, <2>3, LongerGradesFewer
    <2> QED
      BY <2>4 DEF EventDays
  <1>2. GradeTypeOK => HalvesApart /\ RollingIsWindow
    BY HalvesAreApart, RollingHolds
  <1>3. GradeTypeOK => StudySamples
    BY <1>1, <1>2 DEF StudySamples
  <1> QED
    BY <1>3, GradeTypeCorrect, PTL

---------------------------------------------------------------------------
(* The posture streak                                                      *)

\* Snapshots, runs of one posture and the rows they should have, of a table m.
DatedIn(m) == {d \in Days : m[d] # "none"}
RunIn(m, d) == {e \in DatedIn(m) : e <= d /\ \A f \in DatedIn(m) : e <= f /\ f <= d => m[f] = m[d]}
TruthIn(m, d) ==
    IF d \in DatedIn(m)
    THEN [posture |-> m[d], days |-> Cardinality(RunIn(m, d)), start |-> Min(RunIn(m, d))]
    ELSE NoStreak
BeforeIn(m, d) == {e \in DatedIn(m) : e < d}

\* A run is a finite set of days.
LEMMA RunsAreFinite ==
    ASSUME NEW m, NEW d \in DatedIn(m)
    PROVE  /\ IsFiniteSet(RunIn(m, d)) /\ RunIn(m, d) \subseteq 1 .. d /\ d \in RunIn(m, d)
           /\ Min(RunIn(m, d)) \in RunIn(m, d) /\ \A y \in RunIn(m, d) : Min(RunIn(m, d)) <= y
  <1>1. d \in Nat
    BY CalendarAssumption DEF DatedIn, Days
  <1>2. RunIn(m, d) \subseteq 1 .. d /\ d \in RunIn(m, d)
    BY <1>1 DEF RunIn, DatedIn, Days
  <1>3. IsFiniteSet(RunIn(m, d))
    <2>1. IsFiniteSet(1 .. d)
      BY <1>1, FS_Interval
    <2> QED
      BY <1>2, <2>1, FS_Subset
  <1>4. RunIn(m, d) \in SUBSET Nat
    BY <1>1, <1>2
  <1> QED
    BY <1>2, <1>3, <1>4, MinIsLeast

\* A day's row follows from the row of the snapshot before it.
LEMMA TruthExtends ==
    ASSUME NEW m, NEW d \in DatedIn(m)
    PROVE  TruthIn(m, d) = IF BeforeIn(m, d) = {} THEN Extend(NoStreak, d, m[d])
                           ELSE Extend(TruthIn(m, Max(BeforeIn(m, d))), d, m[d])
  <1> DEFINE t == Max(BeforeIn(m, d))
             fresh == [posture |-> m[d], days |-> 1, start |-> d]
  <1>1. d \in Days /\ d \in Nat /\ m[d] # "none"
    BY CalendarAssumption DEF DatedIn, Days
  <1>0. d \in RunIn(m, d) /\ \A e \in RunIn(m, d) : e \in DatedIn(m) /\ e \in Nat /\ (e < d \/ e = d)
    <2>1. d \in RunIn(m, d) /\ \A e \in RunIn(m, d) : e \in 1 .. d
      BY RunsAreFinite
    <2>2. \A e \in RunIn(m, d) : e \in DatedIn(m)
      BY DEF RunIn
    <2> QED
      BY <1>1, <2>1, <2>2
  <1>2. ASSUME RunIn(m, d) = {d} PROVE TruthIn(m, d) = fresh
    <2>1. Cardinality({d}) = 1
      BY FS_Singleton
    <2>2. Min({d}) = d
      BY <1>2, RunsAreFinite
    <2> QED
      BY <1>2, <2>1, <2>2 DEF TruthIn
  <1>3. CASE BeforeIn(m, d) = {}
    <2>1. RunIn(m, d) = {d}
      BY <1>0, <1>3 DEF BeforeIn
    <2> QED
      BY <1>1, <1>2, <1>3, <2>1 DEF Extend, NoStreak
  <1>4. CASE BeforeIn(m, d) # {}
    <2>1. BeforeIn(m, d) \in SUBSET (0 .. d)
      BY <1>1, CalendarAssumption DEF BeforeIn, DatedIn, Days
    <2>2. t \in BeforeIn(m, d) /\ \A y \in BeforeIn(m, d) : t >= y
      BY <1>1, <1>4, <2>1, MaxIsGreatest
    <2> HIDE DEF t
    <2>3. t \in DatedIn(m) /\ t < d /\ t \in Nat
      BY <2>1, <2>2 DEF BeforeIn
    <2>4. \A f \in DatedIn(m) : f <= d => f = d \/ f <= t
      BY <1>1, <2>2 DEF BeforeIn, DatedIn, Days
    <2>5. CASE m[t] # m[d]
      <3>1. RunIn(m, d) = {d}
        <4>1. \A e \in RunIn(m, d) : e <= t => m[t] = m[d]
          BY <2>3 DEF RunIn
        <4> QED
          BY <1>0, <2>2, <2>5, <4>1 DEF BeforeIn
      <3>2. TruthIn(m, t).posture # m[d]
        BY <2>3, <2>5 DEF TruthIn
      <3> QED
        BY <1>2, <1>4, <3>1, <3>2 DEF Extend, t
    <2>6. CASE m[t] = m[d]
      <3>1. RunIn(m, d) = RunIn(m, t) \cup {d}
        <4>1. ASSUME NEW e \in RunIn(m, d), e # d PROVE e \in RunIn(m, t)
          <5>1. e \in DatedIn(m) /\ e <= t
            BY <1>0, <2>2, <4>1 DEF BeforeIn
          <5> QED
            BY <1>1, <2>3, <2>6, <5>1 DEF RunIn, DatedIn, Days
        <4>2. ASSUME NEW e \in RunIn(m, t) PROVE e \in RunIn(m, d)
          <5>1. e \in DatedIn(m) /\ e \in Nat /\ e <= t
            <6>1. e \in 1 .. t
              BY <2>3, <4>2, RunsAreFinite
            <6> QED
              BY <2>3, <4>2, <6>1 DEF RunIn
          <5>2. \A f \in DatedIn(m) : e <= f /\ f <= d => m[f] = m[d]
            BY <2>4, <2>6, <4>2 DEF RunIn
          <5> QED
            BY <1>1, <2>3, <5>1, <5>2 DEF RunIn
        <4> QED
          BY <1>0, <4>1, <4>2
      <3>2. d \notin RunIn(m, t) /\ \A y \in RunIn(m, t) : y < d
        BY <2>3, RunsAreFinite
      <3>3. Cardinality(RunIn(m, d)) = Cardinality(RunIn(m, t)) + 1
        BY <2>3, <3>1, <3>2, RunsAreFinite, FS_AddElement
      <3>4. Min(RunIn(m, d)) = Min(RunIn(m, t))
        <4>1. /\ Min(RunIn(m, d)) \in RunIn(m, d) /\ \A y \in RunIn(m, d) : Min(RunIn(m, d)) <= y
              /\ Min(RunIn(m, t)) \in RunIn(m, t) /\ \A y \in RunIn(m, t) : Min(RunIn(m, t)) <= y
              /\ RunIn(m, d) \subseteq 1 .. d
          BY <2>3, RunsAreFinite
        <4> QED
          BY <1>1, <3>1, <3>2, <4>1
      <3>5. /\ TruthIn(m, t) = [posture |-> m[d], days |-> Cardinality(RunIn(m, t)), start |-> Min(RunIn(m, t))]
            /\ TruthIn(m, d) = [posture |-> m[d], days |-> Cardinality(RunIn(m, t)) + 1, start |-> Min(RunIn(m, t))]
        BY <2>3, <2>6, <3>3, <3>4 DEF TruthIn
      <3> QED
        BY <1>4, <3>5 DEF Extend, t
    <2> QED
      BY <2>5, <2>6
  <1> QED
    BY <1>3, <1>4

\* The row of a day is a matter of the snapshots up to it.
LEMMA TruthIsLocal ==
    ASSUME NEW m, NEW n, NEW d \in Days, \A e \in Days : e <= d => m[e] = n[e]
    PROVE  TruthIn(m, d) = TruthIn(n, d)
  <1>1. RunIn(m, d) = RunIn(n, d)
    BY CalendarAssumption DEF RunIn, DatedIn, Days
  <1> QED
    BY <1>1, CalendarAssumption DEF TruthIn, DatedIn, Days

\* A row of day d counts no more days than there are.
RowsOf(d) == [posture : Postures \cup {"none"}, days : 0 .. d, start : 0 .. d]
RowsFit == \A d \in Days : streak[d] \in RowsOf(d)

\* Beside the posture: a day without a snapshot has no row at all.
Paired == \A d \in Days : streak[d].posture = market[d] /\ (market[d] = "none" => streak[d] = NoStreak)

\* A revalidation goes over days from its first on.
InRange ==
    reval.at # "idle" => /\ reval.from \in Days
                         /\ \A d \in reval.todo : d >= reval.from

\* Without late updates nothing is composed before a revalidation's first day.
FirstIsFirst ==
    used.late = 0 /\ reval.at # "idle" => \A d \in Dated : d >= reval.from

RowsTrue == \A d \in Days : streak[d] = TruthIn(market, d)
UpToDate ==
    used.late = 0 /\ used.interruptions = 0 /\ reval.at \in {"idle", "queued", "rebuilt"} => RowsTrue
Restored ==
    reval.at = "rebuilt" /\ (\A d \in Dated : d >= reval.from) => RowsTrue

StreakInv == /\ StreakTypeOK /\ RowsFit /\ Paired /\ InRange
             /\ FirstIsFirst /\ UpToDate /\ Restored

\* One step of the rebuild's walk; the walk as a whole exists.
WalkStep(f, d) ==
    IF d < reval.from THEN StreakBefore
    ELSE IF d \in Dated THEN Extend(f[d - 1], d, market[d])
    ELSE f[d - 1]
WalkedTo(f, n) == f = [d \in 0 .. n |-> WalkStep(f, d)]

\* The walk is defined day by day, so there is a function that makes each step.
LEMMA WalkExists ==
    ASSUME reval.from \in Days
    PROVE  \E f : WalkedTo(f, MaxDay)
  <1> DEFINE Good == {n \in Nat : \E f : WalkedTo(f, n)}
  <1>1. MaxDay \in Nat /\ reval.from \in Nat /\ reval.from > 0
    BY CalendarAssumption DEF Days
  <1>2. 0 \in Good
    <2> DEFINE f == [d \in 0 .. 0 |-> StreakBefore]
    <2>1. \A d \in 0 .. 0 : WalkStep(f, d) = StreakBefore
      BY <1>1 DEF WalkStep
    <2>2. WalkedTo(f, 0)
      BY <2>1 DEF WalkedTo
    <2> QED
      BY <2>2
  <1>3. ASSUME NEW n \in 0 .. MaxDay, n # MaxDay, n \in Good PROVE n + 1 \in Good
    <2>1. PICK f : WalkedTo(f, n)
      BY <1>3
    <2> DEFINE g == [d \in 0 .. (n + 1) |-> IF d <= n THEN f[d] ELSE WalkStep(f, d)]
    <2>2. \A d \in 0 .. n : f[d] = WalkStep(f, d)
      BY <2>1 DEF WalkedTo
    <2>3. \A d \in 0 .. (n + 1) : WalkStep(g, d) = WalkStep(f, d)
      <3> TAKE d \in 0 .. (n + 1)
      <3>1. CASE d < reval.from
        BY <3>1 DEF WalkStep
      <3>2. CASE ~(d < reval.from)
        <4>1. d - 1 \in 0 .. (n + 1) /\ d - 1 <= n
          BY <1>1, <1>3, <3>2
        <4>2. g[d - 1] = f[d - 1]
          BY <4>1
        <4> HIDE DEF g
        <4> QED
          BY <4>2 DEF WalkStep
      <3> QED
        BY <3>1, <3>2
    <2>4. \A d \in 0 .. (n + 1) : g[d] = WalkStep(g, d)
      BY <2>2, <2>3, <1>3
    <2>5. DOMAIN g = 0 .. (n + 1) /\ g = [d \in 0 .. (n + 1) |-> g[d]]
      OBVIOUS
    <2>6. WalkedTo(g, n + 1)
      <3> HIDE DEF g
      <3> QED
        BY <2>4, <2>5 DEF WalkedTo
    <2> QED
      BY <1>3, <2>6
  <1> HIDE DEF Good
  <1>4. MaxDay \in Good
    BY <1>1, <1>2, <1>3, Climb
  <1> QED
    BY <1>4 DEF Good

\* rebuild_streak_table holds, after each day, what its loop says.
LEMMA ReplayedSteps ==
    ASSUME reval.from \in Days
    PROVE  \A d \in 0 .. MaxDay : Replayed[d] = WalkStep(Replayed, d)
  <1>1. Replayed = CHOOSE prev : WalkedTo(prev, MaxDay)
    BY Zenon DEF Replayed, WalkedTo, WalkStep
  <1>2. WalkedTo(Replayed, MaxDay)
    BY <1>1, WalkExists, Zenon
  <1> QED
    BY <1>2 DEF WalkedTo

\* Extending a row keeps it within its day.
LEMMA ExtendFits ==
    ASSUME NEW d \in Nat, NEW c \in 0 .. (d - 1), NEW prior \in RowsOf(c), NEW p \in Postures
    PROVE  Extend(prior, d, p) \in RowsOf(d) /\ Extend(prior, d, p).posture = p
  <1>1. /\ prior.posture \in Postures \cup {"none"} /\ prior.days \in 0 .. c /\ prior.start \in 0 .. c
        /\ prior = [posture |-> prior.posture, days |-> prior.days, start |-> prior.start]
    BY DEF RowsOf
  <1>2. prior.days + 1 \in 0 .. d /\ prior.start \in 0 .. d /\ 1 \in 0 .. d /\ d \in 0 .. d
    BY <1>1
  <1>3. CASE prior.posture = p
    <2>1. Extend(prior, d, p) = [posture |-> p, days |-> prior.days + 1, start |-> prior.start]
      BY <1>1, <1>3 DEF Extend
    <2> QED
      BY <1>2, <2>1 DEF RowsOf
  <1>4. CASE prior.posture # p
    BY <1>2, <1>4 DEF Extend, RowsOf
  <1> QED
    BY <1>3, <1>4

\* The rows a rebuild writes are rows, each of the posture of its day.
LEMMA ReplayedFits ==
    ASSUME StreakTypeOK, RowsFit, reval.from \in Days
    PROVE  \A d \in Days : d >= reval.from =>
             /\ Replayed[d] \in RowsOf(d)
             /\ d \in Dated => Replayed[d].posture = market[d]
  <1> DEFINE Good == {d \in Nat : Replayed[d] \in RowsOf(d)}
             from == reval.from
  <1>1. MaxDay \in Nat /\ from \in Nat /\ from > 0 /\ from <= MaxDay
    BY CalendarAssumption DEF Days
  <1>2. from - 1 \in Good
    <2>1. Replayed[from - 1] = StreakBefore
      BY <1>1, ReplayedSteps DEF WalkStep
    <2>2. StreakBefore \in RowsOf(from - 1)
      BY <1>1 DEF StreakBefore, RowsFit, RowsOf, NoStreak
    <2> QED
      BY <1>1, <2>1, <2>2
  <1>3. ASSUME NEW d \in (from - 1) .. MaxDay, d # MaxDay, d \in Good
        PROVE  /\ d + 1 \in Good
               /\ d + 1 \in Dated => Replayed[d + 1].posture = market[d + 1]
    <2>1. d \in Nat /\ d + 1 \in 0 .. MaxDay /\ ~(d + 1 < from) /\ (d + 1) - 1 = d /\ d + 1 \in Days
      BY <1>1, <1>3 DEF Days
    <2>2. Replayed[d + 1] = IF d + 1 \in Dated THEN Extend(Replayed[d], d + 1, market[d + 1]) ELSE Replayed[d]
      BY <2>1, ReplayedSteps DEF WalkStep
    <2>3. Replayed[d] \in RowsOf(d)
      BY <1>3
    <2>4. CASE d + 1 \in Dated
      <3>1. market[d + 1] \in Postures
        BY <2>1, <2>4 DEF StreakTypeOK, Dated
      <3>2. d \in 0 .. ((d + 1) - 1)
        BY <2>1
      <3> QED
        BY <2>1, <2>2, <2>3, <2>4, <3>1, <3>2, ExtendFits
    <2>5. CASE d + 1 \notin Dated
      <3>1. RowsOf(d) \subseteq RowsOf(d + 1)
        BY <2>1 DEF RowsOf
      <3> QED
        BY <2>1, <2>2, <2>3, <2>5, <3>1
    <2> QED
      BY <2>4, <2>5
  <1>4. \A d \in (from - 1) .. MaxDay : d \in Good
    <2> HIDE DEF Good
    <2>1. from - 1 \in Nat
      BY <1>1
    <2> QED
      BY <1>1, <1>2, <1>3, <2>1, Climb
  <1> SUFFICES ASSUME NEW d \in Days, d >= from
               PROVE  Replayed[d] \in RowsOf(d) /\ (d \in Dated => Replayed[d].posture = market[d])
    OBVIOUS
  <1>5. d - 1 \in (from - 1) .. MaxDay /\ d - 1 # MaxDay /\ (d - 1) + 1 = d /\ d \in (from - 1) .. MaxDay
    BY <1>1 DEF Days
  <1> QED
    BY <1>3, <1>4, <1>5

\* With nothing older than its first day, the walk finds every day's row.
LEMMA ReplayedIsTruth ==
    ASSUME StreakTypeOK, Paired, reval.from \in Days, \A d \in Dated : d >= reval.from
    PROVE  \A d \in Dated : Replayed[d] = TruthIn(market, d)
  <1> DEFINE Seen(d) == BeforeIn(market, d + 1)
             Good == {d \in Nat : Replayed[d] = IF Seen(d) = {} THEN NoStreak ELSE TruthIn(market, Max(Seen(d)))}
             from == reval.from
  <1>1. MaxDay \in Nat /\ from \in Nat /\ from > 0 /\ from <= MaxDay
    BY CalendarAssumption DEF Days
  <1>2. DatedIn(market) = Dated /\ \A d \in Dated : d \in 1 .. MaxDay
    BY DEF DatedIn, Dated, Days
  <1>3. from - 1 \in Good
    <2>1. Replayed[from - 1] = StreakBefore
      BY <1>1, ReplayedSteps DEF WalkStep
    <2>2. StreakBefore = NoStreak
      <3>1. from - 1 \in Days => from - 1 \notin Dated
        BY <1>1
      <3> QED
        BY <3>1 DEF StreakBefore, Paired, Dated
    <2>3. Seen(from - 1) = {}
      BY <1>1, <1>2 DEF BeforeIn
    <2> QED
      BY <1>1, <2>1, <2>2, <2>3
  \* The newest snapshot up to a day that has one is that day's.
  <1>4. ASSUME NEW d \in Nat, d \in Dated PROVE Seen(d) # {} /\ Max(Seen(d)) = d
    <2>0. d < d + 1 /\ \A e \in 1 .. MaxDay : e < d + 1 => e <= d /\ e \in 0 .. d
      BY <1>1
    <2>1. d \in Seen(d) /\ \A e \in Seen(d) : e <= d /\ e \in 0 .. d
      BY <1>2, <1>4, <2>0 DEF BeforeIn
    <2>2. Seen(d) \in SUBSET (0 .. d) /\ Seen(d) # {}
      BY <2>1
    <2> HIDE DEF Seen
    <2>3. Max(Seen(d)) \in Seen(d) /\ \A e \in Seen(d) : Max(Seen(d)) >= e
      BY <2>2, MaxIsGreatest
    <2>4. Max(Seen(d)) \in Nat
      BY <2>2, <2>3
    <2> QED
      BY <2>1, <2>2, <2>3, <2>4
  <1>5. ASSUME NEW d \in (from - 1) .. MaxDay, d # MaxDay, d \in Good PROVE d + 1 \in Good
    <2>1. d \in Nat /\ d + 1 \in Nat /\ d + 1 \in 0 .. MaxDay /\ ~(d + 1 < from) /\ (d + 1) - 1 = d
      BY <1>1, <1>5
    <2>2. Replayed[d + 1] = IF d + 1 \in Dated THEN Extend(Replayed[d], d + 1, market[d + 1]) ELSE Replayed[d]
      BY <2>1, ReplayedSteps DEF WalkStep
    <2>3. Replayed[d] = IF Seen(d) = {} THEN NoStreak ELSE TruthIn(market, Max(Seen(d)))
      BY <1>5
    <2>4. CASE d + 1 \in Dated
      <3>1. TruthIn(market, d + 1) = Extend(Replayed[d], d + 1, market[d + 1])
        BY <1>2, <2>3, <2>4, TruthExtends
      <3>2. Seen(d + 1) # {} /\ Max(Seen(d + 1)) = d + 1
        BY <1>4, <2>1, <2>4
      <3> HIDE DEF Seen
      <3> QED
        BY <2>1, <2>2, <2>4, <3>1, <3>2
    <2>5. CASE d + 1 \notin Dated
      <3>1. Seen(d + 1) = Seen(d)
        BY <1>2, <2>1, <2>5 DEF BeforeIn
      <3> HIDE DEF Seen
      <3> QED
        BY <2>1, <2>2, <2>3, <2>5, <3>1
    <2> QED
      BY <2>4, <2>5
  <1>6. \A d \in (from - 1) .. MaxDay : d \in Good
    <2> HIDE DEF Good
    <2>1. from - 1 \in Nat
      BY <1>1
    <2> QED
      BY <1>1, <1>3, <1>5, <2>1, Climb
  <1> SUFFICES ASSUME NEW d \in Dated PROVE Replayed[d] = TruthIn(market, d)
    OBVIOUS
  <1>7. d \in (from - 1) .. MaxDay /\ d \in Nat
    BY <1>1, <1>2
  <1>8. d \in Good /\ Seen(d) # {} /\ Max(Seen(d)) = d
    BY <1>4, <1>6, <1>7
  <1> HIDE DEF Seen
  <1> QED
    BY <1>8

---------------------------------------------------------------------------
(* A day composed                                                          *)

\* Where rows and snapshots pair, the rows before a day are its snapshots'.
LEMMA EarlierAreDated ==
    ASSUME Paired, NEW d \in Days
    PROVE  Earlier(d) = BeforeIn(market, d)
  <1>1. \A e \in Days : streak[e] # NoStreak <=> market[e] # "none"
    BY DEF Paired, NoStreak
  <1> QED
    BY <1>1 DEF Earlier, BeforeIn, DatedIn

\* The row before a day, if there is one.
Prior(d) == IF Earlier(d) = {} THEN NoStreak ELSE streak[Max(Earlier(d))]

\* Of the rows before a day one is the newest.
LEMMA EarlierHasNewest ==
    ASSUME NEW d \in Days, Earlier(d) # {}
    PROVE  /\ Max(Earlier(d)) \in Earlier(d) /\ Max(Earlier(d)) \in Days
           /\ Max(Earlier(d)) \in 0 .. (d - 1)
  <1>1. d \in Nat
    BY CalendarAssumption DEF Days
  <1>2. Earlier(d) \in SUBSET (0 .. d)
    BY <1>1, CalendarAssumption DEF Earlier, Days
  <1>3. Max(Earlier(d)) \in Earlier(d)
    BY <1>1, <1>2, MaxIsGreatest
  <1>4. \A e \in Earlier(d) : e \in Days /\ e \in 0 .. (d - 1)
    BY <1>1, CalendarAssumption DEF Earlier, Days
  <1> QED
    BY <1>3, <1>4

\* The row that record_posture writes is a row, of the posture it was given.
LEMMA RecordFits ==
    ASSUME RowsFit, NEW d \in Days, NEW p \in Postures
    PROVE  Extend(Prior(d), d, p) \in RowsOf(d) /\ Extend(Prior(d), d, p).posture = p
  <1>1. d \in Nat /\ d > 0
    BY CalendarAssumption DEF Days
  <1>2. CASE Earlier(d) = {}
    <2>1. Prior(d) \in RowsOf(0) /\ 0 \in 0 .. (d - 1)
      BY <1>1, <1>2 DEF Prior, RowsOf, NoStreak
    <2> QED
      BY <1>1, <2>1, ExtendFits
  <1>3. CASE Earlier(d) # {}
    <2> DEFINE e == Max(Earlier(d))
    <2>1. e \in Days /\ e \in 0 .. (d - 1)
      BY <1>3, EarlierHasNewest
    <2>2. Prior(d) \in RowsOf(e)
      BY <1>3, <2>1 DEF Prior, RowsFit
    <2> HIDE DEF e
    <2> QED
      BY <1>1, <2>1, <2>2, ExtendFits
  <1> QED
    BY <1>2, <1>3

\* Composing a day keeps types, widths and pairs.
LEMMA ComposeKeeps ==
    ASSUME StreakTypeOK, RowsFit, Paired, StreakBounds, NEW d \in Days, NEW p \in Postures, Compose(d, p)
    PROVE  /\ market' \in [Days -> Postures \cup {"none"}] /\ streak' \in [Days -> Row]
           /\ RowsFit' /\ Paired'
  <1> DEFINE r == Extend(Prior(d), d, p)
  <1>1. market' = [market EXCEPT ![d] = p] /\ streak' = [streak EXCEPT ![d] = r]
    BY DEF Compose, Record, Prior
  <1>2. r \in RowsOf(d) /\ r.posture = p
    BY RecordFits
  <1> HIDE DEF r
  <1>3. d \in 0 .. MaxDay
    BY CalendarAssumption DEF Days
  <1>4. r \in Row
    <2>1. RowsOf(d) \subseteq Row
      BY <1>3, CalendarAssumption DEF RowsOf, Row
    <2> QED
      BY <1>2, <2>1
  <1>5. market \in [Days -> Postures \cup {"none"}] /\ streak \in [Days -> Row]
    BY DEF StreakTypeOK
  <1>6. market' \in [Days -> Postures \cup {"none"}] /\ streak' \in [Days -> Row]
    BY <1>1, <1>4, <1>5
  <1>7. RowsFit'
    <2>1. \A e \in Days : streak'[e] \in RowsOf(e)
      BY <1>1, <1>2, <1>5 DEF RowsFit
    <2> QED
      BY <2>1 DEF RowsFit, RowsOf
  <1>8. Paired'
    <2>1. \A e \in Days : e # d => streak'[e] = streak[e] /\ market'[e] = market[e]
      BY <1>1, <1>5
    <2>2. streak'[d].posture = p /\ market'[d] = p /\ p # "none"
      BY <1>1, <1>2, <1>5 DEF StreakBounds
    <2> QED
      BY <2>1, <2>2 DEF Paired, NoStreak
  <1> QED
    BY <1>6, <1>7, <1>8

\* Composing the newest day, from rows that are true, keeps them true.
LEMMA ComposeIsTrue ==
    ASSUME StreakTypeOK, RowsFit, Paired, StreakBounds, NEW d \in Days, NEW p \in Postures, Compose(d, p),
           RowsTrue, \A e \in Dated : e <= d
    PROVE  RowsTrue'
  <1> DEFINE m == market'
  <1>1. /\ m = [market EXCEPT ![d] = p]
        /\ streak' = [streak EXCEPT ![d] = Extend(Prior(d), d, p)]
    BY DEF Compose, Record, Prior
  <1>2. market \in [Days -> Postures \cup {"none"}] /\ streak \in [Days -> Row]
    BY DEF StreakTypeOK
  <1>3. d \in DatedIn(m) /\ m[d] = p
    BY <1>1, <1>2 DEF DatedIn, StreakBounds
  <1>4. \A e \in Days : e # d => m[e] = market[e] /\ streak'[e] = streak[e]
    BY <1>1, <1>2
  <1> HIDE DEF m
  <1>5. BeforeIn(m, d) = Earlier(d)
    <2>1. Earlier(d) = BeforeIn(market, d)
      BY EarlierAreDated
    <2>2. BeforeIn(market, d) = BeforeIn(m, d)
      BY <1>4, CalendarAssumption DEF BeforeIn, DatedIn, Days
    <2> QED
      BY <2>1, <2>2
  <1>6. streak'[d] = TruthIn(m, d)
    <2>1. streak'[d] = Extend(Prior(d), d, p)
      BY <1>1, <1>2
    <2>2. CASE Earlier(d) = {}
      BY <1>3, <1>5, <2>1, <2>2, TruthExtends DEF Prior
    <2>3. CASE Earlier(d) # {}
      <3> DEFINE t == Max(Earlier(d))
      <3>1. t \in Days /\ t \in 0 .. (d - 1)
        BY <2>3, EarlierHasNewest
      <3>2. Prior(d) = TruthIn(market, t)
        BY <2>3, <3>1 DEF Prior, RowsTrue
      <3>3. TruthIn(market, t) = TruthIn(m, t)
        <4>1. \A e \in Days : e <= t => market[e] = m[e]
          <5> HIDE DEF t
          <5> QED
            BY <1>4, <3>1, CalendarAssumption DEF Days
        <4> HIDE DEF t
        <4> QED
          BY <3>1, <4>1, TruthIsLocal
      <3> QED
        BY <1>3, <1>5, <2>1, <2>3, <3>2, <3>3, TruthExtends
    <2> QED
      BY <2>2, <2>3
  <1>7. ASSUME NEW e \in Days, e # d PROVE streak'[e] = TruthIn(m, e)
    <2>1. streak'[e] = TruthIn(market, e)
      BY <1>4, <1>7 DEF RowsTrue
    <2>2. CASE e < d
      <3>1. \A f \in Days : f <= e => market[f] = m[f]
        BY <1>4, <2>2, CalendarAssumption DEF Days
      <3> QED
        BY <2>1, <3>1, TruthIsLocal
    <2>3. CASE e > d
      <3>1. e \notin Dated
        BY <2>3, CalendarAssumption DEF Days
      <3>2. e \notin DatedIn(market) /\ e \notin DatedIn(m)
        BY <1>4, <1>7, <3>1 DEF Dated, DatedIn
      <3> QED
        BY <2>1, <3>2 DEF TruthIn
    <2> QED
      BY <1>7, <2>2, <2>3, CalendarAssumption DEF Days
  <1>8. \A e \in Days : streak'[e] = TruthIn(m, e)
    BY <1>6, <1>7
  <1>9. RowsTrue' <=> \A e \in Days : streak'[e] = TruthIn(m, e)
    BY DEF RowsTrue, m, TruthIn, DatedIn, RunIn, NoStreak
  <1> QED
    BY <1>8, <1>9

---------------------------------------------------------------------------
(* The steps                                                               *)

\* The newest session is a session, the first calendar day being one.
LEMMA SessionIsTrading ==
    ASSUME today \in Days
    PROVE  SessionDay \in Trading
  <1>1. MaxDay \in Nat /\ Trading \subseteq Days /\ 1 \in Trading /\ today \in Nat
    BY CalendarAssumption DEF Days
  <1> DEFINE S == {d \in Trading : d <= today}
  <1>2. S \in SUBSET (0 .. MaxDay) /\ S # {}
    <2>1. \A d \in Days : d \in 0 .. MaxDay
      BY <1>1 DEF Days
    <2>2. 1 <= today
      BY DEF Days
    <2> QED
      BY <1>1, <2>1, <2>2
  <1>3. Max(S) \in S
    <2> HIDE DEF S
    <2> QED
      BY <1>1, <1>2, MaxIsGreatest
  <1> QED
    BY <1>3 DEF SessionDay

\* What is said of the rows stays said while the rows and snapshots stay.
LEMMA RowsUnchanged ==
    ASSUME market' = market, streak' = streak
    PROVE  /\ (RowsFit' <=> RowsFit) /\ (Paired' <=> Paired) /\ (RowsTrue' <=> RowsTrue)
           /\ Dated' = Dated
  <1>1. RowsTrue' <=> RowsTrue
    BY DEF RowsTrue, TruthIn, DatedIn, RunIn, NoStreak
  <1> QED
    BY <1>1 DEF RowsFit, Paired, Dated, RowsOf, NoStreak

\* Two empty tables are paired and true.
LEMMA StreakInitHolds ==
    ASSUME StreakBounds, StreakInit
    PROVE  StreakInv
  <1>1. MaxDay \in Nat /\ Trading \subseteq Days /\ 1 \in Days /\ Dated = {} /\ DatedIn(market) = {}
    BY CalendarAssumption DEF StreakInit, Days, Dated, DatedIn
  <1>2. StreakTypeOK
    BY <1>1 DEF StreakBounds, StreakInit, StreakTypeOK, Row, NoStreak, NoJob
  <1>3. RowsFit /\ Paired
    BY <1>1 DEF StreakInit, RowsFit, RowsOf, Paired, NoStreak, Days
  <1>4. RowsTrue
    BY <1>1 DEF StreakInit, RowsTrue, TruthIn
  <1> QED
    BY <1>2, <1>3, <1>4 DEF StreakInit, NoJob, StreakInv, InRange, FirstIsFirst, UpToDate, Restored

\* An update composes its day or not, late or not.
LEMMA UpdateComposeKeeps ==
    ASSUME StreakBounds, StreakInv, NEW u \in Updates, UpdateCompose(u)
    PROVE  StreakInv'
  <1> DEFINE d == update[u]
  <1>1. /\ StreakTypeOK /\ RowsFit /\ Paired /\ InRange /\ FirstIsFirst /\ UpToDate /\ Restored
        /\ reval' = reval /\ today' = today /\ update' = [update EXCEPT ![u] = 0]
        /\ reval.at \in {"idle", "queued"}
    BY DEF StreakInv, UpdateCompose
  <1>2. d \in Days /\ Days \subseteq Nat /\ update' \in [Updates -> Trading \cup {0}]
    <2>1. update \in [Updates -> Trading \cup {0}] /\ update[u] # 0
      BY <1>1 DEF StreakTypeOK, UpdateCompose
    <2>2. Trading \subseteq Days /\ Days \subseteq Nat
      BY CalendarAssumption DEF Days
    <2> QED
      BY <1>1, <2>1, <2>2
  <1>3. InRange' /\ Restored'
    BY <1>1 DEF InRange, Restored
  <1>4. CASE market' = market /\ streak' = streak /\ used' = used
    <2>1. StreakTypeOK'
      BY <1>1, <1>2, <1>4 DEF StreakTypeOK, Row
    <2> QED
      BY <1>1, <1>3, <1>4, <2>1, RowsUnchanged DEF StreakInv, FirstIsFirst, UpToDate
  <1>5. CASE /\ \E p \in Postures : Compose(d, p)
             /\ IF Late(d) THEN used.late < MaxLate /\ Spend("late") ELSE UNCHANGED used
    <2> HIDE DEF d
    <2>1. PICK p \in Postures : Compose(d, p)
      BY <1>5
    <2>2. /\ market' \in [Days -> Postures \cup {"none"}] /\ streak' \in [Days -> Row]
          /\ RowsFit' /\ Paired'
      BY <1>1, <1>2, <2>1, ComposeKeeps
    <2>3. /\ used' \in [interruptions : 0 .. MaxInterruptions, late : 0 .. MaxLate]
          /\ Late(d) => used'.late # 0
          /\ ~Late(d) => used' = used
      BY <1>1, <1>5 DEF StreakTypeOK, Spend, StreakBounds
    <2>4. StreakTypeOK'
      BY <1>1, <1>2, <2>2, <2>3 DEF StreakTypeOK, Row
    <2>5. ASSUME used'.late = 0 PROVE ~Late(d) /\ used' = used
      BY <2>3, <2>5
    <2>6. FirstIsFirst'
      <3> SUFFICES ASSUME used'.late = 0, reval'.at # "idle", NEW e \in Dated' PROVE e >= reval'.from
        BY DEF FirstIsFirst
      <3>1. reval.from \in Days /\ reval.at = "queued" /\ ~(reval.from > d) /\ \A f \in Dated : f >= reval.from
        BY <1>1, <2>5 DEF InRange, FirstIsFirst, Late
      <3>2. e \in Days /\ (e = d \/ e \in Dated)
        BY <1>1, <2>1 DEF Compose, Dated, StreakTypeOK
      <3>3. e \in Nat /\ d \in Nat /\ reval.from \in Nat
        BY <1>2, <3>1, <3>2
      <3> QED
        BY <1>1, <3>1, <3>2, <3>3
    <2>7. UpToDate'
      <3> SUFFICES ASSUME used'.late = 0, used'.interruptions = 0 PROVE RowsTrue'
        BY DEF UpToDate
      <3>1. ~Late(d) /\ RowsTrue
        BY <1>1, <2>5 DEF UpToDate
      <3>2. \A e \in Dated : e <= d
        BY <1>2, <3>1 DEF Late, Dated
      <3> QED
        BY <1>1, <1>2, <2>1, <3>1, <3>2, ComposeIsTrue
    <2> QED
      BY <1>3, <2>2, <2>4, <2>6, <2>7 DEF StreakInv
  <1> QED
    BY <1>4, <1>5 DEF UpdateCompose

\* A revalidation composes one of its days, or puts it back.
LEMMA RevalidationDayKeeps ==
    ASSUME StreakBounds, StreakInv, RevalidationDay
    PROVE  StreakInv'
  <1> DEFINE d == Min(reval.todo)
  <1>1. /\ StreakTypeOK /\ RowsFit /\ Paired /\ InRange /\ FirstIsFirst
        /\ reval.at = "walking" /\ reval.todo # {} /\ reval' = [reval EXCEPT !.todo = @ \ {d}]
        /\ (\E p \in Postures : Compose(d, p)) \/ UNCHANGED <<market, streak>>
        /\ today' = today /\ update' = update /\ used' = used
    BY DEF StreakInv, RevalidationDay
  <1>2. /\ reval.todo \subseteq Trading /\ Trading \subseteq Days /\ Days \subseteq Nat
        /\ reval.from \in 0 .. MaxDay /\ reval.to \in 0 .. MaxDay
    BY <1>1, CalendarAssumption DEF StreakTypeOK, Days
  <1>3. d \in reval.todo /\ d \in Days /\ d >= reval.from
    <2>1. reval.todo \in SUBSET Nat
      BY <1>2
    <2>2. d \in reval.todo
      BY <1>1, <2>1, MinIsLeast
    <2> QED
      BY <1>1, <1>2, <2>2 DEF InRange
  <1> HIDE DEF d
  <1>4. /\ reval'.at = "walking" /\ reval'.from = reval.from /\ reval'.todo \subseteq reval.todo
        /\ reval' \in [at : {"idle", "queued", "walking", "rebuilt"}, from : 0 .. MaxDay,
                       to : 0 .. MaxDay, todo : SUBSET Trading]
    BY <1>1, <1>2 DEF StreakTypeOK
  <1>5. /\ market' \in [Days -> Postures \cup {"none"}] /\ streak' \in [Days -> Row]
        /\ RowsFit' /\ Paired'
    <2>1. CASE \E p \in Postures : Compose(d, p)
      BY <1>1, <1>3, <2>1, ComposeKeeps
    <2>2. CASE UNCHANGED <<market, streak>>
      BY <1>1, <2>2, RowsUnchanged DEF StreakTypeOK
    <2> QED
      BY <1>1, <2>1, <2>2
  <1>6. StreakTypeOK'
    BY <1>1, <1>4, <1>5 DEF StreakTypeOK, Row
  <1>7. InRange' /\ UpToDate' /\ Restored'
    BY <1>1, <1>4 DEF InRange, UpToDate, Restored
  <1>8. FirstIsFirst'
    <2> SUFFICES ASSUME used'.late = 0, NEW e \in Dated' PROVE e >= reval'.from
      BY DEF FirstIsFirst
    <2>1. \A f \in Dated : f >= reval.from
      BY <1>1 DEF FirstIsFirst
    <2>2. e = d \/ e \in Dated
      BY <1>1, <1>3 DEF Compose, Dated, StreakTypeOK
    <2> QED
      BY <1>3, <1>4, <2>1, <2>2
  <1> QED
    BY <1>5, <1>6, <1>7, <1>8 DEF StreakInv

\* The rebuild writes true rows when its range goes back far enough.
LEMMA RevalidationRebuildKeeps ==
    ASSUME StreakBounds, StreakInv, RevalidationRebuild
    PROVE  StreakInv'
  <1>1. /\ StreakTypeOK /\ RowsFit /\ Paired /\ InRange /\ FirstIsFirst
        /\ reval.at = "walking" /\ reval.todo = {} /\ reval' = [reval EXCEPT !.at = "rebuilt"]
        /\ streak' = Rebuilt /\ market' = market
        /\ today' = today /\ update' = update /\ used' = used
    BY DEF StreakInv, RevalidationRebuild
  <1>2. /\ reval.from \in Days /\ Days \subseteq Nat /\ MaxDay \in Nat
        /\ reval'.at = "rebuilt" /\ reval'.from = reval.from /\ reval'.todo = {}
    BY <1>1, CalendarAssumption DEF InRange, StreakTypeOK, Days
  <1>3. \A d \in Days : streak'[d] = IF d < reval.from THEN streak[d]
                                    ELSE IF d \in Dated THEN Replayed[d] ELSE NoStreak
    BY <1>1 DEF Rebuilt
  <1>4. \A d \in Days : streak'[d] \in RowsOf(d)
    <2> TAKE d \in Days
    <2>1. NoStreak \in RowsOf(d)
      BY <1>2 DEF NoStreak, RowsOf, Days
    <2>2. ~(d < reval.from) => Replayed[d] \in RowsOf(d)
      BY <1>1, <1>2, ReplayedFits
    <2> QED
      BY <1>1, <1>3, <2>1, <2>2 DEF RowsFit
  <1>5. RowsFit'
    BY <1>4 DEF RowsFit, RowsOf
  <1>6. \A d \in Days : streak'[d] \in Row
    <2> TAKE d \in Days
    <2>1. RowsOf(d) \subseteq Row
      BY <1>2 DEF Row, RowsOf, Days
    <2> QED
      BY <1>4, <2>1
  <1>7. StreakTypeOK'
    <2>1. streak' \in [Days -> Row]
      BY <1>1, <1>6 DEF Rebuilt
    <2> QED
      BY <1>1, <2>1 DEF StreakTypeOK, Row
  <1>8. Paired'
    <2>1. ASSUME NEW d \in Days
          PROVE  streak'[d].posture = market[d] /\ (market[d] = "none" => streak'[d] = NoStreak)
      <3>1. CASE d < reval.from
        BY <1>1, <1>3, <3>1 DEF Paired
      <3>2. CASE ~(d < reval.from)
        <4>1. d \in Dated => Replayed[d].posture = market[d]
          BY <1>1, <1>2, <3>2, ReplayedFits
        <4> QED
          BY <1>3, <3>2, <4>1 DEF Dated, NoStreak
      <3> QED
        BY <3>1, <3>2
    <2> QED
      BY <1>1, <2>1 DEF Paired, NoStreak
  <1>9. ASSUME \A d \in Dated : d >= reval.from PROVE RowsTrue'
    <2>1. ASSUME NEW d \in Days PROVE streak'[d] = TruthIn(market, d)
      <3>1. d \in Dated => Replayed[d] = TruthIn(market, d)
        BY <1>1, <1>2, <1>9, ReplayedIsTruth
      <3>2. d \notin Dated => TruthIn(market, d) = NoStreak /\ streak[d] = NoStreak
        BY <1>1 DEF TruthIn, DatedIn, Dated, Paired
      <3>3. d < reval.from => d \notin Dated
        <4>1. d \in Nat /\ reval.from \in Nat
          BY <1>2
        <4> QED
          BY <1>9, <4>1
      <3> QED
        BY <1>3, <3>1, <3>2, <3>3
    <2> QED
      BY <1>1, <2>1 DEF RowsTrue, TruthIn, DatedIn, RunIn, NoStreak
  <1>10. InRange' /\ FirstIsFirst'
    BY <1>1, <1>2 DEF InRange, FirstIsFirst, Dated
  <1>11. UpToDate' /\ Restored'
    BY <1>1, <1>2, <1>9 DEF UpToDate, Restored, FirstIsFirst, Dated
  <1> QED
    BY <1>5, <1>7, <1>8, <1>10, <1>11 DEF StreakInv

\* The steps that leave rows and snapshots alone.
LEMMA OtherStepsKeep ==
    ASSUME StreakBounds, StreakInv, market' = market, streak' = streak,
           \/ (\E u \in Updates : UpdateStart(u)) \/ RevalidateAllSnapshots \/ RevalidationBegin
           \/ RevalidationComplete \/ RevalidationInterrupted \/ NextDay \/ UNCHANGED streakVars
    PROVE  StreakInv'
  <1> DEFINE Jobs == [at : {"idle", "queued", "walking", "rebuilt"}, from : 0 .. MaxDay,
                      to : 0 .. MaxDay, todo : SUBSET Trading]
  <1>1. /\ StreakTypeOK /\ RowsFit /\ Paired /\ InRange /\ FirstIsFirst /\ UpToDate /\ Restored
        /\ RowsFit' /\ Paired' /\ Dated' = Dated /\ (RowsTrue' <=> RowsTrue)
    BY RowsUnchanged DEF StreakInv
  <1>2. /\ MaxDay \in Nat /\ Trading \subseteq Days /\ Days \subseteq Nat /\ today \in Days
        /\ Dated \subseteq Days /\ Days \subseteq 0 .. MaxDay
    BY <1>1, CalendarAssumption DEF StreakTypeOK, Days, Dated
  <1>3. ASSUME reval' \in Jobs, today' \in Days, update' \in [Updates -> Trading \cup {0}],
               used' \in [interruptions : 0 .. MaxInterruptions, late : 0 .. MaxLate]
        PROVE  StreakTypeOK'
    BY <1>1, <1>3 DEF StreakTypeOK, Row
  <1>4. /\ reval \in Jobs /\ update \in [Updates -> Trading \cup {0}]
        /\ used \in [interruptions : 0 .. MaxInterruptions, late : 0 .. MaxLate]
    BY <1>1 DEF StreakTypeOK
  <1>5. CASE reval' = reval /\ used' = used
    <2>1. today' \in Days /\ update' \in [Updates -> Trading \cup {0}]
      <3>1. CASE \E u \in Updates : UpdateStart(u)
        BY <1>2, <1>4, <3>1, SessionIsTrading DEF UpdateStart
      <3>2. CASE NextDay
        BY <1>2, <1>4, <3>2 DEF NextDay, Days
      <3>3. CASE today' = today /\ update' = update
        BY <1>2, <1>4, <3>3
      <3> QED
        BY <3>1, <3>2, <3>3 DEF RevalidateAllSnapshots, RevalidationBegin,
             RevalidationComplete, RevalidationInterrupted, streakVars
    <2>2. InRange' /\ FirstIsFirst' /\ UpToDate' /\ Restored'
      BY <1>1, <1>5 DEF InRange, FirstIsFirst, UpToDate, Restored
    <2> QED
      BY <1>1, <1>3, <1>4, <1>5, <2>1, <2>2 DEF StreakInv
  <1>6. CASE RevalidateAllSnapshots
    <2> DEFINE from == IF Dated = {} THEN today ELSE Min(Dated)
    <2>1. /\ reval.at = "idle" /\ used' = used /\ today' = today /\ update' = update
          /\ reval' = [at |-> "queued", from |-> from, to |-> today, todo |-> {}]
      BY <1>6 DEF RevalidateAllSnapshots
    <2>2. from \in Days /\ \A d \in Dated : d >= from
      <3>1. Dated \in SUBSET Nat
        BY <1>2
      <3> QED
        BY <1>2, <3>1, MinIsLeast
    <2> HIDE DEF from
    <2>3. reval' \in Jobs
      BY <1>2, <2>1, <2>2
    <2>4. InRange' /\ FirstIsFirst' /\ UpToDate' /\ Restored'
      BY <1>1, <2>1, <2>2 DEF InRange, FirstIsFirst, UpToDate, Restored
    <2> QED
      BY <1>1, <1>2, <1>3, <1>4, <2>1, <2>3, <2>4 DEF StreakInv
  <1>7. CASE RevalidationBegin
    <2> DEFINE days == Trading \cap (reval.from .. reval.to)
    <2>1. /\ reval.at = "queued" /\ used' = used /\ today' = today /\ update' = update
          /\ \/ reval' = NoJob
             \/ reval' = [reval EXCEPT !.at = "walking", !.todo = days]
      BY <1>7 DEF RevalidationBegin
    <2>2. days \subseteq Trading /\ \A d \in days : d >= reval.from
      BY <1>2, <1>4
    <2> HIDE DEF days
    <2>3. reval' \in Jobs
      <3>1. NoJob \in Jobs
        BY <1>2 DEF NoJob
      <3>2. [reval EXCEPT !.at = "walking", !.todo = days] \in Jobs
        BY <1>4, <2>2
      <3> HIDE DEF Jobs
      <3> QED
        BY <2>1, <3>1, <3>2
    <2>4. InRange' /\ FirstIsFirst' /\ UpToDate' /\ Restored'
      <3>1. CASE reval' = NoJob
        BY <1>1, <2>1, <3>1 DEF NoJob, InRange, FirstIsFirst, UpToDate, Restored
      <3>2. CASE reval' = [reval EXCEPT !.at = "walking", !.todo = days]
        <4>1. reval'.at = "walking" /\ reval'.from = reval.from /\ reval'.todo = days
          BY <1>4, <3>2
        <4> QED
          BY <1>1, <2>1, <2>2, <4>1 DEF InRange, FirstIsFirst, UpToDate, Restored
      <3> QED
        BY <2>1, <3>1, <3>2
    <2> QED
      BY <1>1, <1>2, <1>3, <1>4, <2>1, <2>3, <2>4 DEF StreakInv
  <1>8. CASE RevalidationComplete
    <2>1. /\ reval.at = "rebuilt" /\ reval' = NoJob
          /\ used' = used /\ today' = today /\ update' = update
      BY <1>8 DEF RevalidationComplete
    <2>2. reval' \in Jobs /\ reval'.at = "idle"
      BY <1>2, <2>1 DEF NoJob
    <2>3. InRange' /\ FirstIsFirst' /\ UpToDate' /\ Restored'
      BY <1>1, <2>1, <2>2 DEF InRange, FirstIsFirst, UpToDate, Restored
    <2> QED
      BY <1>1, <1>2, <1>3, <1>4, <2>1, <2>2, <2>3 DEF StreakInv
  <1>9. CASE RevalidationInterrupted
    <2>1. /\ reval' = NoJob /\ used.interruptions < MaxInterruptions
          /\ used' = [used EXCEPT !["interruptions"] = @ + 1] /\ today' = today /\ update' = update
      BY <1>9 DEF RevalidationInterrupted, Spend
    <2>2. reval' \in Jobs /\ reval'.at = "idle"
      BY <1>2, <2>1 DEF NoJob
    <2>3. /\ used' \in [interruptions : 0 .. MaxInterruptions, late : 0 .. MaxLate]
          /\ used'.interruptions # 0
      BY <1>4, <2>1 DEF StreakBounds
    <2>4. InRange' /\ FirstIsFirst' /\ UpToDate' /\ Restored'
      BY <2>2, <2>3 DEF InRange, FirstIsFirst, UpToDate, Restored
    <2> QED
      BY <1>1, <1>2, <1>3, <1>4, <2>1, <2>2, <2>3, <2>4 DEF StreakInv
  <1>10. \/ (reval' = reval /\ used' = used) \/ RevalidateAllSnapshots \/ RevalidationBegin
         \/ RevalidationComplete \/ RevalidationInterrupted
    BY DEF UpdateStart, NextDay, streakVars
  <1> QED
    BY <1>5, <1>6, <1>7, <1>8, <1>9, <1>10

\* The invariant of the updates, the revalidations and the days.
THEOREM StreaksHold == StreakSpec => []StreakInv
  <1> USE StreakAssumption
  <1>1. StreakInit => StreakInv
    BY StreakInitHolds
  <1>2. StreakInv /\ [StreakNext]_streakVars => StreakInv'
    <2> SUFFICES ASSUME StreakInv, [StreakNext]_streakVars PROVE StreakInv'
      OBVIOUS
    <2>1. CASE \E u \in Updates : UpdateCompose(u)
      BY <2>1, UpdateComposeKeeps
    <2>2. CASE RevalidationDay
      BY <2>2, RevalidationDayKeeps
    <2>3. CASE RevalidationRebuild
      BY <2>3, RevalidationRebuildKeeps
    <2>4. CASE \/ (\E u \in Updates : UpdateStart(u)) \/ RevalidateAllSnapshots \/ RevalidationBegin
               \/ RevalidationComplete \/ RevalidationInterrupted \/ NextDay \/ UNCHANGED streakVars
      <3>1. market' = market /\ streak' = streak
        BY <2>4 DEF UpdateStart, RevalidateAllSnapshots, RevalidationBegin, RevalidationComplete,
             RevalidationInterrupted, NextDay, streakVars
      <3> QED
        BY <2>4, <3>1, OtherStepsKeep
    <2> QED
      BY <2>1, <2>2, <2>3, <2>4 DEF StreakNext
  <1> QED
    BY <1>1, <1>2, PTL DEF StreakSpec

\* A posture streak's rows, updates and revalidations have their types, for any
\* calendar: no streak is longer than the days it spans.
THEOREM StreakTypeCorrect == StreakSpec => []StreakTypeOK
  <1> USE StreakAssumption
  <1>1. StreakInv => StreakTypeOK
    BY DEF StreakInv
  <1> QED
    BY <1>1, StreaksHold, PTL

\* Every snapshot has a streak row of its posture and nothing else has, however
\* days are re-run, rolled back, rebuilt and interrupted.
THEOREM PairsStayTogether == StreakSpec => []SnapshotsAndStreaksPair
  <1> USE StreakAssumption
  <1>1. StreakInv => SnapshotsAndStreaksPair
    BY DEF StreakInv, Paired, SnapshotsAndStreaksPair
  <1> QED
    BY <1>1, StreaksHold, PTL

\* Days composed in order and revalidations that finish leave every row true:
\* the length and the first day of its run of equal postures.
THEOREM RowsAddUp == StreakSpec => []StreaksAddUp
  <1> USE StreakAssumption
  <1>1. StreakInv => StreaksAddUp
    BY DEF StreakInv, UpToDate, RowsTrue, StreaksAddUp, Truth, Run, Dated, TruthIn, RunIn, DatedIn
  <1> QED
    BY <1>1, StreaksHold, PTL

\* After a rebuild whose range starts before the oldest snapshot every row is
\* true, whatever late updates and interrupted revalidations left behind.
THEOREM RebuildIsTruth == StreakSpec => []RebuildRestoresTruth
  <1> USE StreakAssumption
  <1>1. StreakInv => RebuildRestoresTruth
    BY DEF StreakInv, Restored, RowsTrue, RebuildRestoresTruth, Truth, Run, Dated, TruthIn, RunIn, DatedIn
  <1> QED
    BY <1>1, StreaksHold, PTL
=============================================================================
