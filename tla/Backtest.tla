------------------------------ MODULE Backtest ------------------------------
(***************************************************************************)
(* The profit-and-loss simulation of api/v1/history_routes.py, one step    *)
(* per calendar day of the window, for the parameters of the page and for  *)
(* every parameter set of the robustness check at once.                    *)
(*                                                                         *)
(* Money and shares are integers of a small unit and a division rounds     *)
(* down, where the code rounds floating point.  Percentages are integers.  *)
(***************************************************************************)
EXTENDS Integers, FiniteSets

CONSTANTS Capital,       \* the starting capital
          Prices,        \* the closes a day may have
          Stops, Takes,  \* the stop-loss and take-profit percentages of the grid
          Drift,         \* rebalancing threshold in percent (5)
          WalkDays       \* days of the window: bounds the run

(* Closes and percentages are positive.                                    *)
Positive ==
  /\ Capital \in Nat
  /\ Prices \subseteq Nat \ {0}
  /\ Stops \subseteq Nat \ {0} /\ Takes \subseteq Nat \ {0}
ASSUME BacktestAssumption == Positive

Actions == {"strong_buy", "buy", "hold", "watch", "reduce", "exit"}
Sizings == {"aggressive", "conservative"}

(* _PNL_TARGET_ALLOCATION and _ROBUSTNESS_SIZINGS.                         *)
SizingOf ==
  [page |-> [strong_buy |-> 100, buy |-> 70, hold |-> 50, watch |-> 30, reduce |-> 30, exit |-> 0],
   aggressive |-> [strong_buy |-> 100, buy |-> 70, hold |-> 50, watch |-> 30, reduce |-> 30, exit |-> 0],
   conservative |-> [strong_buy |-> 80, buy |-> 60, hold |-> 40, watch |-> 25, reduce |-> 20, exit |-> 0]]

(* What robustness_check runs, and the parameters of the page itself.      *)
Grid == [stop : Stops, take : Takes, sizing : Sizings]
Page == [stop |-> 10, take |-> 20, sizing |-> "page"]
Runs == Grid \cup {Page}
Target(r, action) == SizingOf[r.sizing][action]

VARIABLES walked,        \* the day walked last
          lastClose,     \* the last close of the walk, 0 before the first
          books          \* for each run, cash, open position and trades

walkVars == <<walked, lastClose, books>>

(* The account and its cycle: shares held and bought, money put in and     *)
(* taken out since it opened, its first day; what trades earned so far,    *)
(* how many there are and when the last one ended; the account's value at  *)
(* the end of the last day.                                                *)
NewBook == [cash |-> Capital, qty |-> 0, bought |-> 0, invested |-> 0, taken |-> 0, opened |-> 0,
            earned |-> 0, trades |-> 0, closed |-> 0, mark |-> Capital]

(* _close_position_to_trade, the sale of what is left, and a new position. *)
CloseOut(b, price, d) ==
  [b EXCEPT !.cash = @ + b.qty * price,
            !.earned = @ + (b.taken + b.qty * price - b.invested),
            !.trades = @ + 1, !.closed = d,
            !.qty = 0, !.bought = 0, !.invested = 0, !.taken = 0, !.opened = 0]

Flat(b) == b.qty = 0

(* The close against the cost basis, invested / bought.                    *)
StopLoss(b, price, pct) == ~Flat(b) /\ 100 * price * b.bought <= (100 - pct) * b.invested
TakeProfit(b, price, pct) == ~Flat(b) /\ 100 * price * b.bought >= (100 + pct) * b.invested
(* Mutant: the take-profit is left out.                                    *)
StopOnly(b, price, d, r) == IF StopLoss(b, price, r.stop) THEN CloseOut(b, price, d) ELSE b
Disciplined(b, price, d, r) ==
  IF StopLoss(b, price, r.stop) \/ TakeProfit(b, price, r.take) THEN CloseOut(b, price, d) ELSE b

Buy(b, n, price, d) ==
  [b EXCEPT !.cash = @ - n * price, !.qty = @ + n, !.bought = @ + n, !.invested = @ + n * price,
            !.opened = IF Flat(b) THEN d ELSE @]
(* Mutant: the proceeds of a partial sale are not put to the cycle.        *)
SellUnnoted(b, n, price) == [b EXCEPT !.cash = @ + n * price, !.qty = @ - n]
Sell(b, n, price) ==
  [b EXCEPT !.cash = @ + n * price, !.qty = @ - n, !.taken = @ + n * price]

(* Towards the target share of the account, if it has drifted far enough.  *)
Rebalanced(b, price, d, target) ==
  LET held == b.qty * price
      total == b.cash + held
      wanted == (target * total) \div 100
      gap == 100 * held - target * total
      drifted == gap > Drift * total \/ -gap > Drift * total
  IN  IF ~(drifted \/ target = 0) THEN b
      ELSE IF wanted > held THEN Buy(b, (wanted - held) \div price, price, d)
      ELSE IF wanted = held THEN b
      ELSE LET n == (held - wanted) \div price
           IN  IF target = 0 \/ n >= b.qty THEN CloseOut(b, price, d) ELSE Sell(b, n, price)

Marked(b, price) == [b EXCEPT !.mark = b.cash + b.qty * price]

WalkInit ==
  /\ walked = 0
  /\ lastClose = 0
  /\ books = [r \in Runs |-> NewBook]

(* A day with a close and a snapshot: discipline first, then the signal.   *)
SignalDay(price, action) ==
  /\ walked' = walked + 1
  /\ lastClose' = price
  /\ books' = [r \in Runs |->
       Marked(Rebalanced(Disciplined(books[r], price, walked', r), price, walked', Target(r, action)), price)]

(* A day with a close only.  The window starts with a snapshot.            *)
QuietDay(price) ==
  /\ lastClose # 0
  /\ walked' = walked + 1
  /\ lastClose' = price
  /\ books' = [r \in Runs |-> Marked(Disciplined(books[r], price, walked', r), price)]

(* A day of the window without a close is not walked.                      *)
UnpricedDay ==
  /\ lastClose # 0
  /\ walked' = walked + 1
  /\ UNCHANGED <<lastClose, books>>

WalkNext ==
  /\ walked < WalkDays
  /\ \/ \E price \in Prices : \/ \E action \in Actions : SignalDay(price, action)
                              \/ QuietDay(price)
     \/ UnpricedDay

WalkSpec == WalkInit /\ [][WalkNext]_walkVars

---------------------------------------------------------------------------
Book == [cash : Int, qty : Nat, bought : Nat, invested : Nat, taken : Nat, opened : Nat,
         earned : Int, trades : Nat, closed : Nat, mark : Int]
WalkTypeOK ==
  /\ walked \in Nat
  /\ lastClose \in Prices \cup {0}
  /\ books \in [Runs -> Book]

(* The final value is the cash after the unwind at the last close.         *)
Unwound(b) == IF Flat(b) THEN b ELSE CloseOut(b, lastClose, walked)

(* Double entry: what the trades of the table earned is what the cash has  *)
(* gained or lost beside what the open position took.                      *)
Balanced(b) == b.cash = Capital + b.earned + b.taken - b.invested

(* The run the robustness page calls its baseline.                         *)
Baseline == {r \in Grid : r.stop = Page.stop /\ r.take = Page.take /\ r.sizing = "aggressive"}

(* The final value, the unwind's trade included, is exactly the starting   *)
(* capital plus what the trades of the table earned, however often a cycle *)
(* bought and sold in parts; it is also the last point of the value chart. *)
(* The account is never on borrowed money and never short, and the         *)
(* robustness page's baseline is the simulation page's own result.         *)
Ledger ==
  /\ \A r \in Runs : LET b == books[r] IN
       /\ Balanced(b) /\ Unwound(b).cash = Capital + Unwound(b).earned
       /\ Unwound(b).cash = b.mark
       /\ b.cash >= 0 /\ b.qty >= 0
  /\ \A r \in Baseline : books[r] = books[Page]

(* At the end of a day an open position is inside its stop and its target, *)
(* whatever was bought or sold that day: a purchase pulls the cost basis   *)
(* towards the close, never past it.                                       *)
Disciplines ==
  \A r \in Runs : /\ ~StopLoss(books[r], lastClose, r.stop)
                  /\ ~TakeProfit(books[r], lastClose, r.take)
=============================================================================
