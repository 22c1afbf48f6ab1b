-------------------------- MODULE PortfolioLemmas --------------------------
(***************************************************************************)
(* Lemmas about the operators of Portfolio that the proofs of the modules  *)
(* built on it share: the truncated average of AddedEntry, what counting   *)
(* and marking leave of a position, and sums over the symbols.             *)
(***************************************************************************)
EXTENDS Portfolio, FiniteSetTheorems, TLAPS

-----------------------------------------------------------------------------
(* Arithmetic.                                                             *)

(* Multiplying an inequality by a quantity keeps it. *)
LEMMA TimesMonotone ==
    ASSUME NEW a \in Int, NEW b \in Int, NEW n \in Nat, a <= b
    PROVE  a * n <= b * n
  <1>1. (b - a) * n >= 0
    OBVIOUS
  <1> QED
    BY <1>1

(* The two distributive laws that a flip through zero needs. *)
LEMMA FlipProducts ==
    ASSUME NEW a \in Int, NEW b \in Int, NEW n \in Int, NEW q \in Int
    PROVE  /\ (a - b) * (-n) = b * n - a * n
           /\ b * (n + q) = b * n + b * q
  <1>1. (a - b) * (-n) = (b - a) * n
    OBVIOUS
  <1>2. (b - a) * n = b * n - a * n
    OBVIOUS
  <1> QED
    BY <1>1, <1>2

(* The distributive laws that a partial close needs. *)
LEMMA CloseProducts ==
    ASSUME NEW a \in Int, NEW b \in Int, NEW n \in Int, NEW q \in Int
    PROVE  /\ (b - a) * q = b * q - a * q
           /\ a * (n - q) = a * n - a * q
           /\ b * (-q) = -(b * q)
  <1>1. (b - a) * q = b * q - a * q
    OBVIOUS
  <1>2. a * (n - q) = a * n - a * q
    OBVIOUS
  <1>3. b * (-q) = -(b * q)
    OBVIOUS
  <1> QED
    BY <1>1, <1>2, <1>3

(* A profit or loss on c shares is covered by what they cost and what they *)
(* went for.                                                               *)
LEMMA ProfitCovered ==
    ASSUME NEW r \in Int, NEW a \in Nat, NEW p \in Nat, NEW c \in Nat
    PROVE  /\ Abs(r + (p - a) * c) <= Abs(r) + a * c + p * c
           /\ Abs(r + (a - p) * c) <= Abs(r) + a * c + p * c
  <1> DEFINE ac == a * c
             pc == p * c
  <1>1. ac \in Nat /\ pc \in Nat
    OBVIOUS
  <1>2. (p - a) * c = pc - ac /\ (a - p) * c = ac - pc
    OBVIOUS
  <1> HIDE DEF ac, pc
  <1>3. /\ Abs(r + (pc - ac)) <= Abs(r) + ac + pc
        /\ Abs(r + (ac - pc)) <= Abs(r) + ac + pc
    BY <1>1 DEF Abs
  <1> QED
    BY <1>2, <1>3 DEF ac, pc

(* Closing or flipping a position of held shares keeps its cost and profit *)
(* within the turnover t, to which the fill adds its own value.            *)
LEMMA CloseCovered ==
    ASSUME NEW r \in Int, NEW a \in Nat, NEW price \in Nat, NEW held \in Nat \ {0},
           NEW qty \in Nat \ {0}, NEW t \in Nat, Abs(r) + a * held <= t,
           NEW c \in Nat, c = IF qty <= held THEN qty ELSE held,
           NEW g \in Int, g = r + (price - a) * c \/ g = r + (a - price) * c
    PROVE  /\ qty < held => Abs(g) + a * (held - qty) <= t + price * qty
           /\ qty = held => Abs(g) <= t + price * qty
           /\ qty > held => Abs(g) + price * (qty - held) <= t + price * qty
  <1>1. Abs(g) <= Abs(r) + a * c + price * c
    BY ProfitCovered
  <1>2. Abs(r) \in Int /\ Abs(g) \in Int
    BY DEF Abs
  <1>3. ASSUME qty <= held PROVE Abs(g) + a * (held - qty) <= t + price * qty
    <2> DEFINE ah == a * held
               aq == a * qty
               pq == price * qty
    <2>1. a * (held - qty) = ah - aq
      OBVIOUS
    <2>2. Abs(g) <= Abs(r) + aq + pq
      BY <1>1, <1>3
    <2>3. ah \in Int /\ aq \in Int /\ pq \in Int /\ Abs(r) + ah <= t
      OBVIOUS
    <2> HIDE DEF ah, aq, pq
    <2>4. Abs(g) + (ah - aq) <= t + pq
      BY <1>2, <2>2, <2>3
    <2> QED
      BY <2>1, <2>4 DEF pq
  <1>4. ASSUME qty > held PROVE Abs(g) + price * (qty - held) <= t + price * qty
    <2> DEFINE ah == a * held
               ph == price * held
               pq == price * qty
    <2>1. price * (qty - held) = pq - ph
      OBVIOUS
    <2>2. Abs(g) <= Abs(r) + ah + ph
      BY <1>1, <1>4
    <2>3. ah \in Int /\ ph \in Int /\ pq \in Int /\ Abs(r) + ah <= t
      OBVIOUS
    <2> HIDE DEF ah, ph, pq
    <2>4. Abs(g) + (pq - ph) <= t + pq
      BY <1>2, <2>2, <2>3
    <2> QED
      BY <2>1, <2>4 DEF pq
  <1>5. ASSUME qty = held PROVE Abs(g) <= t + price * qty
    <2>1. a * (held - qty) = 0
      BY <1>5
    <2> QED
      BY <1>2, <1>3, <1>5, <2>1
  <1> QED
    BY <1>3, <1>4, <1>5

(* Integer division leaves a remainder smaller than the divisor. *)
LEMMA DivRemainder ==
    ASSUME NEW a \in Int, NEW n \in Nat \ {0}
    PROVE  /\ a \div n \in Int
           /\ (a \div n) * n <= a
           /\ a < (a \div n) * n + n
  OBVIOUS

(* What lies between two multiples of n, divided by n, lies between the    *)
(* two factors.                                                            *)
LEMMA DivBetween ==
    ASSUME NEW a \in Int, NEW n \in Nat \ {0}, NEW lo \in Int, NEW hi \in Int,
           lo * n <= a, a <= hi * n
    PROVE  lo <= a \div n /\ a \div n <= hi
  <1> DEFINE d == a \div n
  <1>1. d \in Int /\ d * n <= a /\ a < d * n + n
    BY DivRemainder
  <1> HIDE DEF d
  <1>2. ASSUME d < lo PROVE FALSE
    <2>1. (d + 1) * n <= lo * n
      BY <1>1, <1>2, TimesMonotone
    <2>2. (d + 1) * n = d * n + n
      BY <1>1
    <2> QED
      BY <1>1, <2>1, <2>2
  <1>3. ASSUME hi < d PROVE FALSE
    <2>1. (hi + 1) * n <= d * n
      BY <1>1, <1>3, TimesMonotone
    <2>2. (hi + 1) * n = hi * n + n
      OBVIOUS
    <2> QED
      BY <1>1, <2>1, <2>2
  <1>4. lo <= d /\ d <= hi
    BY <1>1, <1>2, <1>3
  <1> QED
    BY <1>4 DEF d

-----------------------------------------------------------------------------
(* AddedEntry: the truncated average lies between any bounds on the old    *)
(* entry price and the fill price, and falls short of the exact cost by    *)
(* less than the new size.                                                 *)
LEMMA AddedEntryBounds ==
    ASSUME NEW entry \in Nat, NEW held \in Nat, NEW price \in Nat,
           NEW qty \in Nat \ {0}, NEW lo \in Nat, NEW hi \in Nat,
           held > 0 => lo <= entry /\ entry <= hi,
           lo <= price, price <= hi
    PROVE  /\ AddedEntry(entry, held, price, qty) \in Nat
           /\ lo <= AddedEntry(entry, held, price, qty)
           /\ AddedEntry(entry, held, price, qty) <= hi
  <1> DEFINE cost == entry * held + price * qty
             size == held + qty
  <1>1. size \in Nat \ {0} /\ cost \in Int
    OBVIOUS
  <1>2. lo * held <= entry * held /\ entry * held <= hi * held
    <2>1. CASE held = 0
      BY <2>1
    <2>2. CASE held > 0
      BY <2>2, TimesMonotone
    <2> QED
      BY <2>1, <2>2
  <1>3. lo * qty <= price * qty /\ price * qty <= hi * qty
    BY TimesMonotone
  <1>4. lo * size = lo * held + lo * qty /\ hi * size = hi * held + hi * qty
    OBVIOUS
  <1>5. lo * size <= cost /\ cost <= hi * size
    BY <1>2, <1>3, <1>4
  <1>6. cost \div size \in Int /\ lo <= cost \div size /\ cost \div size <= hi
    <2> HIDE DEF cost, size
    <2> QED
      BY <1>1, <1>5, DivBetween, DivRemainder
  <1> QED
    BY <1>6 DEF AddedEntry

(* The division in AddedEntry loses less than one unit per share. *)
LEMMA AddedEntryRemainder ==
    ASSUME NEW entry \in Nat, NEW held \in Nat, NEW price \in Nat,
           NEW qty \in Nat \ {0}
    PROVE  LET added == AddedEntry(entry, held, price, qty) * (held + qty)
               cost  == entry * held + price * qty
           IN  added <= cost /\ cost <= added + (held + qty) - 1
  <1> DEFINE cost == entry * held + price * qty
             size == held + qty
  <1>1. size \in Nat \ {0} /\ cost \in Int
    OBVIOUS
  <1>2. (cost \div size) \in Int /\ (cost \div size) * size <= cost
        /\ cost < (cost \div size) * size + size
    <2> HIDE DEF cost, size
    <2> QED
      BY <1>1, DivRemainder
  <1>3. (cost \div size) * size \in Int
    BY <1>1, <1>2
  <1> QED
    BY <1>1, <1>2, <1>3 DEF AddedEntry

-----------------------------------------------------------------------------
(* One position.                                                           *)

(* The unrealized profit is that of the position at its last price. *)
FreshMark(pos) ==
    pos.unrealized_pnl = (pos.last_price - pos.avg_entry_price) * pos.net_qty

(* Marking changes the mark and nothing else. *)
LEMMA MarkedFields ==
    ASSUME NEW pos \in Position, NEW price \in Nat
    PROVE  LET m == Marked(pos, price)
           IN  /\ m \in Position
               /\ m.net_qty = pos.net_qty
               /\ m.avg_entry_price = pos.avg_entry_price
               /\ m.realized_pnl = pos.realized_pnl
               /\ m.total_traded = pos.total_traded
               /\ m.num_trades = pos.num_trades
               /\ m.last_price = price
               /\ FreshMark(m)
  <1> DEFINE a == pos.avg_entry_price
             n == pos.net_qty
  <1>1. a \in Int /\ n \in Int
    BY DEF Position
  <1>2. (a - price) * (-n) = (price - a) * n
    BY <1>1
  <1>3. (price - a) * n \in Int
    BY <1>1
  <1>4. n = 0 => (price - a) * n = 0
    BY <1>1
  <1>5. (IF n > 0 THEN (price - a) * n
         ELSE IF n < 0 THEN (a - price) * (-n) ELSE 0) = (price - a) * n
    BY <1>1, <1>2, <1>4
  <1>6. Marked(pos, price) = [pos EXCEPT !.last_price = price,
                                         !.unrealized_pnl = (price - a) * n]
    BY <1>5, Zenon DEF Marked
  <1> DEFINE u == (price - a) * n
  <1>7. u \in Int
    BY <1>3
  <1> HIDE DEF u
  <1>8. Marked(pos, price) = [pos EXCEPT !.last_price = price, !.unrealized_pnl = u]
    BY <1>6 DEF u
  <1>9. LET m == Marked(pos, price)
        IN  /\ m \in Position
            /\ m.net_qty = n
            /\ m.avg_entry_price = a
            /\ m.realized_pnl = pos.realized_pnl
            /\ m.total_traded = pos.total_traded
            /\ m.num_trades = pos.num_trades
            /\ m.last_price = price
            /\ m.unrealized_pnl = u
    <2> DEFINE m == Marked(pos, price)
    <2>1. m = [pos EXCEPT !.last_price = price, !.unrealized_pnl = u] /\ price \in Int
      BY <1>8
    <2> HIDE DEF m
    <2>2. m \in Position
      BY <1>7, <2>1 DEF Position
    <2>3. m.net_qty = n /\ m.avg_entry_price = a /\ m.realized_pnl = pos.realized_pnl
      BY <2>1 DEF Position
    <2>4. m.last_price = price /\ m.unrealized_pnl = u
      BY <2>1 DEF Position
    <2>5. m.total_traded = pos.total_traded /\ m.num_trades = pos.num_trades
      BY <2>1 DEF Position
    <2> QED
      BY <2>2, <2>3, <2>4, <2>5 DEF m
  <1> QED
    BY <1>9 DEF FreshMark, u

(* Counting a trade leaves the figures of the position alone. *)
LEMMA CountedFields ==
    ASSUME NEW pos \in Position, NEW qty \in Nat
    PROVE  LET c == Counted(pos, qty)
           IN  /\ c \in Position
               /\ c.net_qty = pos.net_qty
               /\ c.avg_entry_price = pos.avg_entry_price
               /\ c.realized_pnl = pos.realized_pnl
               /\ c.total_traded = pos.total_traded + qty
               /\ c.num_trades = (pos.num_trades + 1) % TradeCountModulus
  <1>1. (pos.num_trades + 1) % TradeCountModulus \in Nat
    BY CountAssumption DEF Position
  <1>2. pos.total_traded + qty \in Nat
    BY DEF Position
  <1> DEFINE t == pos.total_traded + qty
             k == (pos.num_trades + 1) % TradeCountModulus
             c == Counted(pos, qty)
  <1>3. c = [pos EXCEPT !.total_traded = t, !.num_trades = k]
    BY DEF Counted
  <1> HIDE DEF t, k, c
  <1>4. c \in Position
    BY <1>1, <1>2, <1>3 DEF Position, t, k
  <1>5. c.net_qty = pos.net_qty /\ c.avg_entry_price = pos.avg_entry_price
        /\ c.realized_pnl = pos.realized_pnl
    BY <1>3 DEF Position
  <1>6. c.total_traded = t /\ c.num_trades = k
    BY <1>3 DEF Position
  <1> QED
    BY <1>4, <1>5, <1>6 DEF c, t, k

(* Counting and marking, after the Buy or the Sell branch: the figures of  *)
(* a fill are those of the branch, with a fresh mark at the fill price.    *)
LEMMA FilledFields ==
    ASSUME NEW pos \in Position, NEW side \in Side, NEW price \in Nat, NEW qty \in Nat,
           NEW t \in Position,
           t = IF side = "Buy" THEN Bought(pos, price, qty) ELSE Sold(pos, price, qty)
    PROVE  LET p == Filled(pos, side, price, qty)
           IN  /\ p \in Position
               /\ p.net_qty = t.net_qty
               /\ p.avg_entry_price = t.avg_entry_price
               /\ p.realized_pnl = t.realized_pnl
               /\ p.total_traded = t.total_traded + qty
               /\ p.num_trades = (t.num_trades + 1) % TradeCountModulus
               /\ p.last_price = price
               /\ FreshMark(p)
  <1> DEFINE k == Counted(t, qty)
             p == Marked(k, price)
  <1>1. Filled(pos, side, price, qty) = p
    BY DEF Filled
  <1>2. k \in Position /\ k.net_qty = t.net_qty
        /\ k.avg_entry_price = t.avg_entry_price /\ k.realized_pnl = t.realized_pnl
        /\ k.total_traded = t.total_traded + qty
        /\ k.num_trades = (t.num_trades + 1) % TradeCountModulus
    BY CountedFields
  <1> HIDE DEF k
  <1>3. p \in Position /\ p.net_qty = k.net_qty
        /\ p.avg_entry_price = k.avg_entry_price /\ p.realized_pnl = k.realized_pnl
        /\ p.total_traded = k.total_traded /\ p.num_trades = k.num_trades
        /\ p.last_price = price /\ FreshMark(p)
    BY <1>2, MarkedFields
  <1> HIDE DEF p
  <1> QED
    BY <1>1, <1>2, <1>3

(* The average of AddedEntry is an integer. *)
LEMMA AddedEntryInt ==
    ASSUME NEW entry \in Int, NEW held \in Nat, NEW price \in Int, NEW qty \in Nat \ {0}
    PROVE  AddedEntry(entry, held, price, qty) \in Int
  <1> DEFINE cost == entry * held + price * qty
             size == held + qty
  <1>1. cost \in Int /\ size \in Int /\ size > 0
    OBVIOUS
  <1> HIDE DEF cost, size
  <1>2. cost \div size \in Int
    BY <1>1
  <1> QED
    BY <1>2 DEF AddedEntry, cost, size

(* Whichever branch a fill takes, it moves the net position by the filled  *)
(* quantity and leaves the counters to Counted.                            *)
LEMMA BranchMoves ==
    ASSUME NEW pos \in Position, NEW side \in Side,
           NEW price \in Nat, NEW qty \in Nat \ {0}
    PROVE  LET t == IF side = "Buy" THEN Bought(pos, price, qty) ELSE Sold(pos, price, qty)
           IN  /\ t \in Position
               /\ t.net_qty = pos.net_qty + IF side = "Buy" THEN qty ELSE -qty
               /\ t.total_traded = pos.total_traded
               /\ t.num_trades = pos.num_trades
  <1> DEFINE n == pos.net_qty
             a == pos.avg_entry_price
             moved == n + IF side = "Buy" THEN qty ELSE -qty
             t == IF side = "Buy" THEN Bought(pos, price, qty) ELSE Sold(pos, price, qty)
  <1>1. n \in Int /\ a \in Int /\ pos.realized_pnl \in Int /\ moved \in Int
    BY DEF Position
  <1>2. PICK entry \in Int, made \in Int :
            t = [pos EXCEPT !.net_qty = moved, !.avg_entry_price = entry,
                            !.realized_pnl = made]
    <2>1. ASSUME side = "Buy", n >= 0
          PROVE  \E entry, made \in Int :
                    t = [pos EXCEPT !.net_qty = moved, !.avg_entry_price = entry,
                                    !.realized_pnl = made]
      <3> DEFINE e == AddedEntry(a, n, price, qty)
      <3>0. n \in Nat /\ a \in Int /\ price \in Int
        BY <1>1, <2>1
      <3>1. e \in Int
        BY <3>0, AddedEntryInt, Zenon
      <3>2. t = [pos EXCEPT !.net_qty = n + qty, !.avg_entry_price = e]
        BY <2>1 DEF Bought
      <3> HIDE DEF e
      <3>3. t = [pos EXCEPT !.net_qty = moved, !.avg_entry_price = e,
                            !.realized_pnl = pos.realized_pnl]
        BY <2>1, <3>2 DEF Position
      <3> QED
        BY <1>1, <3>1, <3>3
    <2>2. ASSUME side = "Buy", ~ (n >= 0)
          PROVE  \E entry, made \in Int :
                    t = [pos EXCEPT !.net_qty = moved, !.avg_entry_price = entry,
                                    !.realized_pnl = made]
      <3> DEFINE e == IF n + qty > 0 THEN price ELSE IF n + qty = 0 THEN 0 ELSE a
                 c == Smaller(qty, -n)
                 r == pos.realized_pnl + (a - price) * c
      <3>1. e \in Int
        BY <1>1
      <3>2. c \in Int
        BY <1>1 DEF Smaller
      <3>3. (a - price) * c \in Int
        BY <1>1, <3>2
      <3>4. r \in Int
        BY <1>1, <3>3
      <3>5. t = [pos EXCEPT !.net_qty = n + qty, !.realized_pnl = r, !.avg_entry_price = e]
        BY <2>2 DEF Bought
      <3> HIDE DEF e, r
      <3>6. t = [pos EXCEPT !.net_qty = moved, !.avg_entry_price = e, !.realized_pnl = r]
        BY <2>2, <3>5 DEF Position
      <3> QED
        BY <3>1, <3>4, <3>6
    <2>3. ASSUME side # "Buy", n <= 0
          PROVE  \E entry, made \in Int :
                    t = [pos EXCEPT !.net_qty = moved, !.avg_entry_price = entry,
                                    !.realized_pnl = made]
      <3> DEFINE e == AddedEntry(a, -n, price, qty)
      <3>0. -n \in Nat /\ a \in Int /\ price \in Int
        BY <1>1, <2>3
      <3>1. e \in Int
        BY <3>0, AddedEntryInt, Zenon
      <3>2. t = [pos EXCEPT !.net_qty = n - qty, !.avg_entry_price = e]
        BY <2>3 DEF Sold
      <3> HIDE DEF e
      <3>3. n - qty = moved
        BY <1>1, <2>3
      <3>4. t = [pos EXCEPT !.net_qty = moved, !.avg_entry_price = e,
                            !.realized_pnl = pos.realized_pnl]
        BY <3>2, <3>3 DEF Position
      <3> QED
        BY <1>1, <3>1, <3>4
    <2>4. ASSUME side # "Buy", ~ (n <= 0)
          PROVE  \E entry, made \in Int :
                    t = [pos EXCEPT !.net_qty = moved, !.avg_entry_price = entry,
                                    !.realized_pnl = made]
      <3> DEFINE e == IF n - qty < 0 THEN price ELSE IF n - qty = 0 THEN 0 ELSE a
                 c == Smaller(qty, n)
                 r == pos.realized_pnl + (price - a) * c
      <3>1. e \in Int
        BY <1>1
      <3>2. c \in Int
        BY <1>1 DEF Smaller
      <3>3. (price - a) * c \in Int
        BY <1>1, <3>2
      <3>4. r \in Int
        BY <1>1, <3>3
      <3>5. t = [pos EXCEPT !.net_qty = n - qty, !.realized_pnl = r, !.avg_entry_price = e]
        BY <2>4 DEF Sold
      <3> HIDE DEF e, r
      <3>6. n - qty = moved
        BY <1>1, <2>4
      <3>7. t = [pos EXCEPT !.net_qty = moved, !.avg_entry_price = e, !.realized_pnl = r]
        BY <3>5, <3>6 DEF Position
      <3> QED
        BY <3>1, <3>4, <3>7
    <2> QED
      BY <2>1, <2>2, <2>3, <2>4
  <1> HIDE DEF t, moved
  <1>3. t \in Position
    BY <1>1, <1>2 DEF Position
  <1>4. t.net_qty = moved /\ t.total_traded = pos.total_traded /\ t.num_trades = pos.num_trades
    BY <1>2 DEF Position
  <1> QED
    BY <1>3, <1>4 DEF t, moved

(* A fill moves the net position by the filled quantity and counts it, and *)
(* what it adds to the cash account is the profit realized less the fee.   *)
LEMMA FillMoves ==
    ASSUME NEW pos \in Position, NEW side \in Side,
           NEW price \in Nat, NEW qty \in Nat \ {0}
    PROVE  LET p == Filled(pos, side, price, qty)
           IN  /\ p \in Position
               /\ p.net_qty = pos.net_qty + IF side = "Buy" THEN qty ELSE -qty
               /\ p.total_traded = pos.total_traded + qty
               /\ p.num_trades = (pos.num_trades + 1) % TradeCountModulus
               /\ CashFrom(pos, p, qty) \in Int
  <1> DEFINE t == IF side = "Buy" THEN Bought(pos, price, qty) ELSE Sold(pos, price, qty)
             p == Filled(pos, side, price, qty)
  <1>1. /\ t \in Position
        /\ t.net_qty = pos.net_qty + IF side = "Buy" THEN qty ELSE -qty
        /\ t.total_traded = pos.total_traded
        /\ t.num_trades = pos.num_trades
    BY BranchMoves
  <1>2. /\ p \in Position
        /\ p.net_qty = t.net_qty
        /\ p.total_traded = t.total_traded + qty
        /\ p.num_trades = (t.num_trades + 1) % TradeCountModulus
    BY <1>1, FilledFields
  <1> HIDE DEF t, p
  <1> DEFINE fee == compute(qty, FALSE)
  <1>3. fee \in Int
    BY FeeAssumption DEF compute
  <1>4. pos.realized_pnl \in Int /\ p.realized_pnl \in Int
    BY <1>2 DEF Position
  <1>5. CashFrom(pos, p, qty) = p.realized_pnl - pos.realized_pnl - fee
    BY DEF CashFrom
  <1> HIDE DEF fee
  <1>6. CashFrom(pos, p, qty) \in Int
    BY <1>3, <1>4, <1>5
  <1> QED
    BY <1>1, <1>2, <1>6 DEF p

(* A fill of a flat position opens one at the fill price and makes no      *)
(* profit or loss.                                                         *)
LEMMA FillOpens ==
    ASSUME NEW pos \in Position, NEW side \in Side,
           NEW price \in Nat \ {0}, NEW qty \in Nat \ {0},
           pos.net_qty = 0, pos.avg_entry_price = 0
    PROVE  LET p == Filled(pos, side, price, qty)
           IN  /\ p \in Position
               /\ p.net_qty = IF side = "Buy" THEN qty ELSE -qty
               /\ p.avg_entry_price = price
               /\ p.realized_pnl = pos.realized_pnl
               /\ p.unrealized_pnl = 0
  <1> DEFINE t == IF side = "Buy" THEN Bought(pos, price, qty) ELSE Sold(pos, price, qty)
             net == IF side = "Buy" THEN qty ELSE -qty
             p == Filled(pos, side, price, qty)
  <1>1. AddedEntry(0, 0, price, qty) = price
    <2>1. price <= AddedEntry(0, 0, price, qty) /\ AddedEntry(0, 0, price, qty) <= price
          /\ AddedEntry(0, 0, price, qty) \in Nat
      BY AddedEntryBounds
    <2> QED
      BY <2>1
  <1>2. t = [pos EXCEPT !.net_qty = net, !.avg_entry_price = price]
    <2>1. CASE side = "Buy"
      <3>1. pos.net_qty >= 0 /\ pos.net_qty + qty = qty
        OBVIOUS
      <3>2. t = [pos EXCEPT !.net_qty = pos.net_qty + qty,
                            !.avg_entry_price = AddedEntry(@, pos.net_qty, price, qty)]
        BY <2>1, <3>1, Zenon DEF Bought
      <3> QED
        BY <1>1, <2>1, <3>1, <3>2, Zenon
    <2>2. CASE side = "Sell"
      <3>0. pos.net_qty <= 0 /\ side # "Buy" /\ -pos.net_qty = 0
        <4>1. -pos.net_qty = 0
          <5>1. \A n \in Int : n <= 0 /\ n >= 0 => -n = 0
            OBVIOUS
          <5>2. pos.net_qty \in Int /\ pos.net_qty <= 0 /\ pos.net_qty >= 0
            OBVIOUS
          <5> QED
            BY <5>1, <5>2, Zenon
        <4>2. pos.net_qty <= 0
          OBVIOUS
        <4> QED
          BY <2>2, <4>1, <4>2, Zenon
      <3>1. pos.net_qty - qty = -qty
        OBVIOUS
      <3>2. t = [pos EXCEPT !.net_qty = pos.net_qty - qty,
                            !.avg_entry_price = AddedEntry(@, -pos.net_qty, price, qty)]
        BY <3>0, Zenon DEF Sold
      <3>3. net = -qty
        BY <3>0
      <3>4. t = [pos EXCEPT !.net_qty = -qty, !.avg_entry_price = AddedEntry(0, 0, price, qty)]
        BY <3>0, <3>1, <3>2
      <3> QED
        BY <1>1, <3>3, <3>4
    <2> QED
      BY <2>1, <2>2 DEF Side
  <1>3. net \in Int /\ price \in Int
    OBVIOUS
  <1>4. t \in Position /\ t.net_qty = net /\ t.avg_entry_price = price
        /\ t.realized_pnl = pos.realized_pnl
    <2> HIDE DEF net, t
    <2>1. t \in Position
      BY <1>2, <1>3 DEF Position
    <2>2. t.net_qty = net /\ t.avg_entry_price = price /\ t.realized_pnl = pos.realized_pnl
      BY <1>2 DEF Position
    <2> QED
      BY <2>1, <2>2
  <1>5. p \in Position /\ p.net_qty = t.net_qty
        /\ p.avg_entry_price = t.avg_entry_price /\ p.realized_pnl = t.realized_pnl
        /\ p.last_price = price /\ FreshMark(p)
    BY <1>4, FilledFields
  <1>6. p.unrealized_pnl = 0
    <2>1. p.unrealized_pnl = (price - price) * net
      BY <1>4, <1>5 DEF FreshMark
    <2> QED
      BY <1>3, <2>1
  <1> QED
    BY <1>4, <1>5, <1>6

(* A fill of the whole of a position, at the price it was opened at, makes *)
(* it flat with no profit or loss.                                         *)
LEMMA FillClosesEven ==
    ASSUME NEW pos \in Position, NEW side \in Side,
           NEW price \in Nat \ {0}, NEW qty \in Nat \ {0},
           pos.net_qty = IF side = "Buy" THEN -qty ELSE qty,
           pos.avg_entry_price = price
    PROVE  LET p == Filled(pos, side, price, qty)
           IN  /\ p \in Position
               /\ p.net_qty = 0
               /\ p.avg_entry_price = 0
               /\ p.realized_pnl = pos.realized_pnl
               /\ p.unrealized_pnl = 0
  <1> DEFINE t == IF side = "Buy" THEN Bought(pos, price, qty) ELSE Sold(pos, price, qty)
             r == pos.realized_pnl
             p == Filled(pos, side, price, qty)
  <1>1. r \in Int /\ r + (price - price) * qty = r
    BY DEF Position
  <1>2. t = [pos EXCEPT !.net_qty = 0, !.realized_pnl = r, !.avg_entry_price = 0]
    <2>1. CASE side = "Buy"
      <3>1. ~(pos.net_qty >= 0) /\ pos.net_qty + qty = 0 /\ ~(0 > 0)
            /\ Smaller(qty, -pos.net_qty) = qty
        BY <2>1 DEF Smaller
      <3>2. t = [pos EXCEPT
                    !.net_qty = pos.net_qty + qty,
                    !.realized_pnl = @ + (pos.avg_entry_price - price)
                                            * Smaller(qty, -pos.net_qty),
                    !.avg_entry_price = IF pos.net_qty + qty > 0 THEN price
                                        ELSE IF pos.net_qty + qty = 0 THEN 0 ELSE @]
        BY <2>1, <3>1, Zenon DEF Bought
      <3> QED
        BY <1>1, <3>1, <3>2, Zenon
    <2>2. CASE side = "Sell"
      <3>1. ~(pos.net_qty <= 0) /\ pos.net_qty - qty = 0 /\ ~(0 < 0)
            /\ Smaller(qty, pos.net_qty) = qty /\ side # "Buy"
        BY <2>2 DEF Smaller
      <3>2. t = [pos EXCEPT
                    !.net_qty = pos.net_qty - qty,
                    !.realized_pnl = @ + (price - pos.avg_entry_price)
                                            * Smaller(qty, pos.net_qty),
                    !.avg_entry_price = IF pos.net_qty - qty < 0 THEN price
                                        ELSE IF pos.net_qty - qty = 0 THEN 0 ELSE @]
        BY <3>1, Zenon DEF Sold
      <3> QED
        BY <1>1, <3>1, <3>2, Zenon
    <2> QED
      BY <2>1, <2>2 DEF Side
  <1>3. t \in Position /\ t.net_qty = 0 /\ t.avg_entry_price = 0 /\ t.realized_pnl = r
    <2> DEFINE z == 0
    <2>0. z \in Int /\ t = [pos EXCEPT !.net_qty = z, !.realized_pnl = r, !.avg_entry_price = z]
      BY <1>2
    <2> HIDE DEF r, t, z
    <2>1. t \in Position
      BY <1>1, <2>0 DEF Position
    <2>2. t.net_qty = 0 /\ t.avg_entry_price = 0 /\ t.realized_pnl = r
      BY <1>2 DEF Position
    <2> QED
      BY <2>1, <2>2
  <1>4. p \in Position /\ p.net_qty = t.net_qty
        /\ p.avg_entry_price = t.avg_entry_price /\ p.realized_pnl = t.realized_pnl
        /\ p.last_price = price /\ FreshMark(p)
    BY <1>3, FilledFields
  <1>5. p.unrealized_pnl = 0
    BY <1>3, <1>4 DEF FreshMark
  <1> QED
    BY <1>3, <1>4, <1>5

-----------------------------------------------------------------------------
(* Sums over finite sets.  SumFunctionOnSet takes the elements out one by  *)
(* one, in an order it leaves open; these lemmas say what the proofs need  *)
(* of it.  They rest on induction over the size of the set.                *)

(* Induction on the naturals: a set that holds 0 and, with a number, the   *)
(* next one holds them all.                                                *)
LEMMA CountingUp ==
    ASSUME NEW T, 0 \in T, \A n \in Nat : n \in T => n + 1 \in T
    PROVE  Nat \subseteq T
  <1> DEFINE Missing == Nat \ T
             R == OpToRel(<, Nat)
  <1> SUFFICES ASSUME Missing # {} PROVE FALSE
    OBVIOUS
  <1>1. IsWellFoundedOn(R, Nat)
    BY NatLessThanWellFounded
  <1> HIDE DEF R
  <1>2. PICK n \in Missing : \A m \in Missing : ~ (<<m, n>> \in R)
    BY <1>1, WFMin
  <1>3. n - 1 \in Nat /\ n - 1 + 1 = n
    BY <1>2
  <1>4. <<n - 1, n>> \in R
    BY <1>2, <1>3 DEF R, OpToRel
  <1> QED
    BY <1>2, <1>3, <1>4

(* The subsets of S with at most n elements. *)
UpTo(S, n) == {s \in SUBSET S : Cardinality(s) <= n}

(* A set less one of its elements is smaller. *)
LEMMA TakenOut ==
    ASSUME NEW S, IsFiniteSet(S), NEW n \in Nat, NEW s \in UpTo(S, n + 1), NEW x \in s
    PROVE  s \ {x} \in UpTo(S, n)
  <1>1. IsFiniteSet(s) /\ s \in SUBSET S
    BY FS_Subset DEF UpTo
  <1>2. Cardinality(s) \in Nat /\ Cardinality(s) <= n + 1
    BY <1>1, FS_CardinalityType DEF UpTo
  <1>3. Cardinality(s \ {x}) = Cardinality(s) - 1
    BY <1>1, FS_RemoveElement
  <1> QED
    BY <1>1, <1>2, <1>3 DEF UpTo

(* Induction on the subsets of a finite set: what holds of the empty set   *)
(* and of a set when it holds of the set less any element, holds of all.   *)
LEMMA SubsetInduction ==
    ASSUME NEW S, IsFiniteSet(S), NEW Good,
           {} \in Good,
           \A s \in SUBSET S : (s # {} /\ \A x \in s : s \ {x} \in Good) => s \in Good
    PROVE  SUBSET S \subseteq Good
  <1> DEFINE T == {n \in Nat : UpTo(S, n) \subseteq Good}
  <1>1. 0 \in T
    <2>1. \A s \in UpTo(S, 0) : s = {}
      BY FS_Subset, FS_EmptySet, FS_CardinalityType DEF UpTo
    <2> QED
      BY <2>1
  <1>2. ASSUME NEW n \in Nat, n \in T
        PROVE  n + 1 \in T
    <2> SUFFICES ASSUME NEW s \in UpTo(S, n + 1) PROVE s \in Good
      OBVIOUS
    <2>1. \A x \in s : s \ {x} \in Good
      BY <1>2, TakenOut
    <2> QED
      BY <2>1 DEF UpTo
  <1>3. Cardinality(S) \in T
    <2>1. Cardinality(S) \in Nat
      BY FS_CardinalityType
    <2> HIDE DEF T
    <2> QED
      BY <1>1, <1>2, <2>1, CountingUp
  <1>4. UpTo(S, Cardinality(S)) = SUBSET S
    BY FS_Subset DEF UpTo
  <1> QED
    BY <1>3, <1>4

(* The element of a set that SumFunctionOnSet takes out first. *)
Picked(s) == CHOOSE x \in s : TRUE

(* What is picked from a set is in it. *)
LEMMA PickedIn ==
    ASSUME NEW s, s # {}
    PROVE  Picked(s) \in s
  BY DEF Picked

(* g adds up f over the sets of D, one picked element after the other: the *)
(* equation SumFunctionOnSet chooses its function by.                      *)
Unfolds(g, f, D) ==
    g = [s \in D |-> IF s = {} THEN 0 ELSE f[Picked(s)] + g[s \ {Picked(s)}]]

(* The equation has a solution, built up by the size of the sets. *)
LEMMA FoldExists ==
    ASSUME NEW S, IsFiniteSet(S), NEW f
    PROVE  \E g : Unfolds(g, f, SUBSET S)
  <1> DEFINE T == {n \in Nat : \E g : Unfolds(g, f, UpTo(S, n))}
  <1>1. 0 \in T
    <2> DEFINE g == [s \in UpTo(S, 0) |-> 0]
    <2>1. \A s \in UpTo(S, 0) : s = {}
      BY FS_Subset, FS_EmptySet, FS_CardinalityType DEF UpTo
    <2>2. Unfolds(g, f, UpTo(S, 0))
      BY <2>1 DEF Unfolds
    <2> QED
      BY <2>2
  <1>2. ASSUME NEW n \in Nat, n \in T
        PROVE  n + 1 \in T
    <2>1. PICK g : Unfolds(g, f, UpTo(S, n))
      BY <1>2
    <2> DEFINE h == [s \in UpTo(S, n + 1) |->
                        IF s = {} THEN 0 ELSE f[Picked(s)] + g[s \ {Picked(s)}]]
    <2>2. \A s \in UpTo(S, n) : s \in UpTo(S, n + 1)
      <3> SUFFICES ASSUME NEW s \in UpTo(S, n) PROVE s \in UpTo(S, n + 1)
        OBVIOUS
      <3>1. Cardinality(s) \in Nat
        BY FS_Subset, FS_CardinalityType DEF UpTo
      <3> QED
        BY <3>1 DEF UpTo
    <2>3. \A s \in UpTo(S, n) : h[s] = g[s]
      BY <2>1, <2>2 DEF Unfolds
    <2>4. \A s \in UpTo(S, n + 1) : s # {} => s \ {Picked(s)} \in UpTo(S, n)
      BY PickedIn, TakenOut
    <2>5. \A s \in UpTo(S, n + 1) : s # {} => h[s \ {Picked(s)}] = g[s \ {Picked(s)}]
      BY <2>3, <2>4
    <2>6. h = [s \in UpTo(S, n + 1) |->
                    IF s = {} THEN 0 ELSE f[Picked(s)] + h[s \ {Picked(s)}]]
      BY <2>5
    <2>7. Unfolds(h, f, UpTo(S, n + 1))
      BY <2>6 DEF Unfolds
    <2> QED
      BY <2>7
  <1>3. Cardinality(S) \in Nat
    BY FS_CardinalityType
  <1>4. Cardinality(S) \in T
    <2> HIDE DEF T
    <2> QED
      BY <1>1, <1>2, <1>3, CountingUp
  <1>5. UpTo(S, Cardinality(S)) = SUBSET S
    BY FS_Subset DEF UpTo
  <1> QED
    BY <1>4, <1>5

(* A sum is the value at S of a function that satisfies the equation. *)
LEMMA SumUnfolds ==
    ASSUME NEW S, IsFiniteSet(S), NEW f
    PROVE  \E g : Unfolds(g, f, SUBSET S) /\ SumFunctionOnSet(f, S) = g[S]
  <1> DEFINE g == CHOOSE g : Unfolds(g, f, SUBSET S)
  <1>1. Unfolds(g, f, SUBSET S)
    BY FoldExists
  <1>2. SumFunctionOnSet(f, S) = g[S]
    BY DEF SumFunctionOnSet, FoldFunctionOnSet, MapThenFoldSet, Unfolds, Picked
  <1> HIDE DEF g
  <1> QED
    BY <1>1, <1>2

(* Two solutions for functions that agree on T have the same value at T. *)
LEMMA FoldsAgree ==
    ASSUME NEW S, NEW T \in SUBSET S, IsFiniteSet(S), NEW f, NEW e, NEW g, NEW h,
           \A x \in T : f[x] = e[x],
           Unfolds(g, f, SUBSET S), Unfolds(h, e, SUBSET T)
    PROVE  g[T] = h[T]
  <1> DEFINE Good == {s \in SUBSET T : g[s] = h[s]}
  <1>1. {} \in Good
    BY DEF Unfolds
  <1>2. ASSUME NEW s \in SUBSET T, s # {}, \A x \in s : s \ {x} \in Good
        PROVE  s \in Good
    <2>1. Picked(s) \in s
      BY <1>2, PickedIn
    <2>2. g[s] = f[Picked(s)] + g[s \ {Picked(s)}]
      BY <1>2 DEF Unfolds
    <2>3. h[s] = e[Picked(s)] + h[s \ {Picked(s)}]
      BY <1>2 DEF Unfolds
    <2> QED
      BY <1>2, <2>1, <2>2, <2>3
  <1>3. IsFiniteSet(T)
    BY FS_Subset
  <1>4. SUBSET T \subseteq Good
    <2> HIDE DEF Good
    <2> QED
      BY <1>1, <1>2, <1>3, SubsetInduction
  <1> QED
    BY <1>4

(* A sum depends on the summands only. *)
LEMMA SumCongruent ==
    ASSUME NEW S, IsFiniteSet(S), NEW f, NEW e, \A x \in S : f[x] = e[x]
    PROVE  SumFunctionOnSet(f, S) = SumFunctionOnSet(e, S)
  <1>1. PICK g : Unfolds(g, f, SUBSET S) /\ SumFunctionOnSet(f, S) = g[S]
    BY SumUnfolds
  <1>2. PICK h : Unfolds(h, e, SUBSET S) /\ SumFunctionOnSet(e, S) = h[S]
    BY SumUnfolds
  <1> QED
    BY <1>1, <1>2, FoldsAgree

(* The empty sum. *)
LEMMA SumEmpty ==
    ASSUME NEW f
    PROVE  SumFunctionOnSet(f, {}) = 0
  <1>1. PICK g : Unfolds(g, f, SUBSET {}) /\ SumFunctionOnSet(f, {}) = g[{}]
    BY SumUnfolds, FS_EmptySet
  <1> QED
    BY <1>1 DEF Unfolds

(* A sum is its first summand and the sum of the rest. *)
LEMMA SumPicked ==
    ASSUME NEW S, IsFiniteSet(S), S # {}, NEW f
    PROVE  SumFunctionOnSet(f, S) = f[Picked(S)] + SumFunctionOnSet(f, S \ {Picked(S)})
  <1> DEFINE T == S \ {Picked(S)}
  <1>1. PICK g : Unfolds(g, f, SUBSET S) /\ SumFunctionOnSet(f, S) = g[S]
    BY SumUnfolds
  <1>2. IsFiniteSet(T) /\ T \in SUBSET S
    BY FS_RemoveElement
  <1>3. PICK h : Unfolds(h, f, SUBSET T) /\ SumFunctionOnSet(f, T) = h[T]
    BY <1>2, SumUnfolds
  <1>4. g[T] = h[T]
    BY <1>1, <1>2, <1>3, FoldsAgree
  <1>5. g[S] = f[Picked(S)] + g[T]
    BY <1>1 DEF Unfolds
  <1> QED
    BY <1>1, <1>3, <1>4, <1>5

(* A sum of integers is an integer. *)
LEMMA SumInt ==
    ASSUME NEW S, IsFiniteSet(S), NEW f, \A x \in S : f[x] \in Int
    PROVE  SumFunctionOnSet(f, S) \in Int
  <1> DEFINE Good == {s \in SUBSET S : SumFunctionOnSet(f, s) \in Int}
  <1>1. {} \in Good
    BY SumEmpty
  <1>2. ASSUME NEW s \in SUBSET S, s # {}, \A x \in s : s \ {x} \in Good
        PROVE  s \in Good
    <2>1. Picked(s) \in s /\ IsFiniteSet(s)
      BY <1>2, PickedIn, FS_Subset
    <2>2. SumFunctionOnSet(f, s) = f[Picked(s)] + SumFunctionOnSet(f, s \ {Picked(s)})
      BY <1>2, <2>1, SumPicked
    <2> QED
      BY <1>2, <2>1, <2>2
  <1>3. SUBSET S \subseteq Good
    <2> HIDE DEF Good
    <2> QED
      BY <1>1, <1>2, SubsetInduction
  <1> QED
    BY <1>3

(* A sum of naturals is a natural. *)
LEMMA SumNat ==
    ASSUME NEW S, IsFiniteSet(S), NEW f, \A x \in S : f[x] \in Nat
    PROVE  SumFunctionOnSet(f, S) \in Nat
  <1> DEFINE Good == {s \in SUBSET S : SumFunctionOnSet(f, s) \in Nat}
  <1>1. {} \in Good
    BY SumEmpty
  <1>2. ASSUME NEW s \in SUBSET S, s # {}, \A x \in s : s \ {x} \in Good
        PROVE  s \in Good
    <2>1. Picked(s) \in s /\ IsFiniteSet(s)
      BY <1>2, PickedIn, FS_Subset
    <2>2. SumFunctionOnSet(f, s) = f[Picked(s)] + SumFunctionOnSet(f, s \ {Picked(s)})
      BY <1>2, <2>1, SumPicked
    <2> QED
      BY <1>2, <2>1, <2>2
  <1>3. SUBSET S \subseteq Good
    <2> HIDE DEF Good
    <2> QED
      BY <1>1, <1>2, SubsetInduction
  <1> QED
    BY <1>3

(* Any element may be taken out first: the order does not matter. *)
LEMMA SumTakesOut ==
    ASSUME NEW S, IsFiniteSet(S), NEW f, \A x \in S : f[x] \in Int, NEW y \in S
    PROVE  SumFunctionOnSet(f, S) = f[y] + SumFunctionOnSet(f, S \ {y})
  <1> DEFINE Sum(s) == SumFunctionOnSet(f, s)
             Good == {s \in SUBSET S : \A x \in s : Sum(s) = f[x] + Sum(s \ {x})}
  <1>1. {} \in Good
    OBVIOUS
  <1>2. ASSUME NEW s \in SUBSET S, s # {}, \A x \in s : s \ {x} \in Good
        PROVE  s \in Good
    <2> SUFFICES ASSUME NEW x \in s PROVE Sum(s) = f[x] + Sum(s \ {x})
      OBVIOUS
    <2> DEFINE p == Picked(s)
    <2>1. p \in s /\ IsFiniteSet(s)
      BY <1>2, PickedIn, FS_Subset
    <2>2. Sum(s) = f[p] + Sum(s \ {p})
      BY <1>2, <2>1, SumPicked
    <2>3. CASE x = p
      BY <2>2, <2>3
    <2>4. CASE x # p
      <3> HIDE DEF p
      <3> DEFINE rest == (s \ {x}) \ {p}
      <3>1. (s \ {p}) \ {x} = rest
        OBVIOUS
      <3>2. Sum(s \ {p}) = f[x] + Sum((s \ {p}) \ {x})
        BY <1>2, <2>1, <2>4
      <3>3. Sum(s \ {x}) = f[p] + Sum(rest)
        BY <1>2, <2>1, <2>4
      <3>4. IsFiniteSet(rest) /\ rest \subseteq S
        BY <2>1, FS_RemoveElement
      <3>5. Sum(rest) \in Int /\ f[x] \in Int /\ f[p] \in Int
        BY <2>1, <3>4, SumInt
      <3>6. Sum(s) = f[p] + (f[x] + Sum(rest))
        BY <2>2, <3>1, <3>2
      <3> QED
        BY <3>3, <3>5, <3>6
    <2> QED
      BY <2>3, <2>4
  <1>3. SUBSET S \subseteq Good
    <2> HIDE DEF Good
    <2> QED
      BY <1>1, <1>2, SubsetInduction
  <1> QED
    BY <1>3

(* When one summand changes, the sum changes by the difference. *)
LEMMA SumChanges ==
    ASSUME NEW S, IsFiniteSet(S), NEW y \in S, NEW f \in [S -> Int], NEW e \in [S -> Int],
           \A x \in S : x # y => e[x] = f[x]
    PROVE  SumFunctionOnSet(e, S) = SumFunctionOnSet(f, S) + (e[y] - f[y])
  <1>1. IsFiniteSet(S \ {y})
    BY FS_RemoveElement
  <1>2. SumFunctionOnSet(e, S \ {y}) = SumFunctionOnSet(f, S \ {y})
    BY <1>1, SumCongruent
  <1>3. SumFunctionOnSet(f, S) = f[y] + SumFunctionOnSet(f, S \ {y})
    BY SumTakesOut
  <1>4. SumFunctionOnSet(e, S) = e[y] + SumFunctionOnSet(e, S \ {y})
    BY SumTakesOut
  <1>5. SumFunctionOnSet(f, S \ {y}) \in Int
    BY <1>1, SumInt
  <1> QED
    BY <1>2, <1>3, <1>4, <1>5

(* A sum of summands of at most m is at most m times their number. *)
LEMMA SumAtMost ==
    ASSUME NEW S, IsFiniteSet(S), NEW f, NEW m \in Nat,
           \A x \in S : f[x] \in Int /\ f[x] <= m
    PROVE  SumFunctionOnSet(f, S) <= Cardinality(S) * m
  <1> DEFINE Good == {s \in SUBSET S : SumFunctionOnSet(f, s) <= Cardinality(s) * m}
  <1>1. {} \in Good
    BY SumEmpty, FS_EmptySet
  <1>2. ASSUME NEW s \in SUBSET S, s # {}, \A x \in s : s \ {x} \in Good
        PROVE  s \in Good
    <2> DEFINE p == Picked(s)
               k == Cardinality(s)
    <2>1. p \in s /\ IsFiniteSet(s)
      BY <1>2, PickedIn, FS_Subset
    <2>2. SumFunctionOnSet(f, s) = f[p] + SumFunctionOnSet(f, s \ {p})
      BY <1>2, <2>1, SumPicked
    <2>3. k \in Nat /\ Cardinality(s \ {p}) = k - 1 /\ IsFiniteSet(s \ {p})
      BY <2>1, FS_RemoveElement, FS_CardinalityType
    <2>4. SumFunctionOnSet(f, s \ {p}) \in Int
      BY <2>1, <2>3, SumInt
    <2>5. SumFunctionOnSet(f, s \ {p}) <= (k - 1) * m
      BY <1>2, <2>1, <2>3
    <2>6. f[p] \in Int /\ f[p] <= m
      BY <2>1
    <2> HIDE DEF p, k
    <2>7. (k - 1) * m = k * m - m
      BY <2>3
    <2>8. k * m \in Int
      BY <2>3
    <2>9. SumFunctionOnSet(f, s) <= k * m
      BY <2>2, <2>4, <2>5, <2>6, <2>7, <2>8
    <2> QED
      BY <2>9 DEF k
  <1>3. SUBSET S \subseteq Good
    <2> HIDE DEF Good
    <2> QED
      BY <1>1, <1>2, SubsetInduction
  <1> QED
    BY <1>3

(* Summands that are zero may be left out. *)
LEMMA SumSkipsZeros ==
    ASSUME NEW S, IsFiniteSet(S), NEW f, NEW T \in SUBSET S,
           \A x \in S : f[x] \in Int,
           \A x \in S \ T : f[x] = 0
    PROVE  SumFunctionOnSet(f, T) = SumFunctionOnSet(f, S)
  <1> DEFINE Good == {s \in SUBSET S :
                        SumFunctionOnSet(f, s \cap T) = SumFunctionOnSet(f, s)}
  <1>1. {} \in Good
    BY SumEmpty
  <1>2. ASSUME NEW s \in SUBSET S, s # {}, \A x \in s : s \ {x} \in Good
        PROVE  s \in Good
    <2> DEFINE p == Picked(s)
               t == s \ {p}
    <2>1. p \in s /\ IsFiniteSet(s)
      BY <1>2, PickedIn, FS_Subset
    <2>2. SumFunctionOnSet(f, s) = f[p] + SumFunctionOnSet(f, t)
      BY <1>2, <2>1, SumPicked
    <2>3. SumFunctionOnSet(f, t \cap T) = SumFunctionOnSet(f, t)
      BY <1>2, <2>1
    <2>4. IsFiniteSet(t) /\ IsFiniteSet(s \cap T)
      BY <2>1, FS_RemoveElement, FS_Subset
    <2>5. SumFunctionOnSet(f, t) \in Int
      BY <2>1, <2>4, SumInt
    <2>6. CASE p \in T
      <3> HIDE DEF p
      <3>1. (s \cap T) \ {p} = t \cap T
        OBVIOUS
      <3>2. SumFunctionOnSet(f, s \cap T) = f[p] + SumFunctionOnSet(f, (s \cap T) \ {p})
        BY <2>1, <2>4, <2>6, SumTakesOut
      <3> QED
        BY <2>2, <2>3, <3>1, <3>2
    <2>7. CASE p \notin T
      <3> HIDE DEF p
      <3>1. s \cap T = t \cap T
        BY <2>7
      <3>2. f[p] = 0
        BY <2>1, <2>7
      <3>3. SumFunctionOnSet(f, s) = SumFunctionOnSet(f, t)
        BY <2>2, <2>5, <3>2
      <3> QED
        BY <2>3, <3>1, <3>3
    <2> QED
      BY <2>6, <2>7
  <1>3. SUBSET S \subseteq Good
    <2> HIDE DEF Good
    <2> QED
      BY <1>1, <1>2, SubsetInduction
  <1>4. S \cap T = T
    OBVIOUS
  <1> QED
    BY <1>3, <1>4
=============================================================================
