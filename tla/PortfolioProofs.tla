-------------------------- MODULE PortfolioProofs --------------------------
(***************************************************************************)
(* Theorems about PortfolioLedger, for every set of symbols, prices and    *)
(* quantities, every fee and every number of fills.                        *)
(***************************************************************************)
EXTENDS PortfolioLedger, PortfolioLemmas, TLAPS

-----------------------------------------------------------------------------
(* One position.                                                           *)

(* What the invariant says of one symbol: its entry price lies within the  *)
(* prices of its fills and its profit strays from the money that changed   *)
(* hands only by the rounding allowed.                                     *)
Sound(pos, e) ==
    /\ pos.avg_entry_price \in Nat
    /\ pos.net_qty = 0 => pos.avg_entry_price = 0
    /\ pos.net_qty # 0 => /\ e.lo <= pos.avg_entry_price
                          /\ pos.avg_entry_price <= e.hi
    /\ LET drift == pos.realized_pnl - pos.avg_entry_price * pos.net_qty - e.flow
       IN  -e.under <= drift /\ drift <= e.over

(* What the position cost and has earned is within what was traded. *)
Covered(pos, e) ==
    Abs(pos.realized_pnl) + pos.avg_entry_price * Abs(pos.net_qty) <= e.turnover

(* A fill that adds to a long position, or opens one. *)
LEMMA BuyAdds ==
    ASSUME NEW pos \in Position, NEW e \in Entry, Sound(pos, e), Covered(pos, e),
           NEW price \in Nat \ {0}, NEW qty \in Nat \ {0}, pos.net_qty >= 0
    PROVE  /\ Bought(pos, price, qty) \in Position
           /\ Audited(e, pos.net_qty, "Buy", price, qty) \in Entry
           /\ Sound(Bought(pos, price, qty),
                    Audited(e, pos.net_qty, "Buy", price, qty))
           /\ Covered(Bought(pos, price, qty),
                      Audited(e, pos.net_qty, "Buy", price, qty))
  <1> DEFINE n == pos.net_qty
             a == pos.avg_entry_price
             x == AddedEntry(a, n, price, qty)
             b == Bought(pos, price, qty)
             f == Audited(e, n, "Buy", price, qty)
  <1>1. n \in Nat /\ a \in Nat /\ pos.realized_pnl \in Int
        /\ e.flow \in Int /\ e.over \in Nat /\ e.under \in Nat
        /\ e.lo \in Nat /\ e.hi \in Nat
    BY DEF Position, Entry, Sound
  <1>t. f.turnover = e.turnover + price * qty
        /\ e.turnover \in Nat /\ f.turnover \in Nat
    BY <1>1 DEF Audited, Entry
  <1>2. f.flow = e.flow - price * qty /\ f.under = e.under
        /\ f.over = e.over + (IF n > 0 THEN n + qty - 1 ELSE 0)
        /\ f.lo = (IF n = 0 THEN price ELSE Smaller(e.lo, price))
        /\ f.hi = (IF n = 0 THEN price ELSE Larger(e.hi, price))
    BY <1>1 DEF Audited, Signed
  <1>3. f.lo \in Nat /\ f.hi \in Nat /\ f.lo <= price /\ price <= f.hi
        /\ (n > 0 => f.lo <= a /\ a <= f.hi)
    BY <1>1, <1>2 DEF Smaller, Larger, Sound
  <1>4. x \in Nat /\ f.lo <= x /\ x <= f.hi
    BY <1>1, <1>3, AddedEntryBounds
  <1>5. b = [pos EXCEPT !.net_qty = n + qty, !.avg_entry_price = x]
    BY <1>1 DEF Bought
  <1>6. b \in Position /\ b.net_qty = n + qty /\ b.avg_entry_price = x
        /\ b.realized_pnl = pos.realized_pnl
    <2> DEFINE net == n + qty
    <2>1. net \in Int /\ x \in Int /\ b = [pos EXCEPT !.net_qty = net, !.avg_entry_price = x]
      BY <1>1, <1>4, <1>5
    <2> HIDE DEF net, n, x, b
    <2>2. b \in Position
      BY <2>1 DEF Position
    <2>3. b.net_qty = net /\ b.avg_entry_price = x /\ b.realized_pnl = pos.realized_pnl
      BY <2>1 DEF Position
    <2> QED
      BY <2>2, <2>3 DEF net
  <1>7. f \in Entry
    <2>1. f.over \in Nat /\ f.under \in Nat /\ f.flow \in Int
      BY <1>1, <1>2
    <2> QED
      BY <2>1, <1>3, <1>t DEF Audited, Entry
  <1>8. x * (n + qty) <= a * n + price * qty
        /\ a * n + price * qty <= x * (n + qty) + (n + qty) - 1
    BY <1>1, AddedEntryRemainder
  <1>9. n = 0 => x * (n + qty) = a * n + price * qty
    <2>1. ASSUME n = 0 PROVE x = price
      BY <1>2, <1>4, <2>1
    <2> QED
      BY <1>1, <2>1
  <1>10. LET drift == b.realized_pnl - x * (n + qty) - f.flow
         IN  -f.under <= drift /\ drift <= f.over
    <2> DEFINE y == x * (n + qty)
               z == a * n
               w == price * qty
    <2>1. y \in Int /\ z \in Int /\ w \in Int
      BY <1>1, <1>4
    <2>2. -e.under <= pos.realized_pnl - z - e.flow
          /\ pos.realized_pnl - z - e.flow <= e.over
      BY DEF Sound
    <2>3. f.flow = e.flow - w
      BY <1>2
    <2>4. y <= z + w /\ z + w <= y + (n + qty) - 1 /\ (n = 0 => y = z + w)
      BY <1>8, <1>9
    <2> HIDE DEF y, z, w
    <2>5. -f.under <= pos.realized_pnl - y - f.flow
          /\ pos.realized_pnl - y - f.flow <= f.over
      BY <1>1, <1>2, <2>1, <2>2, <2>3, <2>4
    <2> QED
      BY <1>6, <2>5 DEF y
  <1>11. Covered(b, f)
    <2> DEFINE y == x * (n + qty)
               z == a * n
               w == price * qty
    <2>1. Abs(pos.realized_pnl) \in Int /\ Abs(n) = n /\ Abs(n + qty) = n + qty
      BY <1>1 DEF Abs
    <2>2. Abs(pos.realized_pnl) + z <= e.turnover
      BY <2>1 DEF Covered
    <2>3. y <= z + w /\ y \in Int /\ z \in Int /\ w \in Int /\ f.turnover = e.turnover + w
      BY <1>1, <1>t, <1>4, <1>8
    <2> HIDE DEF y, z, w
    <2>4. Abs(pos.realized_pnl) + y <= f.turnover
      BY <1>1, <1>t, <2>1, <2>2, <2>3
    <2> QED
      BY <1>6, <2>1, <2>4 DEF Covered, y
  <1> QED
    BY <1>1, <1>4, <1>6, <1>7, <1>10, <1>11 DEF Sound

(* A fill that adds to a short position, or opens one. *)
LEMMA SellAdds ==
    ASSUME NEW pos \in Position, NEW e \in Entry, Sound(pos, e), Covered(pos, e),
           NEW price \in Nat \ {0}, NEW qty \in Nat \ {0}, pos.net_qty <= 0
    PROVE  /\ Sold(pos, price, qty) \in Position
           /\ Audited(e, pos.net_qty, "Sell", price, qty) \in Entry
           /\ Sound(Sold(pos, price, qty),
                    Audited(e, pos.net_qty, "Sell", price, qty))
           /\ Covered(Sold(pos, price, qty),
                      Audited(e, pos.net_qty, "Sell", price, qty))
  <1> DEFINE n == pos.net_qty
             h == -n
             a == pos.avg_entry_price
             x == AddedEntry(a, h, price, qty)
             b == Sold(pos, price, qty)
             f == Audited(e, n, "Sell", price, qty)
  <1>1. n \in Int /\ h \in Nat /\ a \in Nat /\ pos.realized_pnl \in Int
        /\ e.flow \in Int /\ e.over \in Nat /\ e.under \in Nat
        /\ e.lo \in Nat /\ e.hi \in Nat
    BY DEF Position, Entry, Sound
  <1>t. f.turnover = e.turnover + price * qty
        /\ e.turnover \in Nat /\ f.turnover \in Nat
    BY <1>1 DEF Audited, Entry
  <1>2. f.flow = e.flow - price * (-qty) /\ f.over = e.over
        /\ f.under = e.under + (IF h > 0 THEN h + qty - 1 ELSE 0)
        /\ f.lo = (IF h = 0 THEN price ELSE Smaller(e.lo, price))
        /\ f.hi = (IF h = 0 THEN price ELSE Larger(e.hi, price))
    BY <1>1 DEF Audited, Signed
  <1>3. f.lo \in Nat /\ f.hi \in Nat /\ f.lo <= price /\ price <= f.hi
        /\ (h > 0 => f.lo <= a /\ a <= f.hi)
    BY <1>1, <1>2 DEF Smaller, Larger, Sound
  <1>4. x \in Nat /\ f.lo <= x /\ x <= f.hi
    BY <1>1, <1>3, AddedEntryBounds
  <1>5. b = [pos EXCEPT !.net_qty = n - qty, !.avg_entry_price = x]
    BY <1>1 DEF Sold
  <1>6. b \in Position /\ b.net_qty = n - qty /\ b.avg_entry_price = x
        /\ b.realized_pnl = pos.realized_pnl
    <2> DEFINE net == n - qty
    <2>1. net \in Int /\ x \in Int /\ b = [pos EXCEPT !.net_qty = net, !.avg_entry_price = x]
      BY <1>1, <1>4, <1>5
    <2> HIDE DEF net, n, x, b
    <2>2. b \in Position
      BY <2>1 DEF Position
    <2>3. b.net_qty = net /\ b.avg_entry_price = x /\ b.realized_pnl = pos.realized_pnl
      BY <2>1 DEF Position
    <2> QED
      BY <2>2, <2>3 DEF net
  <1>7. f \in Entry
    <2>1. f.over \in Nat /\ f.under \in Nat /\ f.flow \in Int
      BY <1>1, <1>2
    <2> QED
      BY <2>1, <1>3, <1>t DEF Audited, Entry
  <1>8. x * (h + qty) <= a * h + price * qty
        /\ a * h + price * qty <= x * (h + qty) + (h + qty) - 1
    BY <1>1, AddedEntryRemainder
  <1>9. h = 0 => x * (h + qty) = a * h + price * qty
    <2>1. ASSUME h = 0 PROVE x = price
      BY <1>2, <1>4, <2>1
    <2> QED
      BY <1>1, <2>1
  <1>10. -f.under <= b.realized_pnl - x * (n - qty) - f.flow
         /\ b.realized_pnl - x * (n - qty) - f.flow <= f.over
    <2> DEFINE y == x * (h + qty)
               z == a * h
               w == price * qty
    <2>1. y \in Int /\ z \in Int /\ w \in Int
      BY <1>1, <1>4
    <2>2. x * (n - qty) = -y /\ a * n = -z /\ price * (-qty) = -w
      BY <1>1, <1>4
    <2>3. -e.under <= pos.realized_pnl + z - e.flow
          /\ pos.realized_pnl + z - e.flow <= e.over
      <3>1. -e.under <= pos.realized_pnl - a * n - e.flow
            /\ pos.realized_pnl - a * n - e.flow <= e.over
        BY DEF Sound
      <3> HIDE DEF z
      <3> QED
        BY <1>1, <2>1, <2>2, <3>1
    <2>4. f.flow = e.flow + w
      BY <1>1, <1>2, <2>1, <2>2
    <2>5. y <= z + w /\ z + w <= y + (h + qty) - 1 /\ (h = 0 => y = z + w)
      BY <1>8, <1>9
    <2> HIDE DEF y, z, w, h
    <2>6. -f.under <= pos.realized_pnl + y - f.flow
          /\ pos.realized_pnl + y - f.flow <= f.over
      BY <1>1, <1>2, <2>1, <2>3, <2>4, <2>5
    <2> QED
      BY <1>1, <1>6, <2>1, <2>2, <2>4, <2>6
  <1>11. Covered(b, f)
    <2> DEFINE y == x * (h + qty)
               z == a * h
               w == price * qty
    <2>1. Abs(pos.realized_pnl) \in Int /\ Abs(n) = h /\ Abs(n - qty) = h + qty
      BY <1>1 DEF Abs
    <2>2. Abs(pos.realized_pnl) + z <= e.turnover
      BY <2>1 DEF Covered
    <2>3. y <= z + w /\ y \in Int /\ z \in Int /\ w \in Int /\ f.turnover = e.turnover + w
      BY <1>1, <1>t, <1>4, <1>8
    <2> HIDE DEF y, z, w
    <2>4. Abs(pos.realized_pnl) + y <= f.turnover
      BY <1>1, <1>t, <2>1, <2>2, <2>3
    <2> QED
      BY <1>6, <2>1, <2>4 DEF Covered, y
  <1> QED
    BY <1>1, <1>4, <1>6, <1>7, <1>10, <1>11 DEF Sound

(* A buy that reduces, closes or flips a short position. *)
LEMMA BuyCloses ==
    ASSUME NEW pos \in Position, NEW e \in Entry, Sound(pos, e), Covered(pos, e),
           NEW price \in Nat \ {0}, NEW qty \in Nat \ {0}, pos.net_qty < 0
    PROVE  /\ Bought(pos, price, qty) \in Position
           /\ Audited(e, pos.net_qty, "Buy", price, qty) \in Entry
           /\ Sound(Bought(pos, price, qty),
                    Audited(e, pos.net_qty, "Buy", price, qty))
           /\ Covered(Bought(pos, price, qty),
                      Audited(e, pos.net_qty, "Buy", price, qty))
  <1> DEFINE n   == pos.net_qty
             a   == pos.avg_entry_price
             r   == pos.realized_pnl
             net == n + qty
             c   == Smaller(qty, -n)
             g   == r + (a - price) * c
             x   == IF net > 0 THEN price ELSE IF net = 0 THEN 0 ELSE a
             b   == Bought(pos, price, qty)
             f   == Audited(e, n, "Buy", price, qty)
  <1>1. n \in Int /\ a \in Nat /\ r \in Int /\ net \in Int
        /\ e.flow \in Int /\ e.over \in Nat /\ e.under \in Nat
        /\ e.lo \in Nat /\ e.hi \in Nat
    BY DEF Position, Entry, Sound
  <1>2. c \in Int
    BY <1>1 DEF Smaller
  <1>3. g \in Int /\ x \in Nat
    BY <1>1, <1>2
  <1>t. f.turnover = e.turnover + price * qty
        /\ e.turnover \in Nat /\ f.turnover \in Nat
    BY <1>1 DEF Audited, Entry
  <1>4. f.flow = e.flow - price * qty /\ f.under = e.under /\ f.over = e.over
        /\ f.lo = (IF net > 0 THEN price ELSE e.lo)
        /\ f.hi = (IF net > 0 THEN price ELSE e.hi)
    BY <1>1 DEF Audited, Signed
  <1>5. f \in Entry
    <2>1. f.flow \in Int /\ f.over \in Nat /\ f.under \in Nat
          /\ f.lo \in Nat /\ f.hi \in Nat
      BY <1>1, <1>4
    <2> QED
      BY <2>1, <1>t DEF Audited, Entry
  <1>6. b = [pos EXCEPT !.net_qty = net, !.realized_pnl = g, !.avg_entry_price = x]
    BY <1>1 DEF Bought
  <1>7. b \in Position /\ b.net_qty = net /\ b.avg_entry_price = x /\ b.realized_pnl = g
    <2>1. net \in Int /\ g \in Int /\ x \in Int
      BY <1>1, <1>3
    <2> HIDE DEF net, g, x, b
    <2>2. b \in Position
      BY <1>6, <2>1 DEF Position
    <2>3. b.net_qty = net /\ b.avg_entry_price = x /\ b.realized_pnl = g
      BY <1>6 DEF Position
    <2> QED
      BY <2>2, <2>3
  <1>8. (net = 0 => x = 0) /\ (net # 0 => f.lo <= x /\ x <= f.hi)
    BY <1>1, <1>4 DEF Sound
  <1>9. g - x * net - f.flow = r - a * n - e.flow
    <2>1. CASE net > 0
      <3>1. c = -n /\ x = price
        BY <1>1, <2>1 DEF Smaller
      <3>2. g = r + (a - price) * (-n) /\ x * net = price * (n + qty)
            /\ f.flow = e.flow - price * qty
        BY <1>4, <3>1
      <3> HIDE DEF g, x, net, f
      <3>3. (a - price) * (-n) = price * n - a * n
            /\ price * (n + qty) = price * n + price * qty
        <4>1. a \in Int /\ price \in Int /\ n \in Int /\ qty \in Int
          BY <1>1
        <4> HIDE DEF a, n
        <4> QED
          BY <4>1, FlipProducts, SMT
      <3> DEFINE pn == price * n
                 pq == price * qty
                 an == a * n
      <3>4. pn \in Int /\ pq \in Int /\ an \in Int
        BY <1>1
      <3>5. g = r + (pn - an) /\ x * net = pn + pq /\ f.flow = e.flow - pq
        BY <3>2, <3>3
      <3> HIDE DEF pn, pq, an
      <3> QED
        BY <1>1, <3>4, <3>5 DEF an
    <2>2. CASE net = 0
      <3>1. c = qty /\ x = 0 /\ n = -qty
        BY <1>1, <2>2 DEF Smaller
      <3>2. g = r + (a - price) * qty /\ x * net = 0
            /\ f.flow = e.flow - price * qty /\ a * n = -(a * qty)
        BY <1>1, <1>4, <3>1
      <3> HIDE DEF g, x, net, f
      <3> QED
        BY <1>1, <3>2
    <2>3. CASE ~(net > 0) /\ net # 0
      <3>1. c = qty /\ x = a
        BY <1>1, <2>3 DEF Smaller
      <3> QED
        BY <1>1, <1>4, <3>1
    <2> QED
      BY <2>1, <2>2, <2>3
  <1>10. -f.under <= g - x * net - f.flow /\ g - x * net - f.flow <= f.over
    BY <1>4, <1>9 DEF Sound
  <1>11. Covered(b, f)
    <2> DEFINE held == -n
    <2>1. held \in Nat \ {0} /\ Abs(n) = held /\ c \in Nat
          /\ c = IF qty <= held THEN qty ELSE held
      BY <1>1 DEF Abs, Smaller
    <2>2. Abs(r) + a * held <= e.turnover
      BY <2>1 DEF Covered
    <2>3. /\ qty < held => Abs(g) + a * (held - qty) <= e.turnover + price * qty
          /\ qty = held => Abs(g) <= e.turnover + price * qty
          /\ qty > held => Abs(g) + price * (qty - held) <= e.turnover + price * qty
      <3>1. a \in Nat /\ r \in Int /\ e.turnover \in Nat /\ g \in Int
            /\ g = r + (a - price) * c
        BY <1>1, <1>3, <1>t
      <3> HIDE DEF a, r, g, c, held
      <3> QED
        BY <2>1, <2>2, <3>1, CloseCovered
    <2>4. /\ qty < held => Abs(net) = held - qty /\ x = a
          /\ qty = held => Abs(net) = 0 /\ x = 0
          /\ qty > held => Abs(net) = qty - held /\ x = price
      BY <1>1 DEF Abs
    <2> HIDE DEF x, net, g, held, a, r
    <2>5. Abs(g) \in Int /\ x * 0 = 0 /\ (qty < held \/ qty = held \/ qty > held)
      BY <1>3, <2>1 DEF Abs
    <2>6. Abs(g) + x * Abs(net) <= e.turnover + price * qty
      BY <2>3, <2>4, <2>5
    <2> QED
      BY <1>t, <1>7, <2>6 DEF Covered
  <1> QED
    BY <1>3, <1>5, <1>7, <1>8, <1>10, <1>11 DEF Sound


(* A sell that reduces, closes or flips a long position. *)
LEMMA SellCloses ==
    ASSUME NEW pos \in Position, NEW e \in Entry, Sound(pos, e), Covered(pos, e),
           NEW price \in Nat \ {0}, NEW qty \in Nat \ {0}, pos.net_qty > 0
    PROVE  /\ Sold(pos, price, qty) \in Position
           /\ Audited(e, pos.net_qty, "Sell", price, qty) \in Entry
           /\ Sound(Sold(pos, price, qty),
                    Audited(e, pos.net_qty, "Sell", price, qty))
           /\ Covered(Sold(pos, price, qty),
                      Audited(e, pos.net_qty, "Sell", price, qty))
  <1> DEFINE n   == pos.net_qty
             a   == pos.avg_entry_price
             r   == pos.realized_pnl
             net == n - qty
             c   == Smaller(qty, n)
             g   == r + (price - a) * c
             x   == IF net < 0 THEN price ELSE IF net = 0 THEN 0 ELSE a
             b   == Sold(pos, price, qty)
             f   == Audited(e, n, "Sell", price, qty)
  <1>1. n \in Int /\ a \in Nat /\ r \in Int /\ net \in Int
        /\ e.flow \in Int /\ e.over \in Nat /\ e.under \in Nat
        /\ e.lo \in Nat /\ e.hi \in Nat
    BY DEF Position, Entry, Sound
  <1>2. c \in Int
    BY <1>1 DEF Smaller
  <1>3. g \in Int /\ x \in Nat
    BY <1>1, <1>2
  <1>t. f.turnover = e.turnover + price * qty
        /\ e.turnover \in Nat /\ f.turnover \in Nat
    BY <1>1 DEF Audited, Entry
  <1>4. f.flow = e.flow - price * (-qty) /\ f.under = e.under /\ f.over = e.over
        /\ f.lo = (IF net < 0 THEN price ELSE e.lo)
        /\ f.hi = (IF net < 0 THEN price ELSE e.hi)
    BY <1>1 DEF Audited, Signed
  <1>5. f \in Entry
    <2>1. f.flow \in Int /\ f.over \in Nat /\ f.under \in Nat
          /\ f.lo \in Nat /\ f.hi \in Nat
      BY <1>1, <1>4
    <2> QED
      BY <2>1, <1>t DEF Audited, Entry
  <1>6. b = [pos EXCEPT !.net_qty = net, !.realized_pnl = g, !.avg_entry_price = x]
    BY <1>1 DEF Sold
  <1>7. b \in Position /\ b.net_qty = net /\ b.avg_entry_price = x /\ b.realized_pnl = g
    <2>1. net \in Int /\ g \in Int /\ x \in Int
      BY <1>1, <1>3
    <2> HIDE DEF net, g, x, b
    <2>2. b \in Position
      BY <1>6, <2>1 DEF Position
    <2>3. b.net_qty = net /\ b.avg_entry_price = x /\ b.realized_pnl = g
      BY <1>6 DEF Position
    <2> QED
      BY <2>2, <2>3
  <1>8. (net = 0 => x = 0) /\ (net # 0 => f.lo <= x /\ x <= f.hi)
    BY <1>1, <1>4 DEF Sound
  <1>9. g - x * net - f.flow = r - a * n - e.flow
    <2>1. CASE net < 0
      <3>1. c = n /\ x = price
        BY <1>1, <2>1 DEF Smaller
      <3> QED
        BY <1>1, <1>4, <3>1
    <2>2. CASE net = 0
      <3>1. c = qty /\ x = 0 /\ n = qty
        BY <1>1, <2>2 DEF Smaller
      <3> QED
        BY <1>1, <1>4, <3>1
    <2>3. CASE ~(net < 0) /\ net # 0
      <3>1. c = qty /\ x = a
        BY <1>1, <2>3 DEF Smaller
      <3>2. g = r + (price - a) * qty /\ x * net = a * (n - qty)
            /\ f.flow = e.flow - price * (-qty)
        BY <1>4, <3>1
      <3> HIDE DEF g, x, net, f
      <3> DEFINE pq == price * qty
                 aq == a * qty
                 an == a * n
      <3>3. g = r + (pq - aq) /\ x * net = an - aq /\ f.flow = e.flow - (-pq)
        <4>1. a \in Int /\ price \in Int /\ n \in Int /\ qty \in Int
          BY <1>1
        <4> HIDE DEF a, n
        <4> QED
          BY <3>2, <4>1, CloseProducts
      <3>4. pq \in Int /\ aq \in Int /\ an \in Int
        BY <1>1
      <3> HIDE DEF pq, aq, an
      <3> QED
        BY <1>1, <3>3, <3>4 DEF an
    <2> QED
      BY <2>1, <2>2, <2>3
  <1>10. -f.under <= g - x * net - f.flow /\ g - x * net - f.flow <= f.over
    BY <1>4, <1>9 DEF Sound
  <1>11. Covered(b, f)
    <2> DEFINE held == n
    <2>1. held \in Nat \ {0} /\ Abs(n) = held /\ c \in Nat
          /\ c = IF qty <= held THEN qty ELSE held
      BY <1>1 DEF Abs, Smaller
    <2>2. Abs(r) + a * held <= e.turnover
      BY <2>1 DEF Covered
    <2>3. /\ qty < held => Abs(g) + a * (held - qty) <= e.turnover + price * qty
          /\ qty = held => Abs(g) <= e.turnover + price * qty
          /\ qty > held => Abs(g) + price * (qty - held) <= e.turnover + price * qty
      <3>1. a \in Nat /\ r \in Int /\ e.turnover \in Nat /\ g \in Int
            /\ g = r + (price - a) * c
        BY <1>1, <1>3, <1>t
      <3> HIDE DEF a, r, g, c, held
      <3> QED
        BY <2>1, <2>2, <3>1, CloseCovered
    <2>4. /\ qty < held => Abs(net) = held - qty /\ x = a
          /\ qty = held => Abs(net) = 0 /\ x = 0
          /\ qty > held => Abs(net) = qty - held /\ x = price
      BY <1>1 DEF Abs
    <2> HIDE DEF x, net, g, held, a, r
    <2>5. Abs(g) \in Int /\ x * 0 = 0 /\ (qty < held \/ qty = held \/ qty > held)
      BY <1>3, <2>1 DEF Abs
    <2>6. Abs(g) + x * Abs(net) <= e.turnover + price * qty
      BY <2>3, <2>4, <2>5
    <2> QED
      BY <1>t, <1>7, <2>6 DEF Covered
  <1> QED
    BY <1>3, <1>5, <1>7, <1>8, <1>10, <1>11 DEF Sound

(* A fill, whatever its side and the position it meets. *)
LEMMA FillIsSound ==
    ASSUME NEW pos \in Position, NEW e \in Entry, Sound(pos, e), Covered(pos, e),
           NEW side \in Side, NEW price \in Nat \ {0}, NEW qty \in Nat \ {0}
    PROVE  LET p == Filled(pos, side, price, qty)
               f == Audited(e, pos.net_qty, side, price, qty)
           IN  /\ p \in Position
               /\ f \in Entry
               /\ Sound(p, f) /\ Covered(p, f)
               /\ FreshMark(p)
  <1> DEFINE t == IF side = "Buy" THEN Bought(pos, price, qty) ELSE Sold(pos, price, qty)
             f == Audited(e, pos.net_qty, side, price, qty)
             k == Counted(t, qty)
             p == Marked(k, price)
  <1>1. pos.net_qty \in Int
    BY DEF Position
  <1>2. t \in Position /\ f \in Entry /\ Sound(t, f) /\ Covered(t, f)
    <2>1. CASE side = "Buy"
      BY <1>1, <2>1, BuyAdds, BuyCloses
    <2>2. CASE side = "Sell"
      BY <1>1, <2>2, SellAdds, SellCloses
    <2> QED
      BY <2>1, <2>2 DEF Side
  <1>3. Filled(pos, side, price, qty) = p
    BY DEF Filled
  <1> HIDE DEF t, f
  <1>4. k \in Position /\ k.net_qty = t.net_qty
        /\ k.avg_entry_price = t.avg_entry_price /\ k.realized_pnl = t.realized_pnl
    BY <1>2, CountedFields
  <1> HIDE DEF k
  <1>5. p \in Position /\ p.net_qty = k.net_qty
        /\ p.avg_entry_price = k.avg_entry_price /\ p.realized_pnl = k.realized_pnl
        /\ FreshMark(p)
    BY <1>4, MarkedFields
  <1> HIDE DEF p
  <1>6. Sound(p, f) /\ Covered(p, f)
    BY <1>2, <1>4, <1>5 DEF Sound, Covered
  <1> QED
    BY <1>2, <1>3, <1>5, <1>6 DEF f

-----------------------------------------------------------------------------
(* The inductive invariant: every position is sound and covered beside its *)
(* ledger entry and freshly marked.                                        *)
PortfolioInv ==
    /\ TypeOK
    /\ \A s \in Symbols : /\ Sound(positions[s], ledger[s])
                          /\ Covered(positions[s], ledger[s])
                          /\ FreshMark(positions[s])

(* The invariant holds of an empty portfolio. *)
LEMMA PortfolioInvInit == Init => PortfolioInv
  <1> SUFFICES ASSUME Init PROVE PortfolioInv
    OBVIOUS
  <1>1. EmptyPosition \in Position
    BY DEF EmptyPosition, Position
  <1>2. TypeOK
    BY <1>1, FeeAssumption, InputAssumption
    DEF Init, PortfolioInit, TypeOK, PortfolioTypeOK, Entry
  <1>3. ASSUME NEW s \in Symbols
        PROVE  /\ Sound(positions[s], ledger[s]) /\ Covered(positions[s], ledger[s])
               /\ FreshMark(positions[s])
    BY DEF Init, PortfolioInit, EmptyPosition, Sound, Covered, Abs, FreshMark
  <1> QED
    BY <1>2, <1>3 DEF PortfolioInv

(* Every report and every mark preserves the invariant. *)
LEMMA PortfolioInvStep == PortfolioInv /\ [Next]_vars => PortfolioInv'
  <1> SUFFICES ASSUME PortfolioInv, [Next]_vars PROVE PortfolioInv'
    OBVIOUS
  <1>1. ASSUME NEW rpt \in Report, Execution(rpt), is_fill(rpt)
        PROVE  PortfolioInv'
    <2> DEFINE s == rpt.symbol
               p == Filled(positions[s], rpt.side, rpt.exec_price, rpt.exec_qty)
               f == Audited(ledger[s], positions[s].net_qty, rpt.side,
                            rpt.exec_price, rpt.exec_qty)
               d == CashFrom(positions[s], p, rpt.exec_qty)
    <2>1. s \in Symbols /\ rpt.side \in Side /\ rpt.exec_price \in Nat \ {0}
          /\ rpt.exec_qty \in Nat \ {0}
      BY InputAssumption DEF Report
    <2>2. positions[s] \in Position /\ ledger[s] \in Entry
          /\ Sound(positions[s], ledger[s]) /\ Covered(positions[s], ledger[s])
      BY <2>1 DEF PortfolioInv, TypeOK, PortfolioTypeOK
    <2>3. p \in Position /\ f \in Entry /\ Sound(p, f) /\ Covered(p, f) /\ FreshMark(p)
      BY <2>1, <2>2, FillIsSound
    <2>4. d \in Int
      BY <2>1, <2>2, <2>3, FeeAssumption DEF CashFrom, compute, Position
    <2>5. /\ positions' = [positions EXCEPT ![s] = p]
          /\ ledger' = [ledger EXCEPT ![s] = f]
          /\ peak' = [peak EXCEPT ![s] = Larger(@, rpt.exec_price)]
          /\ cash' = cash + d
          /\ fills' = fills + 1 /\ fills < MaxFills
      BY <1>1 DEF Execution, on_execution
    <2> HIDE DEF s, p, f, d
    <2>6. TypeOK'
      BY <2>1, <2>3, <2>4, <2>5, InputAssumption
      DEF PortfolioInv, TypeOK, PortfolioTypeOK, Larger
    <2>7. ASSUME NEW z \in Symbols
          PROVE  /\ Sound(positions'[z], ledger'[z]) /\ Covered(positions'[z], ledger'[z])
                 /\ FreshMark(positions'[z])
      <3>1. CASE z = s
        BY <2>1, <2>3, <2>5, <3>1 DEF PortfolioInv, TypeOK, PortfolioTypeOK
      <3>2. CASE z # s
        BY <2>5, <3>2 DEF PortfolioInv, TypeOK, PortfolioTypeOK
      <3> QED
        BY <3>1, <3>2
    <2> QED
      BY <2>6, <2>7 DEF PortfolioInv
  <1>2. ASSUME NEW rpt \in Report, Execution(rpt), ~ is_fill(rpt)
        PROVE  PortfolioInv'
    <2>1. UNCHANGED vars
      BY <1>2 DEF Execution, on_execution, vars, portfolioVars
    <2> QED
      BY <2>1 DEF PortfolioInv, TypeOK, PortfolioTypeOK, vars
  <1>3. ASSUME NEW sym \in Symbols, NEW last_price \in Prices, Mark(sym, last_price)
        PROVE  PortfolioInv'
    <2> DEFINE p == Marked(positions[sym], last_price)
    <2>1. positions[sym] \in Position /\ last_price \in Nat
          /\ Sound(positions[sym], ledger[sym]) /\ Covered(positions[sym], ledger[sym])
      BY InputAssumption DEF PortfolioInv, TypeOK, PortfolioTypeOK
    <2>2. p \in Position /\ FreshMark(p) /\ Sound(p, ledger[sym]) /\ Covered(p, ledger[sym])
      BY <2>1, MarkedFields DEF Sound, Covered
    <2>3. positions' = [positions EXCEPT ![sym] = p]
          /\ cash' = cash /\ ledger' = ledger /\ fills' = fills
          /\ peak' = [peak EXCEPT ![sym] = Larger(@, last_price)]
      BY <1>3 DEF Mark, update_m2m
    <2> HIDE DEF p
    <2>4. TypeOK'
      BY <2>1, <2>2, <2>3 DEF PortfolioInv, TypeOK, PortfolioTypeOK, Larger
    <2>5. ASSUME NEW z \in Symbols
          PROVE  /\ Sound(positions'[z], ledger'[z]) /\ Covered(positions'[z], ledger'[z])
                 /\ FreshMark(positions'[z])
      BY <2>2, <2>3 DEF PortfolioInv, TypeOK, PortfolioTypeOK
    <2> QED
      BY <2>4, <2>5 DEF PortfolioInv
  <1>4. CASE UNCHANGED vars
    BY <1>4 DEF PortfolioInv, TypeOK, PortfolioTypeOK, vars
  <1> QED
    BY <1>1, <1>2, <1>3, <1>4 DEF Next

(* Every reachable state satisfies the inductive invariant. *)
THEOREM PortfolioInvariant == Spec => []PortfolioInv
  BY PortfolioInvInit, PortfolioInvStep, PTL DEF Spec

(* Every variable of the portfolio and the ledger keeps its type. *)
THEOREM TypeCorrect == Spec => []TypeOK
  <1>1. PortfolioInv => TypeOK
    BY DEF PortfolioInv
  <1> QED
    BY <1>1, PortfolioInvariant, PTL

(* The average entry price of on_execution stays within the prices at      *)
(* which the position was entered, and is 0 when it is flat.               *)
THEOREM EntryPriceBounded == Spec => []EntryWithinFills
  <1>1. PortfolioInv => EntryWithinFills
    BY DEF PortfolioInv, Sound, EntryWithinFills
  <1> QED
    BY <1>1, PortfolioInvariant, PTL

(* The unrealized profit is never stale. *)
THEOREM MarkNeverStale == Spec => []MarkedToMarket
  <1>1. PortfolioInv => MarkedToMarket
    BY DEF PortfolioInv, FreshMark, MarkedToMarket
  <1> QED
    BY <1>1, PortfolioInvariant, PTL

(* Realized plus unrealized profit tracks the money that changed hands,    *)
(* up to the rounding of each averaged entry.                              *)
THEOREM PnlTracksCash == Spec => []PnlTracksCashFlow
  <1>1. PortfolioInv => PnlTracksCashFlow
    <2> SUFFICES ASSUME PortfolioInv, NEW s \in Symbols
                 PROVE  LET pos   == positions[s]
                            error == Pnl(pos) - (ledger[s].flow + pos.net_qty * pos.last_price)
                        IN  -ledger[s].under <= error /\ error <= ledger[s].over
      BY DEF PnlTracksCashFlow
    <2> DEFINE pos == positions[s]
               e == ledger[s]
               an == pos.avg_entry_price * pos.net_qty
               nl == pos.net_qty * pos.last_price
    <2>1. pos \in Position /\ e \in Entry
      BY DEF PortfolioInv, TypeOK, PortfolioTypeOK
    <2>2. -e.under <= pos.realized_pnl - an - e.flow /\ pos.realized_pnl - an - e.flow <= e.over
      BY DEF PortfolioInv, Sound
    <2>3. pos.unrealized_pnl = nl - an /\ nl \in Int /\ an \in Int
      BY <2>1 DEF PortfolioInv, FreshMark, Position
    <2>4. pos.realized_pnl \in Int /\ e.flow \in Int /\ e.under \in Int /\ e.over \in Int
      BY <2>1 DEF Position, Entry
    <2>5. Pnl(pos) = pos.realized_pnl + (nl - an)
      BY <2>3 DEF Pnl
    <2> HIDE DEF an, nl, pos, e
    <2>6. -e.under <= Pnl(pos) - (e.flow + nl) /\ Pnl(pos) - (e.flow + nl) <= e.over
      BY <2>2, <2>3, <2>4, <2>5
    <2> QED
      BY <2>6 DEF pos, e, nl
  <1> QED
    BY <1>1, PortfolioInvariant, PTL

-----------------------------------------------------------------------------
(* The highest price.                                                      *)

(* No price of the position is above high, and what was made or lost is    *)
(* within the shares traded that are no longer held, at that price.        *)
Within(pos, high) ==
    /\ pos.avg_entry_price \in Nat /\ pos.avg_entry_price <= high
    /\ pos.last_price \in Nat /\ pos.last_price <= high
    /\ Abs(pos.net_qty) <= pos.total_traded
    /\ Abs(pos.realized_pnl) <= (pos.total_traded - Abs(pos.net_qty)) * high

(* Closing c shares makes or loses at most the highest price on each, and  *)
(* takes 2c shares off the difference between traded and held.             *)
LEMMA CloseWithin ==
    ASSUME NEW r \in Int, NEW gone \in Nat, NEW high \in Nat, NEW c \in Nat,
           NEW a \in Nat, NEW b \in Nat, a <= high, b <= high,
           Abs(r) <= gone * high
    PROVE  Abs(r + (a - b) * c) <= (gone + 2 * c) * high
  <1> DEFINE x == (a - b) * c
             y == high * c
             z == gone * high
  <1>1. x <= y
    BY TimesMonotone
  <1>2. (b - a) * c <= y
    BY TimesMonotone
  <1>3. (b - a) * c = -x /\ x \in Int /\ y \in Nat /\ z \in Nat
    OBVIOUS
  <1>4. (gone + 2 * c) * high = z + 2 * y
    OBVIOUS
  <1> HIDE DEF x, y, z
  <1>5. Abs(r + x) <= z + 2 * y
    BY <1>1, <1>2, <1>3 DEF Abs, z
  <1> QED
    BY <1>4, <1>5 DEF x

(* Either branch of on_execution, under a price that is at least as high.  *)
LEMMA BranchWithin ==
    ASSUME NEW pos \in Position, NEW side \in Side, NEW price \in Nat, NEW qty \in Nat \ {0},
           NEW high \in Nat, price <= high, Within(pos, high),
           NEW t, t = IF side = "Buy" THEN Bought(pos, price, qty) ELSE Sold(pos, price, qty)
    PROVE  /\ t.avg_entry_price \in Nat /\ t.avg_entry_price <= high
           /\ Abs(t.net_qty) <= pos.total_traded + qty
           /\ Abs(t.realized_pnl) <= (pos.total_traded + qty - Abs(t.net_qty)) * high
  <1> DEFINE n == pos.net_qty
             a == pos.avg_entry_price
             r == pos.realized_pnl
             held == Abs(n)
             gone == pos.total_traded - held
             moved == n + IF side = "Buy" THEN qty ELSE -qty
  <1>1. n \in Int /\ a \in Nat /\ a <= high /\ r \in Int /\ pos.total_traded \in Nat
        /\ held \in Nat /\ held <= pos.total_traded /\ gone \in Nat /\ moved \in Int
    BY DEF Position, Within, Abs
  <1>h. Abs(r) <= gone * high
    BY DEF Within
  <1>2. t.net_qty = moved
    BY BranchMoves
  <1>3. CASE (side = "Buy" /\ n >= 0) \/ (side = "Sell" /\ n <= 0)
    <2>1. t.realized_pnl = r /\ t.avg_entry_price = AddedEntry(a, held, price, qty)
          /\ Abs(moved) = held + qty
      <3>1. CASE side = "Buy" /\ n >= 0
        <4>1. held = n /\ moved = n + qty
          BY <1>1, <3>1 DEF Abs
        <4> QED
          BY <1>1, <3>1, <4>1 DEF Bought, Position, Abs
      <3>2. CASE side = "Sell" /\ n <= 0
        <4>1. held = -n /\ moved = n - qty
          BY <1>1, <3>2, side # "Buy" DEF Abs
        <4>2. t = Sold(pos, price, qty)
          BY <3>2
        <4> QED
          BY <1>1, <3>2, <4>1, <4>2 DEF Sold, Position, Abs
      <3> QED
        BY <1>3, <3>1, <3>2
    <2>2. AddedEntry(a, held, price, qty) \in Nat /\ AddedEntry(a, held, price, qty) <= high
      <3>1. 0 \in Nat /\ (held > 0 => 0 <= a /\ a <= high) /\ 0 <= price
        BY <1>1
      <3> HIDE DEF a, held
      <3> QED
        BY <1>1, <3>1, AddedEntryBounds
    <2>3. pos.total_traded + qty - Abs(moved) = gone /\ Abs(moved) <= pos.total_traded + qty
      BY <1>1, <2>1
    <2> HIDE DEF moved, gone, r, a, held
    <2> QED
      BY <1>1, <1>h, <1>2, <2>1, <2>2, <2>3
  <1>4. CASE (side = "Buy" /\ n < 0) \/ (side = "Sell" /\ n > 0)
    <2> DEFINE c == Smaller(qty, held)
    <2>1. c \in Nat /\ Abs(moved) <= pos.total_traded + qty
          /\ pos.total_traded + qty - Abs(moved) = gone + 2 * c
      <3>1. CASE side = "Buy" /\ n < 0
        <4>1. moved = n + qty /\ held = -n
          BY <1>1, <3>1 DEF Abs
        <4> QED
          BY <1>1, <3>1, <4>1 DEF Abs, Smaller
      <3>2. CASE side = "Sell" /\ n > 0
        <4>1. moved = n - qty /\ held = n
          BY <1>1, <3>2 DEF Abs
        <4> HIDE DEF moved, held, n
        <4> QED
          BY <1>1, <3>2, <4>1 DEF Abs, Smaller
      <3> QED
        BY <1>4, <3>1, <3>2
    <2>2. /\ t.realized_pnl = r + (a - price) * c \/ t.realized_pnl = r + (price - a) * c
          /\ t.avg_entry_price \in {price, 0, a}
      <3>1. CASE side = "Buy" /\ n < 0
        <4>1. held = -n
          BY <1>1, <3>1 DEF Abs
        <4> QED
          BY <1>1, <3>1, <4>1 DEF Bought, Position
      <3>2. CASE side = "Sell" /\ n > 0
        <4>1. held = n
          BY <1>1, <3>2 DEF Abs
        <4> QED
          BY <1>1, <3>2, <4>1 DEF Sold, Position
      <3> QED
        BY <1>4, <3>1, <3>2
    <2> HIDE DEF c, moved, gone, r, a, held
    <2>3. Abs(t.realized_pnl) <= (gone + 2 * c) * high
      BY <1>1, <1>h, <2>1, <2>2, CloseWithin
    <2> QED
      BY <1>1, <1>2, <2>1, <2>2, <2>3
  <1>5. \/ (side = "Buy" /\ n >= 0) \/ (side = "Sell" /\ n <= 0)
        \/ (side = "Buy" /\ n < 0) \/ (side = "Sell" /\ n > 0)
    <2>1. n >= 0 \/ n < 0
      BY <1>1
    <2>2. n <= 0 \/ n > 0
      BY <1>1
    <2>3. side = "Buy" \/ side = "Sell"
      BY DEF Side
    <2> HIDE DEF n
    <2> QED
      BY <2>1, <2>2, <2>3, Zenon
  <1> QED
    BY <1>3, <1>4, <1>5

(* A higher price is as good a bound. *)
LEMMA WithinHigher ==
    ASSUME NEW pos \in Position, NEW high \in Nat, NEW top \in Nat, high <= top,
           Within(pos, high)
    PROVE  Within(pos, top)
  <1> DEFINE gone == pos.total_traded - Abs(pos.net_qty)
  <1>1. gone \in Nat /\ Abs(pos.realized_pnl) \in Int /\ Abs(pos.realized_pnl) <= gone * high
    BY DEF Position, Within, Abs
  <1>2. high * gone <= top * gone
    BY <1>1, TimesMonotone
  <1>3. gone * high = high * gone /\ gone * top = top * gone
        /\ high * gone \in Int /\ top * gone \in Int
    BY <1>1
  <1>4. Abs(pos.realized_pnl) <= gone * top
    BY <1>1, <1>2, <1>3
  <1>5. pos.avg_entry_price <= top /\ pos.last_price <= top
    BY DEF Within
  <1> QED
    BY <1>4, <1>5 DEF Within

(* A fill and a mark move the bound up to their price and keep within it.  *)
LEMMA FillWithin ==
    ASSUME NEW pos \in Position, NEW side \in Side, NEW price \in Nat, NEW qty \in Nat \ {0},
           NEW high \in Nat, Within(pos, high)
    PROVE  Within(Filled(pos, side, price, qty), Larger(high, price))
  <1> DEFINE top == Larger(high, price)
             t == IF side = "Buy" THEN Bought(pos, price, qty) ELSE Sold(pos, price, qty)
             p == Filled(pos, side, price, qty)
  <1>1. top \in Nat /\ high <= top /\ price <= top
    BY DEF Larger
  <1> HIDE DEF top
  <1>2. Within(pos, top)
    BY <1>1, WithinHigher
  <1>3. /\ t.avg_entry_price \in Nat /\ t.avg_entry_price <= top
        /\ Abs(t.net_qty) <= pos.total_traded + qty
        /\ Abs(t.realized_pnl) <= (pos.total_traded + qty - Abs(t.net_qty)) * top
    BY <1>1, <1>2, BranchWithin
  <1>4. t \in Position /\ t.total_traded = pos.total_traded
    BY BranchMoves
  <1>5. /\ p.net_qty = t.net_qty /\ p.avg_entry_price = t.avg_entry_price
        /\ p.realized_pnl = t.realized_pnl
        /\ p.total_traded = t.total_traded + qty /\ p.last_price = price
    <2> HIDE DEF p
    <2>1. PICK u \in Position : u = t
      BY <1>4
    <2> QED
      BY <2>1, FilledFields DEF p
  <1> HIDE DEF t, p
  <1>6. pos.total_traded + qty = p.total_traded
    BY <1>4, <1>5
  <1>7. /\ Abs(p.net_qty) <= p.total_traded
        /\ Abs(p.realized_pnl) <= (p.total_traded - Abs(p.net_qty)) * top
    <2>1. Abs(p.net_qty) = Abs(t.net_qty) /\ Abs(p.realized_pnl) = Abs(t.realized_pnl)
      BY <1>5
    <2> DEFINE gone == pos.total_traded + qty - Abs(t.net_qty)
    <2>2. p.total_traded - Abs(p.net_qty) = gone
      <3>1. pos.total_traded \in Int /\ Abs(t.net_qty) \in Int
        BY <1>4, <1>5 DEF Position, Abs
      <3> QED
        BY <1>6, <2>1, <3>1
    <2>3. Abs(t.realized_pnl) <= gone * top
      BY <1>3
    <2>4. Abs(p.net_qty) <= p.total_traded
      BY <1>3, <1>6, <2>1, Zenon
    <2> HIDE DEF gone
    <2> QED
      BY <2>1, <2>2, <2>3, <2>4
  <1>8. Within(p, top)
    BY <1>1, <1>3, <1>5, <1>7 DEF Within
  <1> QED
    BY <1>8 DEF p, top

LEMMA MarkWithin ==
    ASSUME NEW pos \in Position, NEW price \in Nat, NEW high \in Nat, Within(pos, high)
    PROVE  Within(Marked(pos, price), Larger(high, price))
  <1> DEFINE top == Larger(high, price)
             p == Marked(pos, price)
  <1>1. top \in Nat /\ high <= top /\ price <= top
    BY DEF Larger
  <1> HIDE DEF top
  <1>2. Within(pos, top)
    BY <1>1, WithinHigher
  <1>3. /\ p.net_qty = pos.net_qty /\ p.avg_entry_price = pos.avg_entry_price
        /\ p.realized_pnl = pos.realized_pnl
        /\ p.total_traded = pos.total_traded /\ p.last_price = price
    BY MarkedFields
  <1> HIDE DEF p
  <1>4. Within(p, top)
    BY <1>1, <1>2, <1>3 DEF Within
  <1> QED
    BY <1>4 DEF p, top

PeakInv == \A s \in Symbols : Within(positions[s], peak[s])

(* Every step keeps every position within its highest price. *)
LEMMA PeakInvStep == TypeOK /\ PeakInv /\ [Next]_vars => PeakInv'
  <1> SUFFICES ASSUME TypeOK, PeakInv, [Next]_vars PROVE PeakInv'
    OBVIOUS
  <1>1. ASSUME UNCHANGED vars PROVE PeakInv'
    BY <1>1 DEF PeakInv, vars
  <1>2. ASSUME NEW s \in Symbols, NEW p, NEW h, Within(p, h),
               positions' = [positions EXCEPT ![s] = p],
               peak' = [peak EXCEPT ![s] = h]
        PROVE  PeakInv'
    BY <1>2 DEF PeakInv, TypeOK, PortfolioTypeOK
  <1>3. ASSUME NEW rpt \in Report, Execution(rpt) PROVE PeakInv'
    <2>1. CASE is_fill(rpt)
      <3> DEFINE s == rpt.symbol
                 p == Filled(positions[s], rpt.side, rpt.exec_price, rpt.exec_qty)
                 h == Larger(peak[s], rpt.exec_price)
      <3>1. s \in Symbols /\ rpt.side \in Side /\ rpt.exec_price \in Nat
            /\ rpt.exec_qty \in Nat \ {0}
        BY InputAssumption DEF Report
      <3>2. positions[s] \in Position /\ peak[s] \in Nat /\ Within(positions[s], peak[s])
        BY <3>1 DEF TypeOK, PortfolioTypeOK, PeakInv
      <3>3. Within(p, h)
        BY <3>1, <3>2, FillWithin
      <3>4. /\ positions' = [positions EXCEPT ![s] = p]
            /\ peak' = [peak EXCEPT ![s] = h]
        BY <1>3, <2>1 DEF Execution, on_execution
      <3> HIDE DEF s, p, h
      <3> QED
        BY <1>2, <3>1, <3>3, <3>4
    <2>2. CASE ~ is_fill(rpt)
      <3>1. UNCHANGED vars
        BY <1>3, <2>2 DEF Execution, on_execution, vars, portfolioVars
      <3> QED
        BY <1>1, <3>1
    <2> QED
      BY <2>1, <2>2
  <1>4. ASSUME NEW sym \in Symbols, NEW last_price \in Prices, Mark(sym, last_price)
        PROVE  PeakInv'
    <2> DEFINE p == Marked(positions[sym], last_price)
               h == Larger(peak[sym], last_price)
    <2>1. positions[sym] \in Position /\ peak[sym] \in Nat /\ last_price \in Nat
          /\ Within(positions[sym], peak[sym])
      BY InputAssumption DEF TypeOK, PortfolioTypeOK, PeakInv
    <2>2. Within(p, h)
      BY <2>1, MarkWithin
    <2>3. /\ positions' = [positions EXCEPT ![sym] = p]
          /\ peak' = [peak EXCEPT ![sym] = h]
      BY <1>4 DEF Mark, update_m2m
    <2> HIDE DEF p, h
    <2> QED
      BY <1>2, <2>2, <2>3
  <1> QED
    BY <1>1, <1>3, <1>4 DEF Next

(* What a position cost and has made is within the turnover, and its whole *)
(* profit, the mark to market that on_execution and update_m2m end in      *)
(* included, within the shares traded at the highest price met.            *)
THEOREM ValuesAreBounded == Spec => []ValuesBounded
  <1>1. Init => PeakInv
    BY DEF Init, PortfolioInit, EmptyPosition, PeakInv, Within, Abs
  <1>2. PortfolioInv => TypeOK
    BY DEF PortfolioInv
  <1>3. ASSUME PortfolioInv, PeakInv PROVE ValuesBounded
    <2> SUFFICES ASSUME NEW s \in Symbols
                 PROVE  Abs(positions[s].realized_pnl) + Abs(positions[s].unrealized_pnl)
                            <= positions[s].total_traded * peak[s]
      BY <1>3 DEF PortfolioInv, Covered, ValuesBounded
    <2>1. PICK pos, h : pos = positions[s] /\ h = peak[s]
      OBVIOUS
    <2> DEFINE n == pos.net_qty
               held == Abs(n)
               gone == pos.total_traded - held
               price == pos.last_price
               a == pos.avg_entry_price
    <2>2. /\ pos \in Position /\ h \in Nat /\ Within(pos, h)
          /\ pos.unrealized_pnl = (price - a) * n
      BY <1>3, <2>1 DEF PortfolioInv, TypeOK, PortfolioTypeOK, PeakInv, FreshMark
    <2>3. /\ n \in Int /\ held \in Nat /\ gone \in Nat /\ a \in Nat /\ price \in Nat
          /\ a <= h /\ price <= h
          /\ Abs(pos.realized_pnl) \in Int /\ h \in Nat
          /\ pos.total_traded = gone + held
      <3>1. a \in Nat /\ a <= h /\ price \in Nat /\ price <= h /\ held <= pos.total_traded
        BY <2>2 DEF Within
      <3>2. n \in Int /\ held \in Nat /\ pos.total_traded \in Nat
            /\ Abs(pos.realized_pnl) \in Int
        BY <2>2 DEF Position, Abs
      <3> HIDE DEF held
      <3> QED
        BY <2>2, <3>1, <3>2
    <2>r. Abs(pos.realized_pnl) <= gone * h
      BY <2>2 DEF Within
    <2>4. Abs((price - a) * n) <= h * held
      <3> DEFINE x == (price - a) * held
                 y == h * held
      <3>1. x <= y
        BY <2>3, TimesMonotone
      <3>2. (a - price) * held <= y
        BY <2>3, TimesMonotone
      <3>3. (a - price) * held = -x /\ x \in Int /\ y \in Int
        BY <2>3
      <3>4. (price - a) * n = x \/ (price - a) * n = -x
        <4>1. held = n \/ held = -n
          BY <2>3 DEF Abs
        <4>2. (price - a) * (-n) = -((price - a) * n)
          BY <2>3
        <4>3. x = (price - a) * n \/ x = (price - a) * (-n)
          BY <4>1
        <4>4. (price - a) * n \in Int
          BY <2>3
        <4> HIDE DEF price, a, n, x
        <4> QED
          BY <4>2, <4>3, <4>4
      <3> HIDE DEF x, y
      <3>5. Abs((price - a) * n) <= y
        BY <3>1, <3>2, <3>3, <3>4 DEF Abs
      <3> QED
        BY <3>5 DEF y
    <2>5. (gone + held) * h = gone * h + h * held
          /\ gone * h \in Int /\ h * held \in Int
      BY <2>3
    <2>6. Abs((price - a) * n) \in Int
      BY <2>3 DEF Abs
    <2> HIDE DEF n, held, gone, price, a
    <2>7. Abs(pos.realized_pnl) + Abs(pos.unrealized_pnl) <= pos.total_traded * h
      BY <2>2, <2>3, <2>r, <2>4, <2>5, <2>6
    <2> QED
      BY <2>1, <2>7
  <1>4. TypeOK /\ PeakInv /\ [Next]_vars => PeakInv'
    BY PeakInvStep
  <1> QED
    BY <1>1, <1>2, <1>3, <1>4, PortfolioInvariant, PTL DEF Spec

-----------------------------------------------------------------------------
(* The totals over all symbols.                                            *)

SumOver(f) == SumFunctionOnSet(f, Symbols)

(* A change at one symbol changes the sum by the difference. *)
LEMMA SumOverChanges ==
    ASSUME NEW sym \in Symbols, NEW f \in [Symbols -> Int], NEW e \in [Symbols -> Int],
           \A s \in Symbols : s # sym => e[s] = f[s]
    PROVE  SumOver(f) \in Int /\ SumOver(e) = SumOver(f) + (e[sym] - f[sym])
  <1>1. IsFiniteSet(Symbols)
    BY SymbolsAssumption
  <1>2. SumFunctionOnSet(f, Symbols) \in Int
    BY <1>1, SumInt
  <1>3. SumFunctionOnSet(e, Symbols) = SumFunctionOnSet(f, Symbols) + (e[sym] - f[sym])
    BY <1>1, SumChanges
  <1> QED
    BY <1>2, <1>3 DEF SumOver

(* The totals of CashReconciles. *)
Realized(ps) == SumOver([s \in Symbols |-> ps[s].realized_pnl])
Volume(ps) == SumOver([s \in Symbols |-> ps[s].total_traded])
Trades(ps) == SumOver([s \in Symbols |-> ps[s].num_trades])

(* The fees on a volume and a number of trades. *)
FeesOn(volume, trades) == (PerShareFee + TakerFee) * volume + PerTradeFee * trades

(* A change of one position changes each total by the difference. *)
LEMMA TotalsChange ==
    ASSUME NEW ps \in [Symbols -> Position], NEW sym \in Symbols, NEW p \in Position,
           NEW qs, qs = [ps EXCEPT ![sym] = p]
    PROVE  /\ Realized(ps) \in Int /\ Volume(ps) \in Int /\ Trades(ps) \in Int
           /\ Realized(qs) = Realized(ps) + (p.realized_pnl - ps[sym].realized_pnl)
           /\ Volume(qs) = Volume(ps) + (p.total_traded - ps[sym].total_traded)
           /\ Trades(qs) = Trades(ps) + (p.num_trades - ps[sym].num_trades)
  <1>1. qs \in [Symbols -> Position] /\ qs[sym] = p
        /\ \A s \in Symbols : s # sym => qs[s] = ps[s]
    OBVIOUS
  <1>2. LET f == [s \in Symbols |-> ps[s].realized_pnl]
            e == [s \in Symbols |-> qs[s].realized_pnl]
        IN  SumOver(f) \in Int
            /\ SumOver(e) = SumOver(f) + (p.realized_pnl - ps[sym].realized_pnl)
    <2> DEFINE f == [s \in Symbols |-> ps[s].realized_pnl]
               e == [s \in Symbols |-> qs[s].realized_pnl]
    <2>1. f \in [Symbols -> Int] /\ e \in [Symbols -> Int]
      BY <1>1 DEF Position
    <2>2. \A s \in Symbols : s # sym => e[s] = f[s]
      BY <1>1
    <2>3. f[sym] = ps[sym].realized_pnl /\ e[sym] = p.realized_pnl
      BY <1>1
    <2> HIDE DEF f, e
    <2>4. SumOver(f) \in Int /\ SumOver(e) = SumOver(f) + (e[sym] - f[sym])
      BY <2>1, <2>2, SumOverChanges
    <2> QED
      BY <2>3, <2>4 DEF f, e
  <1>3. LET f == [s \in Symbols |-> ps[s].total_traded]
            e == [s \in Symbols |-> qs[s].total_traded]
        IN  SumOver(f) \in Int
            /\ SumOver(e) = SumOver(f) + (p.total_traded - ps[sym].total_traded)
    <2> DEFINE f == [s \in Symbols |-> ps[s].total_traded]
               e == [s \in Symbols |-> qs[s].total_traded]
    <2>1. f \in [Symbols -> Int] /\ e \in [Symbols -> Int]
      BY <1>1 DEF Position
    <2>2. \A s \in Symbols : s # sym => e[s] = f[s]
      BY <1>1
    <2>3. f[sym] = ps[sym].total_traded /\ e[sym] = p.total_traded
      BY <1>1
    <2> HIDE DEF f, e
    <2>4. SumOver(f) \in Int /\ SumOver(e) = SumOver(f) + (e[sym] - f[sym])
      BY <2>1, <2>2, SumOverChanges
    <2> QED
      BY <2>3, <2>4 DEF f, e
  <1>4. LET f == [s \in Symbols |-> ps[s].num_trades]
            e == [s \in Symbols |-> qs[s].num_trades]
        IN  SumOver(f) \in Int
            /\ SumOver(e) = SumOver(f) + (p.num_trades - ps[sym].num_trades)
    <2> DEFINE f == [s \in Symbols |-> ps[s].num_trades]
               e == [s \in Symbols |-> qs[s].num_trades]
    <2>1. f \in [Symbols -> Int] /\ e \in [Symbols -> Int]
      BY <1>1 DEF Position
    <2>2. \A s \in Symbols : s # sym => e[s] = f[s]
      BY <1>1
    <2>3. f[sym] = ps[sym].num_trades /\ e[sym] = p.num_trades
      BY <1>1
    <2> HIDE DEF f, e
    <2>4. SumOver(f) \in Int /\ SumOver(e) = SumOver(f) + (e[sym] - f[sym])
      BY <2>1, <2>2, SumOverChanges
    <2> QED
      BY <2>3, <2>4 DEF f, e
  <1> QED
    BY <1>2, <1>3, <1>4, Zenon DEF Realized, Volume, Trades

(* The fees of one more fill. *)
LEMMA FeesAddUp ==
    ASSUME NEW traded \in Int, NEW trades \in Int, NEW qty \in Int
    PROVE  /\ FeesOn(traded, trades) \in Int
           /\ compute(qty, FALSE) \in Int
           /\ FeesOn(traded + qty, trades + 1) = FeesOn(traded, trades) + compute(qty, FALSE)
  <1> DEFINE fee == PerShareFee + TakerFee
             ft == fee * traded
             fq == fee * qty
             pn == PerTradeFee * trades
  <1>1. fee \in Int /\ PerTradeFee \in Int
    BY FeeAssumption
  <1>2. PerShareFee * qty + TakerFee * qty = fq
    BY FeeAssumption
  <1>3. compute(qty, FALSE) = PerShareFee * qty + TakerFee * qty + PerTradeFee
    BY DEF compute
  <1>4. compute(qty, FALSE) = fq + PerTradeFee
    BY <1>2, <1>3
  <1> HIDE DEF fee
  <1>5. ft \in Int /\ fq \in Int /\ pn \in Int
    BY <1>1
  <1>6. fee * (traded + qty) = ft + fq /\ PerTradeFee * (trades + 1) = pn + PerTradeFee
    BY <1>1
  <1> HIDE DEF ft, fq, pn
  <1>7. (ft + fq) + (pn + PerTradeFee) = (ft + pn) + (fq + PerTradeFee)
    BY <1>1, <1>5
  <1>8. ft + pn \in Int /\ fq + PerTradeFee \in Int
    BY <1>1, <1>5
  <1>9. fee * (traded + qty) + PerTradeFee * (trades + 1) = (ft + pn) + compute(qty, FALSE)
    BY <1>4, <1>6, <1>7, Zenon
  <1>10. compute(qty, FALSE) \in Int
    BY <1>4, <1>8, Zenon
  <1> QED
    BY <1>8, <1>9, <1>10, Zenon DEF FeesOn, fee, ft, pn

(* CashReconciles in terms of these totals. *)
Reconciled(c, ps) == c = InitialCash + Realized(ps) - FeesOn(Volume(ps), Trades(ps))

(* Written out, it is the equation of CashReconciles. *)
LEMMA ReconciledMeans ==
    ASSUME NEW ps \in [Symbols -> Position], NEW c
    PROVE  Reconciled(c, ps) <=>
                c = InitialCash + SumFunctionOnSet([s \in Symbols |-> ps[s].realized_pnl], Symbols)
                    - (PerShareFee + TakerFee)
                        * SumFunctionOnSet([s \in Symbols |-> ps[s].total_traded], Symbols)
                    - PerTradeFee
                        * SumFunctionOnSet([s \in Symbols |-> ps[s].num_trades], Symbols)
  <1> DEFINE R == Realized(ps)
             T == Volume(ps)
             N == Trades(ps)
             x == (PerShareFee + TakerFee) * T
             y == PerTradeFee * N
  <1>1. R \in Int /\ T \in Int /\ N \in Int
    <2>1. IsFiniteSet(Symbols)
      BY SymbolsAssumption
    <2>2. \A s \in Symbols : [z \in Symbols |-> ps[z].realized_pnl][s] \in Int
      BY DEF Position
    <2>3. \A s \in Symbols : [z \in Symbols |-> ps[z].total_traded][s] \in Int
      BY DEF Position
    <2>4. \A s \in Symbols : [z \in Symbols |-> ps[z].num_trades][s] \in Int
      BY DEF Position
    <2> QED
      BY <2>1, <2>2, <2>3, <2>4, SumInt, Zenon DEF Realized, Volume, Trades, SumOver
  <1> HIDE DEF R, T, N
  <1>2. x \in Int /\ y \in Int /\ InitialCash + R \in Int
    BY <1>1, FeeAssumption
  <1>3. InitialCash + R - FeesOn(T, N) = InitialCash + R - (x + y)
    BY DEF FeesOn
  <1> HIDE DEF x, y
  <1>4. InitialCash + R - (x + y) = InitialCash + R - x - y
    BY <1>1, <1>2, FeeAssumption
  <1>5. InitialCash + R - FeesOn(T, N) = InitialCash + R - x - y
    BY <1>3, <1>4
  <1>6. InitialCash + R - FeesOn(T, N)
            = InitialCash + R - (PerShareFee + TakerFee) * T - PerTradeFee * N
    BY <1>5 DEF x, y
  <1> QED
    BY <1>6 DEF Reconciled, R, T, N, Realized, Volume, Trades, SumOver

(* The second inductive invariant.  No symbol has more trades than there   *)
(* were fills, so that before the first wrap a symbol without trades has   *)
(* neither a position nor a profit.                                        *)
CountsSound ==
    \A s \in Symbols :
        /\ positions[s].num_trades <= fills
        /\ (NoCountWrapped /\ positions[s].num_trades = 0)
                => positions[s].net_qty = 0 /\ positions[s].realized_pnl = 0

TotalsInv ==
    /\ CountsSound
    /\ CashReconciles

(* An empty portfolio satisfies it: every total is zero. *)
LEMMA TotalsInvInit == Init => TotalsInv
  <1> SUFFICES ASSUME Init PROVE TotalsInv
    OBVIOUS
  <1>1. \A s \in Symbols : positions[s].realized_pnl = 0 /\ positions[s].total_traded = 0
                           /\ positions[s].num_trades = 0 /\ positions[s].net_qty = 0
    BY DEF Init, PortfolioInit, EmptyPosition
  <1>2. CountsSound
    BY <1>1 DEF Init, CountsSound
  <1>3. ASSUME NEW f, \A s \in Symbols : f[s] = 0
        PROVE  SumFunctionOnSet(f, Symbols) = 0
    <2>1. SumFunctionOnSet(f, {}) = SumFunctionOnSet(f, Symbols)
      BY <1>3, SymbolsAssumption, SumSkipsZeros
    <2> QED
      BY <2>1, SumEmpty
  <1>4. CashReconciles
    <2> DEFINE r == [s \in Symbols |-> positions[s].realized_pnl]
               t == [s \in Symbols |-> positions[s].total_traded]
               n == [s \in Symbols |-> positions[s].num_trades]
    <2>1. \A s \in Symbols : r[s] = 0 /\ t[s] = 0 /\ n[s] = 0
      BY <1>1
    <2> HIDE DEF r, t, n
    <2>2. SumFunctionOnSet(r, Symbols) = 0 /\ SumFunctionOnSet(t, Symbols) = 0
          /\ SumFunctionOnSet(n, Symbols) = 0
      BY <1>3, <2>1
    <2>3. Total(LAMBDA p : p.realized_pnl) = 0 /\ Total(LAMBDA p : p.total_traded) = 0
          /\ Total(LAMBDA p : p.num_trades) = 0
      BY <2>2 DEF Total, r, t, n
    <2>4. cash = InitialCash
      BY DEF Init, PortfolioInit
    <2> QED
      BY <2>3, <2>4, FeeAssumption DEF CashReconciles
  <1> QED
    BY <1>2, <1>4 DEF TotalsInv

(* A fill adds its profit, its quantity and its trade to the totals, and   *)
(* its profit less its fee to the cash.                                    *)
LEMMA FillReconciles ==
    ASSUME TypeOK, TotalsInv, NEW rpt \in Report, is_fill(rpt), Execution(rpt)
    PROVE  TotalsInv'
  <1>1. PICK s, side, price, qty :
            /\ s = rpt.symbol /\ side = rpt.side
            /\ price = rpt.exec_price /\ qty = rpt.exec_qty
    OBVIOUS
  <1>2. s \in Symbols /\ side \in Side /\ price \in Nat /\ qty \in Nat \ {0}
    BY <1>1, InputAssumption DEF Report
  <1>3. PICK ps : ps = positions
    OBVIOUS
  <1>4. ps \in [Symbols -> Position] /\ ps[s] \in Position /\ cash \in Int /\ fills \in Nat
    BY <1>2, <1>3, InputAssumption DEF TypeOK, PortfolioTypeOK
  <1>5. PICK p : p = Filled(ps[s], side, price, qty)
    OBVIOUS
  <1> DEFINE d == CashFrom(ps[s], p, qty)
  <1>6. /\ p \in Position
        /\ p.total_traded = ps[s].total_traded + qty
        /\ p.num_trades = (ps[s].num_trades + 1) % TradeCountModulus
        /\ d \in Int
    BY <1>2, <1>4, <1>5, FillMoves
  <1>7. PICK qs : qs = [ps EXCEPT ![s] = p]
    OBVIOUS
  <1>8. /\ positions' = qs
        /\ cash' = cash + d
        /\ fills' = fills + 1
    BY <1>1, <1>3, <1>5, <1>7 DEF Execution, on_execution
  <1>9. qs[s] = p /\ \A z \in Symbols : z # s => qs[z] = ps[z]
    BY <1>2, <1>4, <1>7
  <1>10. \A z \in Symbols : ps[z].num_trades \in Nat /\ ps[z].num_trades <= fills
    BY <1>3, <1>4 DEF TotalsInv, CountsSound, Position
  <1>11. p.num_trades \in Nat /\ p.num_trades <= fills + 1
    <2> DEFINE n == ps[s].num_trades + 1
    <2>1. n \in Nat /\ n <= fills + 1
      BY <1>2, <1>4, <1>10
    <2> HIDE DEF n
    <2>2. n % TradeCountModulus \in Nat /\ n % TradeCountModulus <= n
      BY <2>1, CountAssumption
    <2> QED
      BY <1>4, <1>6, <2>1, <2>2 DEF n
  <1>12. ASSUME NoCountWrapped' PROVE p.num_trades = ps[s].num_trades + 1
    <2> DEFINE n == ps[s].num_trades + 1
    <2>1. fills + 1 < TradeCountModulus
      BY <1>8, <1>12 DEF NoCountWrapped
    <2>2. n \in Nat /\ n < TradeCountModulus
      BY <1>2, <1>4, <1>10, <2>1, CountAssumption
    <2> HIDE DEF n
    <2>3. n % TradeCountModulus = n
      BY <2>2, CountAssumption
    <2> QED
      BY <1>6, <2>3 DEF n
  <1>13. NoCountWrapped' => NoCountWrapped
    BY <1>4, <1>8, CountAssumption DEF NoCountWrapped
  <1>14. CountsSound'
    <2> SUFFICES ASSUME NEW z \in Symbols
                 PROVE  /\ qs[z].num_trades <= fills'
                        /\ (NoCountWrapped' /\ qs[z].num_trades = 0)
                                => qs[z].net_qty = 0 /\ qs[z].realized_pnl = 0
      BY <1>8 DEF CountsSound
    <2>1. CASE z = s
      <3>1. qs[z] = p /\ ps[s].num_trades \in Nat
        BY <1>2, <1>9, <1>10, <2>1
      <3>2. NoCountWrapped' => p.num_trades # 0
        BY <1>12, <3>1
      <3> QED
        BY <1>8, <1>11, <3>1, <3>2
    <2>2. CASE z # s
      <3>1. qs[z] = ps[z]
        BY <1>9, <2>2
      <3>2. ps[z].num_trades <= fills + 1
        BY <1>4, <1>10
      <3>3. (NoCountWrapped /\ ps[z].num_trades = 0)
                => ps[z].net_qty = 0 /\ ps[z].realized_pnl = 0
        BY <1>3 DEF TotalsInv, CountsSound
      <3> QED
        BY <1>8, <1>13, <3>1, <3>2, <3>3
    <2> QED
      BY <2>1, <2>2
  <1>15. ASSUME NoCountWrapped'
         PROVE  Reconciled(cash', qs)
    <2>1. PICK R, T, N, c : /\ R = Realized(ps) /\ T = Volume(ps) /\ N = Trades(ps)
                            /\ c = compute(qty, FALSE)
      OBVIOUS
    <2>2. ps[s].realized_pnl \in Int /\ p.realized_pnl \in Int
          /\ ps[s].total_traded \in Int /\ ps[s].num_trades \in Int
      BY <1>4, <1>6 DEF Position
    <2>3. p.total_traded - ps[s].total_traded = qty /\ p.num_trades - ps[s].num_trades = 1
      BY <1>2, <1>6, <1>12, <1>15, <2>2
    <2>4. /\ R \in Int /\ T \in Int /\ N \in Int
          /\ Realized(qs) = R + (p.realized_pnl - ps[s].realized_pnl)
          /\ Volume(qs) = T + qty
          /\ Trades(qs) = N + 1
      <3>1. /\ Realized(ps) \in Int /\ Volume(ps) \in Int /\ Trades(ps) \in Int
            /\ Realized(qs) = Realized(ps) + (p.realized_pnl - ps[s].realized_pnl)
            /\ Volume(qs) = Volume(ps) + (p.total_traded - ps[s].total_traded)
            /\ Trades(qs) = Trades(ps) + (p.num_trades - ps[s].num_trades)
        <4>1. /\ s \in Symbols /\ ps \in [Symbols -> Position] /\ p \in Position
              /\ qs = [ps EXCEPT ![s] = p]
          BY <1>2, <1>4, <1>6, <1>7
        <4> QED
          BY <4>1, TotalsChange, Zenon
      <3> QED
        BY <2>1, <2>3, <3>1, Zenon
    <2>5. FeesOn(T, N) \in Int /\ c \in Int /\ FeesOn(T + qty, N + 1) = FeesOn(T, N) + c
      <3>1. T \in Int /\ N \in Int /\ qty \in Int
        BY <1>2, <2>4
      <3>2. /\ FeesOn(T, N) \in Int /\ compute(qty, FALSE) \in Int
            /\ FeesOn(T + qty, N + 1) = FeesOn(T, N) + compute(qty, FALSE)
        BY <3>1, FeesAddUp, Zenon
      <3> QED
        BY <2>1, <3>2, Zenon
    <2>6. cash = InitialCash + R - FeesOn(T, N)
      <3>1. Reconciled(cash, ps)
        BY <1>3, <1>4, <1>13, <1>15, ReconciledMeans DEF TotalsInv, CashReconciles, Total
      <3> QED
        BY <2>1, <3>1 DEF Reconciled
    <2>7. d = p.realized_pnl - ps[s].realized_pnl - c
      BY <2>1 DEF CashFrom
    <2> HIDE DEF d
    <2>8. cash + d = InitialCash + (R + (p.realized_pnl - ps[s].realized_pnl))
                     - (FeesOn(T, N) + c)
      BY <2>2, <2>4, <2>5, <2>6, <2>7, FeeAssumption
    <2> QED
      BY <1>8, <2>4, <2>5, <2>8 DEF Reconciled
  <1>16. CashReconciles'
    <2>1. qs \in [Symbols -> Position]
      BY <1>4, <1>6, <1>7
    <2>2. PICK c : c = cash'
      OBVIOUS
    <2>3. NoCountWrapped' => Reconciled(c, qs)
      BY <1>15, <2>2
    <2> QED
      BY <1>8, <2>1, <2>2, <2>3, ReconciledMeans DEF CashReconciles, Total
  <1> QED
    BY <1>14, <1>16 DEF TotalsInv

(* A mark moves the unrealized profit alone: totals and cash stay. *)
LEMMA MarkReconciles ==
    ASSUME TypeOK, TotalsInv, NEW sym \in Symbols, NEW last_price \in Prices,
           Mark(sym, last_price)
    PROVE  TotalsInv'
  <1>1. PICK ps : ps = positions
    OBVIOUS
  <1>2. ps \in [Symbols -> Position] /\ ps[sym] \in Position /\ last_price \in Nat
    BY <1>1, InputAssumption DEF TypeOK, PortfolioTypeOK
  <1>3. PICK p : p = Marked(ps[sym], last_price)
    OBVIOUS
  <1>4. /\ p \in Position
        /\ p.net_qty = ps[sym].net_qty
        /\ p.realized_pnl = ps[sym].realized_pnl
        /\ p.total_traded = ps[sym].total_traded
        /\ p.num_trades = ps[sym].num_trades
    BY <1>2, <1>3, MarkedFields
  <1>5. PICK qs : qs = [ps EXCEPT ![sym] = p]
    OBVIOUS
  <1>6. positions' = qs /\ cash' = cash /\ fills' = fills
    BY <1>1, <1>3, <1>5 DEF Mark, update_m2m
  <1>7. /\ qs \in [Symbols -> Position]
        /\ \A z \in Symbols : /\ qs[z].net_qty = ps[z].net_qty
                             /\ qs[z].realized_pnl = ps[z].realized_pnl
                             /\ qs[z].total_traded = ps[z].total_traded
                             /\ qs[z].num_trades = ps[z].num_trades
    BY <1>2, <1>4, <1>5
  <1>8. CountsSound'
    BY <1>1, <1>6, <1>7 DEF TotalsInv, CountsSound, NoCountWrapped
  <1>9. /\ [z \in Symbols |-> qs[z].realized_pnl] = [z \in Symbols |-> ps[z].realized_pnl]
        /\ [z \in Symbols |-> qs[z].total_traded] = [z \in Symbols |-> ps[z].total_traded]
        /\ [z \in Symbols |-> qs[z].num_trades] = [z \in Symbols |-> ps[z].num_trades]
    BY <1>7
  <1>10. CashReconciles'
    BY <1>1, <1>6, <1>9 DEF TotalsInv, CashReconciles, Total, NoCountWrapped
  <1> QED
    BY <1>8, <1>10 DEF TotalsInv

(* Every report and every mark preserves it. *)
LEMMA TotalsInvStep == TypeOK /\ TotalsInv /\ [Next]_vars => TotalsInv'
  <1> SUFFICES ASSUME TypeOK, TotalsInv, [Next]_vars PROVE TotalsInv'
    OBVIOUS
  <1>1. ASSUME UNCHANGED vars PROVE TotalsInv'
    <2>1. positions' = positions /\ cash' = cash /\ fills' = fills
      BY <1>1 DEF vars
    <2>2. CountsSound'
      BY <2>1 DEF TotalsInv, CountsSound, NoCountWrapped
    <2>3. CashReconciles'
      BY <2>1 DEF TotalsInv, CashReconciles, Total, NoCountWrapped
    <2> QED
      BY <2>2, <2>3 DEF TotalsInv
  <1>2. ASSUME NEW rpt \in Report, Execution(rpt) PROVE TotalsInv'
    <2>1. CASE is_fill(rpt)
      BY <1>2, <2>1, FillReconciles
    <2>2. CASE ~ is_fill(rpt)
      <3>1. UNCHANGED vars
        BY <1>2, <2>2 DEF Execution, on_execution, vars, portfolioVars
      <3> QED
        BY <1>1, <3>1
    <2> QED
      BY <2>1, <2>2
  <1>3. ASSUME NEW sym \in Symbols, NEW last_price \in Prices, Mark(sym, last_price)
        PROVE  TotalsInv'
    BY <1>3, MarkReconciles
  <1> QED
    BY <1>1, <1>2, <1>3 DEF Next

(* Every reachable state satisfies both inductive invariants. *)
THEOREM TotalsInvariant == Spec => [](PortfolioInv /\ TotalsInv)
  <1>1. Init => PortfolioInv /\ TotalsInv
    BY PortfolioInvInit, TotalsInvInit
  <1>2. (PortfolioInv /\ TotalsInv) /\ [Next]_vars => (PortfolioInv /\ TotalsInv)'
    <2>1. PortfolioInv => TypeOK
      BY DEF PortfolioInv
    <2> QED
      BY <2>1, PortfolioInvStep, TotalsInvStep
  <1> QED
    BY <1>1, <1>2, PTL DEF Spec

(* Until a trade counter wraps, the cash account of on_execution is the    *)
(* initial cash plus every symbol's realized profit less every fee, for    *)
(* any fee model, any number of symbols and any number of fills.           *)
THEOREM CashAlwaysReconciles == Spec => []CashReconciles
  <1>1. PortfolioInv /\ TotalsInv => CashReconciles
    BY DEF TotalsInv
  <1> QED
    BY <1>1, TotalsInvariant, PTL

(* Until a trade counter wraps, the symbols that total_pnl skips have no   *)
(* profit or loss, so that it returns the sum over all of them.            *)
THEOREM TotalPnlIsComplete == Spec => []TotalPnlBeforeWrap
  <1>1. ASSUME PortfolioInv, TotalsInv, NoCountWrapped
        PROVE  total_pnl = Total(Pnl)
    <2> DEFINE f == [s \in Symbols |-> Pnl(positions[s])]
               T == {s \in Symbols : Counts(positions[s])}
    <2>1. \A s \in Symbols : positions[s] \in Position /\ FreshMark(positions[s])
      BY <1>1 DEF PortfolioInv, TypeOK, PortfolioTypeOK
    <2>2. \A s \in Symbols : f[s] \in Int
      BY <2>1 DEF Pnl, Position
    <2>3. ASSUME NEW s \in Symbols \ T PROVE f[s] = 0
      <3> DEFINE pos == positions[s]
      <3>1. pos \in Position /\ FreshMark(pos)
        BY <2>1
      <3>2. pos.num_trades = 0 /\ pos.net_qty = 0
        BY <3>1 DEF Counts, Position
      <3>3. pos.realized_pnl = 0
        BY <1>1, <3>2 DEF TotalsInv, CountsSound
      <3>4. pos.unrealized_pnl = 0
        BY <3>1, <3>2 DEF FreshMark, Position
      <3> QED
        BY <3>3, <3>4 DEF Pnl
    <2> HIDE DEF f
    <2>4. SumFunctionOnSet(f, T) = SumFunctionOnSet(f, Symbols)
      BY <2>2, <2>3, SymbolsAssumption, SumSkipsZeros
    <2> QED
      BY <2>4 DEF total_pnl, Total, f
  <1>2. PortfolioInv /\ TotalsInv => TotalPnlBeforeWrap
    BY <1>1 DEF TotalPnlBeforeWrap
  <1> QED
    BY <1>2, TotalsInvariant, PTL
=============================================================================
