----------------------------- MODULE TrackOneProofs -----------------------------
(***************************************************************************)
(* What an outcome stands for, for any chain, caps and entry.  A history   *)
(* that was paged to its start without a loss has every transaction that   *)
(* is due; every point is of one of them and is worth no more than the     *)
(* price; and sorted by second and multiple, the first passage does not    *)
(* depend on how a second was assembled.                                   *)
(***************************************************************************)
EXTENDS TrackOne, PythonSeqsProofs

(* Multiples, compared crosswise. *)
IsFraction(m) == m[1] \in Int /\ m[2] \in Nat \ {0}

LEMMA Cancel ==
    ASSUME NEW a \in Int, NEW b \in Int, NEW c \in Nat \ {0}, a * c <= b * c
    PROVE  a <= b
<1>1. CASE b < a
  <2>1. PICK d \in Nat \ {0} : a = b + d
    <3>1. a - b \in Nat \ {0} /\ a = b + (a - b)
      BY <1>1
    <3> QED
      BY <3>1
  <2>2. a * c = b * c + d * c /\ d * c > 0 /\ b * c \in Int /\ d * c \in Int
    BY <2>1
  <2> QED
    BY <2>2
<1> QED
  BY <1>1

LEMMA Times ==
    ASSUME NEW a \in Int, NEW b \in Int, NEW c \in Nat, a <= b
    PROVE  a * c <= b * c
<1>1. PICK d \in Nat : b = a + d
  <2>1. b - a \in Nat /\ b = a + (b - a)
    OBVIOUS
  <2> QED
    BY <2>1
<1>2. b * c = a * c + d * c /\ d * c >= 0 /\ a * c \in Int /\ d * c \in Int
  BY <1>1
<1> QED
  BY <1>2

LEMMA LessOrders ==
    ASSUME NEW a, NEW b, NEW c, IsFraction(a), IsFraction(b), IsFraction(c)
    PROVE  /\ ~Less(a, a)
           /\ Less(a, b) => ~Less(b, a)
           /\ ~Less(a, b) /\ ~Less(b, c) => ~Less(a, c)
<1>1. PICK an \in Int, ad \in Nat \ {0} : an = a[1] /\ ad = a[2]
  BY DEF IsFraction
<1>2. PICK bn \in Int, bd \in Nat \ {0} : bn = b[1] /\ bd = b[2]
  BY DEF IsFraction
<1>3. PICK cn \in Int, cd \in Nat \ {0} : cn = c[1] /\ cd = c[2]
  BY DEF IsFraction
<1>4. /\ Less(a, a) <=> an * ad < an * ad
      /\ Less(a, b) <=> an * bd < bn * ad
      /\ Less(b, a) <=> bn * ad < an * bd
      /\ Less(b, c) <=> bn * cd < cn * bd
      /\ Less(a, c) <=> an * cd < cn * ad
  BY <1>1, <1>2, <1>3 DEF Less
<1>5. /\ an * ad \in Int /\ an * bd \in Int /\ bn * ad \in Int
      /\ bn * cd \in Int /\ cn * bd \in Int /\ an * cd \in Int /\ cn * ad \in Int
  OBVIOUS
<1>6. ASSUME bn * ad <= an * bd, cn * bd <= bn * cd PROVE cn * ad <= an * cd
  <2>1. (cn * bd) * ad <= (bn * cd) * ad /\ (bn * ad) * cd <= (an * bd) * cd
    BY <1>5, <1>6, Times
  <2>2. (cn * bd) * ad = (cn * ad) * bd /\ (bn * cd) * ad = (bn * ad) * cd /\ (an * bd) * cd = (an * cd) * bd
    OBVIOUS
  <2>3. (cn * ad) * bd \in Int /\ (bn * ad) * cd \in Int /\ (an * cd) * bd \in Int
    BY <1>5
  <2>4. (cn * ad) * bd <= (an * cd) * bd
    BY <2>1, <2>2, <2>3
  <2> QED
    BY <1>5, <2>4, Cancel
<1> HIDE DEF Less
<1> QED
  BY <1>4, <1>5, <1>6

(* At half or less it is below any target. *)
LEMMA FallenIsLess ==
    ASSUME NEW a, NEW b, IsFraction(a), IsFraction(b), NEW g \in Nat \ {0, 1}, Falls(a), Reaches(b, g)
    PROVE  Less(a, b)
<1>1. PICK an \in Int, ad \in Nat \ {0} : an = a[1] /\ ad = a[2]
  BY DEF IsFraction
<1>2. PICK bn \in Int, bd \in Nat \ {0} : bn = b[1] /\ bd = b[2]
  BY DEF IsFraction
<1>3. 2 * an <= ad /\ bn >= g * bd /\ (Less(a, b) <=> an * bd < bn * ad)
  BY <1>1, <1>2 DEF Falls, Reaches, Less
<1>4. (2 * an) * bd <= ad * bd
  BY <1>3, Times
<1>5. (g * bd) * ad <= bn * ad
  <2>1. g * bd \in Int
    OBVIOUS
  <2> QED
    BY <1>3, <2>1, Times
<1>6. 2 * (bd * ad) <= g * (bd * ad)
  <2>1. bd * ad \in Nat /\ 2 <= g
    OBVIOUS
  <2> QED
    BY <2>1, Times
<1>7. (2 * an) * bd = 2 * (an * bd) /\ (g * bd) * ad = g * (bd * ad) /\ ad * bd = bd * ad /\ bd * ad > 0
  OBVIOUS
<1>8. an * bd \in Int /\ bn * ad \in Int /\ bd * ad \in Int /\ g * (bd * ad) \in Int
  OBVIOUS
<1>9. an * bd < bn * ad
  <2> DEFINE x == an * bd
             y == bn * ad
             z == bd * ad
             w == g * (bd * ad)
  <2>1. x \in Int /\ y \in Int /\ z \in Int /\ w \in Int /\ 2 * x <= z /\ w <= y /\ 2 * z <= w /\ z > 0
    BY <1>4, <1>5, <1>6, <1>7, <1>8
  <2> HIDE DEF x, y, z, w
  <2>2. x < y
    BY <2>1
  <2> QED
    BY <2>2 DEF x, y
<1> QED
  BY <1>3, <1>9

-----------------------------------------------------------------------------
IsPath(path, n) ==
    DOMAIN path = 1..n /\ \A i \in 1..n : path[i].t \in Nat /\ IsFraction(path[i].m)

Earlier(a, b) == a.t < b.t \/ (a.t = b.t /\ Less(a.m, b.m))

LEMMA EarlierOrders ==
    ASSUME NEW a, NEW b, NEW c, a.t \in Nat, b.t \in Nat, c.t \in Nat,
           IsFraction(a.m), IsFraction(b.m), IsFraction(c.m)
    PROVE  /\ ~Earlier(a, a)
           /\ Earlier(a, b) => ~Earlier(b, a)
           /\ ~Earlier(a, b) /\ ~Earlier(b, c) => ~Earlier(a, c)
<1>1. /\ ~Less(a.m, a.m)
      /\ Less(a.m, b.m) => ~Less(b.m, a.m)
      /\ ~Less(a.m, b.m) /\ ~Less(b.m, c.m) => ~Less(a.m, c.m)
  BY LessOrders
<1> QED
  BY <1>1 DEF Earlier

(* Sorting permutes the path, and nothing is earlier than what is before it. *)
LEMMA SortedPath ==
    ASSUME NEW n \in Nat, NEW path, IsPath(path, n)
    PROVE  \E order : /\ Permutes(order, n)
                      /\ Sorted(path) = [k \in 1..n |-> path[order[k]]]
                      /\ \A k, l \in 1..n : k < l => ~Earlier(path[order[l]], path[order[k]])
<1> DEFINE S == 1..n
           first(i, j) == Earlier(path[i], path[j]) \/ (~Earlier(path[j], path[i]) /\ i < j)
           ahead == {p \in S \X S : first(p[1], p[2])}
           order == InOrder(Rank(S, ahead))
<1>1. \A i, j \in S : <<i, j>> \in ahead <=> first(i, j)
  OBVIOUS
<1>2. \A i \in S : {j \in S : <<j, i>> \in ahead} = {j \in S : first(j, i)}
  BY <1>1
<1>3. DOMAIN path = S /\ \A i \in S : path[i].t \in Nat /\ IsFraction(path[i].m)
  BY DEF IsPath
<1>4. Sorted(path) = At(path, order)
  <2>1. Rank(S, ahead) = [i \in S |-> Cardinality({j \in S : first(j, i)})]
    BY <1>2 DEF Rank
  <2>2. Sorted(path) = At(path, InOrder([i \in S |-> Cardinality({j \in S : first(j, i)})]))
    BY <1>3 DEF Sorted, StableFor, Earlier
  <2> QED
    BY <2>1, <2>2
<1>5. StrictOrder(S, ahead)
  <2>1. /\ \A i \in S : ~Earlier(path[i], path[i])
        /\ \A i, j \in S : Earlier(path[i], path[j]) => ~Earlier(path[j], path[i])
        /\ \A i, j, k \in S : ~Earlier(path[i], path[j]) /\ ~Earlier(path[j], path[k]) => ~Earlier(path[i], path[k])
    BY <1>3, EarlierOrders
  <2>2. \A i \in S : i \in Int
    OBVIOUS
  <2> HIDE DEF S
  <2>3. \A i \in S : ~first(i, i)
    BY <2>1, <2>2
  <2>4. \A i, j, k \in S : first(i, j) /\ first(j, k) => first(i, k)
    <3> TAKE i, j, k \in S
    <3> HAVE first(i, j) /\ first(j, k)
    <3>1. ~Earlier(path[j], path[i]) /\ ~Earlier(path[k], path[j])
      BY <2>1
    <3>2. ~Earlier(path[k], path[i])
      BY <2>1, <3>1
    <3>3. CASE Earlier(path[i], path[j])
      BY <2>1, <3>1, <3>3
    <3>4. CASE Earlier(path[j], path[k])
      BY <2>1, <3>1, <3>4
    <3>5. CASE i < j /\ j < k
      BY <2>2, <3>2, <3>5
    <3> QED
      BY <3>3, <3>4, <3>5
  <2>5. \A i, j \in S : i = j \/ first(i, j) \/ first(j, i)
    BY <2>1, <2>2
  <2> HIDE DEF ahead, first
  <2> QED
    BY <1>1, <2>3, <2>4, <2>5 DEF StrictOrder
<1>6. IsFiniteSet(S) /\ Cardinality(S) = n
  BY FS_Interval
<1> HIDE DEF ahead, order
<1>7. order = InOrder(Rank(S, ahead))
  BY DEF order
<1> HIDE DEF S
<1>8. /\ order \in [1..Cardinality(S) -> S]
      /\ \A i \in S : \E k \in 1..Cardinality(S) : order[k] = i
      /\ \A k, l \in 1..Cardinality(S) : k < l => <<order[k], order[l]>> \in ahead
  BY <1>5, <1>6, <1>7, Enumerated
<1>9. /\ order \in [1..n -> S]
      /\ \A i \in S : \E k \in 1..n : order[k] = i
      /\ \A k, l \in 1..n : k < l => <<order[k], order[l]>> \in ahead
  BY <1>6, <1>8
<1>10. ToSet(order) = S
  BY <1>9 DEF ToSet
<1>11. \A k, l \in 1..n : k < l => first(order[k], order[l])
  BY <1>1, <1>9
<1>12. \A k, l \in 1..n : k < l => ~Earlier(path[order[l]], path[order[k]])
  <2>1. \A i, j \in S : Earlier(path[i], path[j]) => ~Earlier(path[j], path[i])
    BY <1>3, EarlierOrders
  <2> QED
    BY <1>9, <1>11, <2>1
<1>13. \A k, l \in 1..n : k < l => order[k] # order[l]
  <2>1. \A i \in S : <<i, i>> \notin ahead
    BY <1>5 DEF StrictOrder
  <2> QED
    BY <1>9, <2>1
<1>14. Permutes(order, n)
  BY <1>9, <1>10, <1>13 DEF Permutes, S
<1>15. At(path, order) = [k \in 1..n |-> path[order[k]]]
  BY <1>9 DEF At
<1> QED
  BY <1>4, <1>12, <1>14, <1>15

Ups(path, g) == {path[i].t : i \in {j \in DOMAIN path : Reaches(path[j].m, g)}}

Downs(path) == {path[i].t : i \in {j \in DOMAIN path : Falls(path[j].m)}}

(* The first of either, a drawdown before a target of the same second. *)
IsPassage(label, ups, downs) ==
    \/ /\ label.event = "target" /\ label.t \in ups
       /\ (\A u \in ups : label.t <= u) /\ (\A d \in downs : label.t < d)
    \/ /\ label.event = "drawdown" /\ label.t \in downs
       /\ (\A d \in downs : label.t <= d) /\ (\A u \in ups : label.t <= u)
    \/ label.event = "censored" /\ ups = {} /\ downs = {}

LEMMA Passage ==
    ASSUME NEW n \in Nat, NEW path, IsPath(path, n), NEW g \in Nat \ {0, 1}
    PROVE  IsPassage(FirstPassage(path, g), Ups(path, g), Downs(path))
<1> DEFINE hit(m) == Falls(m) \/ Reaches(m, g)
           s == Sorted(path)
           I == {k \in 1..Len(s) : hit(s[k].m)}
           i == SelectInSeq(s, LAMBDA p : Falls(p.m) \/ Reaches(p.m, g))
           label == FirstPassage(path, g)
           ups == Ups(path, g)
           downs == Downs(path)
<1>1. DOMAIN path = 1..n /\ \A k \in 1..n : path[k].t \in Nat /\ IsFraction(path[k].m)
  BY DEF IsPath
<1>2. PICK order : /\ Permutes(order, n)
                   /\ s = [k \in 1..n |-> path[order[k]]]
                   /\ \A k, l \in 1..n : k < l => ~Earlier(path[order[l]], path[order[k]])
  BY SortedPath
<1>3. /\ \A k \in 1..n : order[k] \in 1..n /\ s[k] = path[order[k]]
      /\ \A j \in 1..n : \E k \in 1..n : order[k] = j
  BY <1>2 DEF Permutes, ToSet
<1>4. Len(s) = n
  <2>1. s \in [1..n -> {path[k] : k \in 1..n}]
    BY <1>2, <1>3
  <2> HIDE DEF s
  <2> QED
    BY <2>1
<1>5. i = IF I # {} THEN Min(I) ELSE 0
  BY DEF SelectInSeq
<1>6. label = IF i = 0 THEN [event |-> "censored", t |-> IF path = <<>> THEN None ELSE Last(path).t]
              ELSE [event |-> IF Falls(s[i].m) THEN "drawdown" ELSE "target", t |-> s[i].t]
  BY DEF FirstPassage
<1>7. ups = {path[j].t : j \in {k \in 1..n : Reaches(path[k].m, g)}}
      /\ downs = {path[j].t : j \in {k \in 1..n : Falls(path[k].m)}}
  BY <1>1 DEF Ups, Downs
<1>8. (\A u \in ups : \E k \in 1..n : u = s[k].t /\ Reaches(s[k].m, g))
      /\ (\A d \in downs : \E k \in 1..n : d = s[k].t /\ Falls(s[k].m))
  BY <1>3, <1>7
<1>9. (\A k \in 1..n : Reaches(s[k].m, g) => s[k].t \in ups)
      /\ (\A k \in 1..n : Falls(s[k].m) => s[k].t \in downs)
  BY <1>3, <1>7
<1>10. \A k \in 1..n : s[k].t \in Nat /\ IsFraction(s[k].m)
  BY <1>1, <1>3
<1>11. \A k, l \in 1..n : k < l => ~Earlier(s[l], s[k])
  BY <1>2, <1>3
<1>12. I = {k \in 1..n : hit(s[k].m)}
  BY <1>4
<1> HIDE DEF s, i, label, ups, downs, I
<1>13. CASE I = {}
  <2>1. i = 0 /\ label.event = "censored"
    BY <1>5, <1>6, <1>13
  <2>2. \A k \in 1..n : ~Reaches(s[k].m, g) /\ ~Falls(s[k].m)
    BY <1>12, <1>13
  <2>3. ups = {} /\ downs = {}
    BY <1>8, <2>2
  <2> QED
    BY <2>1, <2>3 DEF IsPassage, label, ups, downs
<1>14. CASE I # {}
  <2>1. \E a \in I : \A b \in I : a <= b
    <3>1. I \in SUBSET Nat
      BY <1>12
    <3> QED
      BY <1>14, <3>1, LeastNumber
  <2>2. i \in I /\ \A b \in I : i <= b
    BY <1>5, <1>14, <2>1 DEF Min
  <2>3. i \in 1..n /\ i # 0 /\ hit(s[i].m)
    BY <1>12, <2>2
  <2>4. ASSUME NEW k \in 1..n, hit(s[k].m)
        PROVE  k = i \/ i < k
    BY <1>12, <2>2, <2>3, <2>4
  <2>5. ASSUME NEW k \in 1..n, hit(s[k].m)
        PROVE  s[i].t <= s[k].t
    <3>1. k = i \/ ~Earlier(s[k], s[i])
      BY <1>11, <2>3, <2>4, <2>5
    <3> QED
      BY <1>10, <2>3, <3>1 DEF Earlier
  <2>6. (\A u \in ups : s[i].t <= u) /\ (\A d \in downs : s[i].t <= d)
    BY <1>8, <2>5
  <2>7. label.t = s[i].t /\ label.event = IF Falls(s[i].m) THEN "drawdown" ELSE "target"
    BY <1>6, <2>3
  <2>8. CASE Falls(s[i].m)
    <3>1. s[i].t \in downs
      BY <1>9, <2>3, <2>8
    <3> QED
      BY <2>6, <2>7, <2>8, <3>1 DEF IsPassage, label, ups, downs
  <2>9. CASE ~Falls(s[i].m)
    <3>1. Reaches(s[i].m, g) /\ s[i].t \in ups
      BY <1>9, <2>3, <2>9
    <3>2. ASSUME NEW k \in 1..n, Falls(s[k].m) PROVE s[i].t < s[k].t
      <4>1. Less(s[k].m, s[i].m)
        BY <1>10, <2>3, <3>1, <3>2, FallenIsLess
      <4>2. k # i
        BY <2>9, <3>2
      <4>3. i < k
        BY <2>4, <3>2, <4>2
      <4>4. ~Earlier(s[k], s[i])
        BY <1>11, <2>3, <4>3
      <4>5. s[i].t <= s[k].t /\ s[i].t # s[k].t
        BY <2>5, <3>2, <4>1, <4>4 DEF Earlier
      <4> QED
        BY <1>10, <2>3, <4>5
    <3>3. \A d \in downs : s[i].t < d
      BY <1>8, <3>2
    <3> QED
      BY <2>6, <2>7, <2>9, <3>1, <3>3 DEF IsPassage, label, ups, downs
  <2> QED
    BY <2>8, <2>9
<1> QED
  BY <1>13, <1>14

(* The earliest of some seconds is one of them. *)
LEMMA FirstIsLeast ==
    ASSUME NEW times \in SUBSET Nat
    PROVE  /\ times = {} => First(times) = None
           /\ times # {} => First(times) \in times /\ First(times) # None /\ \A u \in times : First(times) <= u
<1>1. CASE times = {}
  BY <1>1 DEF First
<1>2. CASE times # {}
  <2>1. \E t \in times : \A u \in times : t <= u
    BY <1>2, LeastNumber
  <2>2. First(times) \in times /\ \A u \in times : First(times) <= u
    BY <1>2, <2>1 DEF First
  <2>3. First(times) \in Nat
    BY <2>2
  <2> QED
    BY <1>2, <2>2, <2>3, TrackOneAssumption
<1> QED
  BY <1>1, <1>2

(* So the label says which comes first, and when. *)
LEMMA PassageLabel ==
    ASSUME NEW ups \in SUBSET Nat, NEW downs \in SUBSET Nat, NEW label, IsPassage(label, ups, downs),
           NEW up, up = First(ups), NEW down, down = First(downs)
    PROVE  /\ label.event = "target" <=> up # None /\ (down # None => up < down)
           /\ label.event = "censored" <=> up = None /\ down = None
           /\ label.event = "target" => label.t = up
           /\ label.event = "drawdown" => label.t = down
<1>1. /\ ups = {} => up = None
      /\ ups # {} => up \in ups /\ up \in Nat /\ up # None /\ \A u \in ups : up <= u
  BY FirstIsLeast
<1>2. /\ downs = {} => down = None
      /\ downs # {} => down \in downs /\ down \in Nat /\ down # None /\ \A u \in downs : down <= u
  BY FirstIsLeast
<1>3. CASE /\ label.event = "target" /\ label.t \in ups
           /\ (\A u \in ups : label.t <= u) /\ (\A d \in downs : label.t < d)
  <2>1. label.t \in Nat /\ up \in Nat /\ label.t <= up /\ up <= label.t
    BY <1>1, <1>3
  <2>2. label.t = up
    BY <2>1
  <2>3. down # None => up < down
    BY <1>2, <1>3, <2>2
  <2> QED
    BY <1>1, <1>3, <2>2, <2>3
<1>4. CASE /\ label.event = "drawdown" /\ label.t \in downs
           /\ (\A d \in downs : label.t <= d) /\ (\A u \in ups : label.t <= u)
  <2>1. label.t \in Nat /\ down \in Nat /\ label.t <= down /\ down <= label.t
    BY <1>2, <1>4
  <2>2. label.t = down
    BY <2>1
  <2>3. up # None => up \in Nat /\ down <= up
    BY <1>1, <1>4, <2>2
  <2>4. up # None => ~(up < down)
    BY <2>1, <2>3
  <2> QED
    BY <1>2, <1>4, <2>2, <2>4
<1>5. CASE label.event = "censored" /\ ups = {} /\ downs = {}
  BY <1>1, <1>2, <1>5
<1> QED
  BY <1>3, <1>4, <1>5 DEF IsPassage

-----------------------------------------------------------------------------
(* The two multiples of a state: what the position brings is at most what  *)
(* it is worth at the price.                                               *)
GoodPoint(p) ==
    /\ p.t \in Nat /\ IsFraction(p.observed) /\ IsFraction(p.executable)
    /\ \A g \in Targets : Reaches(p.executable, g) => Reaches(p.observed, g)
    /\ Falls(p.observed) => Falls(p.executable)

LEMMA Proceeds ==
    ASSUME NEW tokens \in Nat, NEW base \in Nat \ {0}, NEW quote \in Nat, NEW cap \in Nat, NEW fee \in Nat,
           NEW raw, raw = AtMost(ConstantProductOut(tokens, base, quote), cap),
           NEW net, net = raw - AtMost(raw, fee)
    PROVE  raw \in Nat /\ net \in Nat /\ net * base <= quote * tokens
<1>1. PICK a \in Nat, b \in Nat \ {0} : a = tokens * quote /\ b = base + tokens
  OBVIOUS
<1>2. PICK out \in Nat : out = ConstantProductOut(tokens, base, quote) /\ out * b <= a
  <2>1. a \div b \in Nat /\ (a \div b) * b <= a
    BY SMT
  <2> QED
    BY <1>1, <2>1 DEF ConstantProductOut
<1>3. raw \in Nat /\ raw <= out /\ net \in Nat /\ net <= out
  BY <1>2 DEF AtMost
<1>4. net * b <= out * b /\ base * net <= b * net
  BY <1>1, <1>3, Times
<1>5. net * base = base * net /\ net * b = b * net /\ quote * tokens = tokens * quote
  BY <1>1, <1>3
<1>6. net * base \in Int /\ net * b \in Int /\ out * b \in Int
  BY <1>1, <1>3
<1> QED
  BY <1>1, <1>2, <1>3, <1>4, <1>5, <1>6

(* Worth less than the price says, over what was paid and the fees. *)
Multiples(o, e, tokens, gross, base, quote, net, outlay, exit) ==
    /\ o = <<quote * tokens, base * gross>>
    /\ e = <<AtLeastZero(net - exit), outlay>>
    /\ net * base <= quote * tokens /\ gross <= outlay

LEMMA Worth ==
    ASSUME NEW tokens \in Nat \ {0}, NEW gross \in Nat \ {0}, NEW base \in Nat \ {0}, NEW quote \in Nat,
           NEW net \in Nat, NEW outlay \in Nat, NEW exit \in Nat, NEW o, NEW e,
           Multiples(o, e, tokens, gross, base, quote, net, outlay, exit)
    PROVE  /\ IsFraction(o) /\ IsFraction(e)
           /\ \A g \in Nat \ {0, 1} : Reaches(e, g) => Reaches(o, g)
           /\ Falls(o) => Falls(e)
<1> USE DEF Multiples
<1>1. PICK x \in Nat : x = AtLeastZero(net - exit) /\ (x = 0 \/ x <= net)
  <2>1. AtLeastZero(net - exit) \in Nat /\ (AtLeastZero(net - exit) = 0 \/ AtLeastZero(net - exit) <= net)
    BY DEF AtLeastZero
  <2> QED
    BY <2>1
<1>2. base * gross \in Nat /\ base * gross > 0 /\ quote * tokens \in Nat /\ outlay > 0
  OBVIOUS
<1>3. IsFraction(o) /\ IsFraction(e)
  BY <1>1, <1>2 DEF IsFraction
<1>4. ASSUME NEW g \in Nat \ {0, 1}, Reaches(e, g) PROVE Reaches(o, g)
  <2>1. x >= g * outlay
    BY <1>1, <1>4 DEF Reaches
  <2>2. gross * g <= outlay * g /\ outlay * g = g * outlay /\ gross * g \in Nat /\ gross * g > 0
    BY Times
  <2>3. gross * g <= net
    <3>1. g * outlay \in Int
      OBVIOUS
    <3> QED
      BY <1>1, <2>1, <2>2, <3>1
  <2>4. (gross * g) * base <= net * base
    BY <2>2, <2>3, Times
  <2>5. (gross * g) * base = g * (base * gross) /\ net * base \in Int /\ g * (base * gross) \in Int
    BY <2>2
  <2> QED
    BY <1>2, <2>4, <2>5 DEF Reaches
<1>5. ASSUME Falls(o) PROVE Falls(e)
  <2>1. 2 * (quote * tokens) <= base * gross
    BY <1>5 DEF Falls
  <2>2. (2 * net) * base <= gross * base
    <3>1. (2 * net) * base = 2 * (net * base) /\ gross * base = base * gross /\ net * base \in Int
      OBVIOUS
    <3> QED
      BY <1>2, <2>1, <3>1
  <2>3. 2 * net <= gross
    <3>1. 2 * net \in Int /\ gross \in Int
      OBVIOUS
    <3> QED
      BY <2>2, <3>1, Cancel
  <2> QED
    BY <1>1, <2>3 DEF Falls
<1> QED
  BY <1>3, <1>4, <1>5

LEMMA FeesAreNat ==
    ASSUME NEW fees, {fees.protocol, fees.creator, fees.cashback} \subseteq Nat, NEW raw \in Nat
    PROVE  FeeRaw(fees, raw) \in Nat /\ \A bps \in Nat : Fee(raw, bps) \in Nat
<1>1. \A bps \in Nat : Fee(raw, bps) \in Nat
  <2> TAKE bps \in Nat
  <2>1. PICK a \in Nat, b \in Nat \ {0} : a = raw * bps /\ b = BPS
    BY QuotesAssumption
  <2>2. (a + b - 1) \div b \in Nat
    <3>1. a + b - 1 \in Nat
      OBVIOUS
    <3> QED
      BY <3>1, SMT
  <2> QED
    BY <2>1, <2>2 DEF Fee, ceil_div
<1> QED
  BY <1>1 DEF FeeRaw

-----------------------------------------------------------------------------
(* The chain and what its transactions tell. *)
LEMMA ChainTyped ==
    ASSUME chain \in Chains
    PROVE  /\ \E n \in Nat : n <= MaxChain /\ DOMAIN chain = 1..n
           /\ \A i \in DOMAIN chain : chain[i] \in Txs /\ chain[i].t \in Nat /\ i \in 1..MaxChain
           /\ \A i, j \in DOMAIN chain : i < j => chain[i].t <= chain[j].t
           /\ IsFiniteSet(DOMAIN chain)
<1>1. PICK n \in 0..MaxChain : chain \in [1..n -> Txs]
  BY DEF Chains, SeqOf
<1>2. n \in Nat /\ n <= MaxChain /\ MaxChain \in Nat
  BY TrackOneAssumption
<1>3. DOMAIN chain = 1..n /\ \A i \in DOMAIN chain : chain[i] \in Txs
  BY <1>1
<1>4. \A i \in DOMAIN chain : chain[i].t \in Nat /\ i \in 1..MaxChain
  BY <1>2, <1>3, TrackOneAssumption
<1>5. \A i, j \in DOMAIN chain : i < j => chain[i].t <= chain[j].t
  BY DEF Chains
<1>6. IsFiniteSet(1..n)
  BY <1>2, FS_Interval
<1> QED
  BY <1>2, <1>3, <1>4, <1>5, <1>6

SwapEvents == PumpSwapPoolEvent \cup PumpSwapTradeEvent

LEMMA Told ==
    ASSUME NEW x \in Txs, x.kind # "pump"
    PROVE  /\ extract_pumpswap_events(x) \in Seq(SwapEvents)
           /\ \A e \in ToSet(extract_pumpswap_events(x)) :
                x.ok /\ e.at = x.t /\ e.pool = x.pool /\ (IsPool(e) => x.creates)
<1> DEFINE all == x.inner \o x.logs
           good == Those(all, decode_pumpswap_event)
           evs == [k \in DOMAIN good |-> good[k].ev]
           keys == [i \in DOMAIN evs |-> PumpSwapKey(evs[i])]
           I == {i \in DOMAIN all : decode_pumpswap_event(all[i])}
<1>1. /\ x.inner \in Seq(PumpSwapPayload) /\ x.logs \in Seq(PumpSwapPayload) /\ x.ok \in BOOLEAN
      /\ \A p \in ToSet(all) : p.ev.at = x.t /\ p.ev.pool = x.pool /\ (IsPool(p.ev) => x.creates)
  BY TrackOneAssumption DEF IsPumpSwapTx
<1>2. all \in Seq(PumpSwapPayload)
  BY <1>1
<1>3. CASE ~x.ok
  BY <1>3 DEF extract_pumpswap_events, ToSet
<1>4. CASE x.ok
  <2>1. extract_pumpswap_events(x) = At(evs, LastPlaces(keys))
    BY <1>4 DEF extract_pumpswap_events, LastOfEach
  <2>2. good = At(all, Ascending(I)) /\ I \subseteq 1..Len(all)
    <3>1. DOMAIN all = 1..Len(all)
      BY <1>2
    <3> HIDE DEF all
    <3>2. good = At(all, Ascending(I))
      BY DEF Those
    <3> QED
      BY <3>1, <3>2
  <2> HIDE DEF all, I, good
  <2>3. good \in Seq(PumpSwapPayload) /\ ToSet(good) = {all[i] : i \in I}
    BY <1>2, <2>2, SelectedPlaces
  <2>4. ToSet(good) \subseteq ToSet(all)
    BY <1>2, <2>2, <2>3 DEF ToSet
  <2>5. PICK n \in Nat : DOMAIN good = 1..n /\ n = Len(good)
    BY <2>3
  <2>6. \A k \in 1..n : good[k] \in ToSet(good) /\ good[k].ev \in SwapEvents
    <3>1. \A k \in 1..n : good[k] \in PumpSwapPayload
      BY <2>3, <2>5
    <3> QED
      BY <2>5, <3>1 DEF ToSet, PumpSwapPayload, SwapEvents
  <2>7. evs \in Seq(SwapEvents) /\ Len(evs) = n /\ DOMAIN evs = 1..n
    BY <2>5, <2>6
  <2>8. \A k \in 1..n : evs[k] = good[k].ev
    BY <2>5
  <2>9. DOMAIN keys = 1..Len(evs)
    BY <2>7
  <2> HIDE DEF evs, keys
  <2>10. /\ At(evs, LastPlaces(keys)) \in Seq(SwapEvents)
         /\ ToSet(At(evs, LastPlaces(keys))) = {evs[l] : l \in Lasts(keys)}
    BY <2>7, <2>9, LastOnesKept
  <2>11. ASSUME NEW e \in ToSet(At(evs, LastPlaces(keys)))
         PROVE  e.at = x.t /\ e.pool = x.pool /\ (IsPool(e) => x.creates)
    <3>1. PICK k \in 1..n : e = evs[k]
      BY <2>7, <2>9, <2>10 DEF Lasts
    <3>2. e = good[k].ev /\ good[k] \in ToSet(all)
      BY <2>4, <2>6, <2>8, <3>1
    <3> QED
      BY <1>1, <3>2 DEF all
  <2> QED
    BY <1>4, <2>1, <2>10, <2>11
<1> QED
  BY <1>1, <1>3, <1>4

LEMMA EventsOf ==
    ASSUME chain \in Chains, NEW i \in DOMAIN chain
    PROVE  /\ PumpSwapEvents(i) \in Seq(SwapEvents)
           /\ \A e \in ToSet(PumpSwapEvents(i)) :
                /\ chain[i].kind = "pumpswap" /\ chain[i].ok /\ e.at = chain[i].t /\ e.pool = chain[i].pool
                /\ IsPool(e) => chain[i].creates
<1>1. chain[i] \in Txs /\ chain[i].kind \in {"pump", "pumpswap"}
  BY ChainTyped, TrackOneAssumption
<1>2. CASE chain[i].kind = "pump"
  BY <1>2 DEF PumpSwapEvents, ToSet
<1>3. CASE chain[i].kind # "pump"
  BY <1>1, <1>3, Told DEF PumpSwapEvents
<1> QED
  BY <1>2, <1>3

-----------------------------------------------------------------------------
(* The inductive invariant. *)

Stages == {"mint", "mintTxs", "pool", "poolTxs", "summary", "done"}

Types ==
    /\ chain \in Chains /\ entry \in Entries
    /\ pc \in Stages
    /\ before \in 1..MaxChain + 1
    /\ pages \in Nat
    /\ {reached, broken, flawed} \subseteq BOOLEAN
    /\ found \cup fetched \cup fromPool \subseteq DOMAIN chain

(* Nothing is priced without an entry. *)
Funded == Quoted \/ (pc = "mint" /\ pages = 0) \/ pc = "done"

Timely ==
    \A i \in found \cup fetched \cup fromPool :
        chain[i].ok /\ chain[i].timed /\ chain[i].t <= End + Slack

(* What a history owes: the transactions of its address that are due. *)
Owed(address) == {i \in DOMAIN chain : Names(chain[i], address) /\ Due(i)}

(* Paged from the head down to the cursor, or to the start. *)
Paged ==
    pc \in {"mint", "pool"} =>
        /\ pages = 0 => before = MaxChain + 1 /\ ~reached /\ ~broken
        /\ \A i \in Owed(pc) : reached \/ before <= i => i \in found

(* Without a flaw everything owed was found, and what was found fetched. *)
Collected ==
    ~flawed =>
        /\ pc = "mintTxs" => Owed("mint") \subseteq found
        /\ pc = "poolTxs" => Owed("pool") \subseteq found
        /\ pc \in {"pool", "poolTxs", "summary"} \/ status = "COMPLETE" => Owed("mint") \subseteq fetched
        /\ pool # None /\ (pc = "summary" \/ status = "COMPLETE") => Owed("pool") \subseteq fromPool

(* The pool was told by a transaction of the mint. *)
Followed ==
    /\ pc \in {"mint", "mintTxs"} => pool = None
    /\ pool # None \/ pc \in {"pool", "poolTxs"} =>
         \E i \in fetched : pool \in ToSet(PumpSwapEvents(i)) /\ IsPool(pool)

Open == pc # "done" => status = None /\ summary = None

Labelled ==
    summary # None =>
        /\ summary = summarize_executable_path(points)
        /\ DOMAIN points = 1..Len(points) /\ Len(points) \in Nat
        /\ \A k \in DOMAIN points : GoodPoint(points[k])

IInv ==
    /\ Types /\ Funded /\ Timely /\ Paged /\ Collected /\ Followed /\ Open /\ Labelled
    /\ CompleteCoversWindow

-----------------------------------------------------------------------------
(* Every point of a summary is a good one. *)
LEMMA PointWorth ==
    ASSUME Quoted, entry \in Entries, NEW t \in Nat, NEW venue,
           NEW base \in Nat \ {0}, NEW quote \in Nat, NEW cap \in Nat, NEW fee \in Nat,
           NEW raw, raw = AtMost(ConstantProductOut(entry.tokens, base, quote), cap),
           NEW p, p = Point(t, venue, base, quote, raw - AtMost(raw, fee))
    PROVE  GoodPoint(p) /\ p.t = t /\ p.venue = venue
<1>1. PICK tokens \in Nat \ {0} : tokens = entry.tokens
  BY TrackOneAssumption DEF Quoted
<1>8. PICK gross \in Nat \ {0} : gross = entry.gross
  BY TrackOneAssumption DEF Quoted
<1>2. EntryNetwork \in Nat /\ ExitNetwork \in Nat /\ Targets \subseteq Nat \ {0, 1}
  BY TrackOneAssumption
<1>3. PICK net : net = raw - AtMost(raw, fee)
  OBVIOUS
<1>4. net \in Nat /\ net * base <= quote * tokens
  BY <1>1, <1>3, Proceeds
<1>5. PICK outlay \in Nat : outlay = Outlay /\ gross <= outlay
  BY <1>2, <1>8 DEF Outlay
<1>9. PICK exit \in Nat : exit = ExitNetwork
  BY <1>2
<1>6. /\ p.t = t /\ p.venue = venue
      /\ p.observed = <<quote * tokens, base * gross>>
      /\ p.executable = <<AtLeastZero(net - exit), outlay>>
  BY <1>1, <1>3, <1>5, <1>8, <1>9 DEF Point
<1>7. /\ IsFraction(p.observed) /\ IsFraction(p.executable)
      /\ \A g \in Nat \ {0, 1} : Reaches(p.executable, g) => Reaches(p.observed, g)
      /\ Falls(p.observed) => Falls(p.executable)
  <2>1. PICK o, e : o = p.observed /\ e = p.executable
    OBVIOUS
  <2>2. Multiples(o, e, tokens, gross, base, quote, net, outlay, exit)
    BY <1>4, <1>5, <1>6, <2>1 DEF Multiples
  <2>3. /\ IsFraction(o) /\ IsFraction(e)
        /\ \A g \in Nat \ {0, 1} : Reaches(e, g) => Reaches(o, g)
        /\ Falls(o) => Falls(e)
    BY <1>1, <1>4, <1>5, <1>8, <1>9, <2>2, Worth
  <2> QED
    BY <2>1, <2>3
<1> QED
  BY <1>2, <1>6, <1>7 DEF GoodPoint

LEMMA DrawnIsNat ==
    ASSUME NEW tokens \in Nat, NEW base \in Nat \ {0}, NEW quote \in Nat, NEW cap \in Nat
    PROVE  AtMost(ConstantProductOut(tokens, base, quote), cap) \in Nat
<1>1. PICK raw, net : raw = AtMost(ConstantProductOut(tokens, base, quote), cap) /\ net = raw - AtMost(raw, 0)
  OBVIOUS
<1>2. raw \in Nat
  BY <1>1, Proceeds
<1> QED
  BY <1>1, <1>2

LEMMA PumpPoint ==
    ASSUME Quoted, entry \in Entries, NEW x \in Txs, x.kind = "pump", QuoteState(x),
           NEW c, c = state_from_trade_event(x),
           NEW p, p = Point(x.t, "pump", c.vt, c.vq, quote_sell_tokens_raw(c, EventFees(x), entry.tokens))
    PROVE  GoodPoint(p) /\ p.t = x.t /\ p.venue = "pump"
<1>1. x.vt \in Nat /\ x.virtualQuote \in Nat /\ x.virtualSol \in Nat /\ x.rq \in Nat /\ x.fees \in Fees /\ x.t \in Nat
  BY TrackOneAssumption DEF IsPumpTx
<1>2. c.vt \in Nat \ {0} /\ c.vq \in Nat /\ c.rq \in Nat
  <2>1. c.vt = x.vt /\ c.vq = QuoteReserve(x) /\ c.rq = AtLeastZero(x.rq)
    BY DEF state_from_trade_event
  <2>2. x.vt > 0
    BY DEF QuoteState
  <2>3. QuoteReserve(x) \in Nat /\ AtLeastZero(x.rq) \in Nat
    BY <1>1 DEF QuoteReserve, AtLeastZero
  <2> QED
    BY <1>1, <2>1, <2>2, <2>3
<1>3. PICK fees \in Fees : fees = EventFees(x)
  BY <1>1, QuotesAssumption DEF EventFees
<1>4. PICK raw : raw = AtMost(ConstantProductOut(entry.tokens, c.vt, c.vq), c.rq)
  OBVIOUS
<1>5. raw \in Nat
  <2>1. entry.tokens \in Nat
    BY TrackOneAssumption
  <2> QED
    BY <1>2, <1>4, <2>1, DrawnIsNat
<1>6. FeeRaw(fees, raw) \in Nat
  <2>1. {fees.protocol, fees.creator, fees.cashback} \subseteq Nat
    BY DEF Fees
  <2> QED
    BY <1>5, <2>1, FeesAreNat
<1>7. quote_sell_tokens_raw(c, EventFees(x), entry.tokens) = raw - AtMost(raw, FeeRaw(fees, raw))
  BY <1>3, <1>4 DEF quote_sell_tokens_raw, NetOut, GrossOut
<1> QED
  BY <1>1, <1>2, <1>4, <1>6, <1>7, PointWorth

LEMMA SwapPoint ==
    ASSUME Quoted, entry \in Entries, NEW e \in PumpSwapTradeEvent, PoolQuotes(e),
           NEW p, p = Point(e.at, "pumpswap", e.base, EffectiveQuote(e), quote_sell_base_raw(e, e.fees, entry.tokens))
    PROVE  GoodPoint(p) /\ p.t = e.at /\ p.venue = "pumpswap"
<1>1. e.at \in Nat /\ e.base \in Nat /\ e.real \in Nat /\ e.virtual \in Int
  BY DEF PumpSwapTradeEvent
<1>2. {e.fees.protocol, e.fees.creator, e.fees.cashback} \subseteq Nat /\ e.fees.lp \in Nat
  <2>1. e.fees \in [lp : Nat, protocol : Nat, creator : Nat, cashback : Nat]
    BY DEF PumpSwapTradeEvent
  <2> QED
    BY <2>1
<1>3. e.base \in Nat \ {0} /\ EffectiveQuote(e) \in Nat
  BY <1>1 DEF PoolQuotes, EffectiveQuote
<1>4. PICK raw : raw = AtMost(ConstantProductOut(entry.tokens, e.base, EffectiveQuote(e)), e.real)
  OBVIOUS
<1>5. raw \in Nat
  <2>1. entry.tokens \in Nat
    BY TrackOneAssumption
  <2> QED
    BY <1>1, <1>3, <1>4, <2>1, DrawnIsNat
<1>6. PICK fee \in Nat : fee = Fee(raw, e.fees.lp) + FeeRaw(e.fees, raw)
  <2>1. FeeRaw(e.fees, raw) \in Nat /\ Fee(raw, e.fees.lp) \in Nat
    BY <1>2, <1>5, FeesAreNat
  <2> QED
    BY <2>1
<1>7. quote_sell_base_raw(e, e.fees, entry.tokens) = raw - AtMost(raw, fee)
  BY <1>4, <1>6 DEF quote_sell_base_raw
<1> QED
  BY <1>1, <1>3, <1>4, <1>6, <1>7, PointWorth

-----------------------------------------------------------------------------
(* The fetched transactions in their order, and the swaps they tell. *)
LEMMA Orders ==
    ASSUME Types, NEW order \in SetToSeqs(fetched \cup fromPool)
    PROVE  order \in Seq(DOMAIN chain) /\ ToSet(order) = fetched \cup fromPool
<1> DEFINE S == fetched \cup fromPool
<1>1. S \in SUBSET (DOMAIN chain) /\ IsFiniteSet(DOMAIN chain)
  BY ChainTyped DEF Types
<1>2. order \in [1..Cardinality(S) -> S] /\ \A i, j \in 1..Cardinality(S) : i # j => order[i] # order[j]
  BY DEF SetToSeqs
<1> HIDE DEF S
<1>3. IsFiniteSet(S)
  BY <1>1, FS_Subset
<1>4. PICK n \in Nat : n = Cardinality(S)
  BY <1>3, FS_CardinalityType
<1>5. IsFiniteSet(1..n) /\ Cardinality(1..n) = n
  BY <1>4, FS_Interval
<1>6. order \in Injection(1..n, S)
  BY <1>2, <1>4 DEF Injection, IsInjective
<1>7. order \in Surjection(1..n, S)
  BY <1>3, <1>4, <1>5, <1>6, FS_Injection
<1>8. ToSet(order) = S
  BY <1>2, <1>4, <1>7 DEF Surjection, ToSet
<1>9. order \in [1..n -> DOMAIN chain]
  BY <1>1, <1>2, <1>4
<1> QED
  BY <1>8, <1>9 DEF S

LEMMA ToldBy ==
    ASSUME chain \in Chains, NEW order \in Seq(DOMAIN chain), NEW got,
           NEW told, told = FlattenSeq([k \in DOMAIN order |->
                                IF order[k] \in got THEN PumpSwapEvents(order[k]) ELSE <<>>])
    PROVE  /\ told \in Seq(SwapEvents)
           /\ ToSet(told) = UNION {ToSet(PumpSwapEvents(i)) : i \in got \cap ToSet(order)}
<1> DEFINE seqs == [k \in DOMAIN order |-> IF order[k] \in got THEN PumpSwapEvents(order[k]) ELSE <<>>]
<1>1. PICK n \in Nat : DOMAIN order = 1..n
  OBVIOUS
<1>2. \A k \in 1..n : order[k] \in DOMAIN chain
  BY <1>1
<1>3. \A k \in 1..n : seqs[k] = IF order[k] \in got THEN PumpSwapEvents(order[k]) ELSE <<>>
  BY <1>1
<1>4. DOMAIN seqs = 1..n /\ seqs = [k \in DOMAIN seqs |-> seqs[k]]
  BY <1>1
<1> HIDE DEF seqs
<1>5. \A k \in 1..n : seqs[k] \in Seq(SwapEvents)
  <2> TAKE k \in 1..n
  <2>1. <<>> \in Seq(SwapEvents)
    OBVIOUS
  <2>2. PumpSwapEvents(order[k]) \in Seq(SwapEvents)
    BY <1>2, EventsOf
  <2> QED
    BY <1>3, <2>1, <2>2
<1>6. seqs \in [1..n -> Seq(SwapEvents)]
  BY <1>4, <1>5
<1>7. told \in Seq(SwapEvents) /\ ToSet(told) = UNION {ToSet(seqs[k]) : k \in 1..n}
  BY <1>6, Flattened DEF seqs
<1>8. ASSUME NEW e, \E k \in 1..n : e \in ToSet(seqs[k])
      PROVE  \E i \in got \cap ToSet(order) : e \in ToSet(PumpSwapEvents(i))
  <2>1. PICK k \in 1..n : e \in ToSet(seqs[k])
    BY <1>8
  <2>2. order[k] \in got
    BY <1>3, <2>1 DEF ToSet
  <2>3. order[k] \in ToSet(order)
    BY <1>1 DEF ToSet
  <2> QED
    BY <1>3, <2>1, <2>2, <2>3
<1>9. ASSUME NEW e, \E i \in got \cap ToSet(order) : e \in ToSet(PumpSwapEvents(i))
      PROVE  \E k \in 1..n : e \in ToSet(seqs[k])
  <2>1. PICK i \in got \cap ToSet(order) : e \in ToSet(PumpSwapEvents(i))
    BY <1>9
  <2>2. PICK k \in 1..n : order[k] = i
    BY <1>1, <2>1 DEF ToSet
  <2> QED
    BY <1>3, <2>1, <2>2
<1> QED
  BY <1>7, <1>8, <1>9

(* What the swaps are: told by a fetched transaction, each once, and none  *)
(* the pool's own history tells is missing.                                *)
SwapsOf(swaps) ==
    /\ swaps \in Seq(PumpSwapTradeEvent)
    /\ \A k \in DOMAIN swaps : \E i \in fetched \cup fromPool : swaps[k] \in ToSet(PumpSwapEvents(i))
    /\ \A k, l \in DOMAIN swaps : SwapKey(swaps[k]) = SwapKey(swaps[l]) => k = l
    /\ \A i \in fromPool : \A e \in ToSet(PumpSwapEvents(i)) :
         ~IsPool(e) /\ e.pool = pool.pool => \E k \in DOMAIN swaps : SwapKey(swaps[k]) = SwapKey(e)

LEMMA SwapsAre ==
    ASSUME chain \in Chains, NEW order \in Seq(DOMAIN chain), ToSet(order) = fetched \cup fromPool
    PROVE  SwapsOf(Swaps(order))
<1> DEFINE told(got) == FlattenSeq([k \in DOMAIN order |->
                            IF order[k] \in got THEN PumpSwapEvents(order[k]) ELSE <<>>])
           events(got) == UNION {ToSet(PumpSwapEvents(i)) : i \in got \cap ToSet(order)}
           atMint == {i \in DOMAIN told(fetched) : ~IsPool(told(fetched)[i])}
           atPool == {i \in DOMAIN told(fromPool) : ~IsPool(told(fromPool)[i]) /\ told(fromPool)[i].pool = pool.pool}
           ofMint == At(told(fetched), Ascending(atMint))
           ofPool == At(told(fromPool), Ascending(atPool))
           all == ofMint \o ofPool
           keys == [i \in DOMAIN all |-> SwapKey(all[i])]
<1>1. Swaps(order) = At(all, LastPlaces(keys))
  BY DEF Swaps, LastOfEach, Those
<1>2. /\ told(fetched) \in Seq(SwapEvents) /\ ToSet(told(fetched)) = events(fetched)
      /\ told(fromPool) \in Seq(SwapEvents) /\ ToSet(told(fromPool)) = events(fromPool)
  BY ToldBy
<1> HIDE DEF told
<1>3. atMint \subseteq 1..Len(told(fetched)) /\ atPool \subseteq 1..Len(told(fromPool))
  BY <1>2
<1>4. \A e \in SwapEvents : ~IsPool(e) => e \in PumpSwapTradeEvent
  BY DEF SwapEvents, PumpSwapPoolEvent, PumpSwapTradeEvent, IsPool
<1>5. /\ ofMint \in Seq(SwapEvents) /\ ToSet(ofMint) = {told(fetched)[i] : i \in atMint}
      /\ ofPool \in Seq(SwapEvents) /\ ToSet(ofPool) = {told(fromPool)[i] : i \in atPool}
  <2> HIDE DEF atMint, atPool
  <2>1. ofMint \in Seq(SwapEvents) /\ ToSet(ofMint) = {told(fetched)[i] : i \in atMint}
    BY <1>2, <1>3, SelectedPlaces
  <2>2. ofPool \in Seq(SwapEvents) /\ ToSet(ofPool) = {told(fromPool)[i] : i \in atPool}
    BY <1>2, <1>3, SelectedPlaces
  <2> QED
    BY <2>1, <2>2
<1>6. \A e \in ToSet(ofMint) : ~IsPool(e) /\ e \in events(fetched)
  <2>1. \A i \in DOMAIN told(fetched) : told(fetched)[i] \in events(fetched)
    BY <1>2 DEF ToSet
  <2> HIDE DEF ofMint
  <2> QED
    BY <1>5, <2>1
<1>7. \A e \in ToSet(ofPool) : ~IsPool(e) /\ e \in events(fromPool)
  <2>1. \A i \in DOMAIN told(fromPool) : told(fromPool)[i] \in events(fromPool)
    BY <1>2 DEF ToSet
  <2> HIDE DEF ofPool
  <2> QED
    BY <1>5, <2>1
<1>8. \A e \in events(fromPool) : ~IsPool(e) /\ e.pool = pool.pool => e \in ToSet(ofPool)
  <2> TAKE e \in events(fromPool)
  <2> HAVE ~IsPool(e) /\ e.pool = pool.pool
  <2>1. e \in ToSet(told(fromPool))
    BY <1>2
  <2>2. PICK i \in DOMAIN told(fromPool) : told(fromPool)[i] = e
    BY <2>1 DEF ToSet
  <2> HIDE DEF ofPool
  <2> QED
    BY <1>5, <2>2
<1> HIDE DEF atMint, atPool, ofMint, ofPool
<1>9. all \in Seq(SwapEvents) /\ ToSet(all) = ToSet(ofMint) \cup ToSet(ofPool)
  BY <1>5, JoinedSets
<1>10. PICK n \in Nat : n = Len(all) /\ DOMAIN all = 1..n
  BY <1>9
<1>11. \A i \in 1..n : all[i] \in ToSet(all)
  BY <1>10 DEF ToSet
<1>12. \A e \in ToSet(all) : e \in PumpSwapTradeEvent /\ \E i \in fetched \cup fromPool : e \in ToSet(PumpSwapEvents(i))
  <2> TAKE e \in ToSet(all)
  <2>1. ~IsPool(e) /\ e \in events(fetched) \cup events(fromPool)
    BY <1>6, <1>7, <1>9
  <2>2. e \in SwapEvents
    BY <1>9, <1>10 DEF ToSet
  <2>3. \E i \in fetched \cup fromPool : e \in ToSet(PumpSwapEvents(i))
    BY <2>1
  <2> QED
    BY <1>4, <2>1, <2>2, <2>3
<1>13. DOMAIN keys = 1..n /\ \A i \in 1..n : keys[i] = SwapKey(all[i])
  BY <1>10
<1> HIDE DEF all, keys
<1>n. n \in Nat
  BY <1>10
<1>14. PICK m \in Nat : OneOfEach(LastPlaces(keys), keys, m, n)
  BY <1>13, <1>n, OneOfEachKey
<1>15. PICK places : /\ places = LastPlaces(keys) /\ places \in [1..m -> 1..n]
                     /\ \A k, l \in 1..m : keys[places[k]] = keys[places[l]] => k = l
                     /\ \A i \in 1..n : \E k \in 1..m : keys[places[k]] = keys[i]
  BY <1>14 DEF OneOfEach
<1>16. PICK swaps : swaps = Swaps(order)
  OBVIOUS
<1>17. swaps = [k \in 1..m |-> all[places[k]]]
  BY <1>1, <1>15, <1>16 DEF At
<1>18. \A k \in 1..m : places[k] \in 1..n /\ swaps[k] = all[places[k]] /\ swaps[k] \in PumpSwapTradeEvent
  BY <1>11, <1>12, <1>15, <1>17
<1>19. swaps \in Seq(PumpSwapTradeEvent) /\ DOMAIN swaps = 1..m
  BY <1>17, <1>18
<1>20. \A k \in 1..m : \E i \in fetched \cup fromPool : swaps[k] \in ToSet(PumpSwapEvents(i))
  BY <1>11, <1>12, <1>18
<1>21. \A k, l \in 1..m : SwapKey(swaps[k]) = SwapKey(swaps[l]) => k = l
  <2>1. \A k \in 1..m : keys[places[k]] = SwapKey(swaps[k])
    BY <1>13, <1>18
  <2> QED
    BY <1>15, <2>1
<1>22. ASSUME NEW i \in fromPool, NEW e \in ToSet(PumpSwapEvents(i)), ~IsPool(e), e.pool = pool.pool
       PROVE  \E k \in 1..m : SwapKey(swaps[k]) = SwapKey(e)
  <2>1. e \in events(fromPool)
    OBVIOUS
  <2>2. e \in ToSet(all)
    BY <1>8, <1>9, <1>22, <2>1
  <2>3. PICK j \in 1..n : all[j] = e
    BY <1>10, <2>2 DEF ToSet
  <2>4. PICK k \in 1..m : keys[places[k]] = keys[j]
    BY <1>15
  <2> QED
    BY <1>13, <1>18, <2>3, <2>4
<1> QED
  BY <1>16, <1>19, <1>20, <1>21, <1>22 DEF SwapsOf

(* Points at seconds that count. *)
ArePoints(pts, venue) ==
    /\ pts \in Seq({pts[k] : k \in DOMAIN pts})
    /\ \A k \in DOMAIN pts :
         GoodPoint(pts[k]) /\ pts[k].venue = venue /\ pts[k].t \in Scored + 1..End + Slack

LEMMA PumpPoints ==
    ASSUME Types, Timely, Quoted, NEW order \in Seq(DOMAIN chain), ToSet(order) \subseteq fetched \cup fromPool
    PROVE  ArePoints(pump_exit_points(order), "pump")
<1> DEFINE I == {k \in DOMAIN order :
                    chain[order[k]].kind = "pump" /\ chain[order[k]].t > Scored /\ QuoteState(chain[order[k]])}
           after == At(order, Ascending(I))
           state(i) == state_from_trade_event(chain[i])
           point(i) == Point(chain[i].t, "pump", state(i).vt, state(i).vq,
                             quote_sell_tokens_raw(state(i), EventFees(chain[i]), entry.tokens))
           pts == pump_exit_points(order)
<1>1. pts = [k \in DOMAIN after |-> point(after[k])]
  BY DEF pump_exit_points, Those
<1>2. after \in Seq(DOMAIN chain) /\ ToSet(after) = {order[k] : k \in I}
  <2>1. I \subseteq 1..Len(order)
    OBVIOUS
  <2> HIDE DEF I
  <2> QED
    BY <2>1, SelectedPlaces
<1>3. \A k \in DOMAIN after :
        /\ after[k] \in fetched \cup fromPool
        /\ chain[after[k]].kind = "pump" /\ chain[after[k]].t > Scored /\ QuoteState(chain[after[k]])
  <2>1. \A i \in ToSet(after) : i \in ToSet(order) /\ chain[i].kind = "pump" /\ chain[i].t > Scored /\ QuoteState(chain[i])
    <3>1. \A k \in DOMAIN order : order[k] \in ToSet(order)
      BY DEF ToSet
    <3> HIDE DEF after
    <3> QED
      BY <1>2, <3>1
  <2> HIDE DEF after
  <2> QED
    BY <2>1 DEF ToSet
<1> HIDE DEF after
<1>4. ASSUME NEW k \in DOMAIN after
      PROVE  /\ GoodPoint(point(after[k])) /\ point(after[k]).venue = "pump"
             /\ point(after[k]).t \in Scored + 1..End + Slack
  <2>1. PICK i \in DOMAIN chain : i = after[k]
    BY <1>2, <1>4
  <2>2. chain[i] \in Txs /\ chain[i].t \in Nat
    BY ChainTyped DEF Types
  <2>3. GoodPoint(point(i)) /\ point(i).venue = "pump" /\ point(i).t = chain[i].t
    <3>1. entry \in Entries
      BY DEF Types
    <3> QED
      BY <1>3, <1>4, <2>1, <2>2, <3>1, PumpPoint
  <2>4. chain[i].t <= End + Slack /\ chain[i].t > Scored /\ {End, Slack, Scored} \subseteq Nat
    BY <1>3, <1>4, <2>1, TrackOneAssumption DEF Timely
  <2> HIDE DEF point
  <2> QED
    BY <2>1, <2>2, <2>3, <2>4
<1> HIDE DEF point, pts
<1>5. DOMAIN pts = DOMAIN after /\ \A k \in DOMAIN pts : pts[k] = point(after[k])
  BY <1>1
<1>6. PICK n \in Nat : DOMAIN after = 1..n
  BY <1>2
<1>7. pts \in Seq({pts[k] : k \in DOMAIN pts})
  <2>1. pts = [k \in 1..n |-> pts[k]]
    BY <1>1, <1>6
  <2> QED
    BY <2>1, IsAList
<1> QED
  BY <1>4, <1>5, <1>7 DEF ArePoints, pts

(* A point for each swap of the pool that quotes. *)
PointsOf(pts, swaps, m, places) ==
    /\ places \in [1..m -> DOMAIN swaps] /\ DOMAIN pts = 1..m
    /\ \A k, l \in 1..m : places[k] = places[l] => k = l
    /\ \A i \in DOMAIN swaps : swaps[i].at > Scored /\ state_from_trade(swaps[i]) => \E k \in 1..m : places[k] = i
    /\ \A k \in 1..m : pts[k].t = swaps[places[k]].at /\ state_from_trade(swaps[places[k]])

LEMMA SwapPoints ==
    ASSUME Types, Timely, Quoted, NEW swaps, SwapsOf(swaps)
    PROVE  /\ ArePoints(pumpswap_exit_points(swaps), "pumpswap")
           /\ \E m \in Nat : \E places : PointsOf(pumpswap_exit_points(swaps), swaps, m, places)
<1> DEFINE I == {k \in DOMAIN swaps : swaps[k].at > Scored /\ state_from_trade(swaps[k])}
           after == At(swaps, Ascending(I))
           point(e) == Point(e.at, "pumpswap", e.base, EffectiveQuote(e), quote_sell_base_raw(e, e.fees, entry.tokens))
           pts == pumpswap_exit_points(swaps)
<1>1. pts = [k \in DOMAIN after |-> point(after[k])]
  BY DEF pumpswap_exit_points, Those
<1>2. PICK n \in Nat : DOMAIN swaps = 1..n
  BY DEF SwapsOf
<1>3. I \in SUBSET (1..n) /\ IsFiniteSet(1..n)
  BY <1>2, FS_Interval
<1>4. \A k \in I : /\ swaps[k] \in PumpSwapTradeEvent /\ PoolQuotes(swaps[k])
                   /\ swaps[k].at \in Scored + 1..End + Slack
                   /\ swaps[k].at > Scored /\ state_from_trade(swaps[k])
  <2> TAKE k \in I
  <2>1. swaps[k] \in PumpSwapTradeEvent /\ k \in DOMAIN swaps
    BY <1>2 DEF SwapsOf
  <2>2. PICK i \in fetched \cup fromPool : swaps[k] \in ToSet(PumpSwapEvents(i))
    BY <2>1 DEF SwapsOf
  <2>3. i \in DOMAIN chain /\ chain \in Chains
    BY DEF Types
  <2>4. swaps[k].at = chain[i].t /\ chain[i].t \in Nat
    BY <2>2, <2>3, EventsOf, ChainTyped
  <2>5. chain[i].t <= End + Slack /\ {End, Slack, Scored} \subseteq Nat
    BY TrackOneAssumption DEF Timely
  <2>6. swaps[k].at \in Scored + 1..End + Slack
    BY <2>4, <2>5
  <2> QED
    BY <2>1, <2>6 DEF state_from_trade
<1> HIDE DEF I, after, point, pts
<1>5. PICK places : places = Ascending(I)
  OBVIOUS
<1>6. I \in SUBSET Nat /\ I \subseteq Nat /\ IsFiniteSet(I)
  <2>1. IsFiniteSet(I)
    BY <1>3, FS_Subset
  <2> QED
    BY <1>3, <2>1
<1>7. PICK m \in Nat : /\ m = Cardinality(I)
                       /\ places \in [1..m -> I] /\ ToSet(places) = I
                       /\ \A k, l \in 1..m : k < l => places[k] < places[l]
  BY <1>5, <1>6, AscendingPlaces
<1>8. after = [k \in 1..m |-> swaps[places[k]]]
  BY <1>5, <1>7 DEF after, At
<1>9. pts = [k \in 1..m |-> point(swaps[places[k]])]
  BY <1>1, <1>8
<1>10. ASSUME NEW k \in 1..m
       PROVE  /\ GoodPoint(pts[k]) /\ pts[k].venue = "pumpswap"
              /\ pts[k].t = swaps[places[k]].at /\ pts[k].t \in Scored + 1..End + Slack
              /\ state_from_trade(swaps[places[k]])
  <2>1. PICK e \in PumpSwapTradeEvent : /\ e = swaps[places[k]] /\ PoolQuotes(e) /\ state_from_trade(e)
                                        /\ e.at \in Scored + 1..End + Slack
    BY <1>4, <1>7
  <2>2. pts[k] = point(e)
    BY <1>9, <2>1
  <2>3. GoodPoint(pts[k]) /\ pts[k].venue = "pumpswap" /\ pts[k].t = e.at
    <3>1. entry \in Entries
      BY DEF Types
    <3> QED
      BY <2>1, <2>2, <3>1, SwapPoint DEF point
  <2> QED
    BY <2>1, <2>3
<1>11. \A k, l \in 1..m : places[k] = places[l] => k = l
  <2>1. \A k \in 1..m : places[k] \in Nat /\ k \in Int
    <3>1. \A k \in 1..m : places[k] \in I
      BY <1>7
    <3>2. \A i \in I : i \in Nat
      BY <1>6
    <3> QED
      BY <3>1, <3>2
  <2>2. \A k, l \in 1..m : k < l => places[k] # places[l]
    BY <1>7, <2>1
  <2>3. \A k, l \in 1..m : k = l \/ k < l \/ l < k
    BY <2>1
  <2> QED
    BY <2>2, <2>3
<1>12. \A i \in I : \E k \in 1..m : places[k] = i
  BY <1>7 DEF ToSet
<1>13. DOMAIN pts = 1..m /\ pts \in Seq({pts[k] : k \in DOMAIN pts})
  <2>1. pts = [k \in 1..m |-> pts[k]]
    BY <1>9
  <2> QED
    BY <1>7, <2>1, IsAList
<1>14. places \in [1..m -> DOMAIN swaps]
  BY <1>2, <1>3, <1>7
<1>15. \A i \in DOMAIN swaps : swaps[i].at > Scored /\ state_from_trade(swaps[i]) => \E k \in 1..m : places[k] = i
  BY <1>12 DEF I
<1>16. ArePoints(pts, "pumpswap")
  BY <1>10, <1>13 DEF ArePoints
<1>17. PointsOf(pts, swaps, m, places)
  BY <1>10, <1>11, <1>13, <1>14, <1>15 DEF PointsOf
<1> QED
  BY <1>7, <1>16, <1>17 DEF pts

(* As many points of a second as swaps the decoder quotes. *)
QuotedAt(t) == {SwapKey(e) : e \in {f \in SwapsAt(t) : state_from_trade(f)}}

PointsAt(pts, t) == {k \in DOMAIN pts : pts[k].venue = "pumpswap" /\ pts[k].t = t}

LEMMA SwapKeyTells ==
    ASSUME NEW e, NEW f, SwapKey(e) = SwapKey(f)
    PROVE  e.pool = f.pool /\ e.at = f.at
BY DEF SwapKey

LEMMA SwapsTold ==
    ASSUME Types, Timely, NEW swaps, SwapsOf(swaps), NEW k \in DOMAIN swaps, NEW t \in Scored + 1..End,
           swaps[k].at = t, swaps[k].pool = pool.pool
    PROVE  swaps[k] \in SwapsAt(t)
<1>1. PICK i \in fetched \cup fromPool : swaps[k] \in ToSet(PumpSwapEvents(i))
  BY DEF SwapsOf
<1>2. i \in DOMAIN chain /\ chain \in Chains
  BY DEF Types
<1>3. chain[i].ok /\ chain[i].timed /\ chain[i].t = t
  BY <1>1, <1>2, EventsOf DEF Timely
<1>4. Due(i)
  BY <1>3 DEF Due
<1>5. swaps[k] \in PumpSwapTradeEvent
  BY DEF SwapsOf
<1>6. ~IsPool(swaps[k])
  BY <1>5 DEF PumpSwapTradeEvent, IsPool
<1> QED
  BY <1>1, <1>2, <1>4, <1>6 DEF SwapsAt

LEMMA OnePointEach ==
    ASSUME Types, Timely, Owed("pool") \subseteq fromPool, NEW swaps, SwapsOf(swaps),
           NEW pts, NEW m \in Nat, NEW places, PointsOf(pts, swaps, m, places),
           \A k \in DOMAIN pts : pts[k].venue = "pumpswap",
           NEW t \in Scored + 1..End, QuoteAlike(SwapsAt(t))
    PROVE  Cardinality(QuotedAt(t)) = Cardinality(PointsAt(pts, t))
<1> DEFINE S == PointsAt(pts, t)
           f == [k \in S |-> SwapKey(swaps[places[k]])]
<1>1. S = {k \in 1..m : pts[k].t = t}
  BY DEF PointsAt, PointsOf
<1>2. IsFiniteSet(S)
  <2>1. IsFiniteSet(1..m) /\ S \in SUBSET (1..m)
    BY <1>1, FS_Interval
  <2> HIDE DEF S
  <2> QED
    BY <2>1, FS_Subset
<1>3. \A k \in S : /\ k \in 1..m /\ places[k] \in DOMAIN swaps
                   /\ swaps[places[k]].at = t /\ state_from_trade(swaps[places[k]])
  BY <1>1 DEF PointsOf
<1> HIDE DEF S
<1>4. \A k \in S : f[k] \in QuotedAt(t)
  <2> TAKE k \in S
  <2>1. swaps[places[k]] \in SwapsAt(t)
    <3>1. PICK i \in DOMAIN swaps : i = places[k]
      BY <1>3
    <3>2. swaps[i].at = t /\ swaps[i].pool = pool.pool
      BY <1>3, <3>1 DEF state_from_trade
    <3> QED
      BY <3>1, <3>2, SwapsTold
  <2> QED
    BY <1>3, <2>1 DEF QuotedAt
<1>5. f \in [S -> QuotedAt(t)]
  BY <1>4
<1>6. \A k, l \in S : f[k] = f[l] => k = l
  <2> TAKE k, l \in S
  <2> HAVE f[k] = f[l]
  <2>1. places[k] = places[l]
    BY <1>3 DEF SwapsOf
  <2> QED
    BY <1>3, <2>1 DEF PointsOf
<1>7. \A key \in QuotedAt(t) : \E k \in S : f[k] = key
  <2> TAKE key \in QuotedAt(t)
  <2>1. PICK e \in SwapsAt(t) : key = SwapKey(e) /\ state_from_trade(e)
    BY DEF QuotedAt
  <2>2. PICK i \in DOMAIN chain : Due(i) /\ e \in ToSet(PumpSwapEvents(i)) /\ e.at = t /\ ~IsPool(e) /\ e.pool = pool.pool
    BY <2>1 DEF SwapsAt
  <2>3. i \in fromPool
    <3>1. chain[i].kind = "pumpswap" /\ chain[i].pool = pool.pool
      BY <2>2, EventsOf DEF Types
    <3>2. Names(chain[i], "pool")
      BY <3>1 DEF Names
    <3> QED
      BY <2>2, <3>2 DEF Owed
  <2>4. PICK j \in DOMAIN swaps : SwapKey(swaps[j]) = SwapKey(e)
    BY <2>2, <2>3 DEF SwapsOf
  <2>5. swaps[j].pool = pool.pool /\ swaps[j].at = t
    BY <2>2, <2>4, SwapKeyTells
  <2>6. swaps[j] \in SwapsAt(t)
    BY <2>5, SwapsTold
  <2>7. state_from_trade(swaps[j])
    <3>1. PoolQuotes(swaps[j])
      BY <2>1, <2>4, <2>6 DEF QuoteAlike, state_from_trade
    <3> QED
      BY <2>1, <2>5, <3>1 DEF state_from_trade
  <2>8. swaps[j].at > Scored
    BY <2>5, TrackOneAssumption
  <2>9. PICK k \in 1..m : places[k] = j
    BY <2>7, <2>8 DEF PointsOf
  <2>10. k \in S
    BY <1>1, <2>5, <2>9 DEF PointsOf
  <2> QED
    BY <2>1, <2>4, <2>9, <2>10
<1> HIDE DEF f
<1>8. Cardinality(S) = Cardinality(QuotedAt(t))
  BY <1>2, <1>5, <1>6, <1>7, SameSize
<1> QED
  BY <1>8 DEF S

(* Sorting the points of both venues keeps them. *)
LEMMA SortedPoints ==
    ASSUME NEW P, ArePoints(P, "pump"), NEW Q, ArePoints(Q, "pumpswap"),
           NEW pts, pts = StableBy(P \o Q, LAMBDA p : p.t)
    PROVE  /\ DOMAIN pts = 1..Len(pts) /\ Len(pts) \in Nat
           /\ \A k \in DOMAIN pts : GoodPoint(pts[k]) /\ pts[k].t \in Scored + 1..End + Slack
           /\ \A t \in Nat : Cardinality(PointsAt(pts, t)) = Cardinality(PointsAt(Q, t))
<1> DEFINE all == P \o Q
           keys == [i \in DOMAIN all |-> all[i].t]
<1>1. PICK p \in Nat : DOMAIN P = 1..p /\ Len(P) = p
  BY DEF ArePoints
<1>2. PICK q \in Nat : DOMAIN Q = 1..q /\ Len(Q) = q
  BY DEF ArePoints
<1>3. /\ DOMAIN all = 1..p + q
      /\ \A i \in 1..p : all[i] = P[i]
      /\ \A i \in 1..q : all[p + i] = Q[i]
  <2>1. P \in Seq({P[k] : k \in DOMAIN P}) /\ Q \in Seq({Q[k] : k \in DOMAIN Q})
    BY DEF ArePoints
  <2>2. PICK T : P \in Seq(T) /\ Q \in Seq(T)
    <3>1. \A S, T : \A s : s \in Seq(S) /\ S \subseteq T => s \in Seq(T)
      OBVIOUS
    <3>2. PICK A, B : A = {P[k] : k \in DOMAIN P} /\ B = {Q[k] : k \in DOMAIN Q}
      OBVIOUS
    <3>3. A \subseteq A \cup B /\ B \subseteq A \cup B
      OBVIOUS
    <3>4. P \in Seq(A \cup B) /\ Q \in Seq(A \cup B)
      BY <2>1, <3>1, <3>2, <3>3
    <3> QED
      BY <3>4
  <2> QED
    BY <1>1, <1>2, <2>2
<1>4. pts = At(all, StableOrder(keys))
  BY DEF StableBy
<1>5. PICK n \in Nat : n = p + q
  OBVIOUS
<1>6. DOMAIN keys = 1..n /\ \A i \in 1..n : keys[i] = all[i].t
  BY <1>3, <1>5
<1>7. \A i \in 1..n : (i \in 1..p /\ all[i] = P[i]) \/ (i - p \in 1..q /\ all[i] = Q[i - p])
  <2> TAKE i \in 1..n
  <2>1. CASE i <= p
    BY <1>3, <2>1
  <2>2. CASE ~(i <= p)
    <3>1. i - p \in 1..q /\ i = p + (i - p)
      BY <1>5, <2>2
    <3> QED
      BY <1>3, <3>1
  <2> QED
    BY <2>1, <2>2
<1>8. \A i \in 1..n : GoodPoint(all[i]) /\ all[i].t \in Scored + 1..End + Slack /\ all[i].t \in Nat
  <2> TAKE i \in 1..n
  <2>1. GoodPoint(all[i]) /\ all[i].t \in Scored + 1..End + Slack
    BY <1>1, <1>2, <1>7 DEF ArePoints
  <2> QED
    BY <2>1 DEF GoodPoint
<1> HIDE DEF all, keys
<1>9. keys \in [1..n -> Int]
  <2>1. keys = [i \in DOMAIN keys |-> keys[i]]
    BY DEF keys
  <2> QED
    BY <1>6, <1>8, <2>1
<1>10. PICK order : order = StableOrder(keys) /\ Permutes(order, n)
  BY <1>9, SortingPermutes
<1>11. order \in [1..n -> 1..n] /\ pts = [k \in 1..n |-> all[order[k]]]
  BY <1>4, <1>10 DEF Permutes, At
<1>12. \A k \in 1..n : order[k] \in 1..n /\ pts[k] = all[order[k]]
  BY <1>11
<1>13. DOMAIN pts = 1..n /\ Len(pts) = n
  <2>1. pts = [k \in 1..n |-> pts[k]] /\ n \in Nat
    BY <1>5, <1>11
  <2> QED
    BY <2>1, IsAList
<1>14. ASSUME NEW t \in Nat
       PROVE  Cardinality(PointsAt(pts, t)) = Cardinality(PointsAt(Q, t))
  <2> DEFINE A == {i \in 1..n : all[i].venue = "pumpswap" /\ all[i].t = t}
             R == PointsAt(Q, t)
             S == PointsAt(pts, t)
             shift == [i \in R |-> p + i]
  <2>1. S \in SUBSET (1..n) /\ \A k \in 1..n : k \in S <=> order[k] \in A
    <3>1. \A k : k \in S <=> k \in 1..n /\ pts[k].venue = "pumpswap" /\ pts[k].t = t
      BY <1>13 DEF PointsAt
    <3>2. \A i \in 1..n : i \in A <=> all[i].venue = "pumpswap" /\ all[i].t = t
      OBVIOUS
    <3> HIDE DEF A, S
    <3> QED
      BY <1>12, <3>1, <3>2
  <2>2. R \in SUBSET (1..q) /\ IsFiniteSet(R)
    <3>1. R \in SUBSET (1..q) /\ IsFiniteSet(1..q)
      BY <1>2, FS_Interval DEF PointsAt
    <3> HIDE DEF R
    <3> QED
      BY <3>1, FS_Subset
  <2>3. \A i \in R : Q[i].venue = "pumpswap" /\ Q[i].t = t
    BY DEF PointsAt
  <2>4. \A i \in 1..q : Q[i].venue = "pumpswap" /\ Q[i].t = t => i \in R
    BY <1>2 DEF PointsAt
  <2>5. \A i \in 1..p : P[i].venue = "pump"
    BY <1>1 DEF ArePoints
  <2>6. \A i \in R : p + i \in A
    <3> TAKE i \in R
    <3>1. i \in 1..q /\ p + i \in 1..n
      BY <1>5, <2>2
    <3>2. all[p + i] = Q[i]
      BY <1>3, <3>1 DEF all
    <3> QED
      BY <2>3, <3>1, <3>2
  <2>7. \A a \in A : \E i \in R : p + i = a
    <3> TAKE a \in A
    <3>1. a - p \in 1..q /\ all[a] = Q[a - p]
      BY <1>7, <2>5 DEF all
    <3>2. a - p \in R /\ p + (a - p) = a
      BY <2>4, <3>1
    <3> QED
      BY <3>2
  <2>8. A \in SUBSET (1..n)
    OBVIOUS
  <2> HIDE DEF A, R, S
  <2>9. shift \in [R -> A] /\ (\A i, j \in R : shift[i] = shift[j] => i = j) /\ \A a \in A : \E i \in R : shift[i] = a
    BY <2>2, <2>6, <2>7
  <2> HIDE DEF shift
  <2>10. Cardinality(R) = Cardinality(A)
    BY <2>2, <2>9, SameSize
  <2>11. Cardinality(S) = Cardinality(A)
    BY <1>10, <2>1, <2>8, SortingKeepsCounts
  <2> QED
    BY <2>10, <2>11 DEF R, S
<1>15. \A k \in 1..n : GoodPoint(pts[k]) /\ pts[k].t \in Scored + 1..End + Slack
  BY <1>8, <1>12
<1> QED
  BY <1>13, <1>14, <1>15

-----------------------------------------------------------------------------
(* Paging.  A page has every listed transaction from its oldest up to the  *)
(* cursor, and one that is not full is the last.                           *)
Older == {i \in Index : i < before}

LEMMA PageIsClosed ==
    ASSUME Types
    PROVE  /\ Page \in SUBSET Older /\ Older \in SUBSET (DOMAIN chain) /\ IsFiniteSet(Older)
           /\ \A k \in Page : \A i \in Older : k <= i => i \in Page
           /\ Cardinality(Page) < Limit => Page = Older
<1> DEFINE newer(i) == {j \in Older : i < j}
<1>1. /\ IsFiniteSet(DOMAIN chain)
      /\ \A i \in DOMAIN chain : i \in 1..MaxChain
      /\ \E n \in Nat : DOMAIN chain = 1..n
  BY ChainTyped DEF Types
<1>2. Older \in SUBSET (DOMAIN chain) /\ IsFiniteSet(Older)
  <2>1. Older \in SUBSET (DOMAIN chain)
    BY DEF Older, Index
  <2> QED
    BY <1>1, <2>1, FS_Subset
<1>3. Page = {i \in Older : Cardinality(newer(i)) < Limit}
  BY DEF Page, Older
<1>4. Page \in SUBSET Older
  BY <1>3
<1>5. \A i \in Older : i \in Int
  BY <1>1, <1>2
<1>6. \A i : newer(i) \in SUBSET Older
  OBVIOUS
<1>7. \A i : IsFiniteSet(newer(i)) /\ Cardinality(newer(i)) \in Nat
  <2> HIDE DEF newer
  <2> QED
    BY <1>2, <1>6, FS_Subset, FS_CardinalityType
<1>8. ASSUME NEW k \in Page, NEW i \in Older, k <= i PROVE i \in Page
  <2>1. newer(i) \subseteq newer(k)
    BY <1>4, <1>5, <1>8
  <2>2. Cardinality(newer(k)) < Limit
    BY <1>3
  <2> HIDE DEF newer
  <2>3. Cardinality(newer(i)) <= Cardinality(newer(k))
    BY <1>7, <2>1, FS_Subset
  <2>4. Cardinality(newer(i)) < Limit
    BY <1>7, <2>2, <2>3, TrackOneAssumption
  <2> QED
    BY <1>3, <2>4
<1>9. ASSUME Cardinality(Page) < Limit PROVE Page = Older
  <2> DEFINE rest == Older \ Page
  <2>1. SUFFICES ASSUME rest # {} PROVE FALSE
    BY <1>4
  <2>2. PICK n \in Nat : DOMAIN chain = 1..n
    BY <1>1
  <2>3. PICK i \in rest : \A j \in rest : j <= i
    <3>1. rest \in SUBSET (1..n)
      BY <1>2, <2>2
    <3> HIDE DEF rest
    <3> QED
      BY <2>1, <2>2, <3>1, GreatestNumber
  <2>4. newer(i) \subseteq Page
    BY <1>5, <2>3
  <2>5. ~(Cardinality(newer(i)) < Limit)
    BY <1>3, <2>3
  <2>6. IsFiniteSet(Page) /\ Cardinality(Page) \in Nat
    BY <1>2, <1>4, FS_Subset, FS_CardinalityType
  <2> HIDE DEF newer
  <2>7. Cardinality(newer(i)) <= Cardinality(Page)
    BY <2>4, <2>6, FS_Subset
  <2> QED
    BY <1>7, <1>9, <2>5, <2>6, <2>7, TrackOneAssumption
<1> QED
  BY <1>2, <1>4, <1>8, <1>9

(* What is due is in the window: the pool followed is created once, and    *)
(* swaps come after.                                                       *)
LEMMA NothingBeforeThePool ==
    ASSUME Types, Followed, pc \in {"pool", "poolTxs"}, NEW i \in DOMAIN chain, Names(chain[i], "pool")
    PROVE  pool.at \in Nat /\ pool.at <= chain[i].t
<1>1. PICK j \in fetched : pool \in ToSet(PumpSwapEvents(j)) /\ IsPool(pool)
  BY DEF Followed
<1>2. j \in DOMAIN chain /\ chain \in Chains
  BY DEF Types
<1>3. /\ chain[j].kind = "pumpswap" /\ chain[j].ok /\ chain[j].creates
      /\ pool.at = chain[j].t /\ pool.pool = chain[j].pool
  BY <1>1, <1>2, EventsOf
<1>4. chain[i].kind = "pumpswap" /\ chain[i].pool = pool.pool
  BY DEF Names
<1>5. PICK k \in 1..i : Creates(chain[k], chain[i].pool)
  BY <1>2, <1>4 DEF Chains
<1>6. k \in DOMAIN chain /\ i \in Nat
  <2>1. PICK n \in Nat : DOMAIN chain = 1..n
    BY <1>2, ChainTyped
  <2> QED
    BY <2>1
<1>7. k = j
  <2>1. Creates(chain[j], chain[j].pool) /\ Creates(chain[k], chain[j].pool)
    BY <1>3, <1>4, <1>5 DEF Creates
  <2> QED
    BY <1>2, <1>3, <1>6, <2>1 DEF Chains
<1>8. chain[k].t <= chain[i].t /\ chain[k].t \in Nat
  <2>1. k = i \/ k < i
    BY <1>6
  <2>2. chain[i].t \in Nat /\ chain[k].t \in Nat
    BY <1>2, <1>6, ChainTyped
  <2> QED
    BY <1>2, <1>6, <2>1, <2>2, ChainTyped
<1> QED
  BY <1>3, <1>7, <1>8

LEMMA DueInWindow ==
    ASSUME Types, Followed, pc \in {"mint", "pool"}, NEW i \in Owed(pc)
    PROVE  Start \in Int /\ i \in Index /\ InWindow(i) /\ chain[i].t >= Start - Slack
<1>1. i \in DOMAIN chain /\ Names(chain[i], pc) /\ chain[i].ok /\ chain[i].timed /\ chain[i].t \in Scored + 1..End
  BY DEF Owed, Due
<1>2. Address = pc
  BY DEF Address
<1>3. {Scored, End, Lookback, Slack} \subseteq Nat
  BY TrackOneAssumption
<1>4. PICK s \in Nat : s = AtLeastZero(Scored - Lookback) /\ s <= Scored
  BY <1>3 DEF AtLeastZero
<1>5. CASE pc = "mint"
  <2>1. Start = s
    BY <1>2, <1>4, <1>5 DEF Start
  <2> QED
    BY <1>1, <1>2, <1>3, <1>4, <2>1 DEF Index, InWindow
<1>6. CASE pc = "pool"
  <2>1. PICK a \in Nat : a = pool.at /\ a <= chain[i].t
    BY <1>1, <1>6, NothingBeforeThePool
  <2>2. Start = s \/ Start = a - Slack
    BY <1>2, <1>4, <1>6, <2>1 DEF Start
  <2> QED
    BY <1>1, <1>2, <1>3, <1>4, <2>1, <2>2 DEF Index, InWindow
<1> QED
  BY <1>5, <1>6

-----------------------------------------------------------------------------
(* What a step that leaves the chain, or the pool, alone keeps. *)
LEMMA OwedStays ==
    ASSUME chain' = chain
    PROVE  Owed("mint")' = Owed("mint") /\ (pool' = pool => Owed("pool")' = Owed("pool"))
BY DEF Owed, Names, Due

(* Before the summary nothing is claimed. *)
LEMMA NoClaim ==
    ASSUME Open, pc # "done", points' = points, summary' = summary,
           status' = status \/ status' = "OUTCOME_INCOMPLETE", pc' # "done" => status' = status
    PROVE  Open' /\ Labelled' /\ CompleteCoversWindow' /\ status' # "COMPLETE"
<1>1. status = None /\ summary = None /\ None # "COMPLETE"
  BY TrackOneAssumption DEF Open
<1>2. status' # "COMPLETE"
  BY <1>1
<1>3. Open'
  BY <1>1 DEF Open
<1>4. Labelled'
  BY <1>1 DEF Labelled
<1>5. CompleteCoversWindow'
  BY <1>2 DEF CompleteCoversWindow
<1> QED
  BY <1>2, <1>3, <1>4, <1>5

LEMMA InitHolds ==
    ASSUME Init
    PROVE  IInv
<1>1. chain \in Chains /\ MaxChain \in Nat /\ None # "COMPLETE"
  BY TrackOneAssumption DEF Init
<1>2. Types
  <2>1. before \in 1..MaxChain + 1
    <3>1. MaxChain + 1 \in 1..MaxChain + 1
      BY <1>1
    <3> QED
      BY <3>1 DEF Init
  <2>2. found \cup fetched \cup fromPool \subseteq DOMAIN chain
    BY DEF Init
  <2> QED
    BY <2>1, <2>2 DEF Init, Types, Stages
<1>3. Funded /\ Open /\ Labelled
  BY DEF Init, Funded, Open, Labelled
<1>4. Timely
  BY DEF Init, Timely
<1>5. Paged
  <2>1. \A i \in Owed(pc) : ~(before <= i)
    <3>1. \A i \in DOMAIN chain : i \in 1..MaxChain
      BY <1>1, ChainTyped
    <3> QED
      BY <1>1, <3>1 DEF Init, Owed
  <2> QED
    BY <2>1 DEF Init, Paged
<1>6. Collected /\ Followed /\ CompleteCoversWindow
  BY <1>1 DEF Init, Collected, Followed, CompleteCoversWindow
<1> QED
  BY <1>2, <1>3, <1>4, <1>5, <1>6 DEF IInv

LEMMA QuarantineHolds ==
    ASSUME IInv, Quarantine
    PROVE  IInv'
<1> USE DEF Quarantine, pageVars
<1>1. Types' /\ Timely' /\ Paged' /\ Funded'
  BY DEF IInv, Types, Stages, Timely, Paged, Funded
<1>2. Open' /\ Labelled' /\ CompleteCoversWindow' /\ status' # "COMPLETE"
  BY NoClaim DEF IInv
<1>3. Collected'
  BY <1>2 DEF Collected
<1>4. Followed'
  BY DEF IInv, Followed, PumpSwapEvents
<1> QED
  BY <1>1, <1>2, <1>3, <1>4 DEF IInv

LEMMA ReadPageHolds ==
    ASSUME IInv, ReadPage
    PROVE  IInv'
<1>1. Types /\ Timely /\ Paged /\ Followed /\ Open /\ pc \in {"mint", "pool"} /\ Quoted /\ ~reached
  BY DEF IInv, ReadPage, Paging
<1>2. /\ pages' = pages + 1 /\ reached' = ReachesStart(Page)
      /\ before' = IF reached' THEN before ELSE CHOOSE i \in Page : \A j \in Page : i <= j
      /\ UNCHANGED <<chain, entry, pc, broken, flawed, fetched, pool, fromPool, status, points, summary>>
  BY DEF ReadPage
<1>3. found' = found \cup {i \in Page : InWindow(i)}
  BY DEF ReadPage
<1>4. /\ Page \in SUBSET Older /\ Older \in SUBSET (DOMAIN chain) /\ IsFiniteSet(Older)
      /\ \A k \in Page : \A i \in Older : k <= i => i \in Page
      /\ Cardinality(Page) < Limit => Page = Older
  BY <1>1, PageIsClosed
<1>5. \A i \in DOMAIN chain : i \in 1..MaxChain /\ chain[i].t \in Nat
  BY <1>1, ChainTyped DEF Types
<1>6. ASSUME ~reached'
      PROVE  before' \in Page /\ \A j \in Page : before' <= j
  <2>1. Page # {}
    <3>1. ~(Cardinality(Page) < Limit)
      BY <1>2, <1>6 DEF ReachesStart
    <3> QED
      BY <3>1, FS_EmptySet, TrackOneAssumption
  <2>2. Page \in SUBSET Nat
    BY <1>4, <1>5
  <2>3. \E i \in Page : \A j \in Page : i <= j
    BY <2>1, <2>2, LeastNumber
  <2> QED
    BY <1>2, <1>6, <2>3
<1>7. before' \in 1..MaxChain + 1 /\ before \in 1..MaxChain + 1 /\ MaxChain \in Nat
  <2>1. before \in 1..MaxChain + 1 /\ MaxChain \in Nat
    BY <1>1, TrackOneAssumption DEF Types
  <2>2. CASE reached'
    BY <1>2, <2>1, <2>2
  <2>3. CASE ~reached'
    BY <1>4, <1>5, <1>6, <2>1, <2>3
  <2> QED
    BY <2>1, <2>2, <2>3
<1>8. Types'
  <2>1. reached' \in BOOLEAN
    BY <1>2 DEF ReachesStart
  <2>2. pages' \in Nat
    BY <1>1, <1>2 DEF Types
  <2>3. found' \subseteq DOMAIN chain
    BY <1>1, <1>3, <1>4 DEF Types
  <2> QED
    BY <1>1, <1>2, <1>7, <2>1, <2>2, <2>3 DEF Types
<1>9. Timely'
  <2>1. \A i \in Page : InWindow(i) => chain[i].ok /\ chain[i].timed /\ chain[i].t <= End + Slack
    <3>1. {End, Slack} \subseteq Nat
      BY TrackOneAssumption
    <3> QED
      BY <1>4, <1>5, <3>1 DEF InWindow
  <2> QED
    BY <1>1, <1>2, <1>3, <2>1 DEF Timely
<1>10. ASSUME NEW i \in Owed(pc), reached' \/ before' <= i
       PROVE  i \in found'
  <2>1. i \in Index /\ InWindow(i) /\ chain[i].t >= Start - Slack /\ Start \in Int /\ i \in DOMAIN chain
    BY <1>1, DueInWindow DEF Owed
  <2>2. i \in Int /\ before \in Int
    BY <1>5, <1>7, <2>1
  <2>3. CASE before <= i
    BY <1>1, <1>3, <2>3 DEF Paged
  <2>4. CASE ~(before <= i)
    <3>1. i \in Older
      BY <2>1, <2>2, <2>4 DEF Older
    <3>2. i \in Page
      <4>1. CASE Cardinality(Page) < Limit
        BY <1>4, <3>1, <4>1
      <4>2. CASE \E k \in Page : chain[k].timed /\ chain[k].t < Start - Slack
        <5>1. PICK k \in Page : chain[k].t < Start - Slack
          BY <4>2
        <5>2. k \in DOMAIN chain /\ k \in Int /\ chain[k].t \in Nat /\ chain[i].t \in Nat /\ Slack \in Nat
          BY <1>4, <1>5, <2>1, TrackOneAssumption
        <5>3. chain[k].t < chain[i].t
          BY <2>1, <5>1, <5>2
        <5>4. ~(i < k) /\ i # k
          BY <1>1, <2>1, <5>2, <5>3, ChainTyped DEF Types
        <5>5. k <= i
          BY <2>2, <5>2, <5>4
        <5> QED
          BY <1>4, <3>1, <5>5
      <4>3. CASE ~reached'
        BY <1>4, <1>6, <1>10, <3>1, <4>3
      <4> QED
        BY <1>2, <4>1, <4>2, <4>3 DEF ReachesStart
    <3> QED
      BY <1>3, <2>1, <3>2
  <2> QED
    BY <2>3, <2>4
<1>11. Paged'
  <2>1. Owed(pc)' = Owed(pc)
    BY <1>1, <1>2, OwedStays
  <2>2. pages' # 0
    BY <1>1, <1>2 DEF Types
  <2> QED
    BY <1>2, <1>10, <2>1, <2>2 DEF Paged
<1>12. Open' /\ Labelled' /\ CompleteCoversWindow' /\ status' # "COMPLETE"
  BY <1>1, <1>2, NoClaim
<1>13. Collected'
  <2>1. Collected /\ Owed("mint")' = Owed("mint")
    BY <1>2, OwedStays DEF IInv
  <2> QED
    BY <1>1, <1>2, <1>12, <2>1 DEF Collected
<1>14. Followed' /\ Funded'
  BY <1>1, <1>2 DEF Followed, PumpSwapEvents, Funded, Quoted
<1> QED
  BY <1>8, <1>9, <1>11, <1>12, <1>13, <1>14 DEF IInv

LEMMA PageFailsHolds ==
    ASSUME IInv, PageFails
    PROVE  IInv'
<1>1. /\ Types /\ Paged /\ Open /\ Collected /\ pc \in {"mint", "pool"} /\ Quoted
      /\ pages' = pages + 1 /\ broken' = TRUE
      /\ UNCHANGED <<chain, entry, pc, before, reached, found, flawed, fetched, pool, fromPool,
                     status, points, summary>>
  BY DEF IInv, PageFails, Paging
<1>2. Types' /\ Timely'
  BY <1>1 DEF IInv, Types, Timely
<1>3. Paged'
  <2>1. Owed(pc)' = Owed(pc) /\ pages' # 0
    BY <1>1, OwedStays DEF Types
  <2> QED
    BY <1>1, <2>1 DEF Paged
<1>4. Open' /\ Labelled' /\ CompleteCoversWindow' /\ status' # "COMPLETE"
  BY <1>1, NoClaim
<1>5. Collected'
  <2>1. Owed("mint")' = Owed("mint")
    BY <1>1, OwedStays
  <2> QED
    BY <1>1, <1>4, <2>1 DEF Collected
<1>6. Followed' /\ Funded'
  BY <1>1 DEF IInv, Followed, PumpSwapEvents, Funded, Quoted
<1> QED
  BY <1>2, <1>3, <1>4, <1>5, <1>6 DEF IInv

LEMMA EndPagingHolds ==
    ASSUME IInv, EndPaging
    PROVE  IInv'
<1>1. /\ Types /\ Paged /\ Open /\ Collected /\ Followed /\ Funded /\ pc \in {"mint", "pool"}
      /\ reached \/ broken \/ pages = MaxPages
      /\ flawed' = (flawed \/ ~reached)
      /\ pc' = IF pc = "mint" THEN "mintTxs" ELSE "poolTxs"
      /\ UNCHANGED <<chain, entry, pageVars, fetched, pool, fromPool, status, points, summary>>
  BY DEF IInv, EndPaging, HistoryFlaw
<1> USE DEF pageVars
<1>2. Types' /\ Timely' /\ Paged'
  BY <1>1 DEF IInv, Types, Stages, Timely, Paged
<1>3. Open' /\ Labelled' /\ CompleteCoversWindow' /\ status' # "COMPLETE"
  BY <1>1, NoClaim
<1>4. Collected'
  <2>1. Owed("mint")' = Owed("mint") /\ Owed("pool")' = Owed("pool")
    BY <1>1, OwedStays
  <2>2. ~flawed' => Owed(pc) \subseteq found
    BY <1>1 DEF Paged
  <2>3. ~flawed' /\ pc = "pool" => Owed("mint") \subseteq fetched
    BY <1>1 DEF Collected
  <2> QED
    BY <1>1, <1>3, <2>1, <2>2, <2>3 DEF Collected
<1>5. Followed'
  BY <1>1 DEF Followed, PumpSwapEvents
<1>6. Funded'
  <2>1. Quoted
    <3>1. CASE pages = 0
      <4>1. ~reached /\ ~broken /\ pages # MaxPages
        BY <3>1, <1>1, TrackOneAssumption DEF Paged
      <4> QED
        BY <1>1, <4>1
    <3>2. CASE pages # 0
      BY <1>1, <3>2 DEF Funded
    <3> QED
      BY <3>1, <3>2
  <2> QED
    BY <1>1, <2>1 DEF Funded, Quoted
<1> QED
  BY <1>2, <1>3, <1>4, <1>5, <1>6 DEF IInv

LEMMA FetchMintHolds ==
    ASSUME IInv, NEW got \in SUBSET found, FetchMint(got)
    PROVE  IInv'
<1>1. /\ Types /\ Timely /\ Open /\ Collected /\ Followed /\ Quoted /\ pc = "mintTxs"
      /\ fetched' = got /\ flawed' = (flawed \/ got # found)
      /\ UNCHANGED <<chain, entry, fromPool, status, points, summary>>
  BY DEF IInv, FetchMint, Funded
<1>2. IF Pools(got) = {}
      THEN pool' = None /\ pc' = "summary" /\ UNCHANGED pageVars
      ELSE /\ \E e \in Pools(got) : IsFirstPool(e, got) /\ pool' = e
           /\ pc' = "pool"
           /\ before' = MaxChain + 1 /\ pages' = 0
           /\ reached' = FALSE /\ broken' = FALSE
           /\ found' = {}
  BY DEF FetchMint
<1>3. (pool' = None /\ pc' = "summary" /\ UNCHANGED pageVars)
      \/ /\ pool' \in Pools(got) /\ pc' = "pool"
         /\ before' = MaxChain + 1 /\ pages' = 0 /\ reached' = FALSE /\ broken' = FALSE /\ found' = {}
  BY <1>2
<1>4. Types' /\ Timely'
  <2>1. MaxChain + 1 \in 1..MaxChain + 1
    BY TrackOneAssumption
  <2>2. before' \in 1..MaxChain + 1 /\ pages' \in Nat /\ {reached', broken'} \subseteq BOOLEAN
    <3>1. CASE UNCHANGED pageVars
      BY <1>1, <3>1 DEF pageVars, Types
    <3>2. CASE before' = MaxChain + 1 /\ pages' = 0 /\ reached' = FALSE /\ broken' = FALSE
      <4>1. before' \in 1..MaxChain + 1
        BY <2>1, <3>2
      <4>2. pages' \in Nat /\ reached' \in BOOLEAN /\ broken' \in BOOLEAN
        BY <3>2
      <4> QED
        BY <4>1, <4>2
    <3> QED
      BY <1>3, <3>1, <3>2
  <2>3. pc' \in Stages /\ found' \subseteq found
    BY <1>3 DEF pageVars, Stages
  <2>4. flawed' \in BOOLEAN
    BY <1>1
  <2>5. Types'
    BY <1>1, <2>2, <2>3, <2>4 DEF Types
  <2>6. Timely'
    BY <1>1, <2>3 DEF Timely
  <2> QED
    BY <2>5, <2>6
<1>5. Open' /\ Labelled' /\ CompleteCoversWindow' /\ status' # "COMPLETE"
  BY <1>1, <1>3, NoClaim
<1>6. Collected'
  <2>1. Owed("mint")' = Owed("mint")
    BY <1>1, OwedStays
  <2>2. ~flawed' => Owed("mint") \subseteq fetched'
    BY <1>1 DEF Collected
  <2> QED
    BY <1>3, <1>5, <2>1, <2>2 DEF Collected
<1>7. Paged'
  <2>1. \A i \in DOMAIN chain : ~(MaxChain + 1 <= i)
    <3>1. \A i \in DOMAIN chain : i \in 1..MaxChain
      BY <1>1, ChainTyped DEF Types
    <3> QED
      BY <3>1, TrackOneAssumption
  <2>2. \A i \in Owed(pc)' : i \in DOMAIN chain
    BY <1>1 DEF Owed
  <2> QED
    BY <1>3, <2>1, <2>2 DEF Paged
<1>8. Followed'
  <2>1. pool' \in Pools(got) => \E i \in got : pool' \in ToSet(PumpSwapEvents(i)) /\ IsPool(pool')
    BY DEF Pools
  <2>2. \A i : PumpSwapEvents(i)' = PumpSwapEvents(i)
    BY <1>1 DEF PumpSwapEvents
  <2> QED
    BY <1>1, <1>3, <2>1, <2>2 DEF Followed
<1>9. Funded'
  BY <1>1 DEF Funded, Quoted
<1> QED
  BY <1>4, <1>5, <1>6, <1>7, <1>8, <1>9 DEF IInv

LEMMA FetchPoolHolds ==
    ASSUME IInv, NEW got \in SUBSET found, FetchPool(got)
    PROVE  IInv'
<1>1. /\ Types /\ Timely /\ Open /\ Collected /\ Followed /\ Quoted /\ pc = "poolTxs"
      /\ fromPool' = got /\ flawed' = (flawed \/ got # found) /\ pc' = "summary"
      /\ UNCHANGED <<chain, entry, pageVars, fetched, pool, status, points, summary>>
  BY DEF IInv, FetchPool, Funded
<1> USE DEF pageVars
<1>2. Types' /\ Timely' /\ Paged'
  BY <1>1 DEF Types, Stages, Timely, Paged
<1>3. Open' /\ Labelled' /\ CompleteCoversWindow' /\ status' # "COMPLETE"
  BY <1>1, NoClaim
<1>4. Collected'
  <2>1. Owed("mint")' = Owed("mint") /\ Owed("pool")' = Owed("pool")
    BY <1>1, OwedStays
  <2>2. ~flawed' => Owed("mint") \subseteq fetched /\ Owed("pool") \subseteq got
    BY <1>1 DEF Collected
  <2> QED
    BY <1>1, <1>3, <2>1, <2>2 DEF Collected
<1>5. Followed' /\ Funded'
  BY <1>1 DEF Followed, PumpSwapEvents, Funded, Quoted
<1> QED
  BY <1>2, <1>3, <1>4, <1>5 DEF IInv

(* The summary: every due trade is fetched, each becomes a good point, and *)
(* sorting keeps them.                                                     *)
LEMMA SummarizeHolds ==
    ASSUME IInv, Summarize
    PROVE  IInv'
<1>1. /\ Types /\ Timely /\ Open /\ Collected /\ Followed /\ Quoted /\ pc = "summary" /\ pc' = "done"
      /\ status' = IF flawed THEN "OUTCOME_INCOMPLETE" ELSE "COMPLETE"
      /\ summary' = summarize_executable_path(points')
      /\ UNCHANGED <<chain, entry, pageVars, flawed, fetched, pool, fromPool>>
  BY DEF IInv, Summarize, Funded
<1>2. PICK order \in SetToSeqs(fetched \cup fromPool) :
        points' = StableBy(pump_exit_points(Those(order, LAMBDA i : i \in fetched)) \o PoolPoints(order),
                           LAMBDA p : p.t)
  BY DEF Summarize
<1>3. order \in Seq(DOMAIN chain) /\ ToSet(order) = fetched \cup fromPool
  BY <1>1, Orders
<1>4. PICK ofMint \in Seq(DOMAIN chain) : /\ ofMint = Those(order, LAMBDA i : i \in fetched)
                                          /\ ToSet(ofMint) \subseteq fetched \cup fromPool
  <2> DEFINE I == {k \in DOMAIN order : order[k] \in fetched}
  <2>1. Those(order, LAMBDA i : i \in fetched) = At(order, Ascending(I))
    BY DEF Those
  <2>2. I \subseteq 1..Len(order) /\ \A k \in I : order[k] \in fetched
    BY <1>3
  <2> HIDE DEF I
  <2>3. At(order, Ascending(I)) \in Seq(DOMAIN chain) /\ ToSet(At(order, Ascending(I))) = {order[k] : k \in I}
    BY <1>3, <2>2, SelectedPlaces
  <2>4. ToSet(At(order, Ascending(I))) \subseteq fetched \cup fromPool
    BY <2>2, <2>3
  <2> QED
    BY <2>1, <2>3, <2>4
<1>5. PICK P, Q : P = pump_exit_points(ofMint) /\ Q = PoolPoints(order)
  OBVIOUS
<1>6. points' = StableBy(P \o Q, LAMBDA p : p.t)
  BY <1>2, <1>4, <1>5
<1>7. ArePoints(P, "pump")
  BY <1>1, <1>4, <1>5, PumpPoints
<1>8. PICK swaps : swaps = Swaps(order) /\ SwapsOf(swaps)
  BY <1>1, <1>3, SwapsAre DEF Types
<1>9. pool # None => Q = pumpswap_exit_points(swaps)
  BY <1>5, <1>8 DEF PoolPoints
<1>10. ArePoints(Q, "pumpswap")
  <2>1. CASE pool = None
    BY <1>5, <2>1 DEF PoolPoints, ArePoints
  <2>2. CASE pool # None
    BY <1>1, <1>8, <1>9, <2>2, SwapPoints
  <2> QED
    BY <2>1, <2>2
<1>11. PICK pts : pts = points'
  OBVIOUS
<1>12. /\ DOMAIN pts = 1..Len(pts) /\ Len(pts) \in Nat
       /\ \A k \in DOMAIN pts : GoodPoint(pts[k]) /\ pts[k].t \in Scored + 1..End + Slack
       /\ \A t \in Nat : Cardinality(PointsAt(pts, t)) = Cardinality(PointsAt(Q, t))
  BY <1>6, <1>7, <1>10, <1>11, SortedPoints
<1> USE DEF pageVars
<1>13. Types' /\ Timely' /\ Paged'
  BY <1>1 DEF Types, Stages, Timely, Paged
<1>14. Funded' /\ Open'
  BY <1>1 DEF Funded, Open
<1>15. Followed'
  BY <1>1 DEF Followed, PumpSwapEvents
<1>16. Owed("mint")' = Owed("mint") /\ Owed("pool")' = Owed("pool")
  BY <1>1, OwedStays
<1>17. ~flawed => Owed("mint") \subseteq fetched /\ (pool # None => Owed("pool") \subseteq fromPool)
  BY <1>1 DEF Collected
<1>18. Collected'
  BY <1>1, <1>16, <1>17 DEF Collected
<1>19. Labelled'
  BY <1>1, <1>11, <1>12 DEF Labelled
<1>20. ASSUME ~flawed
       PROVE  /\ \A k \in DOMAIN pts : pts[k].t \in Scored + 1..End + Slack
              /\ \A i \in DOMAIN chain :
                   Due(i) /\ (chain[i].kind = "pump" \/ chain[i].creates) => i \in fetched
              /\ pool # None => \A t \in Scored + 1..End : QuoteAlike(SwapsAt(t)) =>
                   Cardinality(QuotedAt(t)) = Cardinality(PointsAt(pts, t))
  <2>1. ASSUME NEW i \in DOMAIN chain, Due(i), chain[i].kind = "pump" \/ chain[i].creates
        PROVE  i \in fetched
    <3>1. chain[i] \in Txs
      BY <1>1, ChainTyped DEF Types
    <3>2. Names(chain[i], "mint")
      BY <2>1, <3>1, TrackOneAssumption DEF Names, IsPumpSwapTx
    <3> QED
      BY <1>17, <1>20, <2>1, <3>2 DEF Owed
  <2>2. ASSUME pool # None, NEW t \in Scored + 1..End, QuoteAlike(SwapsAt(t))
        PROVE  Cardinality(QuotedAt(t)) = Cardinality(PointsAt(pts, t))
    <3>1. PICK m \in Nat : \E places : PointsOf(Q, swaps, m, places)
      BY <1>1, <1>8, <1>9, <2>2, SwapPoints
    <3>2. PICK places : PointsOf(Q, swaps, m, places)
      BY <3>1
    <3>3. \A k \in DOMAIN Q : Q[k].venue = "pumpswap"
      BY <1>10 DEF ArePoints
    <3>4. Cardinality(QuotedAt(t)) = Cardinality(PointsAt(Q, t))
      BY <1>1, <1>8, <1>17, <1>20, <2>2, <3>1, <3>2, <3>3, OnePointEach
    <3>5. t \in Nat
      BY TrackOneAssumption
    <3> QED
      BY <1>12, <3>4, <3>5
  <2> QED
    BY <1>12, <2>1, <2>2
<1>21. CompleteCoversWindow'
  <2>1. \A i : Due(i)' <=> Due(i)
    BY <1>1 DEF Due
  <2>2. \A t : SwapsAt(t)' = SwapsAt(t) /\ QuotedAt(t)' = QuotedAt(t) /\ PointsAt(pts, t) = PointsAt(points', t)
    BY <1>1, <1>11 DEF SwapsAt, QuotedAt, PumpSwapEvents, Due, state_from_trade
  <2>3. status' = "COMPLETE" => ~flawed
    BY <1>1
  <2> QED
    BY <1>1, <1>11, <1>20, <2>1, <2>2, <2>3 DEF CompleteCoversWindow, QuotedAt, PointsAt
<1> QED
  BY <1>13, <1>14, <1>15, <1>18, <1>19, <1>21 DEF IInv

THEOREM TrackOneInvariant == Spec => []IInv
<1>1. Init => IInv
  BY InitHolds
<1>2. IInv /\ [Next]_vars => IInv'
  <2> SUFFICES ASSUME IInv, [Next]_vars PROVE IInv'
    OBVIOUS
  <2>1. CASE Quarantine
    BY <2>1, QuarantineHolds
  <2>2. CASE ReadPage
    BY <2>2, ReadPageHolds
  <2>3. CASE PageFails
    BY <2>3, PageFailsHolds
  <2>4. CASE EndPaging
    BY <2>4, EndPagingHolds
  <2>5. ASSUME NEW got \in SUBSET found, FetchMint(got) PROVE IInv'
    BY <2>5, FetchMintHolds
  <2>6. ASSUME NEW got \in SUBSET found, FetchPool(got) PROVE IInv'
    BY <2>6, FetchPoolHolds
  <2>7. CASE Summarize
    BY <2>7, SummarizeHolds
  <2>8. CASE UNCHANGED vars
    <3> USE <2>8 DEF vars, pageVars
    <3>1. Types' /\ Funded' /\ Timely' /\ Open'
      BY DEF IInv, Types, Funded, Quoted, Timely, Open
    <3>2. Paged' /\ Collected'
      <4>1. Owed("mint")' = Owed("mint") /\ Owed("pool")' = Owed("pool")
        BY OwedStays
      <4> QED
        BY <4>1 DEF IInv, Paged, Collected
    <3>3. Followed'
      BY DEF IInv, Followed, PumpSwapEvents
    <3>4. Labelled'
      BY DEF IInv, Labelled
    <3>5. CompleteCoversWindow'
      BY DEF IInv, CompleteCoversWindow, Due, SwapsAt, PumpSwapEvents, state_from_trade
    <3> QED
      BY <3>1, <3>2, <3>3, <3>4, <3>5 DEF IInv
  <2> QED
    BY <2>1, <2>2, <2>3, <2>4, <2>5, <2>6, <2>7, <2>8 DEF Next
<1> QED
  BY <1>1, <1>2, PTL DEF Spec

-----------------------------------------------------------------------------
(* A COMPLETE outcome misses nothing that is due, and gives one point for  *)
(* each swap that quotes (CompleteCoversWindow).                           *)
THEOREM TrackOneCoversWindow == Spec => []CompleteCoversWindow
<1>1. IInv => CompleteCoversWindow
  BY DEF IInv
<1> QED
  BY <1>1, TrackOneInvariant, PTL

UpTimes(pts, f, g) == {pts[i].t : i \in {j \in DOMAIN pts : Reaches(pts[j][f], g)}}

DownTimes(pts, f) == {pts[i].t : i \in {j \in DOMAIN pts : Falls(pts[j][f])}}

LEMMA LabelIsPassage ==
    ASSUME Labelled, summary # None, NEW f \in {"observed", "executable"}, NEW g \in Targets
    PROVE  /\ IsPassage(summary[f][g], UpTimes(points, f, g), DownTimes(points, f))
           /\ UpTimes(points, f, g) \in SUBSET Nat /\ DownTimes(points, f) \in SUBSET Nat
<1>1. PICK n \in Nat : DOMAIN points = 1..n
  BY DEF Labelled
<1>2. \A i \in 1..n : points[i].t \in Nat /\ IsFraction(points[i][f])
  <2>1. \A i \in 1..n : GoodPoint(points[i])
    BY <1>1 DEF Labelled
  <2> QED
    BY <2>1 DEF GoodPoint
<1>3. PICK path : path = Path(points, f)
  OBVIOUS
<1>4. DOMAIN path = 1..n /\ \A i \in 1..n : path[i].t = points[i].t /\ path[i].m = points[i][f]
  BY <1>1, <1>3 DEF Path
<1>5. IsPath(path, n)
  BY <1>2, <1>4 DEF IsPath
<1>6. g \in Nat \ {0, 1}
  BY TrackOneAssumption
<1>7. IsPassage(FirstPassage(path, g), Ups(path, g), Downs(path))
  BY <1>5, <1>6, Passage
<1>8. Ups(path, g) = UpTimes(points, f, g) /\ Downs(path) = DownTimes(points, f)
  <2>1. Ups(path, g) = UpTimes(points, f, g)
    BY <1>1, <1>4 DEF Ups, UpTimes
  <2>2. Downs(path) = DownTimes(points, f)
    BY <1>1, <1>4 DEF Downs, DownTimes
  <2> QED
    BY <2>1, <2>2
<1>9. summary[f][g] = FirstPassage(path, g)
  BY <1>3 DEF Labelled, summarize_executable_path
<1>10. UpTimes(points, f, g) \in SUBSET Nat /\ DownTimes(points, f) \in SUBSET Nat
  BY <1>1, <1>2 DEF UpTimes, DownTimes
<1> QED
  BY <1>7, <1>8, <1>9, <1>10

(* A label does not depend on how a second was assembled (LabelOrderFree). *)
THEOREM TrackOneLabels == Spec => []LabelOrderFree
<1>1. IInv => LabelOrderFree
  <2> SUFFICES ASSUME Labelled, summary # None, NEW f \in DOMAIN summary, NEW g \in Targets
               PROVE  LET m(i) == points[i][f]
                          up == First({points[i].t : i \in {j \in DOMAIN points : Reaches(m(j), g)}})
                          down == First({points[i].t : i \in {j \in DOMAIN points : Falls(m(j))}})
                          label == summary[f][g]
                      IN  /\ label.event = "target" <=> up # None /\ (down # None => up < down)
                          /\ label.event = "censored" <=> up = None /\ down = None
                          /\ label.event = "target" => label.t = up
                          /\ label.event = "drawdown" => label.t = down
    <3>1. IInv => Labelled
      BY DEF IInv
    <3> QED
      BY <3>1 DEF LabelOrderFree
  <2>1. f \in {"observed", "executable"}
    BY DEF Labelled, summarize_executable_path
  <2>2. PICK ups \in SUBSET Nat, downs \in SUBSET Nat :
          /\ ups = UpTimes(points, f, g) /\ downs = DownTimes(points, f)
          /\ IsPassage(summary[f][g], ups, downs)
    BY <2>1, LabelIsPassage
  <2>3. PICK up, down, label : up = First(ups) /\ down = First(downs) /\ label = summary[f][g]
    OBVIOUS
  <2>4. /\ label.event = "target" <=> up # None /\ (down # None => up < down)
        /\ label.event = "censored" <=> up = None /\ down = None
        /\ label.event = "target" => label.t = up
        /\ label.event = "drawdown" => label.t = down
    BY <2>2, <2>3, PassageLabel
  <2> QED
    BY <2>2, <2>3, <2>4 DEF UpTimes, DownTimes
<1> QED
  BY <1>1, TrackOneInvariant, PTL

LEMMA LowerIsReached ==
    ASSUME NEW m, IsFraction(m), NEW g \in Nat, NEW h \in Nat, h < g, Reaches(m, g)
    PROVE  Reaches(m, h)
<1>1. PICK a \in Int, b \in Nat : a = m[1] /\ b = m[2]
  BY DEF IsFraction
<1>2. a >= g * b
  BY <1>1 DEF Reaches
<1>3. h * b <= g * b /\ h * b \in Int /\ g * b \in Int
  BY Times
<1>4. a >= h * b
  BY <1>2, <1>3
<1> QED
  BY <1>1, <1>4 DEF Reaches

(* What can be sold at a target was priced at it by then, and reached the  *)
(* lower targets (ExecutableStricter).                                     *)
THEOREM TrackOneStricter == Spec => []ExecutableStricter
<1>1. IInv => ExecutableStricter
  <2> SUFFICES ASSUME Labelled, summary # None, NEW g \in Targets, summary["executable"][g].event = "target"
               PROVE  /\ summary["observed"][g].event = "target"
                      /\ summary["observed"][g].t <= summary["executable"][g].t
                      /\ \A h \in Targets : h < g => summary["executable"][h].event = "target"
    <3>1. IInv => Labelled
      BY DEF IInv
    <3> QED
      BY <3>1 DEF ExecutableStricter
  <2>1. PICK n \in Nat : DOMAIN points = 1..n
    BY DEF Labelled
  <2>2. \A i \in 1..n : GoodPoint(points[i])
    BY <2>1 DEF Labelled
  <2>9. PICK sellable, priced : sellable = "executable" /\ priced = "observed"
    OBVIOUS
  <2>10. sellable \in {"observed", "executable"} /\ priced \in {"observed", "executable"}
    BY <2>9
  <2>11. PICK sold, seen : sold = summary[sellable][g] /\ seen = summary[priced][g]
    OBVIOUS
  <2>3. PICK soldUps \in SUBSET Nat, soldDowns \in SUBSET Nat :
          /\ soldUps = UpTimes(points, sellable, g) /\ soldDowns = DownTimes(points, sellable)
          /\ IsPassage(sold, soldUps, soldDowns)
    BY <2>10, <2>11, LabelIsPassage
  <2>4. PICK seenUps \in SUBSET Nat, seenDowns \in SUBSET Nat :
          /\ seenUps = UpTimes(points, priced, g) /\ seenDowns = DownTimes(points, priced)
          /\ IsPassage(seen, seenUps, seenDowns)
    BY <2>10, <2>11, LabelIsPassage
  <2>5. soldUps \subseteq seenUps /\ seenDowns \subseteq soldDowns
    <3>1. \A i \in 1..n : /\ Reaches(points[i][sellable], g) => Reaches(points[i][priced], g)
                          /\ Falls(points[i][priced]) => Falls(points[i][sellable])
      BY <2>2, <2>9 DEF GoodPoint
    <3> QED
      BY <2>1, <2>3, <2>4, <3>1 DEF UpTimes, DownTimes
  <2>6. sold.t \in soldUps /\ (\A d \in soldDowns : sold.t < d) /\ sold.t \in Nat
    BY <2>3, <2>9, <2>11 DEF IsPassage
  <2>7. seen.event = "target" /\ seen.t <= sold.t
    <3>1. seenUps # {} /\ sold.t \in seenUps
      BY <2>5, <2>6
    <3>2. ASSUME seen.t \in seenDowns, \A u \in seenUps : seen.t <= u PROVE FALSE
      <4>1. sold.t < seen.t /\ seen.t <= sold.t /\ seen.t \in Nat
        BY <2>5, <2>6, <3>1, <3>2
      <4> QED
        BY <2>6, <4>1
    <3> QED
      BY <2>4, <3>1, <3>2 DEF IsPassage
  <2>8. ASSUME NEW h \in Targets, h < g
        PROVE  summary[sellable][h].event = "target"
    <3>6. PICK low : low = summary[sellable][h]
      OBVIOUS
    <3>1. PICK lowUps \in SUBSET Nat : lowUps = UpTimes(points, sellable, h) /\ IsPassage(low, lowUps, soldDowns)
      BY <2>3, <2>10, <3>6, LabelIsPassage
    <3>2. \A i \in 1..n : Reaches(points[i][sellable], g) => Reaches(points[i][sellable], h)
      <4> TAKE i \in 1..n
      <4>1. IsFraction(points[i][sellable])
        BY <2>2, <2>9 DEF GoodPoint
      <4> QED
        BY <2>8, <4>1, LowerIsReached, TrackOneAssumption
    <3>3. soldUps \subseteq lowUps
      BY <2>1, <2>3, <3>1, <3>2 DEF UpTimes
    <3>4. sold.t \in lowUps
      BY <2>6, <3>3
    <3>5. ASSUME low.t \in soldDowns, \A u \in lowUps : low.t <= u PROVE FALSE
      <4>1. sold.t < low.t /\ low.t <= sold.t /\ low.t \in Nat
        BY <2>3, <2>6, <3>4, <3>5
      <4> QED
        BY <2>6, <4>1
    <3> QED
      BY <3>1, <3>4, <3>5, <3>6 DEF IsPassage
  <2> QED
    BY <2>7, <2>8, <2>9, <2>11
<1> QED
  BY <1>1, TrackOneInvariant, PTL
================================================================================
